------------------------ MODULE InterfaceProbeProofs ------------------------
(***************************************************************************)
(* The safety properties of InterfaceProbe, for any pinned content, any    *)
(* edits of the source and any conversation between age and the plugin.    *)
(***************************************************************************)
EXTENDS InterfaceProbe, TLAPS

(***************************************************************************)
(* The inductive invariant.  cleanup_group runs on behalf of the place it  *)
(* returns to, and so does whatever goes wrong in it: most of the          *)
(* invariant speaks of that place.                                         *)
(***************************************************************************)

Blocks == UNION {{s[i] : i \in DOMAIN s} : s \in Sources}

Snapshot  == {"open", "copy", "seal", "digest"}
Launching == {"prepare", "mode", "popen", "append", "capture"}
PinOnly   == {"poll", "join", "admit"}
CancelOnly == {"ready", "interrupt", "exit", "event", "judge", "rehash"}
Observing == {"start", "feed"} \cup PinOnly \cup CancelOnly
CleanupPlaces == {"term", "kill", "wait", "again", "rewait", "probe"}
Places == Snapshot \cup Launching \cup Observing \cup CleanupPlaces
             \cup Final \cup {"except"}

\* The place on whose behalf the main thread acts.
Where == IF main.pc \in CleanupPlaces THEN main.back ELSE main.pc

MainType ==
    [pc : Places, back : {"none", "join", "admit", "judge", "swept"},
     target : Phases, ok : BOOLEAN, phase : Phases, bounded : BOOLEAN, next : Nat,
     clean : BOOLEAN, quiet : BOOLEAN,
     event : {"none", "other", "eof", "stanza", "sigint"},
     alarm : {"set", "spent", "off"}, uncaught : BOOLEAN,
     failure : {"internal", "age", "capture", "pin", "cancel", "global_bound", "none"},
     status : {"error", "complete"}]

MainOK ==
    /\ main \in MainType
    /\ main.pc \in CleanupPlaces => main.back # "none"

FileOK ==
    file \in [source : Sources, image : Seq(Blocks), sealed : BOOLEAN,
              ran : SUBSET Seq(Blocks)]

GroupOK ==
    /\ age \in [Phases -> {"none", "up", "zombie", "reaped"}]
    /\ plug \in [Phases -> {"none", "reading", "ready", "asking", "failing",
                            "closing", "leaving", "dead", "gone"}]
    /\ doom \in [Phases -> {"none", "TERM", "KILL"}]

TraceType ==
    [premises : BOOLEAN,
     stage : {"none", "read", "ready", "answered", "acknowledged"},
     terminal : {"none", "eof", "stanza", "sigint"}]
TraceOK == trace \in [Phases -> TraceType]

LinesOK ==
    /\ reader \in [Phases -> [Streams -> {"none", "unstarted", "reading", "killing",
                                          "ended"}]]
    /\ flood \in [Phases -> BOOLEAN]

OwnedOK == owned \in [children : Nat, captures : Nat]

\* What is executed has been compared with the pinned content.
SnapshotInv ==
    /\ Len(file.image) <= AgeCap
    /\ Where \in Launching \cup Observing => file.image = Pinned
    /\ file.ran \subseteq {Pinned}

\* The phase at each place; a cleanup is one of its group.
PhaseInv ==
    /\ Where \in Snapshot \cup {"prepare"} \cup PinOnly => main.phase = "pin"
    /\ Where \in CancelOnly => main.phase = "cancel"
    /\ Where \in {"append", "capture"} \cup Observing => age[main.phase] # "none"
    /\ Where \in PinOnly \cup CancelOnly /\ main.pc \in CleanupPlaces =>
          main.target = main.phase

\* The children and the captures that have been recorded.
CountInv ==
    /\ owned.captures <= owned.children /\ owned.children <= 2
    /\ Where \in Snapshot \cup {"prepare", "mode", "popen", "append"} =>
          /\ owned.captures = owned.children
          /\ owned.children = Index(main.phase) - 1
    /\ Where = "capture" =>
          /\ owned.captures = owned.children - 1
          /\ owned.children = Index(main.phase)
    /\ Where \in Observing =>
          /\ owned.captures = owned.children
          /\ owned.children = Index(main.phase)

\* No process of a phase's group is left, nor can one come.
Gone(ph) == age[ph] = "reaped" /\ plug[ph] \in {"none", "gone"}

\* A phase that was judged good is over for good.
OverInv ==
    /\ main.pc \in {"admit", "judge"} /\ main.ok => Gone(main.phase)
    /\ main.phase = "cancel" => Gone("pin")
    /\ Where = "rehash" \/ main.status = "complete" => Gone("cancel")

\* Its streams are at their end, and never overflowed.
DrainedInv ==
    /\ Where = "admit" /\ main.bounded => ~flood["pin"] /\ Drained("pin")
    /\ main.phase = "cancel" => ~flood["pin"] /\ Drained("pin")
    /\ Where = "rehash" \/ main.status = "complete" =>
          ~flood["cancel"] /\ Drained("cancel")

\* Its fixture was verified, by the plugin that has read the conversation.
PremiseInv ==
    /\ \A ph \in Phases : trace[ph].premises => plug[ph] \notin {"none", "reading"}
    /\ main.phase = "cancel" => trace["pin"].premises
    /\ Where \in CancelOnly \ {"ready"} \/ main.status = "complete" =>
          trace["cancel"].premises

\* An alarm whose exception was swallowed has spoiled what the phase is judged by.
AlarmInv ==
    /\ Where \in Snapshot \cup Launching \cup Observing /\ main.alarm = "spent" =>
          \/ Where \in {"join", "admit"} /\ ~main.bounded
          \/ Where \in {"admit", "judge"} /\ ~main.ok
    /\ main.pc \in CleanupPlaces /\ main.back = "join" => ~main.bounded
    /\ Where \in Final \ {"finally", "escaped"} => main.alarm # "set"
    /\ main.status = "complete" =>
          /\ Where \in Final /\ main.failure = "none" /\ main.phase = "cancel"
          /\ main.alarm = "spent" => main.pc = "escaped"

\* What is published.
ReportInv ==
    /\ main.pc = "publish" /\ main.ok /\ main.status = "complete" => ~litter
    /\ report.status = "complete" =>
          /\ main.pc = "done" /\ main.status = "complete"
          /\ report.failure = "none" /\ ~litter

ProbeInv ==
    /\ MainOK /\ FileOK /\ GroupOK /\ TraceOK /\ LinesOK /\ OwnedOK /\ litter \in BOOLEAN
    /\ SnapshotInv /\ PhaseInv /\ CountInv
    /\ OverInv /\ DrainedInv /\ PremiseInv /\ AlarmInv /\ ReportInv

-----------------------------------------------------------------------------
(***************************************************************************)
(* Type correctness.                                                       *)
(***************************************************************************)

Failures == {"internal", "age", "capture", "pin", "cancel", "global_bound", "none"}
Returns  == {"join", "admit", "judge", "swept"}

\* The main thread goes to a place, fails, or calls cleanup_group.
LEMMA GoTyped ==
  ASSUME MainOK, NEW p \in Places, Go(p), p \in CleanupPlaces => main.pc \in CleanupPlaces
  PROVE  MainOK'
  BY DEF MainOK, MainType, Go

LEMMA FailTyped ==
  ASSUME MainOK, NEW c \in Failures, FailWith(c)
  PROVE  MainOK'
  BY DEF MainOK, MainType, Failures, Places, CleanupPlaces, FailWith

LEMMA CallTyped ==
  ASSUME NEW m \in MainType, NEW ph \in Phases, NEW b \in Returns, CallCleanup(ph, m, b)
  PROVE  MainOK'
  BY DEF MainOK, MainType, Returns, Places, CleanupPlaces, CallCleanup

\* At the end and in the handler nothing is cleaned up.
LEMMA NoCleanupAtEnd ==
  ASSUME NEW p \in Final \cup {"except"}
  PROVE  p \in Places /\ p \notin CleanupPlaces
<1>1. p \in Places  BY DEF Places
<1>2. p \notin CleanupPlaces  BY DEF CleanupPlaces, Final, Ends
<1> QED BY <1>1, <1>2

\* The main thread goes there with something noted on the way.
LEMMA EndTyped ==
  ASSUME NEW m \in MainType, NEW p \in Final \cup {"except"}, main' = [m EXCEPT !.pc = p]
  PROVE  MainOK'
<1>1. p \in Places /\ p \notin CleanupPlaces  BY NoCleanupAtEnd
<1>2. main' \in MainType  BY <1>1 DEF MainType
<1>3. main'.pc = p  BY DEF MainType
<1> QED BY <1>1, <1>2, <1>3 DEF MainOK

\* Every step keeps what the main thread knows typed.
LEMMA MainKept ==
  ASSUME MainOK, TraceOK, Next
  PROVE  MainOK'
<1> USE DEF At
<1>1. CASE Open \/ Copy \/ Seal \/ Digest \/ Prepare
  <2>1. CASE Copy
    <3>1. Go("seal") \/ FailWith("age") \/ UNCHANGED main
      BY <2>1 DEF Copy
    <3> QED
      BY <3>1, GoTyped, FailTyped DEF Places, CleanupPlaces, Snapshot, Failures, MainOK
  <2>2. CASE ~Copy
    BY <1>1, <2>2, GoTyped, FailTyped
       DEF Open, Seal, Digest, Prepare, Places, CleanupPlaces, Snapshot,
           Launching, Failures
  <2> QED BY <2>1, <2>2
<1>2. CASE Spawn
  BY <1>2, GoTyped
     DEF Spawn, WriteMode, Popen, AppendChild, AppendCapture, StartReader, Feed,
         Places, CleanupPlaces, Launching, Observing, PinOnly, CancelOnly
<1>3. CASE CleanupSignals
  BY <1>3, GoTyped DEF CleanupSignals, Places, CleanupPlaces
<1>4. CASE CleanupWaits
  <2>1. CASE Go("probe")
    BY <1>4, <2>1, GoTyped DEF CleanupWaits, Places, CleanupPlaces
  <2>2. CASE ~Go("probe")
    <3>1. PICK p \in {"again", "probe"} : main' = [main EXCEPT !.ok = FALSE, !.pc = p]
      BY <1>4, <2>2 DEF CleanupWaits
    <3> QED
      BY <1>4, <3>1 DEF CleanupWaits, MainOK, MainType, Places, CleanupPlaces
  <2> QED BY <2>1, <2>2
<1>5. CASE CleanupProbes
  <2>1. PICK ok \in BOOLEAN : main' = [main EXCEPT !.pc = main.back, !.ok = ok]
    BY <1>5 DEF CleanupProbes
  <2>2. main.back \in Returns
    BY <1>5 DEF CleanupProbes, MainOK, MainType, CleanupPlaces, Returns
  <2> QED
    BY <2>1, <2>2
       DEF MainOK, MainType, Returns, Places, CleanupPlaces, Observing, PinOnly,
           CancelOnly, Final
<1>6. CASE Poll
  <2>1. CASE Go("join")
    BY <2>1, GoTyped DEF Places, CleanupPlaces, Observing, PinOnly
  <2>2. CASE ~Go("join")
    <3>1. [main EXCEPT !.bounded = FALSE] \in MainType
      BY DEF MainOK, MainType
    <3> QED
      BY <1>6, <2>2, <3>1, CallTyped DEF Poll, Phase, Returns, MainOK, MainType
  <2> QED BY <2>1, <2>2
<1>7. CASE Join
  <2>1. CASE FailWith("capture")
    BY <2>1, FailTyped DEF Failures
  <2>2. CASE ~FailWith("capture")
    <3> DEFINE m == [main EXCEPT !.bounded = @ /\ ~flood[Phase]]
    <3>1. m \in MainType
      BY DEF MainOK, MainType
    <3>2. CallCleanup(Phase, m, "admit")
      BY <1>7, <2>2 DEF Join
    <3> QED BY <3>1, <3>2, CallTyped DEF Phase, Returns, MainOK, MainType
  <2> QED BY <2>1, <2>2
<1>8. CASE Admit
  <2>1. CASE FailWith("pin")
    BY <2>1, FailTyped DEF Failures
  <2>2. CASE ~FailWith("pin")
    <3>1. main' = [main EXCEPT !.phase = "cancel", !.pc = "mode"]
      BY <1>8, <2>2 DEF Admit
    <3> QED
      BY <3>1 DEF MainOK, MainType, Phases, Places, CleanupPlaces, Launching
  <2> QED BY <2>1, <2>2
<1>9. CASE Ready \/ AwaitExit \/ Judge
  BY <1>9, GoTyped, FailTyped
     DEF Ready, AwaitExit, Judge, Places, CleanupPlaces, Observing, CancelOnly, Failures
<1>10. CASE Interrupt
  BY <1>10
     DEF Interrupt, MainOK, MainType, Places, CleanupPlaces, Observing, CancelOnly
<1>11. CASE AwaitEvent
  <2>1. PICK e \in {"other", "eof", "stanza", "sigint"} :
          CallCleanup(Phase, [main EXCEPT !.event = e], "judge")
    <3>1. trace["cancel"].terminal \in {"none", "eof", "stanza", "sigint"}
      BY DEF TraceOK, TraceType, Phases
    <3> QED BY <1>11, <3>1 DEF AwaitEvent
  <2>2. [main EXCEPT !.event = e] \in MainType
    BY DEF MainOK, MainType
  <2> QED BY <2>1, <2>2, CallTyped DEF Phase, Returns, MainOK, MainType
<1>12. CASE Rehash
  <2>1. CASE FailWith("age")
    BY <2>1, FailTyped DEF Failures
  <2>2. CASE ~FailWith("age")
    <3>1. main' = [main EXCEPT !.status = "complete", !.failure = "none",
                               !.pc = "finally"]
      BY <1>12, <2>2 DEF Rehash
    <3> DEFINE m == [main EXCEPT !.status = "complete", !.failure = "none"]
    <3>2. m \in MainType  BY DEF MainOK, MainType
    <3>3. main' = [m EXCEPT !.pc = "finally"]  BY <3>1
    <3>4. "finally" \in Final \cup {"except"}  BY DEF Final
    <3> HIDE DEF m
    <3> QED BY <3>2, <3>3, <3>4, EndTyped
  <2> QED BY <2>1, <2>2
<1>13. CASE Except
  BY <1>13, GoTyped DEF Except, Places, CleanupPlaces, Final
<1>14. CASE Finally
  <2> DEFINE m == [main EXCEPT !.alarm = IF @ = "set" THEN "off" ELSE @]
  <2>1. m \in MainType  BY DEF MainOK, MainType
  <2>2. main' = [m EXCEPT !.pc = "sweep"]  BY <1>14 DEF Finally
  <2>3. "sweep" \in Final \cup {"except"}  BY DEF Final, Ends
  <2> HIDE DEF m
  <2> QED BY <2>1, <2>2, <2>3, EndTyped
<1>15. CASE Sweep
  <2>1. CASE At("sweep") /\ Go("joinall")
    BY <2>1, GoTyped DEF Places, CleanupPlaces, Final
  <2>2. CASE At("sweep") /\ ~Go("joinall")
    <3> DEFINE m == [main EXCEPT !.next = @ + 1]
    <3>1. m \in MainType
      BY DEF MainOK, MainType
    <3>2. CallCleanup(Child(main.next), m, "swept")
      BY <1>15, <2>2 DEF Sweep
    <3> QED BY <3>1, <3>2, CallTyped DEF Child, Phases, Returns
  <2>3. CASE ~At("sweep")
    <3> DEFINE m == [main EXCEPT !.clean = @ /\ main.ok]
    <3>1. main' = [m EXCEPT !.pc = "sweep"]
      BY <1>15, <2>3 DEF Sweep
    <3>2. m \in MainType  BY DEF MainOK, MainType
    <3>3. "sweep" \in Final \cup {"except"}  BY DEF Final
    <3> HIDE DEF m
    <3> QED BY <3>1, <3>2, <3>3, EndTyped
  <2> QED BY <2>1, <2>2, <2>3
<1>16. CASE JoinAll
  <2>1. CASE main' = [main EXCEPT !.pc = "escaped", !.uncaught = TRUE]
    <3> DEFINE m == [main EXCEPT !.uncaught = TRUE]
    <3>1. m \in MainType  BY DEF MainOK, MainType
    <3>2. main' = [m EXCEPT !.pc = "escaped"]  BY <2>1
    <3>3. "escaped" \in Final \cup {"except"}  BY DEF Final, Ends
    <3> HIDE DEF m
    <3> QED BY <3>1, <3>2, <3>3, EndTyped
  <2>2. CASE main' # [main EXCEPT !.pc = "escaped", !.uncaught = TRUE]
    <3>1. PICK quiet \in BOOLEAN : main' = [main EXCEPT !.quiet = quiet, !.pc = "purge"]
      BY <1>16, <2>2 DEF JoinAll
    <3> DEFINE m == [main EXCEPT !.quiet = quiet]
    <3>2. m \in MainType  BY DEF MainOK, MainType
    <3>3. main' = [m EXCEPT !.pc = "purge"]  BY <3>1
    <3>4. "purge" \in Final \cup {"except"}  BY DEF Final
    <3> HIDE DEF m
    <3> QED BY <3>2, <3>3, <3>4, EndTyped
  <2> QED BY <2>1, <2>2
<1>17. CASE Purge
  <2>1. PICK p \in {"check", "publish"}, ok \in BOOLEAN : main' = [main EXCEPT !.ok = ok, !.pc = p]
    <3>1. CASE \E removed \in BOOLEAN : main' = [main EXCEPT !.ok = removed, !.pc = "check"]
      BY <3>1
    <3>2. CASE main' = [main EXCEPT !.ok = @ /\ ~litter, !.pc = "publish"]
      <4>1. (main.ok /\ ~litter) \in BOOLEAN  OBVIOUS
      <4> QED BY <3>2, <4>1
    <3> QED BY <1>17, <3>1, <3>2 DEF Purge
  <2> DEFINE m == [main EXCEPT !.ok = ok]
  <2>2. m \in MainType  BY DEF MainOK, MainType
  <2>3. main' = [m EXCEPT !.pc = p]  BY <2>1
  <2>4. p \in Final \cup {"except"}  BY DEF Final
  <2> HIDE DEF m
  <2> QED BY <2>2, <2>3, <2>4, EndTyped
<1>18. CASE Publish
  BY <1>18 DEF Publish, Go, MainOK, MainType, Places, CleanupPlaces, Final, Ends
<1>19. CASE GlobalTimeout
  <2> DEFINE m == [main EXCEPT !.alarm = "spent"]
  <2>1. m \in MainType /\ m.back = main.back /\ m.pc = main.pc
    BY DEF MainOK, MainType
  <2> HIDE DEF m
  <2>2. CASE main' = [m EXCEPT !.pc = "except", !.failure = "global_bound"]
    <3> DEFINE n == [m EXCEPT !.failure = "global_bound"]
    <3>1. n \in MainType  BY <2>1 DEF MainType
    <3>2. main' = [n EXCEPT !.pc = "except"]  BY <2>2
    <3>3. "except" \in Final \cup {"except"}  OBVIOUS
    <3> HIDE DEF n
    <3> QED BY <3>1, <3>2, <3>3, EndTyped
  <2>3. CASE main' = [m EXCEPT !.ok = FALSE]
    BY <2>1, <2>3 DEF MainOK, MainType
  <2>4. CASE main' = [m EXCEPT !.pc = "finally", !.uncaught = TRUE,
                               !.failure = "internal"]
    <3> DEFINE n == [m EXCEPT !.uncaught = TRUE, !.failure = "internal"]
    <3>1. n \in MainType  BY <2>1 DEF MainType
    <3>2. main' = [n EXCEPT !.pc = "finally"]  BY <2>4
    <3>3. "finally" \in Final \cup {"except"}  BY DEF Final
    <3> HIDE DEF n
    <3> QED BY <3>1, <3>2, <3>3, EndTyped
  <2>5. CASE main' = [m EXCEPT !.pc = "escaped", !.uncaught = TRUE]
    <3> DEFINE n == [m EXCEPT !.uncaught = TRUE]
    <3>1. n \in MainType  BY <2>1 DEF MainType
    <3>2. main' = [n EXCEPT !.pc = "escaped"]  BY <2>5
    <3>3. "escaped" \in Final \cup {"except"}  BY DEF Final, Ends
    <3> HIDE DEF n
    <3> QED BY <3>1, <3>2, <3>3, EndTyped
  <2> QED BY <1>19, <2>2, <2>3, <2>4, <2>5 DEF GlobalTimeout, m
<1>20. CASE CallFails
  BY <1>20, FailTyped DEF CallFails, Failures
<1>21. CASE SourceEdited \/ \E ph \in Phases : Plugin(ph) \/ \E s \in Streams : Reader(ph, s)
  BY <1>21
     DEF SourceEdited, Plugin, PluginStarts, PluginReads, PluginReady, PluginAsks,
         PluginFails, PluginCloses, PluginMoves, PluginDies, PluginGone, AgeExits,
         Reader, Overflow, StopGroup, EndOfStream, MainOK
<1> QED
  BY <1>1, <1>2, <1>3, <1>4, <1>5, <1>6, <1>7, <1>8, <1>9, <1>10, <1>11, <1>12,
     <1>13, <1>14, <1>15, <1>16, <1>17, <1>18, <1>19, <1>20, <1>21
     DEF Next, Main, CleanupGroup

\* The blocks of what is copied are blocks of some source.
LEMMA SourcesAreSequences == Sources \subseteq Seq(Blocks)
  BY ProbeAssumption DEF Blocks

\* Every step keeps the file, and what was copied of it, typed.
LEMMA FileKept ==
  ASSUME FileOK, Next
  PROVE  FileOK'
<1> USE DEF FileOK, At, Go, FailWith, group, lines, Phase
<1>1. CASE Open
  BY <1>1 DEF Open
<1>2. CASE Copy
  <2>1. CASE UNCHANGED file
    BY <2>1
  <2>2. CASE ~UNCHANGED file
    <3> DEFINE n == Len(file.image) + 1
    <3>1. n <= Len(file.source) /\ file' = [file EXCEPT !.image = Append(@, file.source[n])]
      BY <1>2, <2>2 DEF Copy
    <3>2. file.source \in Seq(Blocks) /\ file.image \in Seq(Blocks)
      BY SourcesAreSequences
    <3>3. file.source[n] \in Blocks
      BY <3>1, <3>2
    <3>4. Append(file.image, file.source[n]) \in Seq(Blocks)
      BY <3>2, <3>3
    <3> QED BY <3>1, <3>4
  <2> QED BY <2>1, <2>2
<1>3. CASE Seal
  BY <1>3 DEF Seal
<1>4. CASE Digest \/ Prepare
  BY <1>4 DEF Digest, Prepare, Verified, HashAge
<1>5. CASE WriteMode \/ Popen \/ AppendChild
  BY <1>5 DEF WriteMode, Popen, AppendChild
<1>6. CASE AppendCapture \/ StartReader \/ Feed
  BY <1>6 DEF AppendCapture, StartReader, Feed
<1>7. CASE CleanupSignals \/ CleanupWaits
  BY <1>7 DEF CleanupSignals, CleanupWaits, SignalGroup, Stronger, InGroup,
              Live
<1>8. CASE CleanupProbes
  BY <1>8 DEF CleanupProbes, InGroup, Live
<1>9. CASE Poll \/ Join
  BY <1>9 DEF Poll, Join, Exited, PollAge, CallCleanup, Drained
<1>10. CASE Admit
  BY <1>10 DEF Admit, NoTrace
<1>11. CASE Ready \/ Interrupt \/ AwaitExit
  BY <1>11 DEF Ready, Interrupt, AwaitExit, Exited, PollAge, Fixture
<1>12. CASE AwaitEvent
  BY <1>12 DEF AwaitEvent, CallCleanup
<1>13. CASE Judge \/ Rehash
  BY <1>13 DEF Judge, Rehash, Drained, HashAge
<1>14. CASE Except \/ Finally
  BY <1>14 DEF Except, Finally
<1>15. CASE Sweep \/ JoinAll
  BY <1>15 DEF Sweep, JoinAll, CallCleanup, Child, Drained, Index
<1>16. CASE Purge
  BY <1>16 DEF Purge
<1>17. CASE Publish
  BY <1>17 DEF Publish
<1>18. CASE GlobalTimeout
  BY <1>18 DEF GlobalTimeout, Tried, Final, Ends
<1>19. CASE CallFails \/ SourceEdited
  BY <1>19 DEF CallFails, SourceEdited
<1>20. ASSUME NEW ph \in Phases,
             \/ PluginStarts(ph)
             \/ PluginDies(ph)
             \/ PluginGone(ph)
             \/ AgeExits(ph)
      PROVE  FileOK'
  BY <1>20 DEF PluginStarts, PluginDies, PluginGone, AgeExits, CanRun, Live
<1>21. ASSUME NEW ph \in Phases, PluginReads(ph)
      PROVE  FileOK'
  BY <1>21 DEF PluginReads, Save, PluginMoves, Heard, NoTrace, CanRun
<1>22. ASSUME NEW ph \in Phases,
             \/ PluginReady(ph)
             \/ PluginAsks(ph)
             \/ PluginFails(ph)
             \/ PluginCloses(ph)
      PROVE  FileOK'
  BY <1>22 DEF PluginReady, PluginAsks, PluginFails, PluginCloses, Save,
               PluginMoves, CanRun
<1>23. ASSUME NEW ph \in Phases, NEW s \in Streams,
             \/ Overflow(ph, s)
             \/ StopGroup(ph, s)
             \/ EndOfStream(ph, s)
      PROVE  FileOK'
  BY <1>23 DEF Overflow, StopGroup, EndOfStream, Stronger, InGroup, Live
<1> QED BY <1>1, <1>2, <1>3, <1>4, <1>5, <1>6, <1>7, <1>8, <1>9, <1>10, <1>11,
           <1>12, <1>13, <1>14, <1>15, <1>16, <1>17, <1>18, <1>19, <1>20,
           <1>21, <1>22, <1>23
        DEF Next, Main, Spawn, CleanupGroup, Plugin, Reader

\* Every step keeps the processes typed.
LEMMA GroupKept ==
  ASSUME MainOK, GroupOK, Next
  PROVE  GroupOK'
<1> USE DEF GroupOK, At, Go, FailWith, group, lines, Phase
<1>1. CASE Open \/ Copy
  BY <1>1 DEF Open, Copy
<1>2. CASE Seal \/ Digest \/ Prepare
  BY <1>2 DEF Seal, Digest, Prepare, Verified, HashAge
<1>3. CASE WriteMode \/ Popen \/ AppendChild
  BY <1>3 DEF WriteMode, Popen, AppendChild
<1>4. CASE AppendCapture \/ StartReader \/ Feed
  BY <1>4 DEF AppendCapture, StartReader, Feed
<1>5. CASE CleanupSignals \/ CleanupWaits
  BY <1>5 DEF CleanupSignals, CleanupWaits, SignalGroup, Stronger, InGroup,
              Live
<1>6. CASE CleanupProbes
  BY <1>6 DEF CleanupProbes, InGroup, Live
<1>7. CASE Poll \/ Join
  BY <1>7 DEF Poll, Join, Exited, PollAge, CallCleanup, Drained
<1>8. CASE Admit
  BY <1>8 DEF Admit, NoTrace
<1>9. CASE Ready \/ Interrupt \/ AwaitExit
  BY <1>9 DEF Ready, Interrupt, AwaitExit, Exited, PollAge, Fixture
<1>10. CASE AwaitEvent
  BY <1>10 DEF AwaitEvent, CallCleanup
<1>11. CASE Judge \/ Rehash
  BY <1>11 DEF Judge, Rehash, Drained, HashAge
<1>12. CASE Except \/ Finally
  BY <1>12 DEF Except, Finally
<1>13. CASE Sweep \/ JoinAll
  BY <1>13 DEF Sweep, JoinAll, CallCleanup, Child, Drained, Index
<1>14. CASE Purge
  BY <1>14 DEF Purge
<1>15. CASE Publish
  BY <1>15 DEF Publish
<1>16. CASE GlobalTimeout
  BY <1>16 DEF GlobalTimeout, Tried, Final, Ends
<1>17. CASE CallFails \/ SourceEdited
  BY <1>17 DEF CallFails, SourceEdited
<1>18. ASSUME NEW ph \in Phases,
             \/ PluginStarts(ph)
             \/ PluginDies(ph)
             \/ PluginGone(ph)
             \/ AgeExits(ph)
      PROVE  GroupOK'
  BY <1>18 DEF PluginStarts, PluginDies, PluginGone, AgeExits, CanRun, Live
<1>19. ASSUME NEW ph \in Phases, PluginReads(ph)
      PROVE  GroupOK'
  BY <1>19 DEF PluginReads, Save, PluginMoves, Heard, NoTrace, CanRun
<1>20. ASSUME NEW ph \in Phases,
             \/ PluginReady(ph)
             \/ PluginAsks(ph)
             \/ PluginFails(ph)
             \/ PluginCloses(ph)
      PROVE  GroupOK'
  BY <1>20 DEF PluginReady, PluginAsks, PluginFails, PluginCloses, Save,
               PluginMoves, CanRun
<1>21. ASSUME NEW ph \in Phases, NEW s \in Streams,
             \/ Overflow(ph, s)
             \/ StopGroup(ph, s)
             \/ EndOfStream(ph, s)
      PROVE  GroupOK'
  BY <1>21 DEF Overflow, StopGroup, EndOfStream, Stronger, InGroup, Live
<1> QED BY <1>1, <1>2, <1>3, <1>4, <1>5, <1>6, <1>7, <1>8, <1>9, <1>10, <1>11,
           <1>12, <1>13, <1>14, <1>15, <1>16, <1>17, <1>18, <1>19, <1>20,
           <1>21
        DEF Next, Main, Spawn, CleanupGroup, Plugin, Reader

\* Whether the premises hold is a truth value.
LEMMA PremisesKnown ==
  ASSUME NEW argv, NEW said
  PROVE  Premises(argv, said) \in BOOLEAN
  BY DEF Premises

\* Every step keeps the trace typed.
LEMMA TraceKept ==
  ASSUME TraceOK, Next
  PROVE  TraceOK'
<1> USE DEF TraceOK, TraceType, At, Go, FailWith, group, lines, Phase
<1>1. CASE Open \/ Copy
  BY <1>1 DEF Open, Copy
<1>2. CASE Seal \/ Digest \/ Prepare
  BY <1>2 DEF Seal, Digest, Prepare, Verified, HashAge
<1>3. CASE WriteMode \/ Popen \/ AppendChild
  BY <1>3 DEF WriteMode, Popen, AppendChild
<1>4. CASE AppendCapture \/ StartReader \/ Feed
  BY <1>4 DEF AppendCapture, StartReader, Feed
<1>5. CASE CleanupSignals \/ CleanupWaits
  BY <1>5 DEF CleanupSignals, CleanupWaits, SignalGroup, Stronger, InGroup,
              Live
<1>6. CASE CleanupProbes
  BY <1>6 DEF CleanupProbes, InGroup, Live
<1>7. CASE Poll \/ Join
  BY <1>7 DEF Poll, Join, Exited, PollAge, CallCleanup, Drained
<1>8. CASE Admit
  <2>1. CASE UNCHANGED trace
    BY <2>1
  <2>2. CASE ~UNCHANGED trace
    <3>1. trace' = [trace EXCEPT !["pin"] = [NoTrace EXCEPT !.premises = TRUE]]
      BY <1>8, <2>2 DEF Admit
    <3>2. [NoTrace EXCEPT !.premises = TRUE] \in TraceType
      BY DEF NoTrace, TraceType

    <3> QED BY <3>1, <3>2
  <2> QED BY <2>1, <2>2
<1>9. CASE Ready \/ Interrupt \/ AwaitExit
  BY <1>9 DEF Ready, Interrupt, AwaitExit, Exited, PollAge, Fixture
<1>10. CASE AwaitEvent
  BY <1>10 DEF AwaitEvent, CallCleanup
<1>11. CASE Judge \/ Rehash
  BY <1>11 DEF Judge, Rehash, Drained, HashAge
<1>12. CASE Except \/ Finally
  BY <1>12 DEF Except, Finally
<1>13. CASE Sweep \/ JoinAll
  BY <1>13 DEF Sweep, JoinAll, CallCleanup, Child, Drained, Index
<1>14. CASE Purge
  BY <1>14 DEF Purge
<1>15. CASE Publish
  BY <1>15 DEF Publish
<1>16. CASE GlobalTimeout
  BY <1>16 DEF GlobalTimeout, Tried, Final, Ends
<1>17. CASE CallFails \/ SourceEdited
  BY <1>17 DEF CallFails, SourceEdited
<1>18. ASSUME NEW ph \in Phases,
             \/ PluginStarts(ph)
             \/ PluginDies(ph)
             \/ PluginGone(ph)
             \/ AgeExits(ph)
      PROVE  TraceOK'
  BY <1>18 DEF PluginStarts, PluginDies, PluginGone, AgeExits, CanRun, Live
<1>19. ASSUME NEW ph \in Phases, PluginReads(ph)
      PROVE  TraceOK'
  <2>1. PICK p \in BOOLEAN :
          trace' = [trace EXCEPT ![ph] = [NoTrace EXCEPT !.premises = p, !.stage = "read"]]
    BY <1>19, PremisesKnown DEF PluginReads, Save
  <2>2. [NoTrace EXCEPT !.premises = p, !.stage = "read"] \in TraceType
    BY DEF NoTrace, TraceType
  <2> QED BY <2>1, <2>2
<1>20. ASSUME NEW ph \in Phases,
             \/ PluginReady(ph)
             \/ PluginAsks(ph)
             \/ PluginFails(ph)
             \/ PluginCloses(ph)
      PROVE  TraceOK'
  BY <1>20 DEF PluginReady, PluginAsks, PluginFails, PluginCloses, Save,
               PluginMoves, CanRun
<1>21. ASSUME NEW ph \in Phases, NEW s \in Streams,
             \/ Overflow(ph, s)
             \/ StopGroup(ph, s)
             \/ EndOfStream(ph, s)
      PROVE  TraceOK'
  BY <1>21 DEF Overflow, StopGroup, EndOfStream, Stronger, InGroup, Live
<1> QED BY <1>1, <1>2, <1>3, <1>4, <1>5, <1>6, <1>7, <1>8, <1>9, <1>10, <1>11,
           <1>12, <1>13, <1>14, <1>15, <1>16, <1>17, <1>18, <1>19, <1>20,
           <1>21
        DEF Next, Main, Spawn, CleanupGroup, Plugin, Reader

\* Every step keeps the readers typed.
LEMMA LinesKept ==
  ASSUME MainOK, LinesOK, Next
  PROVE  LinesOK'
<1> USE DEF LinesOK, At, Go, FailWith, group, lines, Phase
<1>1. CASE Open \/ Copy
  BY <1>1 DEF Open, Copy
<1>2. CASE Seal \/ Digest \/ Prepare
  BY <1>2 DEF Seal, Digest, Prepare, Verified, HashAge
<1>3. CASE WriteMode \/ Popen \/ AppendChild
  BY <1>3 DEF WriteMode, Popen, AppendChild
<1>4. CASE AppendCapture \/ StartReader \/ Feed
  BY <1>4 DEF AppendCapture, StartReader, Feed
<1>5. CASE CleanupSignals \/ CleanupWaits
  BY <1>5 DEF CleanupSignals, CleanupWaits, SignalGroup, Stronger, InGroup,
              Live
<1>6. CASE CleanupProbes
  BY <1>6 DEF CleanupProbes, InGroup, Live
<1>7. CASE Poll \/ Join
  BY <1>7 DEF Poll, Join, Exited, PollAge, CallCleanup, Drained
<1>8. CASE Admit
  BY <1>8 DEF Admit, NoTrace
<1>9. CASE Ready \/ Interrupt \/ AwaitExit
  BY <1>9 DEF Ready, Interrupt, AwaitExit, Exited, PollAge, Fixture
<1>10. CASE AwaitEvent
  BY <1>10 DEF AwaitEvent, CallCleanup
<1>11. CASE Judge \/ Rehash
  BY <1>11 DEF Judge, Rehash, Drained, HashAge
<1>12. CASE Except \/ Finally
  BY <1>12 DEF Except, Finally
<1>13. CASE Sweep \/ JoinAll
  BY <1>13 DEF Sweep, JoinAll, CallCleanup, Child, Drained, Index
<1>14. CASE Purge
  BY <1>14 DEF Purge
<1>15. CASE Publish
  BY <1>15 DEF Publish
<1>16. CASE GlobalTimeout
  BY <1>16 DEF GlobalTimeout, Tried, Final, Ends
<1>17. CASE CallFails \/ SourceEdited
  BY <1>17 DEF CallFails, SourceEdited
<1>18. ASSUME NEW ph \in Phases,
             \/ PluginStarts(ph)
             \/ PluginDies(ph)
             \/ PluginGone(ph)
             \/ AgeExits(ph)
      PROVE  LinesOK'
  BY <1>18 DEF PluginStarts, PluginDies, PluginGone, AgeExits, CanRun, Live
<1>19. ASSUME NEW ph \in Phases, PluginReads(ph)
      PROVE  LinesOK'
  BY <1>19 DEF PluginReads, Save, PluginMoves, Heard, NoTrace, CanRun
<1>20. ASSUME NEW ph \in Phases,
             \/ PluginReady(ph)
             \/ PluginAsks(ph)
             \/ PluginFails(ph)
             \/ PluginCloses(ph)
      PROVE  LinesOK'
  BY <1>20 DEF PluginReady, PluginAsks, PluginFails, PluginCloses, Save,
               PluginMoves, CanRun
<1>21. ASSUME NEW ph \in Phases, NEW s \in Streams, Overflow(ph, s)
      PROVE  LinesOK'
  BY <1>21 DEF Overflow
<1>22. ASSUME NEW ph \in Phases, NEW s \in Streams,
             \/ StopGroup(ph, s)
             \/ EndOfStream(ph, s)
      PROVE  LinesOK'
  BY <1>22 DEF StopGroup, EndOfStream, Stronger, InGroup, Live
<1> QED BY <1>1, <1>2, <1>3, <1>4, <1>5, <1>6, <1>7, <1>8, <1>9, <1>10, <1>11,
           <1>12, <1>13, <1>14, <1>15, <1>16, <1>17, <1>18, <1>19, <1>20,
           <1>21, <1>22
        DEF Next, Main, Spawn, CleanupGroup, Plugin, Reader

\* Every step keeps the numbers of children and captures.
LEMMA OwnedKept ==
  ASSUME OwnedOK, Next
  PROVE  OwnedOK'
<1> USE DEF OwnedOK, At, Go, FailWith, group, lines, Phase
<1>1. CASE Open \/ Copy
  BY <1>1 DEF Open, Copy
<1>2. CASE Seal \/ Digest \/ Prepare
  BY <1>2 DEF Seal, Digest, Prepare, Verified, HashAge
<1>3. CASE WriteMode \/ Popen \/ AppendChild
  BY <1>3 DEF WriteMode, Popen, AppendChild
<1>4. CASE AppendCapture \/ StartReader \/ Feed
  BY <1>4 DEF AppendCapture, StartReader, Feed
<1>5. CASE CleanupSignals \/ CleanupWaits
  BY <1>5 DEF CleanupSignals, CleanupWaits, SignalGroup, Stronger, InGroup,
              Live
<1>6. CASE CleanupProbes
  BY <1>6 DEF CleanupProbes, InGroup, Live
<1>7. CASE Poll \/ Join
  BY <1>7 DEF Poll, Join, Exited, PollAge, CallCleanup, Drained
<1>8. CASE Admit
  BY <1>8 DEF Admit, NoTrace
<1>9. CASE Ready \/ Interrupt \/ AwaitExit
  BY <1>9 DEF Ready, Interrupt, AwaitExit, Exited, PollAge, Fixture
<1>10. CASE AwaitEvent
  BY <1>10 DEF AwaitEvent, CallCleanup
<1>11. CASE Judge \/ Rehash
  BY <1>11 DEF Judge, Rehash, Drained, HashAge
<1>12. CASE Except \/ Finally
  BY <1>12 DEF Except, Finally
<1>13. CASE Sweep \/ JoinAll
  BY <1>13 DEF Sweep, JoinAll, CallCleanup, Child, Drained, Index
<1>14. CASE Purge
  BY <1>14 DEF Purge
<1>15. CASE Publish
  BY <1>15 DEF Publish
<1>16. CASE GlobalTimeout
  BY <1>16 DEF GlobalTimeout, Tried, Final, Ends
<1>17. CASE CallFails \/ SourceEdited
  BY <1>17 DEF CallFails, SourceEdited
<1>18. ASSUME NEW ph \in Phases,
             \/ PluginStarts(ph)
             \/ PluginDies(ph)
             \/ PluginGone(ph)
             \/ AgeExits(ph)
      PROVE  OwnedOK'
  BY <1>18 DEF PluginStarts, PluginDies, PluginGone, AgeExits, CanRun, Live
<1>19. ASSUME NEW ph \in Phases, PluginReads(ph)
      PROVE  OwnedOK'
  BY <1>19 DEF PluginReads, Save, PluginMoves, Heard, NoTrace, CanRun
<1>20. ASSUME NEW ph \in Phases,
             \/ PluginReady(ph)
             \/ PluginAsks(ph)
             \/ PluginFails(ph)
             \/ PluginCloses(ph)
      PROVE  OwnedOK'
  BY <1>20 DEF PluginReady, PluginAsks, PluginFails, PluginCloses, Save,
               PluginMoves, CanRun
<1>21. ASSUME NEW ph \in Phases, NEW s \in Streams,
             \/ Overflow(ph, s)
             \/ StopGroup(ph, s)
             \/ EndOfStream(ph, s)
      PROVE  OwnedOK'
  BY <1>21 DEF Overflow, StopGroup, EndOfStream, Stronger, InGroup, Live
<1> QED BY <1>1, <1>2, <1>3, <1>4, <1>5, <1>6, <1>7, <1>8, <1>9, <1>10, <1>11,
           <1>12, <1>13, <1>14, <1>15, <1>16, <1>17, <1>18, <1>19, <1>20,
           <1>21
        DEF Next, Main, Spawn, CleanupGroup, Plugin, Reader

\* litter stays a truth value.
LEMMA LitterKept ==
  ASSUME litter \in BOOLEAN, Next
  PROVE  litter' \in BOOLEAN
<1> USE DEF At, Go, FailWith, group, lines, Phase
<1>1. CASE Open \/ Copy
  BY <1>1 DEF Open, Copy
<1>2. CASE Seal
  BY <1>2 DEF Seal
<1>3. CASE Digest
  BY <1>3 DEF Digest, Verified, HashAge
<1>4. CASE Prepare
  BY <1>4 DEF Prepare
<1>5. CASE WriteMode \/ Popen \/ AppendChild
  BY <1>5 DEF WriteMode, Popen, AppendChild
<1>6. CASE AppendCapture \/ StartReader \/ Feed
  BY <1>6 DEF AppendCapture, StartReader, Feed
<1>7. CASE CleanupSignals \/ CleanupWaits
  BY <1>7 DEF CleanupSignals, CleanupWaits, SignalGroup, Stronger, InGroup,
              Live
<1>8. CASE CleanupProbes
  BY <1>8 DEF CleanupProbes, InGroup, Live
<1>9. CASE Poll \/ Join
  BY <1>9 DEF Poll, Join, Exited, PollAge, CallCleanup, Drained
<1>10. CASE Admit
  BY <1>10 DEF Admit, NoTrace
<1>11. CASE Ready \/ Interrupt \/ AwaitExit
  BY <1>11 DEF Ready, Interrupt, AwaitExit, Exited, PollAge, Fixture
<1>12. CASE AwaitEvent
  BY <1>12 DEF AwaitEvent, CallCleanup
<1>13. CASE Judge \/ Rehash
  BY <1>13 DEF Judge, Rehash, Drained, HashAge
<1>14. CASE Except \/ Finally
  BY <1>14 DEF Except, Finally
<1>15. CASE Sweep \/ JoinAll
  BY <1>15 DEF Sweep, JoinAll, CallCleanup, Child, Drained, Index
<1>16. CASE Purge
  BY <1>16 DEF Purge
<1>17. CASE Publish
  BY <1>17 DEF Publish
<1>18. CASE GlobalTimeout
  BY <1>18 DEF GlobalTimeout, Tried, Final, Ends
<1>19. CASE CallFails \/ SourceEdited
  BY <1>19 DEF CallFails, SourceEdited
<1>20. ASSUME NEW ph \in Phases,
             \/ PluginStarts(ph)
             \/ PluginDies(ph)
             \/ PluginGone(ph)
             \/ AgeExits(ph)
      PROVE  litter' \in BOOLEAN
  BY <1>20 DEF PluginStarts, PluginDies, PluginGone, AgeExits, CanRun, Live
<1>21. ASSUME NEW ph \in Phases, PluginReads(ph)
      PROVE  litter' \in BOOLEAN
  BY <1>21 DEF PluginReads, Save, PluginMoves, Heard, NoTrace, CanRun
<1>22. ASSUME NEW ph \in Phases, PluginReady(ph)
      PROVE  litter' \in BOOLEAN
  BY <1>22 DEF PluginReady, Save, PluginMoves, CanRun
<1>23. ASSUME NEW ph \in Phases, PluginAsks(ph)
      PROVE  litter' \in BOOLEAN
  BY <1>23 DEF PluginAsks, Save, PluginMoves, CanRun
<1>24. ASSUME NEW ph \in Phases, PluginFails(ph)
      PROVE  litter' \in BOOLEAN
  BY <1>24 DEF PluginFails, Save, PluginMoves, CanRun
<1>25. ASSUME NEW ph \in Phases, PluginCloses(ph)
      PROVE  litter' \in BOOLEAN
  BY <1>25 DEF PluginCloses, Save, PluginMoves, CanRun
<1>26. ASSUME NEW ph \in Phases, NEW s \in Streams,
             \/ Overflow(ph, s)
             \/ StopGroup(ph, s)
             \/ EndOfStream(ph, s)
      PROVE  litter' \in BOOLEAN
  BY <1>26 DEF Overflow, StopGroup, EndOfStream, Stronger, InGroup, Live
<1> QED BY <1>1, <1>2, <1>3, <1>4, <1>5, <1>6, <1>7, <1>8, <1>9, <1>10, <1>11,
           <1>12, <1>13, <1>14, <1>15, <1>16, <1>17, <1>18, <1>19, <1>20,
           <1>21, <1>22, <1>23, <1>24, <1>25, <1>26
        DEF Next, Main, Spawn, CleanupGroup, Plugin, Reader

-----------------------------------------------------------------------------
(***************************************************************************)
(* What each step of the main thread does to the fields the invariant      *)
(* speaks of.                                                              *)
(***************************************************************************)

Same ==
    /\ main'.phase = main.phase /\ main'.alarm = main.alarm
    /\ main'.status = main.status /\ main'.failure = main.failure

\* It goes to a place; it fails; it calls cleanup_group.
Goes(p) ==
    /\ main'.pc = p /\ main'.back = main.back /\ main'.target = main.target
    /\ main'.ok = main.ok /\ main'.bounded = main.bounded /\ Same
Fails ==
    /\ main'.pc = "except" /\ main'.phase = main.phase
    /\ main'.alarm = main.alarm /\ main'.status = main.status
Calls(ph, b) ==
    main'.pc = "term" /\ main'.target = ph /\ main'.back = b /\ main'.ok /\ Same

LEMMA GoMoves ==
  ASSUME MainOK, NEW p, Go(p)
  PROVE  Goes(p)
  BY DEF MainOK, MainType, Go, Goes, Same

LEMMA FailMoves ==
  ASSUME MainOK, NEW c, FailWith(c)
  PROVE  Fails
  BY DEF MainOK, MainType, FailWith, Fails

\* The call may have noted something in the main thread's record before.
LEMMA CallMoves ==
  ASSUME NEW m \in MainType, NEW ph, NEW b, CallCleanup(ph, m, b)
  PROVE  /\ main'.pc = "term" /\ main'.target = ph /\ main'.back = b /\ main'.ok
         /\ main'.bounded = m.bounded /\ main'.phase = m.phase
         /\ main'.alarm = m.alarm /\ main'.status = m.status
         /\ main'.failure = m.failure
  BY DEF MainType, CallCleanup

LEMMA CleanupWaitsMoves ==
  ASSUME MainOK, CleanupWaits
  PROVE  /\ main.pc \in {"wait", "rewait"} /\ main'.pc \in {"again", "probe"}
         /\ main'.back = main.back /\ main'.target = main.target
         /\ main'.bounded = main.bounded /\ Same
         /\ main'.ok => main.ok
<1>1. CASE Go("probe")
  BY <1>1, GoMoves DEF CleanupWaits, Goes
<1>2. CASE ~Go("probe")
  <2>1. PICK p \in {"again", "probe"} : main' = [main EXCEPT !.ok = FALSE, !.pc = p]
    BY <1>2 DEF CleanupWaits
  <2> QED BY <2>1 DEF CleanupWaits, MainOK, MainType, Same
<1> QED BY <1>1, <1>2

LEMMA CleanupProbesMoves ==
  ASSUME MainOK, CleanupProbes
  PROVE  /\ main.pc = "probe" /\ main'.pc = main.back /\ main.back \in Returns
         /\ main'.back = main.back /\ main'.target = main.target
         /\ main'.bounded = main.bounded /\ Same
         /\ main'.ok => main.ok /\ ~InGroup(main.target)
<1> DEFINE empty == ~InGroup(main.target)
<1>1. main' = [main EXCEPT !.pc = main.back, !.ok = @ /\ empty]
  BY DEF CleanupProbes
<1> HIDE DEF empty
<1>2. main.back \in Returns /\ main.pc = "probe"
  BY DEF CleanupProbes, At, MainOK, MainType, CleanupPlaces, Returns
<1>3. main'.ok => main.ok /\ empty
  BY <1>1 DEF MainOK, MainType
<1>4. /\ main'.pc = main.back /\ main'.back = main.back
      /\ main'.target = main.target /\ main'.bounded = main.bounded /\ Same
  BY <1>1 DEF MainOK, MainType, Same
<1> QED BY <1>2, <1>3, <1>4 DEF empty

LEMMA PollMoves ==
  ASSUME MainOK, Poll
  PROVE  /\ main.pc = "poll"
         /\ \/ Goes("join")
            \/ Calls(main.phase, "join") /\ ~main'.bounded
<1>1. CASE Go("join")
  BY <1>1, GoMoves DEF Poll, At
<1>2. CASE ~Go("join")
  <2> DEFINE m == [main EXCEPT !.bounded = FALSE]
  <2>1. CallCleanup(main.phase, m, "join") /\ main.pc = "poll"
    BY <1>2 DEF Poll, Phase, At
  <2>2. m \in MainType /\ m.bounded = FALSE /\ m.phase = main.phase
        /\ m.alarm = main.alarm /\ m.status = main.status
        /\ m.failure = main.failure
    BY DEF MainOK, MainType
  <2> HIDE DEF m
  <2> QED BY <2>1, <2>2, CallMoves DEF Calls, Same
<1> QED BY <1>1, <1>2

LEMMA JoinMoves ==
  ASSUME MainOK, Join
  PROVE  /\ main.pc = "join"
         /\ \/ Fails
            \/ /\ Calls(main.phase, "admit") /\ Drained(main.phase)
               /\ main'.bounded => main.bounded /\ ~flood[main.phase]
<1>1. CASE FailWith("capture")
  BY <1>1, FailMoves DEF Join, At
<1>2. CASE ~FailWith("capture")
  <2> DEFINE m == [main EXCEPT !.bounded = @ /\ ~flood[Phase]]
  <2>1. CallCleanup(main.phase, m, "admit") /\ main.pc = "join" /\ Drained(main.phase)
    BY <1>2 DEF Join, Phase, At
  <2>2. m \in MainType /\ (m.bounded => main.bounded /\ ~flood[main.phase])
        /\ m.phase = main.phase /\ m.alarm = main.alarm
        /\ m.status = main.status /\ m.failure = main.failure
    BY DEF MainOK, MainType, Phase
  <2> HIDE DEF m
  <2> QED BY <2>1, <2>2, CallMoves DEF Calls, Same
<1> QED BY <1>1, <1>2

LEMMA AdmitMoves ==
  ASSUME MainOK, Admit
  PROVE  /\ main.pc = "admit"
         /\ \/ Fails /\ UNCHANGED trace
            \/ /\ main.bounded /\ main.ok /\ trace["pin"].premises
               /\ trace' = [trace EXCEPT !["pin"] = [NoTrace EXCEPT !.premises = TRUE]]
               /\ main'.pc = "mode" /\ main'.phase = "cancel"
               /\ main'.bounded = main.bounded /\ main'.alarm = main.alarm
               /\ main'.status = main.status /\ main'.failure = main.failure
<1>1. CASE main.bounded /\ main.ok /\ trace["pin"].premises
  <2>1. main' = [main EXCEPT !.phase = "cancel", !.pc = "mode"]
    BY <1>1 DEF Admit
  <2> QED BY <1>1, <2>1 DEF Admit, At, MainOK, MainType
<1>2. CASE ~(main.bounded /\ main.ok /\ trace["pin"].premises)
  BY <1>2, FailMoves DEF Admit, At
<1> QED BY <1>1, <1>2

LEMMA AwaitEventMoves ==
  ASSUME MainOK, TraceOK, AwaitEvent
  PROVE  main.pc = "event" /\ Calls(main.phase, "judge")
<1>1. PICK e \in {"other", "eof", "stanza", "sigint"} :
        CallCleanup(main.phase, [main EXCEPT !.event = e], "judge")
  <2>1. trace["cancel"].terminal \in {"none", "eof", "stanza", "sigint"}
    BY DEF TraceOK, TraceType, Phases
  <2> QED BY <2>1 DEF AwaitEvent, Phase
<1> DEFINE m == [main EXCEPT !.event = e]
<1>2. m \in MainType /\ m.phase = main.phase /\ m.alarm = main.alarm
      /\ m.status = main.status /\ m.failure = main.failure
  BY DEF MainOK, MainType
<1>3. CallCleanup(main.phase, m, "judge") /\ main.pc = "event"
  BY <1>1 DEF AwaitEvent, At
<1> HIDE DEF m
<1> QED BY <1>2, <1>3, CallMoves DEF Calls, Same

LEMMA InterruptMoves ==
  ASSUME MainOK, Interrupt
  PROVE  main.pc = "interrupt" /\ Goes("exit")
  BY DEF Interrupt, At, MainOK, MainType, Goes, Same

LEMMA RehashMoves ==
  ASSUME MainOK, Rehash
  PROVE  /\ main.pc = "rehash"
         /\ \/ Fails
            \/ /\ main'.pc = "finally" /\ main'.status = "complete"
               /\ main'.failure = "none" /\ main'.phase = main.phase
               /\ main'.alarm = main.alarm
<1>1. CASE FailWith("age")
  BY <1>1, FailMoves DEF Rehash, At
<1>2. CASE ~FailWith("age")
  BY <1>2 DEF Rehash, At, MainOK, MainType
<1> QED BY <1>1, <1>2

LEMMA FinallyMoves ==
  ASSUME MainOK, Finally
  PROVE  /\ main.pc = "finally" /\ main'.pc = "sweep"
         /\ main'.alarm # "set" /\ (main'.alarm = "spent" => main.alarm = "spent")
         /\ main'.phase = main.phase /\ main'.status = main.status
         /\ main'.failure = main.failure
  BY DEF Finally, At, MainOK, MainType

LEMMA SweepMoves ==
  ASSUME MainOK, Sweep
  PROVE  \/ main.pc = "sweep" /\ Goes("joinall")
         \/ main.pc = "sweep" /\ \E ph \in Phases : Calls(ph, "swept")
         \/ main.pc = "swept" /\ main'.pc = "sweep" /\ Same
<1>1. CASE main.pc = "sweep" /\ Go("joinall")
  BY <1>1, GoMoves
<1>2. CASE main.pc = "sweep" /\ ~Go("joinall")
  <2> DEFINE m == [main EXCEPT !.next = @ + 1]
  <2>1. CallCleanup(Child(main.next), m, "swept") /\ Child(main.next) \in Phases
    BY <1>2 DEF Sweep, At, Child, Phases
  <2>2. m \in MainType /\ m.phase = main.phase /\ m.alarm = main.alarm
        /\ m.status = main.status /\ m.failure = main.failure
    BY DEF MainOK, MainType
  <2> HIDE DEF m
  <2>3. Calls(Child(main.next), "swept")
    BY <2>1, <2>2, CallMoves DEF Calls, Same
  <2> QED BY <1>2, <2>1, <2>3
<1>3. CASE main.pc # "sweep"
  BY <1>3 DEF Sweep, At, MainOK, MainType, Same
<1> QED BY <1>1, <1>2, <1>3

LEMMA JoinAllMoves ==
  ASSUME MainOK, JoinAll
  PROVE  main.pc = "joinall" /\ main'.pc \in {"escaped", "purge"} /\ Same
<1>1. CASE main' = [main EXCEPT !.pc = "escaped", !.uncaught = TRUE]
  BY <1>1 DEF JoinAll, At, MainOK, MainType, Same
<1>2. CASE main' # [main EXCEPT !.pc = "escaped", !.uncaught = TRUE]
  <2>1. PICK quiet \in BOOLEAN : main' = [main EXCEPT !.quiet = quiet, !.pc = "purge"]
    BY <1>2 DEF JoinAll
  <2> QED BY <2>1 DEF JoinAll, At, MainOK, MainType, Same
<1> QED BY <1>1, <1>2

LEMMA PurgeMoves ==
  ASSUME MainOK, Purge
  PROVE  /\ Same
         /\ \/ main.pc = "purge" /\ main'.pc = "check"
            \/ /\ main.pc = "check" /\ main'.pc = "publish"
               /\ UNCHANGED litter /\ (main'.ok => ~litter)
<1>1. CASE main.pc = "purge"
  BY <1>1 DEF Purge, At, MainOK, MainType, Same
<1>2. CASE main.pc # "purge"
  <2> DEFINE none == ~litter
  <2>1. main' = [main EXCEPT !.ok = @ /\ none, !.pc = "publish"]
    BY <1>2 DEF Purge, At
  <2> HIDE DEF none
  <2>2. Same /\ main'.pc = "publish" /\ (main'.ok => none)
    BY <2>1 DEF MainOK, MainType, Same
  <2> QED BY <1>2, <2>2 DEF Purge, At, none
<1> QED BY <1>1, <1>2

LEMMA PublishMoves ==
  ASSUME MainOK, Publish
  PROVE  /\ main.pc = "publish" /\ Same
         /\ \/ /\ main'.pc = "done"
               /\ report'.status = "complete" =>
                     main.ok /\ main.status = "complete" /\ report'.failure = main.failure
            \/ main'.pc = "escaped" /\ UNCHANGED report
<1>1. CASE Go("done")
  <2>1. Same /\ main'.pc = "done"
    BY <1>1, GoMoves DEF Goes
  <2>2. main' # [main EXCEPT !.pc = "escaped", !.uncaught = TRUE]
    BY <2>1 DEF MainOK, MainType
  <2> QED BY <2>1, <2>2 DEF Publish, At
<1>2. CASE ~Go("done")
  BY <1>2 DEF Publish, At, MainOK, MainType, Same
<1> QED BY <1>1, <1>2

\* Where the exception of the alarm takes the main thread.
LEMMA TimeoutMoves ==
  ASSUME MainOK, GlobalTimeout
  PROVE  /\ main.alarm = "set" /\ main'.alarm = "spent"
         /\ main'.phase = main.phase /\ main'.status = main.status
         /\ \/ Tried /\ main'.pc = "except"
            \/ /\ main.pc \in {"kill", "wait", "rewait", "probe"}
               /\ main'.pc = main.pc /\ main'.back = main.back
               /\ main'.target = main.target /\ ~main'.ok
               /\ main'.bounded = main.bounded /\ main'.failure = main.failure
            \/ main.pc = "except" /\ main'.pc = "finally"
            \/ /\ main.pc = "finally" /\ main'.pc = "escaped"
               /\ main'.failure = main.failure
<1> DEFINE m == [main EXCEPT !.alarm = "spent"]
<1>1. /\ m \in MainType /\ m.alarm = "spent" /\ m.pc = main.pc /\ m.back = main.back
      /\ m.target = main.target /\ m.bounded = main.bounded /\ m.phase = main.phase
      /\ m.status = main.status /\ m.failure = main.failure
  BY DEF MainOK, MainType
<1>2. \/ Tried /\ main' = [m EXCEPT !.pc = "except", !.failure = "global_bound"]
      \/ main.pc \in {"kill", "wait", "rewait", "probe"} /\ main' = [m EXCEPT !.ok = FALSE]
      \/ /\ main.pc = "except"
         /\ main' = [m EXCEPT !.pc = "finally", !.uncaught = TRUE, !.failure = "internal"]
      \/ main.pc = "finally" /\ main' = [m EXCEPT !.pc = "escaped", !.uncaught = TRUE]
  BY DEF GlobalTimeout, At
<1>3. main.alarm = "set"
  BY DEF GlobalTimeout
<1> HIDE DEF m
<1>4. CASE Tried /\ main' = [m EXCEPT !.pc = "except", !.failure = "global_bound"]
  BY <1>1, <1>3, <1>4 DEF MainType
<1>5. CASE /\ main.pc \in {"kill", "wait", "rewait", "probe"}
           /\ main' = [m EXCEPT !.ok = FALSE]
  BY <1>1, <1>3, <1>5 DEF MainType
<1>6. CASE /\ main.pc = "except"
           /\ main' = [m EXCEPT !.pc = "finally", !.uncaught = TRUE, !.failure = "internal"]
  BY <1>1, <1>3, <1>6 DEF MainType
<1>7. CASE /\ main.pc = "finally"
           /\ main' = [m EXCEPT !.pc = "escaped", !.uncaught = TRUE]
  BY <1>1, <1>3, <1>7 DEF MainType
<1> QED BY <1>2, <1>4, <1>5, <1>6, <1>7

-----------------------------------------------------------------------------
(***************************************************************************)
(* Each part of the invariant is kept by every step.                       *)
(***************************************************************************)

\* Only what was compared with the pinned content is executed.
LEMMA SnapshotKept ==
  ASSUME MainOK, FileOK, SnapshotInv, Next
  PROVE  SnapshotInv'
<1>0. /\ main.phase \in Phases /\ main.target \in Phases
      /\ main.pc \in CleanupPlaces => main.back \in Returns
  BY DEF MainOK, MainType, Returns
<1> USE <1>0 DEF SnapshotInv, FileOK, Where, Same, Goes, Fails, Calls,
                 Returns, Places, Snapshot, Launching, PinOnly, CancelOnly,
                 Observing, CleanupPlaces, Final, Ends, At, Phase, group,
                 lines
<1>1. CASE Open
  BY <1>1, GoMoves, FailMoves DEF Open
<1>2. CASE Copy
  <2>1. CASE UNCHANGED file
    BY <1>2, <2>1, GoMoves, FailMoves DEF Copy
  <2>2. CASE ~UNCHANGED file
    <3> DEFINE n == Len(file.image) + 1
    <3>1. /\ n <= AgeCap /\ UNCHANGED main /\ main.pc = "copy"
          /\ file' = [file EXCEPT !.image = Append(@, file.source[n])]
      BY <1>2, <2>2, ProbeAssumption DEF Copy
    <3>2. file'.ran = file.ran
      BY <3>1
    <3>3. Len(file'.image) = n
      BY <3>1
    <3> QED BY <3>1, <3>2, <3>3
  <2> QED BY <2>1, <2>2
<1>3. CASE Seal \/ Digest \/ Prepare
  BY <1>3, GoMoves, FailMoves DEF Seal, Digest, Prepare, Verified, HashAge
<1>4. CASE WriteMode \/ Popen \/ AppendChild
  BY <1>4, GoMoves DEF WriteMode, Popen, AppendChild
<1>5. CASE AppendCapture \/ StartReader \/ Feed
  BY <1>5, GoMoves DEF AppendCapture, StartReader, Feed
<1>6. CASE CleanupSignals \/ CleanupWaits
  BY <1>6, GoMoves, CleanupWaitsMoves DEF CleanupSignals, CleanupWaits,
                                          SignalGroup, Stronger, InGroup, Live
<1>7. CASE CleanupProbes
  BY <1>7, CleanupProbesMoves DEF CleanupProbes, InGroup, Live
<1>8. CASE Poll \/ Join
  BY <1>8, PollMoves, JoinMoves DEF Poll, Join, Exited, PollAge, Drained
<1>9. CASE Admit
  BY <1>9, AdmitMoves DEF Admit, NoTrace
<1>10. CASE Ready
  BY <1>10, GoMoves, FailMoves DEF Ready, Exited, PollAge, Fixture
<1>11. CASE Interrupt \/ AwaitExit
  BY <1>11, InterruptMoves, GoMoves DEF Interrupt, AwaitExit, PollAge, Exited
<1>12. CASE AwaitEvent
  BY <1>12, AwaitEventMoves DEF AwaitEvent
<1>13. CASE Judge \/ Rehash
  BY <1>13, GoMoves, FailMoves, RehashMoves DEF Judge, Rehash, Drained,
                                                HashAge
<1>14. CASE Except \/ Finally
  BY <1>14, GoMoves, FinallyMoves DEF Except, Finally
<1>15. CASE Sweep \/ JoinAll
  BY <1>15, SweepMoves, JoinAllMoves DEF Sweep, JoinAll, Drained, Index
<1>16. CASE Purge
  BY <1>16, PurgeMoves DEF Purge
<1>17. CASE Publish
  BY <1>17, PublishMoves DEF Publish
<1>18. CASE GlobalTimeout
  BY <1>18, TimeoutMoves DEF GlobalTimeout, Tried
<1>19. CASE CallFails \/ SourceEdited
  BY <1>19, FailMoves DEF CallFails, SourceEdited
<1>20. ASSUME NEW ph \in Phases,
             \/ PluginStarts(ph)
             \/ PluginDies(ph)
             \/ PluginGone(ph)
             \/ AgeExits(ph)
      PROVE  SnapshotInv'
  BY <1>20 DEF PluginStarts, PluginDies, PluginGone, AgeExits, CanRun, Live
<1>21. ASSUME NEW ph \in Phases, PluginReads(ph)
      PROVE  SnapshotInv'
  BY <1>21 DEF PluginReads, Save, PluginMoves, Heard, NoTrace, CanRun
<1>22. ASSUME NEW ph \in Phases,
             \/ PluginReady(ph)
             \/ PluginAsks(ph)
             \/ PluginFails(ph)
             \/ PluginCloses(ph)
      PROVE  SnapshotInv'
  BY <1>22 DEF PluginReady, PluginAsks, PluginFails, PluginCloses, Save,
               PluginMoves, CanRun
<1>23. ASSUME NEW ph \in Phases, NEW s \in Streams,
             \/ Overflow(ph, s)
             \/ StopGroup(ph, s)
             \/ EndOfStream(ph, s)
      PROVE  SnapshotInv'
  BY <1>23 DEF Overflow, StopGroup, EndOfStream, Stronger, InGroup, Live
<1> QED BY <1>1, <1>2, <1>3, <1>4, <1>5, <1>6, <1>7, <1>8, <1>9, <1>10, <1>11,
           <1>12, <1>13, <1>14, <1>15, <1>16, <1>17, <1>18, <1>19, <1>20,
           <1>21, <1>22, <1>23
        DEF Next, Main, Spawn, CleanupGroup, Plugin, Reader

\* The phase fits the place.
LEMMA PhaseKept ==
  ASSUME MainOK, TraceOK, GroupOK, PhaseInv, Next
  PROVE  PhaseInv'
<1>0. /\ main.phase \in Phases /\ main.target \in Phases
      /\ main.pc \in CleanupPlaces => main.back \in Returns
  BY DEF MainOK, MainType, Returns
<1> USE <1>0 DEF PhaseInv, GroupOK, Phases, Where, Same, Goes, Fails, Calls,
                 Returns, Places, Snapshot, Launching, PinOnly, CancelOnly,
                 Observing, CleanupPlaces, Final, Ends, At, Phase, group,
                 lines
<1>1. CASE Open \/ Copy
  BY <1>1, GoMoves, FailMoves DEF Open, Copy
<1>2. CASE Seal \/ Digest \/ Prepare
  BY <1>2, GoMoves, FailMoves DEF Seal, Digest, Prepare, Verified, HashAge
<1>3. CASE WriteMode \/ Popen \/ AppendChild
  BY <1>3, GoMoves DEF WriteMode, Popen, AppendChild
<1>4. CASE AppendCapture \/ StartReader \/ Feed
  BY <1>4, GoMoves DEF AppendCapture, StartReader, Feed
<1>5. CASE CleanupSignals \/ CleanupWaits
  BY <1>5, GoMoves, CleanupWaitsMoves DEF CleanupSignals, CleanupWaits,
                                          SignalGroup, Stronger, InGroup, Live
<1>6. CASE CleanupProbes
  BY <1>6, CleanupProbesMoves DEF CleanupProbes, InGroup, Live
<1>7. CASE Poll \/ Join
  BY <1>7, PollMoves, JoinMoves DEF Poll, Join, Exited, PollAge, Drained
<1>8. CASE Admit
  BY <1>8, AdmitMoves DEF Admit, NoTrace
<1>9. CASE Ready \/ Interrupt \/ AwaitExit
  BY <1>9, GoMoves, FailMoves, InterruptMoves DEF Ready, Interrupt, AwaitExit,
                                                  Exited, PollAge, Fixture
<1>10. CASE AwaitEvent
  BY <1>10, AwaitEventMoves DEF AwaitEvent
<1>11. CASE Judge \/ Rehash
  BY <1>11, GoMoves, FailMoves, RehashMoves DEF Judge, Rehash, Drained,
                                                HashAge
<1>12. CASE Except \/ Finally
  BY <1>12, GoMoves, FinallyMoves DEF Except, Finally
<1>13. CASE Sweep \/ JoinAll
  BY <1>13, SweepMoves, JoinAllMoves DEF Sweep, JoinAll, Drained, Index
<1>14. CASE Purge
  BY <1>14, PurgeMoves DEF Purge
<1>15. CASE Publish
  BY <1>15, PublishMoves DEF Publish
<1>16. CASE GlobalTimeout
  BY <1>16, TimeoutMoves DEF GlobalTimeout, Tried
<1>17. CASE CallFails \/ SourceEdited
  BY <1>17, FailMoves DEF CallFails, SourceEdited
<1>18. ASSUME NEW ph \in Phases,
             \/ PluginStarts(ph)
             \/ PluginDies(ph)
             \/ PluginGone(ph)
             \/ AgeExits(ph)
      PROVE  PhaseInv'
  BY <1>18 DEF PluginStarts, PluginDies, PluginGone, AgeExits, CanRun, Live
<1>19. ASSUME NEW ph \in Phases, PluginReads(ph)
      PROVE  PhaseInv'
  BY <1>19 DEF PluginReads, Save, PluginMoves, Heard, NoTrace, CanRun
<1>20. ASSUME NEW ph \in Phases,
             \/ PluginReady(ph)
             \/ PluginAsks(ph)
             \/ PluginFails(ph)
             \/ PluginCloses(ph)
      PROVE  PhaseInv'
  BY <1>20 DEF PluginReady, PluginAsks, PluginFails, PluginCloses, Save,
               PluginMoves, CanRun
<1>21. ASSUME NEW ph \in Phases, NEW s \in Streams,
             \/ Overflow(ph, s)
             \/ StopGroup(ph, s)
             \/ EndOfStream(ph, s)
      PROVE  PhaseInv'
  BY <1>21 DEF Overflow, StopGroup, EndOfStream, Stronger, InGroup, Live
<1> QED BY <1>1, <1>2, <1>3, <1>4, <1>5, <1>6, <1>7, <1>8, <1>9, <1>10, <1>11,
           <1>12, <1>13, <1>14, <1>15, <1>16, <1>17, <1>18, <1>19, <1>20,
           <1>21
        DEF Next, Main, Spawn, CleanupGroup, Plugin, Reader

\* Each phase records one child and one capture.
LEMMA CountKept ==
  ASSUME MainOK, TraceOK, OwnedOK, PhaseInv, CountInv, Next
  PROVE  CountInv'
<1>0. /\ main.phase \in Phases /\ main.target \in Phases
      /\ main.pc \in CleanupPlaces => main.back \in Returns
  BY DEF MainOK, MainType, Returns
<1> USE <1>0 DEF CountInv, PhaseInv, OwnedOK, Phases, Index, Where, Same,
                 Goes, Fails, Calls, Returns, Places, Snapshot, Launching,
                 PinOnly, CancelOnly, Observing, CleanupPlaces, Final, Ends,
                 At, Phase, group, lines
<1>1. CASE Open \/ Copy
  BY <1>1, GoMoves, FailMoves DEF Open, Copy
<1>2. CASE Seal \/ Digest \/ Prepare
  BY <1>2, GoMoves, FailMoves DEF Seal, Digest, Prepare, Verified, HashAge
<1>3. CASE WriteMode \/ Popen \/ AppendChild
  BY <1>3, GoMoves DEF WriteMode, Popen, AppendChild
<1>4. CASE AppendCapture \/ StartReader \/ Feed
  BY <1>4, GoMoves DEF AppendCapture, StartReader, Feed
<1>5. CASE CleanupSignals \/ CleanupWaits
  BY <1>5, GoMoves, CleanupWaitsMoves DEF CleanupSignals, CleanupWaits,
                                          SignalGroup, Stronger, InGroup, Live
<1>6. CASE CleanupProbes
  BY <1>6, CleanupProbesMoves DEF CleanupProbes, InGroup, Live
<1>7. CASE Poll \/ Join
  BY <1>7, PollMoves, JoinMoves DEF Poll, Join, Exited, PollAge, Drained
<1>8. CASE Admit
  BY <1>8, AdmitMoves DEF Admit, NoTrace
<1>9. CASE Ready \/ Interrupt \/ AwaitExit
  BY <1>9, GoMoves, FailMoves, InterruptMoves DEF Ready, Interrupt, AwaitExit,
                                                  Exited, PollAge, Fixture
<1>10. CASE AwaitEvent
  BY <1>10, AwaitEventMoves DEF AwaitEvent
<1>11. CASE Judge \/ Rehash
  BY <1>11, GoMoves, FailMoves, RehashMoves DEF Judge, Rehash, Drained,
                                                HashAge
<1>12. CASE Except \/ Finally
  BY <1>12, GoMoves, FinallyMoves DEF Except, Finally
<1>13. CASE Sweep \/ JoinAll
  BY <1>13, SweepMoves, JoinAllMoves DEF Sweep, JoinAll, Drained
<1>14. CASE Purge
  BY <1>14, PurgeMoves DEF Purge
<1>15. CASE Publish
  BY <1>15, PublishMoves DEF Publish
<1>16. CASE GlobalTimeout
  BY <1>16, TimeoutMoves DEF GlobalTimeout, Tried
<1>17. CASE CallFails \/ SourceEdited
  BY <1>17, FailMoves DEF CallFails, SourceEdited
<1>18. ASSUME NEW ph \in Phases,
             \/ PluginStarts(ph)
             \/ PluginDies(ph)
             \/ PluginGone(ph)
             \/ AgeExits(ph)
      PROVE  CountInv'
  BY <1>18 DEF PluginStarts, PluginDies, PluginGone, AgeExits, CanRun, Live
<1>19. ASSUME NEW ph \in Phases, PluginReads(ph)
      PROVE  CountInv'
  BY <1>19 DEF PluginReads, Save, PluginMoves, Heard, NoTrace, CanRun
<1>20. ASSUME NEW ph \in Phases,
             \/ PluginReady(ph)
             \/ PluginAsks(ph)
             \/ PluginFails(ph)
             \/ PluginCloses(ph)
      PROVE  CountInv'
  BY <1>20 DEF PluginReady, PluginAsks, PluginFails, PluginCloses, Save,
               PluginMoves, CanRun
<1>21. ASSUME NEW ph \in Phases, NEW s \in Streams,
             \/ Overflow(ph, s)
             \/ StopGroup(ph, s)
             \/ EndOfStream(ph, s)
      PROVE  CountInv'
  BY <1>21 DEF Overflow, StopGroup, EndOfStream, Stronger, InGroup, Live
<1> QED BY <1>1, <1>2, <1>3, <1>4, <1>5, <1>6, <1>7, <1>8, <1>9, <1>10, <1>11,
           <1>12, <1>13, <1>14, <1>15, <1>16, <1>17, <1>18, <1>19, <1>20,
           <1>21
        DEF Next, Main, Spawn, CleanupGroup, Plugin, Reader

\* A phase that is over stays over.
LEMMA OverKept ==
  ASSUME MainOK, TraceOK, GroupOK, PhaseInv, OverInv, AlarmInv, Next
  PROVE  OverInv'
<1>0. /\ main.phase \in Phases /\ main.target \in Phases
      /\ main.pc \in CleanupPlaces => main.back \in Returns
  BY DEF MainOK, MainType, Returns
<1> USE <1>0 DEF OverInv, PhaseInv, AlarmInv, GroupOK, Gone, Phases, Where,
                 Same, Goes, Fails, Calls, Returns, Places, Snapshot,
                 Launching, PinOnly, CancelOnly, Observing, CleanupPlaces,
                 Final, Ends, At, Phase, group, lines
<1>1. CASE Open \/ Copy
  BY <1>1, GoMoves, FailMoves DEF Open, Copy
<1>2. CASE Seal \/ Digest \/ Prepare
  BY <1>2, GoMoves, FailMoves DEF Seal, Digest, Prepare, Verified, HashAge
<1>3. CASE WriteMode \/ Popen \/ AppendChild
  BY <1>3, GoMoves DEF WriteMode, Popen, AppendChild
<1>4. CASE AppendCapture \/ StartReader \/ Feed
  BY <1>4, GoMoves DEF AppendCapture, StartReader, Feed
<1>5. CASE CleanupSignals \/ CleanupWaits
  BY <1>5, GoMoves, CleanupWaitsMoves DEF CleanupSignals, CleanupWaits,
                                          SignalGroup, Stronger, InGroup, Live
<1>6. CASE CleanupProbes
  BY <1>6, CleanupProbesMoves DEF CleanupProbes, InGroup, Live
<1>7. CASE Poll \/ Join
  BY <1>7, PollMoves, JoinMoves DEF Poll, Join, Exited, PollAge, Drained
<1>8. CASE Admit
  BY <1>8, AdmitMoves DEF Admit, NoTrace
<1>9. CASE Ready \/ Interrupt \/ AwaitExit
  BY <1>9, GoMoves, FailMoves, InterruptMoves DEF Ready, Interrupt, AwaitExit,
                                                  Exited, PollAge, Fixture
<1>10. CASE AwaitEvent
  BY <1>10, AwaitEventMoves DEF AwaitEvent
<1>11. CASE Judge \/ Rehash
  BY <1>11, GoMoves, FailMoves, RehashMoves DEF Judge, Rehash, Drained,
                                                HashAge
<1>12. CASE Except \/ Finally
  BY <1>12, GoMoves, FinallyMoves DEF Except, Finally
<1>13. CASE Sweep \/ JoinAll
  BY <1>13, SweepMoves, JoinAllMoves DEF Sweep, JoinAll, Drained, Index
<1>14. CASE Purge
  BY <1>14, PurgeMoves DEF Purge
<1>15. CASE Publish
  BY <1>15, PublishMoves DEF Publish
<1>16. CASE GlobalTimeout
  BY <1>16, TimeoutMoves DEF GlobalTimeout, Tried
<1>17. CASE CallFails \/ SourceEdited
  BY <1>17, FailMoves DEF CallFails, SourceEdited
<1>18. ASSUME NEW ph \in Phases,
             \/ PluginStarts(ph)
             \/ PluginDies(ph)
             \/ PluginGone(ph)
             \/ AgeExits(ph)
      PROVE  OverInv'
  BY <1>18 DEF PluginStarts, PluginDies, PluginGone, AgeExits, CanRun, Live
<1>19. ASSUME NEW ph \in Phases, PluginReads(ph)
      PROVE  OverInv'
  BY <1>19 DEF PluginReads, Save, PluginMoves, Heard, NoTrace, CanRun
<1>20. ASSUME NEW ph \in Phases,
             \/ PluginReady(ph)
             \/ PluginAsks(ph)
             \/ PluginFails(ph)
             \/ PluginCloses(ph)
      PROVE  OverInv'
  BY <1>20 DEF PluginReady, PluginAsks, PluginFails, PluginCloses, Save,
               PluginMoves, CanRun
<1>21. ASSUME NEW ph \in Phases, NEW s \in Streams,
             \/ Overflow(ph, s)
             \/ StopGroup(ph, s)
             \/ EndOfStream(ph, s)
      PROVE  OverInv'
  BY <1>21 DEF Overflow, StopGroup, EndOfStream, Stronger, InGroup, Live
<1> QED BY <1>1, <1>2, <1>3, <1>4, <1>5, <1>6, <1>7, <1>8, <1>9, <1>10, <1>11,
           <1>12, <1>13, <1>14, <1>15, <1>16, <1>17, <1>18, <1>19, <1>20,
           <1>21
        DEF Next, Main, Spawn, CleanupGroup, Plugin, Reader

\* Streams that have ended without an overflow stay so.
LEMMA DrainedKept ==
  ASSUME MainOK, TraceOK, LinesOK, PhaseInv, DrainedInv, AlarmInv, Next
  PROVE  DrainedInv'
<1>0. /\ main.phase \in Phases /\ main.target \in Phases
      /\ main.pc \in CleanupPlaces => main.back \in Returns
  BY DEF MainOK, MainType, Returns
<1> USE <1>0 DEF DrainedInv, PhaseInv, AlarmInv, LinesOK, Phases, Streams,
                 Drained, Where, Same, Goes, Fails, Calls, Returns, Places,
                 Snapshot, Launching, PinOnly, CancelOnly, Observing,
                 CleanupPlaces, Final, Ends, At, Phase, group, lines
<1>1. CASE Open \/ Copy
  BY <1>1, GoMoves, FailMoves DEF Open, Copy
<1>2. CASE Seal \/ Digest \/ Prepare
  BY <1>2, GoMoves, FailMoves DEF Seal, Digest, Prepare, Verified, HashAge
<1>3. CASE WriteMode \/ Popen \/ AppendChild
  BY <1>3, GoMoves DEF WriteMode, Popen, AppendChild
<1>4. CASE AppendCapture \/ StartReader \/ Feed
  BY <1>4, GoMoves DEF AppendCapture, StartReader, Feed
<1>5. CASE CleanupSignals \/ CleanupWaits
  BY <1>5, GoMoves, CleanupWaitsMoves DEF CleanupSignals, CleanupWaits,
                                          SignalGroup, Stronger, InGroup, Live
<1>6. CASE CleanupProbes
  BY <1>6, CleanupProbesMoves DEF CleanupProbes, InGroup, Live
<1>7. CASE Poll \/ Join
  BY <1>7, PollMoves, JoinMoves DEF Poll, Join, Exited, PollAge
<1>8. CASE Admit
  BY <1>8, AdmitMoves DEF Admit, NoTrace
<1>9. CASE Ready \/ Interrupt \/ AwaitExit
  BY <1>9, GoMoves, FailMoves, InterruptMoves DEF Ready, Interrupt, AwaitExit,
                                                  Exited, PollAge, Fixture
<1>10. CASE AwaitEvent
  BY <1>10, AwaitEventMoves DEF AwaitEvent
<1>11. CASE Judge \/ Rehash
  BY <1>11, GoMoves, FailMoves, RehashMoves DEF Judge, Rehash, HashAge
<1>12. CASE Except \/ Finally
  BY <1>12, GoMoves, FinallyMoves DEF Except, Finally
<1>13. CASE Sweep \/ JoinAll
  BY <1>13, SweepMoves, JoinAllMoves DEF Sweep, JoinAll, Index
<1>14. CASE Purge
  BY <1>14, PurgeMoves DEF Purge
<1>15. CASE Publish
  BY <1>15, PublishMoves DEF Publish
<1>16. CASE GlobalTimeout
  BY <1>16, TimeoutMoves DEF GlobalTimeout, Tried
<1>17. CASE CallFails \/ SourceEdited
  BY <1>17, FailMoves DEF CallFails, SourceEdited
<1>18. ASSUME NEW ph \in Phases,
             \/ PluginStarts(ph)
             \/ PluginDies(ph)
             \/ PluginGone(ph)
             \/ AgeExits(ph)
      PROVE  DrainedInv'
  BY <1>18 DEF PluginStarts, PluginDies, PluginGone, AgeExits, CanRun, Live
<1>19. ASSUME NEW ph \in Phases, PluginReads(ph)
      PROVE  DrainedInv'
  BY <1>19 DEF PluginReads, Save, PluginMoves, Heard, NoTrace, CanRun
<1>20. ASSUME NEW ph \in Phases,
             \/ PluginReady(ph)
             \/ PluginAsks(ph)
             \/ PluginFails(ph)
             \/ PluginCloses(ph)
      PROVE  DrainedInv'
  BY <1>20 DEF PluginReady, PluginAsks, PluginFails, PluginCloses, Save,
               PluginMoves, CanRun
<1>21. ASSUME NEW ph \in Phases, NEW s \in Streams,
             \/ Overflow(ph, s)
             \/ StopGroup(ph, s)
             \/ EndOfStream(ph, s)
      PROVE  DrainedInv'
  BY <1>21 DEF Overflow, StopGroup, EndOfStream, Stronger, InGroup, Live
<1> QED BY <1>1, <1>2, <1>3, <1>4, <1>5, <1>6, <1>7, <1>8, <1>9, <1>10, <1>11,
           <1>12, <1>13, <1>14, <1>15, <1>16, <1>17, <1>18, <1>19, <1>20,
           <1>21
        DEF Next, Main, Spawn, CleanupGroup, Plugin, Reader

\* A fixture that was verified stays verified.
LEMMA PremiseKept ==
  ASSUME MainOK, GroupOK, TraceOK, PhaseInv, PremiseInv, AlarmInv, Next
  PROVE  PremiseInv'
<1>0. /\ main.phase \in Phases /\ main.target \in Phases
      /\ main.pc \in CleanupPlaces => main.back \in Returns
  BY DEF MainOK, MainType, Returns
<1> USE <1>0 DEF PremiseInv, PhaseInv, AlarmInv, GroupOK, TraceOK, TraceType,
                 Phases, Where, Same, Goes, Fails, Calls, Returns, Places,
                 Snapshot, Launching, PinOnly, CancelOnly, Observing,
                 CleanupPlaces, Final, Ends, At, Phase, group, lines
<1>1. CASE Open \/ Copy
  BY <1>1, GoMoves, FailMoves DEF Open, Copy
<1>2. CASE Seal \/ Digest \/ Prepare
  BY <1>2, GoMoves, FailMoves DEF Seal, Digest, Prepare, Verified, HashAge
<1>3. CASE WriteMode \/ Popen \/ AppendChild
  BY <1>3, GoMoves DEF WriteMode, Popen, AppendChild
<1>4. CASE AppendCapture \/ StartReader \/ Feed
  BY <1>4, GoMoves DEF AppendCapture, StartReader, Feed
<1>5. CASE CleanupSignals \/ CleanupWaits
  BY <1>5, GoMoves, CleanupWaitsMoves DEF CleanupSignals, CleanupWaits,
                                          SignalGroup, Stronger, InGroup, Live
<1>6. CASE CleanupProbes
  BY <1>6, CleanupProbesMoves DEF CleanupProbes, InGroup, Live
<1>7. CASE Poll \/ Join
  BY <1>7, PollMoves, JoinMoves DEF Poll, Join, Exited, PollAge, Drained
<1>8. CASE Admit
  BY <1>8, AdmitMoves DEF Admit, NoTrace
<1>9. CASE Ready \/ Interrupt \/ AwaitExit
  BY <1>9, GoMoves, FailMoves, InterruptMoves DEF Ready, Interrupt, AwaitExit,
                                                  Exited, PollAge, Fixture
<1>10. CASE AwaitEvent
  BY <1>10, AwaitEventMoves DEF AwaitEvent
<1>11. CASE Judge \/ Rehash
  BY <1>11, GoMoves, FailMoves, RehashMoves DEF Judge, Rehash, Drained,
                                                HashAge
<1>12. CASE Except \/ Finally
  BY <1>12, GoMoves, FinallyMoves DEF Except, Finally
<1>13. CASE Sweep \/ JoinAll
  BY <1>13, SweepMoves, JoinAllMoves DEF Sweep, JoinAll, Drained, Index
<1>14. CASE Purge
  BY <1>14, PurgeMoves DEF Purge
<1>15. CASE Publish
  BY <1>15, PublishMoves DEF Publish
<1>16. CASE GlobalTimeout
  BY <1>16, TimeoutMoves DEF GlobalTimeout, Tried
<1>17. CASE CallFails \/ SourceEdited
  BY <1>17, FailMoves DEF CallFails, SourceEdited
<1>18. ASSUME NEW ph \in Phases,
             \/ PluginStarts(ph)
             \/ PluginDies(ph)
             \/ PluginGone(ph)
             \/ AgeExits(ph)
      PROVE  PremiseInv'
  BY <1>18 DEF PluginStarts, PluginDies, PluginGone, AgeExits, CanRun, Live
<1>19. ASSUME NEW ph \in Phases, PluginReads(ph)
      PROVE  PremiseInv'
  BY <1>19 DEF PluginReads, Save, PluginMoves, Heard, NoTrace, CanRun
<1>20. ASSUME NEW ph \in Phases,
             \/ PluginReady(ph)
             \/ PluginAsks(ph)
             \/ PluginFails(ph)
             \/ PluginCloses(ph)
      PROVE  PremiseInv'
  BY <1>20 DEF PluginReady, PluginAsks, PluginFails, PluginCloses, Save,
               PluginMoves, CanRun
<1>21. ASSUME NEW ph \in Phases, NEW s \in Streams,
             \/ Overflow(ph, s)
             \/ StopGroup(ph, s)
             \/ EndOfStream(ph, s)
      PROVE  PremiseInv'
  BY <1>21 DEF Overflow, StopGroup, EndOfStream, Stronger, InGroup, Live
<1> QED BY <1>1, <1>2, <1>3, <1>4, <1>5, <1>6, <1>7, <1>8, <1>9, <1>10, <1>11,
           <1>12, <1>13, <1>14, <1>15, <1>16, <1>17, <1>18, <1>19, <1>20,
           <1>21
        DEF Next, Main, Spawn, CleanupGroup, Plugin, Reader

\* An alarm is never swallowed without a trace.
LEMMA AlarmKept ==
  ASSUME MainOK, TraceOK, PhaseInv, AlarmInv, Next
  PROVE  AlarmInv'
<1>0. /\ main.phase \in Phases /\ main.target \in Phases
      /\ main.pc \in CleanupPlaces => main.back \in Returns
  BY DEF MainOK, MainType, Returns
<1> USE <1>0 DEF AlarmInv, PhaseInv, Phases, Where, Same, Goes, Fails, Calls,
                 Returns, Places, Snapshot, Launching, PinOnly, CancelOnly,
                 Observing, CleanupPlaces, Final, Ends, At, Phase, group,
                 lines
<1>1. CASE Open \/ Copy
  BY <1>1, GoMoves, FailMoves DEF Open, Copy
<1>2. CASE Seal \/ Digest \/ Prepare
  BY <1>2, GoMoves, FailMoves DEF Seal, Digest, Prepare, Verified, HashAge
<1>3. CASE WriteMode \/ Popen \/ AppendChild
  BY <1>3, GoMoves DEF WriteMode, Popen, AppendChild
<1>4. CASE AppendCapture \/ StartReader \/ Feed
  BY <1>4, GoMoves DEF AppendCapture, StartReader, Feed
<1>5. CASE CleanupSignals \/ CleanupWaits
  BY <1>5, GoMoves, CleanupWaitsMoves DEF CleanupSignals, CleanupWaits,
                                          SignalGroup, Stronger, InGroup, Live
<1>6. CASE CleanupProbes
  BY <1>6, CleanupProbesMoves DEF CleanupProbes, InGroup, Live
<1>7. CASE Poll \/ Join
  BY <1>7, PollMoves, JoinMoves DEF Poll, Join, Exited, PollAge, Drained
<1>8. CASE Admit
  BY <1>8, AdmitMoves DEF Admit, NoTrace
<1>9. CASE Ready \/ Interrupt \/ AwaitExit
  BY <1>9, GoMoves, FailMoves, InterruptMoves DEF Ready, Interrupt, AwaitExit,
                                                  Exited, PollAge, Fixture
<1>10. CASE AwaitEvent
  BY <1>10, AwaitEventMoves DEF AwaitEvent
<1>11. CASE Judge \/ Rehash
  BY <1>11, GoMoves, FailMoves, RehashMoves DEF Judge, Rehash, Drained,
                                                HashAge
<1>12. CASE Except \/ Finally
  BY <1>12, GoMoves, FinallyMoves DEF Except, Finally
<1>13. CASE Sweep \/ JoinAll
  BY <1>13, SweepMoves, JoinAllMoves DEF Sweep, JoinAll, Drained, Index
<1>14. CASE Purge
  BY <1>14, PurgeMoves DEF Purge
<1>15. CASE Publish
  BY <1>15, PublishMoves DEF Publish
<1>16. CASE GlobalTimeout
  BY <1>16, TimeoutMoves DEF GlobalTimeout, Tried
<1>17. CASE CallFails \/ SourceEdited
  BY <1>17, FailMoves DEF CallFails, SourceEdited
<1>18. ASSUME NEW ph \in Phases,
             \/ PluginStarts(ph)
             \/ PluginDies(ph)
             \/ PluginGone(ph)
             \/ AgeExits(ph)
      PROVE  AlarmInv'
  BY <1>18 DEF PluginStarts, PluginDies, PluginGone, AgeExits, CanRun, Live
<1>19. ASSUME NEW ph \in Phases, PluginReads(ph)
      PROVE  AlarmInv'
  BY <1>19 DEF PluginReads, Save, PluginMoves, Heard, NoTrace, CanRun
<1>20. ASSUME NEW ph \in Phases,
             \/ PluginReady(ph)
             \/ PluginAsks(ph)
             \/ PluginFails(ph)
             \/ PluginCloses(ph)
      PROVE  AlarmInv'
  BY <1>20 DEF PluginReady, PluginAsks, PluginFails, PluginCloses, Save,
               PluginMoves, CanRun
<1>21. ASSUME NEW ph \in Phases, NEW s \in Streams,
             \/ Overflow(ph, s)
             \/ StopGroup(ph, s)
             \/ EndOfStream(ph, s)
      PROVE  AlarmInv'
  BY <1>21 DEF Overflow, StopGroup, EndOfStream, Stronger, InGroup, Live
<1> QED BY <1>1, <1>2, <1>3, <1>4, <1>5, <1>6, <1>7, <1>8, <1>9, <1>10, <1>11,
           <1>12, <1>13, <1>14, <1>15, <1>16, <1>17, <1>18, <1>19, <1>20,
           <1>21
        DEF Next, Main, Spawn, CleanupGroup, Plugin, Reader

\* Only what is complete and clean is reported complete.
LEMMA ReportKept ==
  ASSUME MainOK, TraceOK, OverInv, AlarmInv, ReportInv, Next
  PROVE  ReportInv'
<1>0. /\ main.phase \in Phases /\ main.target \in Phases
      /\ main.pc \in CleanupPlaces => main.back \in Returns
  BY DEF MainOK, MainType, Returns
<1> USE <1>0 DEF ReportInv, AlarmInv, OverInv, Gone, Phases, Where, Same,
                 Goes, Fails, Calls, Returns, Places, Snapshot, Launching,
                 PinOnly, CancelOnly, Observing, CleanupPlaces, Final, Ends,
                 At, Phase, group, lines
<1>1. CASE Open \/ Copy
  BY <1>1, GoMoves, FailMoves DEF Open, Copy
<1>2. CASE Seal \/ Digest \/ Prepare
  BY <1>2, GoMoves, FailMoves DEF Seal, Digest, Prepare, Verified, HashAge
<1>3. CASE WriteMode \/ Popen \/ AppendChild
  BY <1>3, GoMoves DEF WriteMode, Popen, AppendChild
<1>4. CASE AppendCapture \/ StartReader \/ Feed
  BY <1>4, GoMoves DEF AppendCapture, StartReader, Feed
<1>5. CASE CleanupSignals \/ CleanupWaits
  BY <1>5, GoMoves, CleanupWaitsMoves DEF CleanupSignals, CleanupWaits,
                                          SignalGroup, Stronger, InGroup, Live
<1>6. CASE CleanupProbes
  BY <1>6, CleanupProbesMoves DEF CleanupProbes, InGroup, Live
<1>7. CASE Poll \/ Join
  BY <1>7, PollMoves, JoinMoves DEF Poll, Join, Exited, PollAge, Drained
<1>8. CASE Admit
  BY <1>8, AdmitMoves DEF Admit, NoTrace
<1>9. CASE Ready \/ Interrupt \/ AwaitExit
  BY <1>9, GoMoves, FailMoves, InterruptMoves DEF Ready, Interrupt, AwaitExit,
                                                  Exited, PollAge, Fixture
<1>10. CASE AwaitEvent
  BY <1>10, AwaitEventMoves DEF AwaitEvent
<1>11. CASE Judge \/ Rehash
  BY <1>11, GoMoves, FailMoves, RehashMoves DEF Judge, Rehash, Drained,
                                                HashAge
<1>12. CASE Except \/ Finally
  BY <1>12, GoMoves, FinallyMoves DEF Except, Finally
<1>13. CASE Sweep \/ JoinAll
  BY <1>13, SweepMoves, JoinAllMoves DEF Sweep, JoinAll, Drained, Index
<1>14. CASE Purge
  <2>1. UNCHANGED report
    BY <1>14 DEF Purge
  <2> QED BY <1>14, <2>1, PurgeMoves
<1>15. CASE Publish
  BY <1>15, PublishMoves DEF Publish
<1>16. CASE GlobalTimeout
  BY <1>16, TimeoutMoves DEF GlobalTimeout, Tried
<1>17. CASE CallFails \/ SourceEdited
  BY <1>17, FailMoves DEF CallFails, SourceEdited
<1>18. ASSUME NEW ph \in Phases,
             \/ PluginStarts(ph)
             \/ PluginDies(ph)
             \/ PluginGone(ph)
             \/ AgeExits(ph)
      PROVE  ReportInv'
  BY <1>18 DEF PluginStarts, PluginDies, PluginGone, AgeExits, CanRun, Live
<1>19. ASSUME NEW ph \in Phases, PluginReads(ph)
      PROVE  ReportInv'
  BY <1>19 DEF PluginReads, Save, PluginMoves, Heard, NoTrace, CanRun
<1>20. ASSUME NEW ph \in Phases,
             \/ PluginReady(ph)
             \/ PluginAsks(ph)
             \/ PluginFails(ph)
             \/ PluginCloses(ph)
      PROVE  ReportInv'
  BY <1>20 DEF PluginReady, PluginAsks, PluginFails, PluginCloses, Save,
               PluginMoves, CanRun
<1>21. ASSUME NEW ph \in Phases, NEW s \in Streams,
             \/ Overflow(ph, s)
             \/ StopGroup(ph, s)
             \/ EndOfStream(ph, s)
      PROVE  ReportInv'
  BY <1>21 DEF Overflow, StopGroup, EndOfStream, Stronger, InGroup, Live
<1> QED BY <1>1, <1>2, <1>3, <1>4, <1>5, <1>6, <1>7, <1>8, <1>9, <1>10, <1>11,
           <1>12, <1>13, <1>14, <1>15, <1>16, <1>17, <1>18, <1>19, <1>20,
           <1>21
        DEF Next, Main, Spawn, CleanupGroup, Plugin, Reader

-----------------------------------------------------------------------------
(***************************************************************************)
(* The theorems.                                                           *)
(***************************************************************************)

\* The invariant holds when the probe is started.
LEMMA ProbeInit == Init => ProbeInv
<1> SUFFICES ASSUME Init PROVE ProbeInv
  OBVIOUS
<1> USE DEF Init
<1>1. main \in MainType
  BY DEF MainType, Places, Snapshot, Phases
<1>2. /\ main.pc = "open" /\ main.phase = "pin" /\ main.alarm = "set"
      /\ main.status = "error"
  OBVIOUS
<1>3. MainOK /\ Where = "open"
  BY <1>1, <1>2 DEF MainOK, Where, CleanupPlaces
<1>4. file \in [source : Sources, image : {<<>>}, sealed : {FALSE}, ran : {{}}]
  OBVIOUS
<1>5. FileOK /\ file.image = <<>> /\ file.ran = {}
  <2>1. <<>> \in Seq(Blocks)
    OBVIOUS
  <2> QED BY <1>4, <2>1 DEF FileOK
<1>6. GroupOK /\ LinesOK /\ OwnedOK /\ litter \in BOOLEAN
  <2>1. OwnedOK
    BY DEF OwnedOK
  <2>2. GroupOK
    BY DEF GroupOK
  <2>3. LinesOK
    BY DEF LinesOK
  <2>4. litter \in BOOLEAN
    OBVIOUS
  <2> QED BY <2>1, <2>2, <2>3, <2>4
<1>7. TraceOK
  BY DEF TraceOK, TraceType, NoTrace
<1>8. SnapshotInv
  BY <1>3, <1>5, ProbeAssumption DEF SnapshotInv, Launching, Observing, PinOnly, CancelOnly
<1>9. PhaseInv
  BY <1>2, <1>3 DEF PhaseInv, Observing, PinOnly, CancelOnly
<1>10. CountInv
  BY <1>2, <1>3 DEF CountInv, Observing, PinOnly, CancelOnly, Index
<1>11. OverInv /\ DrainedInv /\ PremiseInv
  BY <1>2, <1>3 DEF OverInv, DrainedInv, PremiseInv, CancelOnly, NoTrace
<1>12. AlarmInv
  BY <1>2, <1>3 DEF AlarmInv, CleanupPlaces, Final, Ends
<1>13. ReportInv
  BY <1>2 DEF ReportInv, NoReport
<1> QED
  BY <1>3, <1>5, <1>6, <1>7, <1>8, <1>9, <1>10, <1>11, <1>12, <1>13 DEF ProbeInv

\* Every step keeps it.
LEMMA ProbeStep == ProbeInv /\ [Next]_vars => ProbeInv'
<1> SUFFICES ASSUME ProbeInv, [Next]_vars PROVE ProbeInv'
  OBVIOUS
<1>1. CASE Next
  <2> USE <1>1 DEF ProbeInv
  <2>1. MainOK' /\ FileOK' /\ GroupOK' /\ TraceOK' /\ LinesOK' /\ OwnedOK'
        /\ litter' \in BOOLEAN
    BY MainKept, FileKept, GroupKept, TraceKept, LinesKept, OwnedKept, LitterKept
  <2>2. SnapshotInv' /\ PhaseInv' /\ CountInv'
    BY SnapshotKept, PhaseKept, CountKept
  <2>3. OverInv' /\ DrainedInv' /\ PremiseInv'
    BY OverKept, DrainedKept, PremiseKept
  <2>4. AlarmInv' /\ ReportInv'
    BY AlarmKept, ReportKept
  <2> QED BY <2>1, <2>2, <2>3, <2>4
<1>2. CASE UNCHANGED vars
  BY <1>2
     DEF vars, ProbeInv, MainOK, FileOK, GroupOK, TraceOK, LinesOK, OwnedOK, Where,
         SnapshotInv, PhaseInv, CountInv, Gone, OverInv, DrainedInv, Drained,
         PremiseInv, AlarmInv, ReportInv
<1> QED BY <1>1, <1>2

LEMMA ProbeInvariant == Spec => []ProbeInv
  BY ProbeInit, ProbeStep, PTL DEF Spec

\* Observations that say "complete" rest on two verified phases of which neither
\* a process nor a reader thread nor another file is left, with no overflow and
\* no alarm swallowed on the way (probe.py:122-157 and 386-628).
THEOREM CompleteMeansCleanHolds == Spec => []CompleteMeansClean
<1>1. ASSUME ProbeInv PROVE TypeOK
  <2>1. /\ main.alarm \in {"set", "spent", "off"} /\ main.phase \in Phases
        /\ main.target \in Phases /\ main.status \in {"error", "complete"}
    BY <1>1 DEF ProbeInv, MainOK, MainType
  <2>2. {main.ok, main.bounded, main.clean, main.quiet} \subseteq BOOLEAN
    BY <1>1 DEF ProbeInv, MainOK, MainType
  <2>3. \A ph \in Phases : /\ age[ph] \in {"none", "up", "zombie", "reaped"}
                           /\ doom[ph] \in {"none", "TERM", "KILL"}
    BY <1>1 DEF ProbeInv, GroupOK
  <2> QED BY <1>1, <2>1, <2>2, <2>3 DEF ProbeInv, SnapshotInv, CountInv, TypeOK
<1>2. ASSUME ProbeInv, report.status = "complete"
      PROVE  /\ report.failure = "none" /\ main.alarm = "off" /\ ~litter
             /\ \A ph \in Phases :
                   /\ trace[ph].premises /\ ~flood[ph] /\ Drained(ph)
                   /\ age[ph] = "reaped" /\ plug[ph] \in {"none", "gone"}
  <2>1. /\ main.pc = "done" /\ main.status = "complete"
        /\ report.failure = "none" /\ ~litter
    BY <1>2 DEF ProbeInv, ReportInv
  <2>2. main.phase = "cancel" /\ main.alarm = "off"
    BY <1>2, <2>1 DEF ProbeInv, AlarmInv, MainOK, MainType, Where, CleanupPlaces, Final, Ends
  <2>3. \A ph \in Phases : Gone(ph)
    BY <1>2, <2>1, <2>2 DEF ProbeInv, OverInv, Phases
  <2>4. \A ph \in Phases : ~flood[ph] /\ Drained(ph)
    BY <1>2, <2>1, <2>2 DEF ProbeInv, DrainedInv, Phases
  <2>5. \A ph \in Phases : trace[ph].premises
    BY <1>2, <2>1, <2>2 DEF ProbeInv, PremiseInv, Phases
  <2> QED BY <2>1, <2>2, <2>3, <2>4, <2>5 DEF Gone
<1>3. ExitStatus = 0 <=> report.status = "complete" /\ ~main.uncaught
  BY DEF ExitStatus
<1>4. ProbeInv => CompleteMeansClean
  BY <1>1, <1>2, <1>3 DEF CompleteMeansClean
<1> QED BY <1>4, ProbeInvariant, PTL

\* However the source is edited, only the pinned content is executed
\* (probe.py:68-119 and 326-338).
THEOREM OnlyPinnedCodeRunsHolds == Spec => []OnlyPinnedCodeRuns
<1>1. ProbeInv => OnlyPinnedCodeRuns
  BY DEF ProbeInv, SnapshotInv, OnlyPinnedCodeRuns
<1> QED BY <1>1, ProbeInvariant, PTL
=============================================================================
