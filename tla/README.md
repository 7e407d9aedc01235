# Sacrysty in TLA+

Sacrysty is a repository of custody and conformance evidence: a small Python
runtime that owns POSIX process groups, an adapter that runs one FIDO custody
worker per unwrap, and a family of scripts that run `sq`/`sqv` probes under
resource bounds and admit their results. This directory holds TLA+ models of
the parts with state, the TLC runs that check them on small instances, and
machine-checked proofs of what holds for every instance. Paths below are
relative to the repository's root, which `PROJECT.json` calls `src/`.

## 1. Inventory

| Component | Code | State | Operations | Hard behaviour |
|---|---|---|---|---|
| Owned process-group cleanup | `sacrysty_runtime/process_groups.py` | the `Popen` handle and its return code, the step of the signal sequence, deadlines; in the kernel: the group's processes, pending kills, the group's number | `terminate_and_reap`, `leader_exited_unreaped` | forks racing signals, EPERM that is not absence, a number that may be reused after the reap, waits racing exits |
| FIDO custody adapter | `adapters/fido_custody.py` | signal mask, handlers, deferred cancellation, worker and its pipes, ownership flag | the constructor, `OneShotCustodyAdapter.unwrap` | signals at every point, also through sibling threads; full pipes in both directions; cleanup, restoration and propagation in a fixed order; fail closed |
| Custody conformance check | `conformance/check-fido-custody.py` | the marker file, a stepwise producer, the worker's program | `main` | markers read while they are written; answers that may depend on the order of reads, exits and deadlines |
| Strict JSON | `sacrysty_runtime/strict_json.py` | none | `decode_strict_json` | duplicate members, non-JSON constants, numbers no float holds, exceptions it does not name |
| Evidence process helper | `conformance/sq_evidence_process.py` | selected process, interruption flag, output and receipt files | `main`, `run_process` in the modes *tool* and *probe* | interruption during cleanup, receipts that must only exist after absence, time-outs, output limits |
| Runner library and runners | `conformance/sq-evidence-lib.sh`, `run-sq.sh`, `run-signing-profile.sh` | active receipt, working directory, traps | run a tool, await and confirm its cleanup, write the runner's receipt | traps between any two commands, nested time budgets |
| Aggregate check | `scripts/check-conformance.sh` | active helper, cancellation marker, result directory | probe, validate, cancel | telling a helper that is starting of a signal; a wait that a signal interrupts |
| Checkers of admission | `conformance/check-domain-model.py`, `check-probe-result.py`, `check-source-inventory.py` | the files they read; a bundle, its frozen copy and its clone | decode, judge, exit status | a hand-written matcher for recursive schemas; Python's `==`; a bundle replaced between check and use |
| Interface probe | `docs/research/fido-worker-interfaces/evidence/probe.py` | sealed copy of `age`, children, captures, reader threads, observations | both phases, the fake plugin, `cleanup_group`, `purge_output`, publication | an alarm at any call, threads against phases, cleanups of one group from several places |
| Synthetic qualification | `qualification/fido-custody/run-synthetic-ci.sh` | staged and published evidence | stage, validate, publish | publication must be all or nothing |
| Genesis validation | `docs/agents/genesis-validation.md` | commits, proofs of record | a documented procedure | a ref that moves between check and use |
| Test programs | `conformance/test-*.py`, `test_support.py` | none of their own | fixed scenarios | none beyond the code they exercise |
| Repository policy | `scripts/check-repository.sh`, `.hooks`, `.github/workflows` | none | linear command lists | none that has state |
| Rust crate | `src/lib.rs` | none | none yet | none |

How they interact: the custody adapter and the evidence helper call
`terminate_and_reap`, with one KILL and with TERM then KILL. The aggregate
check starts an evidence helper in probe mode, which starts a runner in a
session of its own, which starts evidence helpers in tool mode, which start the
tools in further sessions. Helpers and runners talk through files: a helper
leaves a *process-cleanup receipt* when its group is absent, a runner leaves a
*runner-cleanup receipt* when it has consumed its tool's receipt and removed
its working directory, and the aggregate check leaves a *cancellation marker*
for a helper that may not have started. The custody adapter talks to the worker
through three pipes and to the caller through signals and exceptions. The
checkers read what the others wrote; the aggregate admits a probe by the exit
status of `check-probe-result.py`. Both the adapter and the checkers decode
with `decode_strict_json`.

What makes each part correct:

* cleanup: success only for a reaped leader and an absent group; no signal
  after the number was given up; no member left unsignalled; always an end;
* custody: the worker is cleaned up on every path; the caller's signal state is
  handed back; a cancellation is neither lost nor answered with a result; only
  a clean exit yields a result, and the result is the whole answer; adapter and
  worker never wait for each other; always an end;
* custody check: no order of events makes it fail on a machine that keeps its
  times;
* evidence: a receipt exists only if the group below it is absent, at every
  level; an interrupted run leaves no status; working directories go away;
* checkers: only evidence that says what was asked for, in its only reading, is
  admitted;
* probe: observations that call themselves complete rest on two verified phases
  with nothing left of them, and only the pinned binary is executed.

## 2. Modules

| Module | Models | Role |
|---|---|---|
| `PosixGroup` | the kernel's side of one process group | environment, external |
| `ProcessGroups` | `process_groups.py`, one action per system call | EXTENDS `PosixGroup` |
| `OwnedGroupCleanup` | what `terminate_and_reap` promises | abstract specification, implemented by `ProcessGroups` |
| `CustodyAdapter` | `unwrap` under signals | uses the outcomes of `OwnedGroupCleanup` |
| `JsonValues` | JSON texts, the values they decode to, Python's `==` on them | functions, used by the rules and the exchange |
| `StrictJson` | `decode_strict_json`, on abstract texts | recursive functions of a text; what the run of the exchange puts for its decoder |
| `BoundedExchange` | constructor, launcher, `_bounded_communicate`, admission of the answer; the worker's programs | takes the decoder as a constant |
| `PidMarker` | the marker protocol of the custody check | two processes, a file and two pipes |
| `CustodyCheck` | `main` of `check-fido-custody.py` | composes `BoundedExchange` and `PidMarker` |
| `EvidenceProcess` | `main` and `run_process` of `sq_evidence_process.py` | uses the outcomes of `OwnedGroupCleanup` |
| `OwnedRun` | what one evidence helper promises by its files | abstract specification, implemented by `EvidenceProcess`, used by the next two |
| `EvidenceRunner` | `run-sq.sh` / `run-signing-profile.sh` with `sq-evidence-lib.sh` | INSTANCE of `OwnedRun` for the tool helper |
| `Aggregate` | `scripts/check-conformance.sh` | INSTANCE of `OwnedRun` for the probe helper |
| `DomainModel`, `ProbeResult`, `SourceInventory` | the rules of the three checkers | functions over `JsonValues`; `DomainModel`'s audit and matcher are recursive functions |
| `Admission` | the three checkers as programs | EXTENDS these three, and so the decoder |
| `RecordAdmission` | what texts and schemas mean, beside what the checkers make of them | `Admission` with its reference definitions |
| `InterfaceProbe` | `probe.py`, its plugin and its threads | stands alone |
| `ProcessGroupsProofs`, `CustodyAdapterProofs`, `CustodyCheckProofs`, `EvidenceProcessProofs`, `EvidenceRunnerProofs`, `AggregateProofs`, `AdmissionProofs`, `InterfaceProbeProofs` | the theorems about the modules so called | TLAPS; `CustodyCheckProofs` has both the exchange and the check around it |
| `MC...` | values for TLC | one per checked module |

The modules compose along two promises. `ProcessGroups` shows
`OwnedGroupCleanup`; the custody adapter and the evidence helper then need only
its outcomes (cleaned up, failed, lost). `EvidenceProcess` shows `OwnedRun`;
the runner and the aggregate then take each step of a helper from that module's
actions, conjoined with what the parent adds (the helper's startup, a TERM that
kills it there, the marker). `unwrap` is modelled twice, along its two
dimensions: `CustodyAdapter` has the signals and one abstract exchange,
`BoundedExchange` the bytes and one abstract cleanup.

Decoder, audit and matcher recurse over their data. They are recursive
functions (`Decode`, `Audited`, `Matches`, and `Readings` and `Valid` for the
properties), whose domains are the texts considered and the values these decode
to: the proofs know a function by its equation, and TLC evaluates it. `Texts` is
a constant, any set that holds the parts of its members, each finitely deep
(`TextsAssumption`). `BoundedExchange` takes the decoder as constant operators
(`DecodeStrictJson`, `ReadingsOf`), for which the configuration puts `Decode`
and `Readings`; what it assumes of them is what `DecodingIsUnambiguous` proves.

### How state and actions correspond to the code

* **ProcessGroups.** `pc` names the next system call of `terminate_and_reap`
  and its helpers. `Entry` is lines 202-207, `Signal` one pass of
  `_signal_owned_group`, `Grace` and `Expire` the waits, `FailPoll`,
  `FailSend` and `FailReap` the fallback `_fail_after_group_signal_error`,
  `ReapLeader`, `KillPoll`, `KillSend` and `ReapAgain` lines 224-239, `Probe` and
  `Deadline` the loop `_wait_for_group_absence`. The kernel's `Fork`, `Exit`,
  `Buried`, `Escape`, `ReapedElsewhere` and `NumberReused` interleave with all
  of them.
* **CustodyAdapter.** One action per step of `unwrap` between which a signal can
  be handled: `Block` and `SaveMask` are the two effects of line 313, `Install`
  and `Record` lines 328 and 329. A signal is pending for the process, and taken by the main thread
  or a sibling; `Deliver` runs the handler CPython would run at that point.
* **BoundedExchange.** Data is in units, and a pipe holds two of them. `Select`
  is one round of the loop, `FeedStdin` and `Drain` one event of it; `Reported`
  is what `select` says of a pipe whose other end is held by worker or child.
  The worker runs `Program`, the instructions that `WORKER` has for its case.
  `Diagnosis` is the chain of checks behind the decoder, in their order. A
  cleanup closes the pipes whether it succeeds or not, so that a worker which
  survives a failed one runs on: it reads the end of its input, and a write is
  an error that ends it.
* **PidMarker, CustodyCheck.** The producer's truncate and write are separate
  steps, as are the reader's read and its verdict. `CustodyCheck` runs markers,
  limits and one unwrap; `OnTime` is what the check's numbers mean (2 s of
  sleep against a deadline of 0.1 s, and so on), and holds only while `timed`.
* **EvidenceProcess.** `region` is the clause an exception would be caught in,
  `Raise` moves from `try` to `except` to `finally`; receipts and the status
  file are written in two steps (they exist, they are complete). The first
  SIGTERM raises, later ones return, SIGINT always raises.
* **EvidenceRunner.** One action per command of the script. bash runs a trap
  before the next command and never during a foreground one, so `At` disables
  the script while a TERM waits, and `TakeTerm` waits for the helper. The same
  consume/remove/forget sequence serves the main line, the EXIT trap, the ERR
  trap and the TERM trap; `why` says which.
* **Aggregate.** As the runner, with a helper in the background, a `wait` that
  a signal interrupts, a handler that returns, and the EXIT trap.
* **Admission.** `StrictJson` takes a text as the value it spells, with repeated
  members, or as the error in it; `Readings` is the independent notion of what
  such a text may mean, and `Valid` that of what a schema asks for. A schema is audited and matched as in the code,
  keyword by keyword. The actions are a checker's path from the files to the
  exit status; the bundle may be replaced between any two of them.
* **InterfaceProbe.** The main thread's calls, the readers' reads, the plugin's
  stanzas and `age` are separate processes; the alarm raises at the next call
  of the main thread, in whatever `try` that call is. `trace` is what the plugin
  has saved, not what it has done.

`Wrong...` operators are variants of an action as a plausible bug would leave it; no
specification uses them. They are what the properties are tested against.

## 3. Runs

| Run | Question and answer |
|---|---|
| `pg_evidence` | Does TERM, grace, KILL keep the whole contract for a group that forks, with a member that refuses signals, every answer for zombie groups and odd errnos? Yes, and it implements `OwnedGroupCleanup`, of which success-means-absence is a part. |
| `pg_custody` | Does success still mean absence with one KILL, EPERM for zombies, a leader that refuses signals and is collected by another thread? Yes. |
| `custody` | Two signals anywhere, callers with default, ignored, returning, raising and native handlers, a worker reaped elsewhere: is the worker always cleaned up, is a cancellation only propagated after that, with the caller's mask and (unless a handler of the caller's raised meanwhile) its dispositions; and for callers whose handlers return, is the signal state handed back and no cancellation lost or answered with a result? Yes. |
| `custody_raising_handler` | *Violated*: a caller's handler that raises inside the first `pthread_sigmask` leaves both signals blocked. |
| `custody_check` | Can the conformance check fail by an order of reads, writes, exits and deadlines while its times are kept? No. And at any times, for every kind of argument, worker and reply: is only the whole answer admitted, do adapter and worker never wait for each other, does `main` end? Yes. |
| `evidence_process` | Three signals, a marker, a rival helper, time-outs and overflows anywhere: are receipts and statuses only found over an absent group, does SIGTERM kill the helper only where nobody is left whom it has not killed (or its cleanup failed, its ownership was lost, or a second exception cut into the failure path), does the helper end, is `OwnedRun` implemented? Yes. |
| `evidence_late_term` | *Violated*: a first SIGTERM during the cleanup of a failed run abandons it. |
| `runner` | A runner under a helper or started by hand, two tools, TERMs and a KILL anywhere, a file system that refuses: is the runner's receipt only found over a removed directory and an absent tool, is all finalized that can be, does it end? Yes. |
| `runner_term` | *Violated*: a TERM while the helper's interpreter starts leaves the directory and no receipt. |
| `aggregate` | Two probes, two signals anywhere: is no cancellation lost, no helper left behind, no result removed before its proof or kept after it, and passes only an uninterrupted run? Yes. |
| `probe` | Plugins that hang, die or talk out of turn, floods, the alarm at any call, an edited source: do complete observations rest on two verified phases, is only the pinned content run, does the probe end? Yes. |
| `admission` | Small schemas on small records, evidence with one member changed in every way, a bundle replaced at any moment: is only what independent definitions allow admitted, and does a hostile fixture pass only by a refusal? Yes. |

### Bounds, and why they are enough

* `ProcessGroups`: a leader and two further members, one ordinary and one that
  refuses signals: a fork that races a signal needs one child, the question
  whether a denial is absence needs one refusing member, and every condition
  in the code is about the leader or about the group as a whole.
* `CustodyAdapter`: two signals (`MaxSignals`); the second finds the handler in
  its "already deferred" state, which it never leaves. `EvidenceProcess`: three,
  so that one can end the body, one can interrupt the failure path, and one can
  meet the default disposition behind both. Both modules have no other counter.
* `CustodyCheck`: pipes of two units (`PipeSize`), reads and writes of at most
  two (`Chunk`), envelopes of one to five units and output limits of one to
  five: an envelope that fits a pipe, one that fills it twice and more, an
  output one below, at and above its limit. Replies have one damaged, missing,
  repeated or additional member: the checks look at one member at a time.
* `EvidenceRunner`: two tools (one follows another; the runner's state after a
  consumed receipt is that before the first tool), a runner that is asked for a
  receipt and one that is not (`unasked`), and two TERMs (the second is
  answered or ignored inside the first one's handler).
* `Aggregate`: the script's two probes, and two signals.
* `InterfaceProbe`: the program's own two phases and two streams; four
  conversations (a complete one, the same to a plugin called with other
  arguments, one that repeats a stanza, one that is done at once) of at most six stanzas (`Stanzas`), which end anywhere
  once age is gone; one alarm (the program sets one); a source of two blocks that is
  edited to three and back at any time, and a program that caps it at two
  (`AgeCap`), so that the cap is met, passed and passed only between two reads.
* `Admission`: the texts are the files of its jobs and their parts; one file per run, as files are judged one by one: a sound file
  of each kind and every file that differs from it in one place (a value
  replaced, also by an array or an object, which a set lookup cannot hash; a
  member left out, repeated or added); the sound files of the probes are made of
  what the runners print (`ChecksOf`), not of what the checker asks for; schemas of depth two with a
  reference to the root and one to themselves, because the matcher treats each
  level alike; two producers with at most two paths each, which is what "each,
  exactly once" can fail on.

### Fairness

Weak fairness of the program itself: a thread that can run does run, and a
shell executes its next command. Deadlines pass (`Expire`, `Deadline`,
`MarkersLate`): the code compares against a monotonic clock. A process with
SIGKILL pending ends (it is ordinary: no uninterruptible sleep). In `probe` the
main thread alone is fair: its waits all have a bound of their own, which is an
alternative of the waiting step. Nothing is assumed of the worker, the selected
process, the plugin, forks, signals, markers or tools; only the timed half of
`custody_check` lets worker and producer run, since it is about a machine that
is fast enough. In the runner and the aggregate a helper starts and ends, which
is `HelperEnds` of `evidence_process`. `CHECK_DEADLOCK FALSE` because every one
of these programs stops.

## 4. Proofs

Every theorem holds for all values of the constants that its module's named
assumptions allow, where a run has two signals, two tools or pipes of two units.
Every safety property that a passing run checks is proved; what is left to the
runs is liveness, and the last subsection says why. In each module the argument
is the same: an inductive invariant, a conjunction of named parts, is shown to hold initially and to be
kept by every action (one step per action, under it one per part that the action
can disturb), and the properties follow from it.

### Owned process-group cleanup (`ProcessGroupsProofs`)

For every finite or infinite set of members, any steps that end in KILL, any
kernel answers for zombies:

* `TypeCorrect`: the type invariant;
* `SuccessMeansAbsentHolds`: success only with a reaped leader and no live
  member, even if somebody else reaps the leader;
* `KillCoversGroupHolds`: the number is given up only when every ordinary live
  member has SIGKILL pending;
* `AbandonedLeaderIsDoomedHolds`: a call that gives up without a status has
  killed the leader or was refused by it;
* `ForeignUntouchedHolds`, `ImplementsPromise`: unless somebody else reaps the
  leader, no unrelated group is signalled, and every step is one of
  `OwnedGroupCleanup` or a stutter.

Assumptions: `StepsAssumption` (`ProcessGroups`: the steps are a finite list of
TERM and KILL that ends in KILL), `LeaderAssumption`, `ProtectedAssumption`,
`ZombieAssumption` and `FlagsAssumption` (`PosixGroup`: the leader and the
protected processes are members of the universe, a zombie-only group answers
with a non-empty choice of success, EPERM and ESRCH).

The inductive invariant `CleanupInv` is `TypeOK` with three parts: `HandleInv`
(the handle's status and the kernel's state of the leader agree at every place
of the code), `CoverInv` (at every place behind the KILL, or behind the decision
that none was needed, each member that can be signalled has SIGKILL pending,
those forked since included) and `ResultInv` (what each recorded outcome
implies; a leader given up without a status is dead, doomed or protected). The
properties alone are not inductive: that success means absence needs to know at
the last probe that the leader was reaped, and that the KILL covers the group
needs to know at which places it was sent. The last two theorems need one more
invariant, `NumberInv`: without an external reaper the leader pins the group's
number until the handle has reaped it, so no foreign group can have been
struck.

### Custody adapter under signals (`CustodyAdapterProofs`)

`CallerStateRestoredHolds`, `CleanupAlwaysAttemptedHolds`,
`ResultMeansCleanExitHolds`, `CancellationHonouredHolds`: for any set of
callers of the modelled kinds (`CallerAssumption`), with or without sibling
threads (`SiblingAssumption`), and any number of signals (`BoundAssumption`).
`AdapterInv` says at each place of `unwrap` which handlers are the adapter's and
which still the caller's (`HandlerInv`), what the mask is and whether the
caller's is known (`MaskInv`), whether there is a worker and whose it is
(`WorkerInv`), that the cleanup is not left out behind its place
(`CleanupInv`), what it has found (`FoundInv`), and how the call ends
(`OutcomeInv`). `CancellationHonouredHolds` says of every caller that a deferred
signal is propagated only after the cleanup of an owned worker succeeded and
with the caller's mask, and of its dispositions only as much as is true: that
they are the caller's unless one of its own handlers raised within the
operation. Section 5 has the steps by which it is not true without that.
That the state is handed back speaks of the end alone; what has
to be carried through the loops of installation and restoration, where a
handler may raise in the middle, is which handlers are installed and which are
not.

### The exchange (`CustodyCheckProofs`)

`DeliversFaithfullyHolds` and `ExchangeNeverJamsHolds`, of `CustodyCheck`'s
specification, timed or not: for every size of pipe and of read (`PipeSize`,
`Chunk`, positive: `ExchangeAssumption`), every envelope and limit
(`CallsAssumption`: a size is a natural number, a limit an integer), every
expected reply (`RequestAssumption`: the three digests that the adapter
compares), every case of the check's worker, and every decoder that refuses
what is no JSON and decodes a text to its only reading (`DecoderAssumption`; of
`StrictJson`'s this is `DecodingIsUnambiguous` below).

`ExchangeInv` has, beside types of adapter, pipes and worker: `StartInv` (before
the launch nothing has passed), `ProgramInv` (a running worker is at an
instruction of its program, which ends in an exit), `SurvivorInv` (only a
worker whose cleanup failed outlives the exchange, and nobody that holds a pipe
outlives a successful one), `InputInv` (what the worker has read and what is in
the pipe are together the part of the envelope that was written, and stdin is
closed only behind the whole), `OutputInv` (what was written to an output is in
the buffer or in the pipe, and an output is closed only when nobody can write to
it any more), `LimitInv` (a buffer holds at most one unit more than the limit)
and `OutcomeInv` (what is decided at which place; a result is the reply in its
only reading, for this request). The two conservation laws are what the
properties rest on: that the buffer holds everything that was written can only
be said at the end because buffer and pipe made it up all the time. No jam
follows from two of them: a worker stopped in a write holds its outputs, so
none of them was closed, and the full one is reported.

`CheckPassesHolds`: on a machine that keeps its times (`OnTime`, which the
specification states as a condition on its steps) no order of events makes the
check fail, for every `PipeSize` from two and every `Chunk`. With a pipe of one
unit it is false, because the sizes of the case `duplex` are stated in pipes: its
three pads and its reply would then exceed the output limit. Two named
assumptions, which TLC evaluates in the run `custody_check`, hold what the check
takes for granted: `CheckAssumption` (pipes of two units or more, the request
that the answers are for, and the digests of the two plaintexts) and `AnswersAssumption` (of the check's own answers, the decoder
refuses the repeated name and the number that is none, and returns the members
of every other; in the run the decoder is `StrictJson`'s `Decode`).

The invariant is `TimedInv`, on top of `ExchangeInv`, and speaks of one case of
the check at a time. `PlaceInv` says how far the worker can have come in its
script (a sleeper not past its sleep while the deadline has not passed),
`ListensInv` what it has read there, `SaysInv` what it has written, `ChildInv`
what has become of its child, and `CourseInv` what the adapter can be about in
this case: refused calls never start, a stuck worker's pipes stay registered, the
cleanup is entered with the outcome that the case requires, and only the cases
that are judged are. `ScriptOfCase` gives the worker's program, case by case;
`TimedMarkers` says the same of the marker protocol, in which producer and
reader are never more than one record apart. It rests on `ExchangeInv`:
what the adapter has read is bounded by what the worker has written, and a pipe
is only found closed when nobody holds it, so that the place of the worker
decides what the adapter can still see. `AnswerJudged` then compares the required answers with the chain of
checks on each reply.

### Evidence process helper (`EvidenceProcessProofs`)

`ReceiptMeansAbsentHolds`, `StatusMeansReceiptHolds`,
`InterruptedRunCleansUpHolds`, `NeverKilledOverGroupHolds`,
`CleanupIsCertifiedHolds`, and `HelperImplementsOwnedRun`: every step of the
helper is one of `OwnedRun` or a stutter, which is the safety part of
`KeepsPromise`. For any number of signals (`BoundAssumption`), with and without
SIGINT and an external reaper (`FlagAssumption`). `HelperInv` says by which
clause an exception would be caught at each place (`PlaceInv`), which one is
under way and whether a signal is caught (`ErrorInv`), what is known of the
selected process and of its cleanup (`SelectedInv`), whose paths the helper
works on (`ClaimInv`), and what a receipt, a status and a certified cleanup each
rest on (`ReceiptInv`, `StatusInv`, `CertifyInv`). `CountInv` relates the
exception under way to the number of signals that have arrived, and `LeaveInv`
says of everybody whom the failure path leaves behind why: killed, a cleanup
that failed, a lost ownership, or a signal that raised again. A kill in the
finally clause is justified by these two. A receipt is written long after the fact it certifies; the
invariant carries the fact over the places in between, at each of which an
exception may lead to another clause.

### Runner (`EvidenceRunnerProofs`) and aggregate (`AggregateProofs`)

`ReceiptMeansCleanHolds`, `SuccessMeansFinalizedHolds`,
`FinalizedUnlessUnprovenHolds` and the action property
`MaterialOutlivesToolHolds`, for any number of tools and TERMs;
`PassedMeansAdmittedHolds`, `CancellationReachesHelperHolds`,
`LeavesNothingUnexplainedHolds` and the action property
`RemovalOnlyAfterProofHolds`, for any number of probes and signals
(`BoundAssumption` of each module: the bounds are natural numbers). The steps
of a helper are those of `OwnedRun`, so the two rest on what
`HelperImplementsOwnedRun` shows of the real one.

`RunnerInv`: `RunInv` (a receipt proves the tool gone and is consumed at most
once), `ActiveInv` (it is known by name wherever a tool may be left), `TrapInv`
(which trap runs, with which disposition), `MaterialInv` (the directory has its
material only under the name the script knows), `ReceiptInv` and `EndInv`.
`AggregateInv`: `RunInv`, `TrapInv`, `FailureInv` (a run that a signal or a
failure has marked is not continued), `CountInv`, `RemovalInv` (the removal is
permitted only over a proof, and forbidden after a probe only for want of one)
and `EndInv`. In both scripts the same sequence of commands serves the main line
and several traps, and a property of the end holds because of what was known
where the trap cut in.

### Checkers of admission (`AdmissionProofs`)

`EvidenceIsCompleteHolds`, `InventoryIsExactHolds`, `DecodedIsUnambiguousHolds`
and `EnvelopeVerdictIsJustifiedHolds`: for every set of texts, every file,
schema and revision, every dialect, meaning of the patterns and version of the
extensions, every set of producers and every repository that the pinned bundle
may hold. Assumptions: `TextsAssumption` (a text has the shape of JSON and is
finitely deep), `AdmissionAssumption` (the checkers are those there are, the two
bundles differ, the files are among the texts), `RepositoriesAssumption` (a tree
is a finite set of entries). `AdmissionInv`: `PlaceInv` (which checker is where),
`ValueInv` (whatever a checker holds, the decoder made of its file), `BundleInv`
(the bytes whose digest was checked are those that git gets, whatever the file
holds by then) and `VerdictInv` (what an admission rests on, what a verdict on a
record says, and that no exception of the decoder's is a refusal).
`EvidenceIsComplete` compares the checks of an admitted result with `ChecksOf`,
the record that `run-sq.sh:188-196` and `run-signing-profile.sh:120-126` print:
that the sets which `check-probe-result.py` asks for are all of these, with these
outcomes, is a part of the proof.

Two theorems about the functions carry the last two. Induction over data is
written out: a natural number is least in every set of them (`LeastNumber`, from
the library's well-foundedness), so among counterexamples there is one of the
least depth, whose parts are none.

* That the recursive functions have their equations. `Decode` and `Readings`
  recurse to shallower texts: there is a solution up to every depth, any two
  agree, and together they are one (`SolutionExists`). `Audited`, `Matches` and
  `Valid` follow references, and nothing is known to become smaller; but no call
  is negated, so some fixed point exists (`RecursionHasSolution`). What the
  theorems say holds of any.
* `DecodingIsUnambiguous`: a text that is decoded has one reading. The two
  disagree where a name is repeated, and there the hook refuses.
* `AuditIsSound`: of what the audit lets pass, the matcher says what JSON Schema
  says, at each place and of each value of that place. The measure is the number
  of definitions that the audit has not yet gone through on its way (a reference
  leaves one less, because one already on the stack is refused), then the depth
  of the part. That keywords of objects need the type, that a pattern needs a
  string's place and that a reference has no siblings are where each is needed.

The namespace (a partition at the first colon, against a prefix up to a dot) is
compared by positions (`NamespaceAlike`).

What the producers changed is then matched with the entries one to one: each
entry states one blob of its producer, each changed blob is stated, and no two
entries state the same, so that their number is the cardinality of the expected
set (`ExactInventory`, with the library's facts about finite sets).

### Interface probe (`InterfaceProbeProofs`)

`CompleteMeansCleanHolds`, `OnlyPinnedCodeRunsHolds`: for every pinned content,
any edits of the source, every cap and every set of conversations
(`ProbeAssumption`: the caps are natural numbers, the pinned content is one of
the sources, is not empty and fits the cap, and sources are sequences).
`ProbeInv` speaks of the place on whose behalf the main thread acts (`Where`: a
cleanup returns to it): `SnapshotInv` (what is executed was compared
with the pinned content), `PhaseInv`, `CountInv` (the children and captures
that were recorded), `OverInv` and `DrainedInv` (a phase judged good left
nobody, its streams ended and never overflowed), `PremiseInv` (its fixture was
verified), `AlarmInv` (an alarm whose exception was swallowed has spoiled what
the phase is judged by) and `ReportInv`.

### Model-checked only

* Every liveness property (`Terminates`, `UnwrapEnds`, `CheckEnds`,
  `HelperEnds`, `RunnerEnds`, `AggregateEnds`, `ProbeEnds`) and the fairness
  part of `KeepsPromise`: the prover cannot reason about ENABLED.


## 5. Findings

The three violated runs are findings about the code, each with the text it
disagrees with in `PROJECT.json`. One is easily seen outside the model: a
runner whose group gets a TERM some milliseconds after `message.txt` appears
ends after 2.8 s with status 1, its directory kept.

Met while modelling, without a run of their own:

* `fido_custody.py:328-329`: a handler is installed on one line and recorded for
  restoration on the next, and the mask of the main thread does not keep a
  sibling thread from taking signals in between. With SIGINT deferred by the new
  handler, and a handler of the caller's for SIGTERM that raises before line 329,
  lines 414-417 restore nothing, and line 420 propagates the SIGINT with the
  adapter's handler still installed for it. `fido-custody-v1.md:28-29` has it
  "only after successful owned cleanup and caller signal-state restoration". TLC
  finds these steps with the callers `RaisingCaller`, `Siblings` true and two
  signals, for the invariant that a call about to propagate has the caller's
  state back; `CancellationHonoured` therefore asks for the dispositions only
  where no handler of the caller's raised;
* `fido_custody.py:429`: a worker that somebody else reaped passes for one that
  exited with 0, because CPython's `Popen` stores status 0 after ECHILD
  (`ResultMeansCleanExit` asks for a real status only without such a reaper);
  for the same reason `process_groups.py:119-120` cannot be reached;
* `sq_evidence_process.py:540-547`: after an overflow the drain meets the same
  limit and raises again, so the completed cleanup gets no receipt
  (`CleanupIsCertified` without `WithinLimits`); a helper that runs `yes` shows
  it;
* a runner that itself ends with 125 is taken for a failed setup, and its
  receipt is not asked for;
* `fido_custody.py:415` passes `None` to `signal.signal` for a handler that was
  not installed from Python, and raises `TypeError` in the middle of the
  restoration;
* a SIGTERM between the end of the cleanup and the closing of the receipt leaves
  a helper with its group gone and no complete receipt (fails closed);
* a TERM to the runner's group while `mktemp` has made the directory and not
  told its name leaves an empty directory below the probe's private TMPDIR;
* a first signal that arrives while the aggregate's EXIT trap runs ends the trap
  (`outcome = "cut"`);
* `fido_custody.py:139-156`: a cleanup that fails closes the worker's stdin all
  the same; a worker that survives it takes the part of the envelope that it
  was given for the whole (the one exception in `DeliversFaithfully`);
* with an external reaper a lost worker skips the rest of the custody cleanup
  while a deferred cancellation still propagates (`fido_custody.py:396-420`),
  and a group signal can reach a reused number: `process_groups.py:197-198`
  makes both the duty of the handle's owner;
* `check-fido-custody.py:105` and `:1814`: the marker of the case
  `cleanup-denied` is taken for written as soon as it exists, and `int` of an
  empty file would raise inside a `finally`; the second that the denied cleanup
  waits hides it, and `read_complete_pid_marker` is what the other markers use;
* `probe.py`: (a) an alarm between `Popen` and `children.append` (338-339) leaves
  a child that no cleanup knows of, under observations that say clean;
  (b) an alarm in `finally` before `alarm(0)` (603) skips the rest of the
  cleanup and the observations; (c) a failure between `captures.append` and
  `thread.start` (375-377) makes the final `join` raise out of `finally`;
  (d) a repeated `cleanup_group` signals a number whose leader was reaped;
  (e) the event that tells of a cooperative exit comes from a trace that the
  plugin saves before it exits. `CompleteMeansClean` says what remains true
  with (a), (d) and (e);
* `check-probe-result.py:154-155` looks the PQC observation up in a set: an array
  or an object there ends the checker with `TypeError` instead of a refusal;
* admission: `check-probe-result.py` compares with Python's `==`, so `true`
  passes for 1 and 5.0 for 5 where no type is asked for, and an `issue` of 12.0
  passes in the inventory; a schema whose `type` is a list ends the audit with
  `TypeError` instead of the error it has for that; an integer beyond the
  interpreter's digit limit or a text nested too deep leaves the decoder with an
  exception that no caller names (the checkers still end with a failure, the
  adapter with a foreign exception).

## 6. Not modelled, and why

* Synthetic qualification: a linear script whose commands check identities of
  the machine; only its last rename has an order worth a model.
* Genesis validation: a text for a person; it names its own limit (a checkout
  that moves and returns between two observations).
* Repository policy and the Rust placeholder keep no state.
* Test programs: each is a fixed scenario of a modelled component. The checks of
  `check-fido-custody.py` under signals are of this kind; `main`'s other parts
  are modelled, since their answers may depend on the order of events.
* Inside the modelled parts: texts of errors, hashing, printed records, the
  content of traces and of observations other than their verdicts, characters
  of JSON texts, which tools a runner calls with which arguments, and time as a
  number. The nested budgets (0.25 s and two windows of 1.0 s inside 2.75 s
  inside 3.25 s) are therefore stated as a hazard and not checked.
* A number that is reused for another group is modelled in `PosixGroup`; the
  probe takes its children's numbers as unused for its 30 s.

## 7. Plan

1. `NestedCleanup`: an outer helper, a runner and an inner helper over the two
   promises, with time as a number; whether a KILL of the runner can come
   before the inner receipt.
2. `SyntheticPublication` (all or nothing) and `GenesisValidation` (what its
   observations do catch).
3. Proofs: that the outcomes `CustodyAdapter` and `BoundedExchange` give their
   cleanup are those of `OwnedGroupCleanup`; the marker protocol of `PidMarker`
   by itself, without `OnTime`, for every order of its producer's and its
   reader's steps; the theorems of the modules of 1 and 2.
