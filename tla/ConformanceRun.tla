---------------------------- MODULE ConformanceRun ---------------------------
(***************************************************************************)
(* scripts/conformance.py: the shared fixtures are run for one language    *)
(* after the other.  Each gets a mock ingest server and a runner, both in   *)
(* process groups of their own; a thread reads the runner's output; a       *)
(* signal's handler takes the main thread over wherever it is and does not  *)
(* return, unless it fails itself.  Every wait of the main thread that has  *)
(* a deadline may end at its deadline.  A line is the sequence of the       *)
(* records on it; on one without a record, or whose first is no JSON,       *)
(* nothing is found and it is <<>>.                                         *)
(***************************************************************************)
EXTENDS Integers, Sequences, FiniteSets

CONSTANTS
  Languages,     \* LANGUAGES, in order
  Fixtures,      \* ids of the fixtures in conformance/fixtures/cases
  Inapplicable,  \* Inapplicable[f]: the languages fixture f declares inapplicable
  Lines,         \* bound: the lines a runner may write
  MaxLines,      \* bound: lines a runner writes
  MaxSignals     \* bound: signals that arrive

ASSUME ConformanceAssumption ==
  /\ Languages \in Seq(STRING)
  /\ Inapplicable \in [Fixtures -> SUBSET {Languages[i] : i \in DOMAIN Languages}]
  /\ \A line \in Lines : line = <<>> \/ {"id", "status"} \subseteq DOMAIN line[1]
  /\ MaxLines \in Nat /\ MaxSignals \in Nat

VARIABLES
  main,        \* where the main thread is
  selected,    \* places in Languages still to run; the lowest is the current one
  work,        \* the temporary directory exists
  active,      \* the processes the signal handler knows of
  mock,        \* the mock server of the current language
  runner,      \* its runner: a process and how it exited
  leftover,    \* a process the runner started in its group
  escaped,     \* one that left the group and holds the output pipe
  builder,     \* go build, a child that is in no group of its own, runs
  written,     \* lines written to the pipe
  read,        \* how many of them the reader thread has appended to log_lines
  reader,      \* the reader thread
  log,         \* history: the lines the language was judged by
  complete,    \* history: the output had ended when it was judged
  problems,    \* the current language has a problem
  raised,      \* an exception that is no Failure passes through run_language
  wasRunning,  \* the mock was up when its end was asked for
  results,     \* a language's result, and whether it was earned (history)
  handler,     \* the signal handler
  signals,     \* signals so far
  exit         \* exit status, or "running"

processes == <<mock, runner, leftover, escaped>>
output    == <<written, read, reader>>
judged    == <<log, complete>>
verdict   == <<judged, problems, raised, wasRunning, results>>
control   == <<handler, signals, exit>>
vars == <<main, selected, work, active, processes, builder, output, verdict, control>>

MockAlive    == mock \in {"started", "announced", "malformed", "serving"}
RunnerAlive  == runner = "running"
GroupAlive   == RunnerAlive \/ leftover = "running"
Failed       == \E i \in DOMAIN results : ~results[i].ok

Init ==
  /\ main = "start" /\ selected = {} /\ work = FALSE /\ active = {}
  /\ mock = "none" /\ runner = "none" /\ leftover = "none" /\ escaped = FALSE
  /\ builder = FALSE
  /\ written = <<>> /\ read = 0 /\ reader = "none"
  /\ log = <<>> /\ complete = FALSE
  /\ problems = FALSE /\ raised = FALSE /\ wasRunning = FALSE /\ results = <<>>
  /\ handler = "idle" /\ signals = 0 /\ exit = "running"

-----------------------------------------------------------------------------
(* The accounting of a language's records.                                 *)

\* parse_records: the lines it finds a record on, the first one.
parse_records(lines) == {i \in DOMAIN lines : lines[i] # <<>>}

\* A record account accepts; a runner cannot excuse itself.
Counts(language, record) ==
  /\ record.id \in Fixtures
  /\ \/ record.status = "passed"
     \/ record.status = "not_applicable" /\ language \in Inapplicable[record.id]

Seen(lines, id) == Cardinality({i \in parse_records(lines) : lines[i][1].id = id})

\* Mutant: duplicates pass.
accountTwice(language, lines) ==
  /\ \A i \in parse_records(lines) : Counts(language, lines[i][1])
  /\ \A id \in Fixtures : Seen(lines, id) >= 1

\* account adds no problem.
account(language, lines) ==
  /\ \A i \in parse_records(lines) : Counts(language, lines[i][1])
  /\ \A id \in Fixtures : Seen(lines, id) <= 1
  /\ \A id \in Fixtures : Seen(lines, id) >= 1

\* What lines must show of a language that passes: one line a fixture whose record
\* counts, and no other line with a record.
Accounted(language, lines) ==
  LET records == {i \in DOMAIN lines : lines[i] # <<>>}
  IN  /\ \A i \in records : Counts(language, lines[i][1])
      /\ \A id \in Fixtures :
           \E i \in records : \A j \in records : lines[j][1].id = id <=> j = i

\* The runner exited with 0, the lines it was judged by account for the fixtures, and so
\* do all lines ever written to its pipe if that had ended by then.
Earned(language) ==
  /\ runner = "exited"
  /\ Accounted(language, log)
  /\ complete => Accounted(language, written)

-----------------------------------------------------------------------------
(* The main thread.  It stands still while the handler runs.  Exceptions    *)
(* from print, from starting a thread and from the files of a language's    *)
(* directory are left out.                                                  *)

Current == CHOOSE i \in selected : \A j \in selected : i <= j

At(place) == main = place /\ handler # "polling" /\ exit = "running"

Leave(status) ==
  /\ main' = "over"
  /\ exit' = status
  /\ work' = FALSE
  /\ UNCHANGED <<handler, signals>>

\* Arguments: a usage error, no runner, or the languages to run, those with a runner or one.
Begin ==
  /\ At("start")
  /\ \/ /\ \E status \in {"1", "2"} : Leave(status)
        /\ UNCHANGED selected
     \/ /\ selected' \in (SUBSET DOMAIN Languages) \ {{}}
        /\ main' = "selected"
        /\ UNCHANGED <<work, control>>
  /\ UNCHANGED <<active, processes, builder, output, verdict>>

\* load_fixtures: no directory or no fixture ends the program before it has a work
\* directory.
LoadFixtures ==
  /\ At("selected")
  /\ \/ Leave("1")
     \/ main' = "made" /\ work' = TRUE /\ UNCHANGED control
  /\ UNCHANGED <<selected, active, processes, builder, output, verdict>>

\* The handlers of the three signals, then build_mock: a prebuilt binary, or go build.
InstallHandlers ==
  /\ At("made")
  /\ main' = "building"
  /\ builder' \in BOOLEAN
  /\ UNCHANGED <<selected, work, active, processes, output, verdict, control>>

\* The build has ended: it failed, or its binary cannot be executed, or the languages run.
BuildMock ==
  /\ At("building")
  /\ \/ main' = "next" /\ UNCHANGED <<work, control>>
     \/ Leave("1")
  /\ builder' = FALSE
  /\ UNCHANGED <<selected, active, processes, output, verdict>>

\* run_language up to the start of the mock, which the handler does not know yet.  Its
\* directory, its files or Popen may fail.  The last reader may still wait for its pipe;
\* nothing asks it any more.
StartMock ==
  /\ At("next") /\ selected # {}
  /\ \/ Leave("1") /\ UNCHANGED <<processes, output, judged, problems, raised, wasRunning>>
     \/ /\ main' = "mock started"
        /\ mock' = "started" /\ runner' = "none" /\ leftover' = "none" /\ escaped' = FALSE
        /\ written' = <<>> /\ read' = 0 /\ reader' = "none"
        /\ log' = <<>> /\ complete' = FALSE
        /\ problems' = FALSE /\ raised' = FALSE /\ wasRunning' = FALSE
        /\ UNCHANGED <<work, control>>
  /\ UNCHANGED <<selected, active, builder, results>>

RegisterMock ==
  /\ At("mock started")
  /\ main' = "readiness"
  /\ active' = active \cup {"mock"}
  /\ UNCHANGED <<selected, work, processes, builder, output, verdict, control>>

\* A Failure: the language has a problem and its mock is stopped.
Fail ==
  /\ main' = "stopping"
  /\ problems' = TRUE
  /\ UNCHANGED <<judged, raised, wasRunning, results>>

\* Any other exception: the mock is still stopped, but the program ends.
Unwind ==
  /\ main' = "stopping"
  /\ raised' = TRUE
  /\ UNCHANGED <<judged, problems, wasRunning, results>>

\* wait_for_readiness reads the record before it asks whether the mock still runs; urlsplit
\* may refuse what a malformed one holds.
AwaitReadiness ==
  /\ At("readiness")
  /\ \/ mock \in {"announced", "serving"} /\ main' = "control" /\ UNCHANGED verdict
     \/ mock = "malformed" /\ Unwind
     \/ Fail
  /\ UNCHANGED <<selected, work, active, processes, builder, output, control>>

\* wait_for_control: the mock may have ended since, or answer with something that is no
\* HTTP.
AwaitControl ==
  /\ At("control")
  /\ \/ mock = "serving" /\ main' = "runner" /\ UNCHANGED verdict
     \/ MockAlive /\ Unwind
     \/ Fail
  /\ UNCHANGED <<selected, work, active, processes, builder, output, control>>

\* run_runner starts the runner, or Popen raises.
StartRunner ==
  /\ At("runner")
  /\ \/ main' = "runner started" /\ runner' = "running" /\ UNCHANGED verdict
     \/ Unwind /\ UNCHANGED runner
  /\ UNCHANGED <<selected, work, active, mock, leftover, escaped, builder, output, control>>

\* The handler knows the runner, and the reader thread starts.
RegisterRunner ==
  /\ At("runner started")
  /\ main' = "waiting"
  /\ active' = active \cup {"runner"}
  /\ reader' = "reading"
  /\ UNCHANGED <<selected, work, processes, builder, written, read, verdict, control>>

\* runner.wait(), then group_alive: SIGTERM to what is left of the group.
RunnerReaped ==
  /\ At("waiting") /\ ~RunnerAlive
  /\ main' = IF leftover = "running" THEN "leftovers" ELSE "joining"
  /\ UNCHANGED <<selected, work, active, processes, builder, output, verdict, control>>

\* Mutant: only SIGTERM.
LeftoversEndPolitely ==
  /\ At("leftovers")
  /\ main' = "joining"
  /\ UNCHANGED <<selected, work, active, processes, builder, output, verdict, control>>

\* The group has ended, or the deadline has passed and SIGKILL ends it.
LeftoversEnd ==
  /\ At("leftovers")
  /\ main' = "joining"
  /\ leftover' = "ended"
  /\ UNCHANGED <<selected, work, active, mock, runner, escaped, builder, output, verdict,
                 control>>

\* Mutant: without a deadline.
JoinForever ==
  /\ At("joining") /\ reader = "done"
  /\ main' = "judging"
  /\ active' = active \ {"runner"}
  /\ UNCHANGED <<selected, work, processes, builder, output, verdict, control>>

\* reader.join: the reader has ended, or six seconds have passed.  They may while a
\* process outside the group holds the pipe, or the program's own output is blocked.
JoinReader ==
  /\ At("joining")
  /\ main' = "judging"
  /\ active' = active \ {"runner"}
  /\ UNCHANGED <<selected, work, processes, builder, output, verdict, control>>

\* The rest of run_language's try block, by the lines read so far.
Judge ==
  /\ At("judging")
  /\ main' = "stopping"
  /\ log' = SubSeq(written, 1, read)
  /\ complete' = (reader = "done")
  /\ problems' = \/ runner # "exited"
                 \/ ~MockAlive
                 \/ ~account(Languages[Current], log')
  /\ UNCHANGED <<selected, work, active, processes, builder, output, raised, wasRunning,
                 results, control>>

\* Mutant: the handler forgets the mock before it has ended.
StopMockForgetting ==
  /\ At("stopping")
  /\ main' = "reaping"
  /\ wasRunning' = MockAlive
  /\ active' = active \ {"mock"}
  /\ UNCHANGED <<selected, work, processes, builder, output, judged, problems, raised,
                 results, control>>

\* The finally block: SIGTERM to the mock ...
StopMock ==
  /\ At("stopping")
  /\ main' = "reaping"
  /\ wasRunning' = MockAlive
  /\ UNCHANGED <<selected, work, active, processes, builder, output, judged, problems,
                 raised, results, control>>

\* ... which ends, or is killed after six seconds.
ReapMock ==
  /\ At("reaping")
  /\ mock' = IF MockAlive THEN "failed" ELSE mock
  /\ problems' = (problems \/ (wasRunning /\ mock' # "exited"))
  /\ active' = active \ {"mock"}
  /\ IF raised
     THEN Leave("1") /\ UNCHANGED <<selected, results>>
     ELSE /\ results' = Append(results,
                                [ok |-> ~problems', earned |-> Earned(Languages[Current])])
          /\ selected' = selected \ {Current}
          /\ main' = "next"
          /\ UNCHANGED <<work, control>>
  /\ UNCHANGED <<runner, leftover, escaped, builder, output, judged, raised, wasRunning>>

Finish ==
  /\ At("next") /\ selected = {}
  /\ Leave(IF Failed THEN "1" ELSE "0")
  /\ UNCHANGED <<selected, active, processes, builder, output, verdict>>

Main ==
  \/ Begin \/ LoadFixtures \/ InstallHandlers \/ BuildMock
  \/ StartMock \/ RegisterMock \/ AwaitReadiness \/ AwaitControl
  \/ StartRunner \/ RegisterRunner \/ RunnerReaped \/ LeftoversEnd \/ JoinReader \/ Judge
  \/ StopMock \/ ReapMock \/ Finish

-----------------------------------------------------------------------------
(* The reader thread, the processes and the signals.                       *)

ReadLine ==
  /\ exit = "running" /\ reader = "reading" /\ read < Len(written)
  /\ read' = read + 1
  /\ UNCHANGED <<main, selected, work, active, processes, builder, written, reader,
                 verdict, control>>

\* sys.stdout.write raises: the thread ends, with the line already kept.
ReaderFails ==
  /\ exit = "running" /\ reader = "reading" /\ read > 0
  /\ reader' = "failed"
  /\ UNCHANGED <<main, selected, work, active, processes, builder, written, read,
                 verdict, control>>

\* The pipe ends when no process holds it.
ReadEnd ==
  /\ exit = "running" /\ reader = "reading" /\ read = Len(written)
  /\ ~GroupAlive /\ ~escaped
  /\ reader' = "done"
  /\ UNCHANGED <<main, selected, work, active, processes, builder, written, read,
                 verdict, control>>

MockGoesOn ==
  /\ exit = "running"
  /\ \/ mock = "started" /\ mock' \in {"announced", "malformed"}
     \/ mock = "announced" /\ mock' = "serving"
  /\ UNCHANGED <<main, selected, work, active, runner, leftover, escaped, builder,
                 output, verdict, control>>

MockEnds ==
  /\ exit = "running" /\ MockAlive
  /\ mock' \in {"exited", "failed"}
  /\ UNCHANGED <<main, selected, work, active, runner, leftover, escaped, builder,
                 output, verdict, control>>

\* The runner, what it left in its group, or what left it writes a line.
RunnerWrites ==
  /\ exit = "running" /\ (GroupAlive \/ escaped) /\ Len(written) < MaxLines
  /\ \E line \in Lines : written' = Append(written, line)
  /\ UNCHANGED <<main, selected, work, active, processes, builder, read, reader, verdict,
                 control>>

RunnerForks ==
  /\ exit = "running" /\ RunnerAlive /\ leftover = "none"
  /\ leftover' = "running"
  /\ UNCHANGED <<main, selected, work, active, mock, runner, escaped, builder, output,
                 verdict, control>>

\* A child leaves the group (setsid) with the pipe.
RunnerEscapes ==
  /\ exit = "running" /\ RunnerAlive
  /\ escaped' = TRUE
  /\ UNCHANGED <<main, selected, work, active, mock, runner, leftover, builder, output,
                 verdict, control>>

EscapedEnds ==
  /\ exit = "running" /\ escaped
  /\ escaped' = FALSE
  /\ UNCHANGED <<main, selected, work, active, mock, runner, leftover, builder, output,
                 verdict, control>>

RunnerEnds ==
  /\ exit = "running" /\ RunnerAlive
  /\ runner' \in {"exited", "failed"}
  /\ UNCHANGED <<main, selected, work, active, mock, leftover, escaped, builder, output,
                 verdict, control>>

LeftoverEnds ==
  /\ exit = "running" /\ leftover = "running"
  /\ leftover' = "ended"
  /\ UNCHANGED <<main, selected, work, active, mock, runner, escaped, builder, output,
                 verdict, control>>

\* A signal kills the program before it has the handlers; one between mkdtemp and them
\* leaves the directory.  interrupted: SIGTERM to the groups of the active processes.  A
\* second signal starts the handler again, inside itself.
Signal ==
  /\ exit = "running" /\ signals < MaxSignals
  /\ IF main \in {"start", "selected", "made"}
     THEN exit' = "killed" /\ UNCHANGED handler
     ELSE handler' = "polling" /\ UNCHANGED exit
  /\ signals' = signals + 1
  /\ UNCHANGED <<main, selected, work, active, processes, builder, output, verdict>>

\* The groups have ended, or the deadline has passed; SIGKILL and os._exit.
HandlerEnds ==
  /\ handler = "polling" /\ exit = "running"
  /\ mock' = IF "mock" \in active /\ MockAlive THEN "failed" ELSE mock
  /\ runner' = IF "runner" \in active /\ RunnerAlive THEN "failed" ELSE runner
  /\ leftover' = IF "runner" \in active /\ leftover = "running" THEN "ended" ELSE leftover
  /\ work' = FALSE
  /\ exit' = "130"
  /\ UNCHANGED <<main, selected, active, escaped, builder, output, verdict, handler,
                 signals>>

\* ps cannot be run: the exception goes through the main thread from where it is.
\* wait_for_control takes an OSError for one of its own, and so may group_alive and
\* signal_target; in run_language's finally block it ends the program at once.
HandlerFails ==
  /\ handler = "polling" /\ exit = "running" /\ active # {}
  /\ handler' = "failed"
  /\ \/ main \in {"control", "leftovers", "stopping", "reaping"}
        /\ UNCHANGED <<main, work, verdict, exit>>
     \/ main \notin {"stopping", "reaping"} /\ Unwind /\ UNCHANGED <<work, exit>>
     \/ /\ main \in {"stopping", "reaping"}
        /\ main' = "over" /\ work' = FALSE /\ exit' = "1"
        /\ UNCHANGED verdict
  /\ UNCHANGED <<selected, active, processes, builder, output, signals>>

Next ==
  \/ Main
  \/ ReadLine \/ ReaderFails \/ ReadEnd
  \/ MockGoesOn \/ MockEnds
  \/ RunnerWrites \/ RunnerForks \/ RunnerEscapes \/ EscapedEnds \/ RunnerEnds \/ LeftoverEnds
  \/ Signal \/ HandlerEnds \/ HandlerFails

Spec == Init /\ [][Next]_vars

\* The main thread and the handler run.  A runner is presumed to end by itself, read or
\* not: runner.wait has no deadline.
Fairness == WF_vars(Main) /\ WF_vars(HandlerEnds) /\ WF_vars(RunnerEnds)

FairSpec == Spec /\ Fairness

-----------------------------------------------------------------------------
(* Properties.                                                             *)

\* conformance.py:8-11: a language is ok only if its runner exited with 0 and the lines it
\* was judged by have exactly one passed or declared not_applicable record for every
\* fixture; these are all the lines ever written to its pipe if the pipe had ended.  The
\* program succeeds only if every language did.  What a process outside the group, or one
\* behind a blocked output, adds later is not accounted for, nor is a second record on a
\* line.
OkMeansAccounted ==
  /\ \A i \in DOMAIN results : results[i].ok => results[i].earned
  /\ exit = "0" => selected = {} /\ results # <<>> /\ ~Failed

\* However the program ends, interrupted or not, no directory, no mock server and no
\* process of a runner's group is left behind, with these exceptions: the directory when a
\* signal comes before the handlers (lines 332-358); go build when one comes while it runs
\* (line 140); a process that is started and not yet known to the handler (lines 283-284
\* and 237-249); and when the handler itself fails (line 181) the runner's group, or in
\* run_language's finally block the mock.
NothingOutlivesTheRun ==
  exit # "running" =>
    /\ work => main = "made" /\ exit = "killed"
    /\ builder => main = "building" /\ exit = "130"
    /\ MockAlive => main = "mock started" \/ (handler = "failed" /\ exit = "1")
    /\ GroupAlive => main = "runner started" \/ (raised /\ signals > 0)

\* No process of a language's groups, deaf to SIGTERM or not, is there when the next one
\* starts (the comment at lines 262-263).
LanguagesAreIsolated == main = "next" => ~MockAlive /\ ~GroupAlive /\ active = {}

\* The program ends, whatever the mock and the runner's children do.
EveryRunEnds == <>(exit # "running")
=============================================================================
