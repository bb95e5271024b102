------------------------- MODULE ConformanceRunProofs -------------------------
(***************************************************************************)
(* Proofs about the conformance run, for any languages, fixtures, runners  *)
(* and number of signals.  RunInvariant is inductive: it says where in the *)
(* main thread each process may be alive, which processes the signal       *)
(* handler knows there, and what the reader thread has read.               *)
(***************************************************************************)
EXTENDS ConformanceRun, FiniteSetTheorems, TLAPS

\* Places of the main thread between two statements that matter to the processes.
WithMock   == {"readiness", "control", "runner", "runner started", "waiting", "leftovers",
               "joining", "judging", "stopping", "reaping"}
WithRunner == {"waiting", "leftovers", "joining"}
Prelude    == {"start", "selected", "made", "building"}
Places     == Prelude \cup WithMock \cup {"next", "mock started", "over"}

Exited  == {"none", "running", "exited", "failed"}
Results == {result \in [ok : BOOLEAN, earned : BOOLEAN] : result.ok => result.earned}

\* The results are a list of earned ones, and the lines read are some of those written.
DataInvariant ==
  /\ main \in Places
  /\ selected \subseteq DOMAIN Languages
  /\ active \subseteq {"mock", "runner"}
  /\ runner \in Exited
  /\ problems \in BOOLEAN
  /\ written \in Seq(Lines)
  /\ read \in 0 .. Len(written)
  /\ results \in Seq(Results)
  /\ signals \in Nat
  /\ handler # "idle" => signals > 0

\* A handler that failed left the runner's group behind.
Unwound == raised /\ signals > 0 /\ main \in {"stopping", "reaping", "over"}

\* A process lives only at these places, and the handler knows it at all but the first,
\* until it fails itself.
ProcessInvariant ==
  /\ MockAlive => \/ main \in {"mock started"} \cup WithMock
                  \/ main = "over" /\ exit = "1" /\ handler = "failed"
  /\ RunnerAlive => main \in {"runner started", "waiting"} \/ Unwound
  /\ leftover = "running" => main \in {"runner started", "waiting", "leftovers"} \/ Unwound
  /\ main \in WithMock => "mock" \in active
  /\ "mock" \in active => main \in WithMock \cup {"over"}
  /\ main \in WithRunner => "runner" \in active
  /\ "runner" \in active => main \in WithRunner \/ Unwound

\* The reader starts with the runner, and is done when no process can write any more; the
\* verdict stands until the language is over.
OutputInvariant ==
  /\ main \in {"mock started", "readiness", "control", "runner", "runner started"} =>
       reader = "none"
  /\ reader = "done" => read = Len(written) /\ ~GroupAlive /\ ~escaped
  /\ complete => reader = "done"
  /\ main \in {"stopping", "reaping"} /\ ~problems /\ ~raised => Earned(Languages[Current])

\* A language is there to be run, or its result; the directory is made once and goes with
\* the program, and success is said of results only.
EndInvariant ==
  /\ main \in Places \ {"start", "next", "over"} => selected # {}
  /\ main = "next" => selected # {} \/ results # <<>>
  /\ main = "over" => exit # "running"
  /\ main \in {"start", "selected"} => ~work
  /\ builder => main = "building"
  /\ NothingOutlivesTheRun
  /\ exit = "0" => selected = {} /\ results # <<>> /\ ~Failed

RunInvariant ==
  /\ DataInvariant
  /\ ProcessInvariant
  /\ OutputInvariant
  /\ EndInvariant

-----------------------------------------------------------------------------
(* What account says of all the lines.                                     *)

\* Lines that account accepts have one record that counts for every fixture, and no
\* other, as the program's header promises.
LEMMA AccountIsSound ==
  ASSUME NEW lines \in Seq(Lines), NEW language, account(language, lines)
  PROVE  Accounted(language, lines)
<1> DEFINE records == parse_records(lines)
           Of(id)  == {i \in records : lines[i][1].id = id}
<1>1. records = {i \in DOMAIN lines : lines[i] # <<>>}
  BY DEF parse_records
<1>2. \A i \in records : Counts(language, lines[i][1])
  BY DEF account
<1>3. ASSUME NEW id \in Fixtures
      PROVE  \E i \in records : \A j \in records : lines[j][1].id = id <=> j = i
  <2>1. IsFiniteSet(Of(id))
    <3>1. Of(id) \subseteq 1 .. Len(lines)
      BY DEF parse_records
    <3>2. IsFiniteSet(1 .. Len(lines))
      BY FS_Interval
    <3>3. QED
      BY <3>1, <3>2, FS_Subset
  <2>2. Cardinality(Of(id)) \in Nat /\ Cardinality(Of(id)) <= 1 /\ Cardinality(Of(id)) >= 1
    <3>1. Cardinality(Of(id)) \in Nat
      BY <2>1, FS_CardinalityType
    <3>2. Cardinality(Of(id)) <= 1 /\ Cardinality(Of(id)) >= 1
      BY DEF account, Seen
    <3>3. QED
      BY <3>1, <3>2
  <2>3. Cardinality(Of(id)) = 1
    BY <2>2
  <2>4. PICK i : Of(id) = {i}
    BY <2>1, <2>3, FS_Singleton
  <2>5. i \in records /\ lines[i][1].id = id
    BY <2>4
  <2>6. \A j \in records : lines[j][1].id = id => j = i
    BY <2>4
  <2>7. QED
    BY <2>5, <2>6
<1>4. QED
  BY <1>1, <1>2, <1>3 DEF Accounted
-----------------------------------------------------------------------------
(* The steps keep the invariant.                                           *)

\* What a language earned is not lost: its runner has ended, and when its output had ended
\* nothing more is written.
LEMMA EarnedStays ==
  ASSUME UNCHANGED <<log, complete, selected>>,
         RunnerAlive \/ runner' = runner,
         ~complete \/ written' = written,
         Earned(Languages[Current])
  PROVE  Earned(Languages[Current])'
<1>1. Current' = Current
  BY DEF Current
<1>2. runner' = "exited" /\ Accounted(Languages[Current], log)'
  BY <1>1 DEF Earned, RunnerAlive
<1>3. complete' => Accounted(Languages[Current], written)'
  BY <1>1 DEF Earned
<1>4. QED
  BY <1>2, <1>3 DEF Earned

\* Nothing runs before the program has read its arguments.
LEMMA InitInvariant == Init => RunInvariant
<1> SUFFICES ASSUME Init PROVE RunInvariant
  OBVIOUS
<1> USE DEF Init, MockAlive, RunnerAlive, GroupAlive, Places, Prelude, WithMock, WithRunner
<1>1. DataInvariant
  <2>1. written \in Seq(Lines) /\ read \in 0 .. Len(written) /\ results \in Seq(Results)
    OBVIOUS
  <2>2. QED
    BY <2>1 DEF DataInvariant, Exited
<1>2. ProcessInvariant /\ OutputInvariant
  BY DEF ProcessInvariant, OutputInvariant
<1>3. EndInvariant
  BY DEF EndInvariant, NothingOutlivesTheRun
<1>4. QED
  BY <1>1, <1>2, <1>3 DEF RunInvariant

\* The program before and after the languages.
LEMMA PreludePreserves ==
  ASSUME RunInvariant, Begin \/ LoadFixtures \/ InstallHandlers \/ BuildMock \/ Finish
  PROVE  RunInvariant'
<1> USE DEF RunInvariant, DataInvariant, MockAlive, RunnerAlive, GroupAlive, Places, Prelude,
            WithMock, WithRunner, At, Leave, processes, output, verdict, judged, control,
            Begin, LoadFixtures, InstallHandlers, BuildMock, Finish
<1>1. DataInvariant'
  OBVIOUS
<1>2. ProcessInvariant'
  BY DEF ProcessInvariant, Unwound
<1>3. OutputInvariant'
  <2>1. main' \in Prelude \cup {"next", "over"} /\ UNCHANGED <<processes, output, judged>>
    OBVIOUS
  <2>2. QED
    BY <2>1 DEF OutputInvariant
<1>4. EndInvariant'
  <2>1. ~MockAlive /\ ~GroupAlive /\ UNCHANGED processes
    BY DEF ProcessInvariant, Unwound
  <2>2. NothingOutlivesTheRun'
    BY <2>1 DEF NothingOutlivesTheRun, EndInvariant
  <2>3. CASE Begin \/ LoadFixtures \/ InstallHandlers \/ BuildMock
    <3>1. CASE Begin
      <4>1. /\ \/ main' = "over" /\ exit' \in {"1", "2"}
               \/ main' = "selected" /\ selected' # {}
            /\ UNCHANGED builder /\ ~work'
            /\ exit' = "0" => exit = "0"
        BY <3>1 DEF EndInvariant
      <4>2. main = "start" /\ exit = "running" /\ ~builder
        BY <3>1 DEF EndInvariant
      <4>3. QED
        BY <2>2, <4>1, <4>2 DEF EndInvariant
    <3>2. CASE LoadFixtures
      BY <2>2, <3>2 DEF EndInvariant
    <3>3. CASE InstallHandlers
      BY <2>2, <3>3 DEF EndInvariant
    <3>4. CASE BuildMock
      BY <2>2, <3>4 DEF EndInvariant
    <3>5. QED
      BY <2>3, <3>1, <3>2, <3>3, <3>4
  <2>4. CASE Finish
    BY <2>2, <2>4 DEF EndInvariant, Failed
  <2>5. QED
    BY <2>3, <2>4
<1>5. QED
  BY <1>1, <1>2, <1>3, <1>4

\* The mock server starts and is made known to the handler.
LEMMA MockPreserves ==
  ASSUME RunInvariant, StartMock \/ RegisterMock \/ AwaitReadiness \/ AwaitControl
  PROVE  RunInvariant'
<1>1. <<>> \in Seq(Lines) /\ 0 \in 0 .. Len(<<>>)
  OBVIOUS
<1> USE DEF RunInvariant, DataInvariant, MockAlive, RunnerAlive, GroupAlive, Places, Prelude,
            WithMock, WithRunner, At, Leave, Fail, Unwind, processes, output, verdict, judged,
            control
<1>2. DataInvariant'
  <2>1. written' \in Seq(Lines) /\ read' \in 0 .. Len(written')
    <3>1. CASE StartMock
      <4>1. \/ written' = <<>> /\ read' = 0
            \/ UNCHANGED <<written, read>>
        BY <3>1 DEF StartMock
      <4>2. QED
        BY <1>1, <4>1
    <3>2. CASE RegisterMock \/ AwaitReadiness \/ AwaitControl
      BY <3>2 DEF RegisterMock, AwaitReadiness, AwaitControl
    <3>3. QED
      BY <3>1, <3>2
  <2>2. QED
    BY <2>1 DEF StartMock, RegisterMock, AwaitReadiness, AwaitControl, Exited
<1>3. ProcessInvariant'
  BY DEF ProcessInvariant, Unwound, StartMock, RegisterMock, AwaitReadiness, AwaitControl
<1>4. OutputInvariant'
  <2>1. CASE StartMock
    <3>1. \/ /\ main' = "over"
             /\ UNCHANGED <<reader, read, written, processes, complete>>
          \/ /\ main' = "mock started" /\ reader' = "none" /\ complete' = FALSE
      BY <2>1 DEF StartMock
    <3>2. CASE main' = "over" /\ UNCHANGED <<reader, read, written, processes, complete>>
      BY <3>2 DEF OutputInvariant
    <3>3. CASE main' = "mock started" /\ reader' = "none" /\ complete' = FALSE
      BY <3>3 DEF OutputInvariant
    <3>4. QED
      BY <3>1, <3>2, <3>3
  <2>2. CASE RegisterMock
    BY <2>2 DEF OutputInvariant, RegisterMock
  <2>3. CASE AwaitReadiness
    BY <2>3 DEF OutputInvariant, AwaitReadiness
  <2>4. CASE AwaitControl
    BY <2>4 DEF OutputInvariant, AwaitControl
  <2>5. QED
    BY <2>1, <2>2, <2>3, <2>4
<1>5. EndInvariant'
  <2>1. CASE StartMock
    <3>1. ~MockAlive /\ ~GroupAlive
      BY <2>1 DEF ProcessInvariant, Unwound, StartMock
    <3>2. QED
      BY <2>1, <3>1 DEF EndInvariant, NothingOutlivesTheRun, Failed, StartMock
  <2>2. CASE RegisterMock \/ AwaitReadiness \/ AwaitControl
    <3>1. /\ exit' = "running" /\ UNCHANGED <<selected, builder, results>>
          /\ main \in {"mock started", "readiness", "control"}
          /\ main' \in {"readiness", "control", "runner", "stopping"}
      BY <2>2 DEF RegisterMock, AwaitReadiness, AwaitControl
    <3>2. QED
      BY <3>1 DEF EndInvariant, NothingOutlivesTheRun
  <2>3. QED
    BY <2>1, <2>2
<1>6. QED
  BY <1>2, <1>3, <1>4, <1>5

\* The runner starts, ends with its group, and its output is awaited.
LEMMA RunnerPreserves ==
  ASSUME RunInvariant,
         StartRunner \/ RegisterRunner \/ RunnerReaped \/ LeftoversEnd \/ JoinReader
  PROVE  RunInvariant'
<1> USE DEF RunInvariant, DataInvariant, MockAlive, RunnerAlive, GroupAlive, Places, Prelude,
            WithMock, WithRunner, At, Unwind, processes, output, verdict, judged, control
<1>1. DataInvariant'
  BY DEF StartRunner, RegisterRunner, RunnerReaped, LeftoversEnd, JoinReader, Exited
<1>2. ProcessInvariant'
  BY DEF ProcessInvariant, Unwound, StartRunner, RegisterRunner, RunnerReaped, LeftoversEnd,
         JoinReader
<1>3. OutputInvariant'
  <2>1. CASE StartRunner
    <3>1. /\ reader = "none" /\ UNCHANGED <<output, complete>>
          /\ main' = "runner started" \/ (main' = "stopping" /\ raised' = TRUE)
      BY <2>1 DEF OutputInvariant, StartRunner
    <3>2. QED
      BY <3>1 DEF OutputInvariant
  <2>2. CASE RegisterRunner
    BY <2>2 DEF OutputInvariant, RegisterRunner
  <2>3. CASE RunnerReaped
    BY <2>3 DEF OutputInvariant, RunnerReaped
  <2>4. CASE LeftoversEnd
    BY <2>4 DEF OutputInvariant, LeftoversEnd
  <2>5. CASE JoinReader
    BY <2>5 DEF OutputInvariant, JoinReader
  <2>6. QED
    BY <2>1, <2>2, <2>3, <2>4, <2>5
<1>4. EndInvariant'
  <2>1. /\ exit' = "running" /\ UNCHANGED <<selected, builder, results>>
        /\ main \in WithMock \ {"stopping", "reaping"} /\ main' \in WithMock
    BY DEF StartRunner, RegisterRunner, RunnerReaped, LeftoversEnd, JoinReader
  <2>2. QED
    BY <2>1 DEF EndInvariant, NothingOutlivesTheRun
<1>5. QED
  BY <1>1, <1>2, <1>3, <1>4

\* The language is judged by the lines read: all of them, when the reader is done.
LEMMA JudgePreserves == ASSUME RunInvariant, Judge PROVE RunInvariant'
<1> USE DEF RunInvariant, DataInvariant, At, control, processes, output
<1>1. /\ main = "judging" /\ main' = "stopping" /\ exit = "running"
      /\ log' = SubSeq(written, 1, read)
      /\ complete' = (reader = "done")
      /\ problems' = \/ runner # "exited"
                     \/ ~MockAlive
                     \/ ~account(Languages[Current], log')
      /\ UNCHANGED <<selected, work, active, processes, builder, output, raised, wasRunning,
                     results, control>>
  BY DEF Judge
<1>2. log' \in Seq(Lines) /\ (read = Len(written) => log' = written)
  <2>1. written \in Seq(Lines) /\ read \in 0 .. Len(written)
    OBVIOUS
  <2>2. QED
    BY <1>1, <2>1
<1>3. ~problems' => Earned(Languages[Current])'
  <2>1. SUFFICES ASSUME ~problems' PROVE Earned(Languages[Current])'
    OBVIOUS
  <2>2. Current' = Current
    BY <1>1 DEF Current
  <2>3. runner' = "exited" /\ Accounted(Languages[Current], log')
    BY <1>1, <1>2, <2>1, AccountIsSound
  <2>4. complete' => log' = written'
    BY <1>1, <1>2 DEF OutputInvariant
  <2>5. QED
    BY <2>2, <2>3, <2>4 DEF Earned
<1>4. DataInvariant'
  BY <1>1 DEF Places, WithMock
<1>5. ProcessInvariant'
  BY <1>1 DEF ProcessInvariant, Unwound, MockAlive, RunnerAlive, Places, WithMock, WithRunner
<1>6. OutputInvariant'
  BY <1>1, <1>3 DEF OutputInvariant, GroupAlive, RunnerAlive
<1>7. EndInvariant'
  BY <1>1 DEF EndInvariant, NothingOutlivesTheRun, Failed, MockAlive, GroupAlive, RunnerAlive,
              Places, Prelude, WithMock
<1>8. QED
  BY <1>4, <1>5, <1>6, <1>7

\* The mock server is asked to end.
LEMMA StopMockPreserves == ASSUME RunInvariant, StopMock PROVE RunInvariant'
<1> USE DEF RunInvariant, DataInvariant, StopMock, At, control, processes, output, judged
<1>1. DataInvariant'
  BY DEF Places, WithMock
<1>2. ProcessInvariant'
  BY DEF ProcessInvariant, Unwound, MockAlive, RunnerAlive, Places, WithMock, WithRunner
<1>3. OutputInvariant'
  BY EarnedStays DEF OutputInvariant, GroupAlive, RunnerAlive
<1>4. EndInvariant'
  BY DEF EndInvariant, NothingOutlivesTheRun, Failed, MockAlive, GroupAlive, RunnerAlive,
         Places, Prelude, WithMock
<1>5. QED
  BY <1>1, <1>2, <1>3, <1>4

\* The mock server has ended: the result of the language, or the end of the program.
LEMMA ReapMockPreserves == ASSUME RunInvariant, ReapMock PROVE RunInvariant'
<1> USE DEF RunInvariant, DataInvariant, At, control, processes, output, judged
<1>1. /\ main = "reaping" /\ exit = "running" /\ selected # {} /\ ~builder
      /\ mock' = IF MockAlive THEN "failed" ELSE mock
      /\ problems' = (problems \/ (wasRunning /\ mock' # "exited"))
      /\ active' = active \ {"mock"}
      /\ UNCHANGED <<runner, leftover, escaped, builder, output, judged, raised, wasRunning>>
  BY DEF ReapMock, EndInvariant, Places, Prelude, WithMock
<1>2. CASE raised
  <2>1. Leave("1") /\ UNCHANGED <<selected, results>>
    BY <1>2 DEF ReapMock
  <2>2. /\ main' = "over" /\ exit' = "1" /\ ~work' /\ ~MockAlive'
        /\ UNCHANGED <<handler, signals>>
    BY <1>1, <2>1 DEF Leave, MockAlive
  <2>3. DataInvariant'
    BY <1>1, <2>1, <2>2 DEF Places
  <2>4. ProcessInvariant'
    BY <1>1, <2>2 DEF ProcessInvariant, Unwound, RunnerAlive, WithMock, WithRunner
  <2>5. OutputInvariant'
    BY <1>1, <2>2 DEF OutputInvariant, GroupAlive, RunnerAlive
  <2>6. GroupAlive' => raised' /\ signals' > 0
    BY <1>1, <2>2 DEF GroupAlive, RunnerAlive, ProcessInvariant, Unwound
  <2>7. EndInvariant'
    BY <1>1, <2>2, <2>6 DEF EndInvariant, NothingOutlivesTheRun
  <2>8. QED
    BY <2>3, <2>4, <2>5, <2>7
<1>3. CASE ~raised
  <2> DEFINE result == [ok |-> ~problems', earned |-> Earned(Languages[Current])]
  <2>1. /\ results' = Append(results, result)
        /\ selected' = selected \ {Current}
        /\ main' = "next"
        /\ UNCHANGED <<work, control>>
    BY <1>3 DEF ReapMock
  <2>2. ~problems' => Earned(Languages[Current])
    BY <1>1, <1>3 DEF OutputInvariant
  <2>3. result \in Results
    <3>1. Earned(Languages[Current]) \in BOOLEAN
      BY DEF Earned
    <3>2. result \in [ok : BOOLEAN, earned : BOOLEAN]
      BY <3>1
    <3>3. result.ok => result.earned
      BY <2>2
    <3>4. QED
      BY <3>2, <3>3 DEF Results
  <2>4. results' \in Seq(Results) /\ results' # <<>>
    BY <2>1, <2>3
  <2>5. DataInvariant'
    BY <1>1, <2>1, <2>4 DEF Places
  <2>6. ~MockAlive' /\ ~GroupAlive'
    BY <1>1, <1>3 DEF MockAlive, GroupAlive, RunnerAlive, ProcessInvariant, Unwound
  <2>7. ProcessInvariant' /\ OutputInvariant'
    BY <1>1, <1>3, <2>1, <2>6
       DEF ProcessInvariant, Unwound, OutputInvariant, MockAlive, RunnerAlive, GroupAlive,
           WithMock, WithRunner
  <2>8. EndInvariant'
    BY <1>1, <2>1, <2>4 DEF EndInvariant, NothingOutlivesTheRun
  <2>9. QED
    BY <2>5, <2>7, <2>8
<1>4. QED
  BY <1>2, <1>3

\* The reader thread takes a line, fails, or meets the end of the output; the runner, or
\* what it started, writes a line.
LEMMA OutputPreserves ==
  ASSUME RunInvariant, ReadLine \/ ReaderFails \/ ReadEnd \/ RunnerWrites
  PROVE  RunInvariant'
<1> USE DEF RunInvariant, control, processes, verdict, judged
<1>1. DataInvariant'
  <2>1. CASE ReadLine \/ ReaderFails \/ ReadEnd
    <3>1. Len(written) \in Nat /\ read \in 0 .. Len(written)
      BY DEF DataInvariant
    <3>2. read' \in 0 .. Len(written) /\ written' = written
      BY <2>1, <3>1 DEF ReadLine, ReaderFails, ReadEnd
    <3>3. QED
      BY <2>1, <3>2 DEF DataInvariant, ReadLine, ReaderFails, ReadEnd
  <2>2. CASE RunnerWrites
    <3>1. PICK line \in Lines : written' = Append(written, line)
      BY <2>2 DEF RunnerWrites
    <3>2. written' \in Seq(Lines) /\ Len(written') = Len(written) + 1
      BY <3>1 DEF DataInvariant
    <3>3. QED
      BY <2>2, <3>2 DEF DataInvariant, RunnerWrites
  <2>3. QED
    BY <2>1, <2>2
<1>2. exit' = "running" /\ UNCHANGED <<main, selected, work, active, builder, results, exit>>
  BY DEF ReadLine, ReaderFails, ReadEnd, RunnerWrites
<1>3. ProcessInvariant'
  BY <1>2 DEF ReadLine, ReaderFails, ReadEnd, RunnerWrites, ProcessInvariant, Unwound,
              MockAlive, RunnerAlive
<1>4. EndInvariant'
  BY <1>2 DEF EndInvariant, NothingOutlivesTheRun
<1>5. OutputInvariant'
  <2>1. Earned(Languages[Current]) => Earned(Languages[Current])'
    <3>1. CASE ReadLine \/ ReaderFails \/ ReadEnd
      BY <3>1, EarnedStays DEF ReadLine, ReaderFails, ReadEnd
    <3>2. CASE RunnerWrites
      <4>1. ~complete
        BY <3>2 DEF RunnerWrites, OutputInvariant
      <4>2. QED
        BY <3>2, <4>1, EarnedStays DEF RunnerWrites
    <3>3. QED
      BY <3>1, <3>2
  <2>2. CASE ReadLine \/ ReaderFails
    <3>1. /\ reader = "reading" /\ reader' # "done"
          /\ UNCHANGED <<main, complete, problems, raised>>
      BY <2>2 DEF ReadLine, ReaderFails
    <3>2. reader = "reading" => main \notin {"mock started", "readiness", "control", "runner",
                                             "runner started"} /\ ~complete
      BY DEF OutputInvariant
    <3>3. QED
      BY <2>1, <3>1, <3>2 DEF OutputInvariant
  <2>3. CASE ReadEnd
    BY <2>1, <2>3 DEF OutputInvariant, ReadEnd, GroupAlive, RunnerAlive
  <2>4. CASE RunnerWrites
    BY <2>1, <2>4 DEF OutputInvariant, RunnerWrites, GroupAlive, RunnerAlive
  <2>5. QED
    BY <2>2, <2>3, <2>4
<1>6. QED
  BY <1>1, <1>3, <1>4, <1>5

\* The mock server goes on or ends; the runner forks, loses a child or ends, and so does
\* what it started.
LEMMA ProcessesPreserve ==
  ASSUME RunInvariant,
         \/ MockGoesOn \/ MockEnds
         \/ RunnerForks \/ RunnerEscapes \/ EscapedEnds \/ RunnerEnds \/ LeftoverEnds
  PROVE  RunInvariant'
<1> USE DEF RunInvariant, control, output, verdict, judged, MockGoesOn, MockEnds, RunnerForks,
            RunnerEscapes, EscapedEnds, RunnerEnds, LeftoverEnds, MockAlive, RunnerAlive
<1>1. DataInvariant'
  BY DEF DataInvariant, Exited
<1>2. ProcessInvariant'
  BY DEF ProcessInvariant, Unwound
<1>3. OutputInvariant'
  <2>1. Earned(Languages[Current]) => Earned(Languages[Current])'
    BY EarnedStays
  <2>2. UNCHANGED <<main, output, complete, problems, raised>>
    OBVIOUS
  <2>3. ~GroupAlive /\ ~escaped => ~GroupAlive' /\ ~escaped'
    BY DEF GroupAlive
  <2>4. QED
    BY <2>1, <2>2, <2>3 DEF OutputInvariant
<1>4. EndInvariant'
  <2>1. exit' = "running" /\ UNCHANGED <<main, selected, work, builder, results>>
    OBVIOUS
  <2>2. QED
    BY <2>1 DEF EndInvariant, NothingOutlivesTheRun
<1>5. QED
  BY <1>1, <1>2, <1>3, <1>4

\* A signal kills the program or starts the handler, wherever the main thread is.
LEMMA SignalPreserves == ASSUME RunInvariant, Signal PROVE RunInvariant'
<1> USE DEF RunInvariant, processes, output, verdict, judged, Signal
<1>1. DataInvariant'
  BY DEF DataInvariant
<1>2. ProcessInvariant'
  <2>1. main # "over" /\ (Unwound => Unwound')
    BY DEF DataInvariant, EndInvariant, Unwound
  <2>2. QED
    BY <2>1 DEF ProcessInvariant, MockAlive, RunnerAlive
<1>3. OutputInvariant'
  BY EarnedStays DEF OutputInvariant, GroupAlive, RunnerAlive
<1>4. EndInvariant'
  <2>1. exit = "running"
    OBVIOUS
  <2>2. main \in {"start", "selected", "made"} => ~MockAlive /\ ~GroupAlive /\ ~builder
    BY DEF ProcessInvariant, EndInvariant, Unwound, MockAlive, GroupAlive, RunnerAlive,
           WithMock
  <2>3. NothingOutlivesTheRun'
    BY <2>1, <2>2 DEF EndInvariant, NothingOutlivesTheRun, MockAlive, GroupAlive, RunnerAlive
  <2>4. QED
    BY <2>3 DEF EndInvariant, Failed
<1>5. QED
  BY <1>1, <1>2, <1>3, <1>4

\* The handler ends the program and the processes it knows.
LEMMA HandlerEndsPreserves == ASSUME RunInvariant, HandlerEnds PROVE RunInvariant'
<1> USE DEF RunInvariant, output, verdict, judged, HandlerEnds, MockAlive, RunnerAlive
<1>1. DataInvariant'
  BY DEF DataInvariant, Exited
<1>2. ProcessInvariant'
  BY DEF ProcessInvariant, Unwound
<1>3. OutputInvariant'
  BY EarnedStays DEF OutputInvariant, GroupAlive
<1>4. EndInvariant'
  <2>1. MockAlive' => main = "mock started"
    BY DEF ProcessInvariant, EndInvariant
  <2>2. GroupAlive' => main = "runner started" \/ (raised /\ signals > 0)
    BY DEF ProcessInvariant, Unwound, GroupAlive, WithRunner
  <2>3. NothingOutlivesTheRun'
    BY <2>1, <2>2 DEF NothingOutlivesTheRun, EndInvariant, GroupAlive
  <2>4. QED
    BY <2>3 DEF EndInvariant, Failed
<1>5. QED
  BY <1>1, <1>2, <1>3, <1>4

\* The handler fails: the main thread goes on, unwinds, or is over.
LEMMA HandlerFailsPreserves == ASSUME RunInvariant, HandlerFails PROVE RunInvariant'
<1> USE DEF RunInvariant, processes, output, judged, Unwind
<1>1. /\ exit = "running" /\ signals > 0 /\ handler' = "failed"
      /\ main \in WithMock /\ selected # {} /\ ~builder
      /\ UNCHANGED <<selected, active, processes, builder, output, judged, problems,
                     wasRunning, results, signals>>
  BY DEF HandlerFails, verdict, DataInvariant, ProcessInvariant, EndInvariant, Places, Prelude,
         WithMock, WithRunner, Unwound
<1>2. CASE UNCHANGED <<main, work, raised, exit>>
  <2>1. DataInvariant'
    BY <1>1, <1>2 DEF DataInvariant
  <2>2. ProcessInvariant'
    BY <1>1, <1>2 DEF ProcessInvariant, Unwound, MockAlive, RunnerAlive
  <2>3. OutputInvariant'
    BY <1>1, <1>2, EarnedStays DEF OutputInvariant, GroupAlive, RunnerAlive
  <2>4. EndInvariant'
    BY <1>1, <1>2 DEF EndInvariant, NothingOutlivesTheRun, Failed
  <2>5. QED
    BY <2>1, <2>2, <2>3, <2>4
<1>3. CASE main' = "stopping" /\ raised' = TRUE /\ UNCHANGED <<work, exit>>
  <2>1. DataInvariant'
    BY <1>1, <1>3 DEF DataInvariant, Places, WithMock
  <2>2. ProcessInvariant'
    BY <1>1, <1>3 DEF ProcessInvariant, Unwound, MockAlive, RunnerAlive, WithMock, WithRunner
  <2>3. OutputInvariant'
    BY <1>1, <1>3 DEF OutputInvariant, GroupAlive, RunnerAlive
  <2>4. EndInvariant'
    BY <1>1, <1>3 DEF EndInvariant, NothingOutlivesTheRun, Failed
  <2>5. QED
    BY <2>1, <2>2, <2>3, <2>4
<1>4. CASE /\ main \in {"stopping", "reaping"}
           /\ main' = "over" /\ work' = FALSE /\ exit' = "1" /\ raised' = raised
  <2>1. DataInvariant'
    BY <1>1, <1>4 DEF DataInvariant, Places
  <2>2. ProcessInvariant'
    BY <1>1, <1>4 DEF ProcessInvariant, Unwound, MockAlive, RunnerAlive, WithMock, WithRunner
  <2>3. OutputInvariant'
    BY <1>1, <1>4 DEF OutputInvariant, GroupAlive, RunnerAlive
  <2>4. GroupAlive' => raised' /\ signals' > 0
    BY <1>1, <1>4 DEF GroupAlive, RunnerAlive, ProcessInvariant, Unwound
  <2>5. EndInvariant'
    BY <1>1, <1>4, <2>4 DEF EndInvariant, NothingOutlivesTheRun
  <2>6. QED
    BY <2>1, <2>2, <2>3, <2>5
<1>5. QED
  BY <1>2, <1>3, <1>4 DEF HandlerFails, verdict

\* The invariant is inductive.
LEMMA StepInvariant == RunInvariant /\ [Next]_vars => RunInvariant'
<1> SUFFICES ASSUME RunInvariant, [Next]_vars PROVE RunInvariant'
  OBVIOUS
<1>1. CASE Main
  BY <1>1, PreludePreserves, MockPreserves, RunnerPreserves, JudgePreserves,
     StopMockPreserves, ReapMockPreserves DEF Main
<1>2. CASE Next /\ ~Main
  BY <1>2, OutputPreserves, ProcessesPreserve, SignalPreserves, HandlerEndsPreserves,
     HandlerFailsPreserves DEF Next
<1>3. CASE UNCHANGED vars
  <2> USE <1>3 DEF vars, processes, output, verdict, judged, control, RunInvariant
  <2>1. DataInvariant'
    BY DEF DataInvariant
  <2>2. ProcessInvariant'
    BY DEF ProcessInvariant, Unwound, MockAlive, RunnerAlive
  <2>3. OutputInvariant'
    BY EarnedStays DEF OutputInvariant, GroupAlive, RunnerAlive
  <2>4. EndInvariant'
    BY DEF EndInvariant, NothingOutlivesTheRun, Failed, MockAlive, RunnerAlive, GroupAlive
  <2>5. QED
    BY <2>1, <2>2, <2>3, <2>4
<1>4. QED
  BY <1>1, <1>2, <1>3

-----------------------------------------------------------------------------
(* Theorems about every run.                                               *)

\* The invariant holds throughout a run of conformance.py, signals included.
THEOREM Invariance == Spec => []RunInvariant
  BY InitInvariant, StepInvariant, PTL DEF Spec

\* "ok" is never said of a language whose runner failed, or whose output, as far as it was
\* read, does not account once for every fixture; when the reader had come to its end, that
\* is all of the output.  Exit status 0 only when every language was ok.
THEOREM OkIsEarned == Spec => []OkMeansAccounted
<1>1. RunInvariant => OkMeansAccounted
  <2> SUFFICES ASSUME RunInvariant PROVE OkMeansAccounted
    OBVIOUS
  <2>1. ASSUME NEW i \in DOMAIN results, results[i].ok
        PROVE  results[i].earned
    <3>1. results[i] \in Results
      BY DEF RunInvariant, DataInvariant
    <3>2. QED
      BY <2>1, <3>1 DEF Results
  <2>2. exit = "0" => selected = {} /\ results # <<>> /\ ~Failed
    BY DEF RunInvariant, EndInvariant
  <2>3. QED
    BY <2>1, <2>2 DEF OkMeansAccounted
<1>2. QED
  BY <1>1, Invariance, PTL

\* However the program ends, the directory is left only by a signal that comes before the
\* handlers are installed, go build only by one that comes while it runs, and a mock server
\* or a process of a runner's group only by an end between its start and the line that
\* makes it known to the handler, or by a handler that fails.
THEOREM NothingIsLeft == Spec => []NothingOutlivesTheRun
<1>1. RunInvariant => NothingOutlivesTheRun
  BY DEF RunInvariant, EndInvariant
<1>2. QED
  BY <1>1, Invariance, PTL

\* The processes of one language have ended, and the handler has forgotten them, before
\* the next one starts.
THEOREM LanguagesDoNotMeet == Spec => []LanguagesAreIsolated
<1>1. RunInvariant => LanguagesAreIsolated
  BY DEF RunInvariant, DataInvariant, ProcessInvariant, Unwound, LanguagesAreIsolated,
         GroupAlive, WithMock, WithRunner
<1>2. QED
  BY <1>1, Invariance, PTL
=============================================================================
