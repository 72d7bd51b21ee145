------------------------ MODULE EngineManagerProofs ------------------------
(***************************************************************************)
(* One gateway, stops that hold, and a phase that tells the truth, for any *)
(* number of processes, restarts and polls.                                *)
(*                                                                         *)
(* Where the start is says which processes may run that have not been told *)
(* to end: before it looks, the one the manager knows; once it has killed  *)
(* that one, none; while it waits for its own, that one alone.             *)
(***************************************************************************)
EXTENDS EngineManager, TLAPS

Untold == alive \ told
Polls == {"polling", "polled", "sleeping"}
Cleared == {"killing", "preparing", "migrating"}
Holding == {"probing", "probed", "killing"} \cup Polls

ChildKnown == start.at \in Holding => start.child \in Processes

\* The manager's process runs, and so do those whose end is awaited.
ProcRuns == proc # NoProcess => proc \in alive
AwaitedRun == \A w \in Stoppers : stopping[w] # NoProcess => stopping[w] \in alive \cap told

UntoldByPoint ==
  /\ start.at \in Polls => Untold \subseteq {start.child} /\ proc \in {NoProcess, start.child}
  /\ start.at \in Cleared => Untold = {}
  /\ start.at \notin Polls => Untold \subseteq {proc}

\* A stop under way, or in force, leaves only the child of a start to be told.
StopTells ==
  shutdown \/ (\E w \in Stoppers : stopping[w] # NoProcess) =>
    \A c \in Untold : start.at \in Polls /\ c = start.child

\* A good answer counts only while nobody has given the child up.
AnswerCounts ==
  start.at = "polled" /\ start.ok =>
    /\ \A w \in Stoppers : stopping[w] \in {NoProcess, start.child}
    /\ start.child \in Untold => proc = start.child

ShutdownSeen ==
  /\ shutdown => ~timer
  /\ shutdown /\ start.at \in Polls /\ start.child \in Untold => proc # start.child

IInv ==
  /\ TypeOK /\ ChildKnown /\ ProcRuns /\ AwaitedRun
  /\ UntoldByPoint /\ StopTells /\ AnswerCounts /\ ShutdownSeen
  /\ StartingIsUnderWay

USE ProcessAssumption, BoundAssumption
-----------------------------------------------------------------------------
(* The first state. *)

LEMMA NoStartIsStart == NoStart \in Start
  BY DEF NoStart, Start, Points

LEMMA FreshIsStart == Fresh \in Start
<1>1. "recovering" \in Points
  BY DEF Points
<1> QED
  BY <1>1, NoStartIsStart DEF Fresh, Start

LEMMA InitHolds == Init => IInv
<1> SUFFICES ASSUME Init PROVE IInv OBVIOUS
<1>1. TypeOK
  <2>1. 0 \in 0 .. MaxRestarts
    OBVIOUS
  <2> QED
    BY <2>1, NoStartIsStart DEF Init, TypeOK, Phases
<1> USE DEF Init, NoStart, Untold, Polls, Cleared, Holding
<1>2. ChildKnown /\ ProcRuns /\ AwaitedRun
  BY DEF ChildKnown, ProcRuns, AwaitedRun
<1>3. UntoldByPoint /\ StopTells /\ AnswerCounts /\ ShutdownSeen
  BY DEF UntoldByPoint, StopTells, AnswerCounts, ShutdownSeen
<1>4. StartingIsUnderWay
  BY DEF StartingIsUnderWay
<1> QED
  BY <1>1, <1>2, <1>3, <1>4 DEF IInv
-----------------------------------------------------------------------------
(* One lemma per action. *)

LEMMA ThrowKeeps == ASSUME IInv, start.at \in {"probed", "preparing", "migrating"}, StartThrows PROVE IInv'
<1>1. start' \in Start
  BY NoStartIsStart, FreshIsStart DEF IInv, TypeOK, Start, Points, ChildKnown, Holding, Polls, StartThrows
<1> USE DEF IInv, StartThrows, NoStart, Starting, TypeOK, Start, Untold, Polls, Cleared, Holding, Stoppers
<1>2. TypeOK'
  <2>1. attempt' \in 0 .. MaxRestarts
    OBVIOUS
  <2>2. stopping' \in [Stoppers -> Processes \cup {NoProcess}]
    OBVIOUS
  <2>3. phase' \in Phases /\ proc' \in Processes \cup {NoProcess} /\ shutdown' \in BOOLEAN
    BY DEF Phases, ChildKnown
  <2>4. timer' \in BOOLEAN /\ threw' \in BOOLEAN
    OBVIOUS
  <2>5. alive' \subseteq Processes /\ told' \subseteq Processes
    BY DEF ChildKnown
  <2> QED
    BY <1>1, <2>1, <2>2, <2>3, <2>4, <2>5
<1>3. ChildKnown'
  BY DEF ChildKnown
<1>4. ProcRuns'
  BY DEF ProcRuns, ChildKnown
<1>5. AwaitedRun'
  BY DEF AwaitedRun, ProcRuns
<1>6. UntoldByPoint'
  BY DEF UntoldByPoint, ChildKnown, AwaitedRun, AnswerCounts, StopTells, ProcRuns
<1>7. StopTells'
  BY DEF StopTells, UntoldByPoint, AnswerCounts, AwaitedRun, ShutdownSeen, ProcRuns, ChildKnown
<1>8. AnswerCounts'
  BY DEF AnswerCounts, UntoldByPoint, AwaitedRun, StopTells, ChildKnown, ProcRuns
<1>9. ShutdownSeen'
  BY DEF ShutdownSeen, UntoldByPoint, ChildKnown, ProcRuns
<1>10. StartingIsUnderWay'
  BY DEF StartingIsUnderWay
<1> QED
  BY <1>2, <1>3, <1>4, <1>5, <1>6, <1>7, <1>8, <1>9, <1>10

LEMMA RequestStartKeeps == ASSUME IInv, RequestStart PROVE IInv'
<1>1. start' \in Start
  BY NoStartIsStart, FreshIsStart DEF IInv, TypeOK, Start, Points, ChildKnown, Holding, Polls, RequestStart, StartGateway
<1> USE DEF IInv, RequestStart, StartGateway, Fresh, NoStart, Starting, TypeOK, Start, Untold, Polls, Cleared, Holding, Stoppers
<1>2. TypeOK'
  <2>1. attempt' \in 0 .. MaxRestarts
    OBVIOUS
  <2>2. stopping' \in [Stoppers -> Processes \cup {NoProcess}]
    OBVIOUS
  <2>3. phase' \in Phases /\ proc' \in Processes \cup {NoProcess} /\ shutdown' \in BOOLEAN
    BY DEF Phases, ChildKnown
  <2>4. timer' \in BOOLEAN /\ threw' \in BOOLEAN
    OBVIOUS
  <2>5. alive' \subseteq Processes /\ told' \subseteq Processes
    BY DEF ChildKnown
  <2> QED
    BY <1>1, <2>1, <2>2, <2>3, <2>4, <2>5
<1>3. ChildKnown'
  BY DEF ChildKnown
<1>4. ProcRuns'
  BY DEF ProcRuns, ChildKnown
<1>5. AwaitedRun'
  BY DEF AwaitedRun, ProcRuns
<1>6. UntoldByPoint'
  BY DEF UntoldByPoint, ChildKnown, AwaitedRun, AnswerCounts, StopTells, ProcRuns
<1>7. StopTells'
  BY DEF StopTells, UntoldByPoint, AnswerCounts, AwaitedRun, ShutdownSeen, ProcRuns, ChildKnown
<1>8. AnswerCounts'
  BY DEF AnswerCounts, UntoldByPoint, AwaitedRun, StopTells, ChildKnown, ProcRuns
<1>9. ShutdownSeen'
  BY DEF ShutdownSeen, UntoldByPoint, ChildKnown, ProcRuns
<1>10. StartingIsUnderWay'
  BY DEF StartingIsUnderWay
<1> QED
  BY <1>2, <1>3, <1>4, <1>5, <1>6, <1>7, <1>8, <1>9, <1>10

LEMMA RequestStopKeeps == ASSUME NEW w \in Stoppers, IInv, RequestStop(w) PROVE IInv'
<1>1. start' \in Start
  BY NoStartIsStart, FreshIsStart DEF IInv, TypeOK, Start, Points, ChildKnown, Holding, Polls, RequestStop, StopReturns
<1> USE DEF IInv, RequestStop, StopReturns, Fresh, NoStart, Starting, TypeOK, Start, Untold, Polls, Cleared, Holding, Stoppers
<1>2. TypeOK'
  <2>1. attempt' \in 0 .. MaxRestarts
    OBVIOUS
  <2>2. stopping' \in [Stoppers -> Processes \cup {NoProcess}]
    OBVIOUS
  <2>3. phase' \in Phases /\ proc' \in Processes \cup {NoProcess} /\ shutdown' \in BOOLEAN
    BY DEF Phases, ChildKnown
  <2>4. timer' \in BOOLEAN /\ threw' \in BOOLEAN
    OBVIOUS
  <2>5. alive' \subseteq Processes /\ told' \subseteq Processes
    BY DEF ChildKnown
  <2> QED
    BY <1>1, <2>1, <2>2, <2>3, <2>4, <2>5
<1>3. ChildKnown'
  BY DEF ChildKnown
<1>4. ProcRuns'
  BY DEF ProcRuns, ChildKnown
<1>5. AwaitedRun'
  BY DEF AwaitedRun, ProcRuns
<1>6. UntoldByPoint'
  BY DEF UntoldByPoint, ChildKnown, AwaitedRun, AnswerCounts, StopTells, ProcRuns
<1>7. StopTells'
  BY DEF StopTells, UntoldByPoint, AnswerCounts, AwaitedRun, ShutdownSeen, ProcRuns, ChildKnown
<1>8. AnswerCounts'
  BY DEF AnswerCounts, UntoldByPoint, AwaitedRun, StopTells, ChildKnown, ProcRuns
<1>9. ShutdownSeen'
  BY DEF ShutdownSeen, UntoldByPoint, ChildKnown, ProcRuns
<1>10. StartingIsUnderWay'
  BY DEF StartingIsUnderWay
<1> QED
  BY <1>2, <1>3, <1>4, <1>5, <1>6, <1>7, <1>8, <1>9, <1>10

LEMMA SetPhaseKeeps == ASSUME IInv, SetPhase PROVE IInv'
<1>1. start' \in Start
  BY NoStartIsStart, FreshIsStart DEF IInv, TypeOK, Start, Points, ChildKnown, Holding, Polls, SetPhase
<1> USE DEF IInv, SetPhase, NoStart, Starting, TypeOK, Start, Untold, Polls, Cleared, Holding, Stoppers
<1>2. TypeOK'
  <2>1. attempt' \in 0 .. MaxRestarts
    OBVIOUS
  <2>2. stopping' \in [Stoppers -> Processes \cup {NoProcess}]
    OBVIOUS
  <2>3. phase' \in Phases /\ proc' \in Processes \cup {NoProcess} /\ shutdown' \in BOOLEAN
    BY DEF Phases, ChildKnown
  <2>4. timer' \in BOOLEAN /\ threw' \in BOOLEAN
    OBVIOUS
  <2>5. alive' \subseteq Processes /\ told' \subseteq Processes
    BY DEF ChildKnown
  <2> QED
    BY <1>1, <2>1, <2>2, <2>3, <2>4, <2>5
<1>3. ChildKnown'
  BY DEF ChildKnown
<1>4. ProcRuns'
  BY DEF ProcRuns, ChildKnown
<1>5. AwaitedRun'
  BY DEF AwaitedRun, ProcRuns
<1>6. UntoldByPoint'
  BY DEF UntoldByPoint, ChildKnown, AwaitedRun, AnswerCounts, StopTells, ProcRuns
<1>7. StopTells'
  BY DEF StopTells, UntoldByPoint, AnswerCounts, AwaitedRun, ShutdownSeen, ProcRuns, ChildKnown
<1>8. AnswerCounts'
  BY DEF AnswerCounts, UntoldByPoint, AwaitedRun, StopTells, ChildKnown, ProcRuns
<1>9. ShutdownSeen'
  BY DEF ShutdownSeen, UntoldByPoint, ChildKnown, ProcRuns
<1>10. StartingIsUnderWay'
  BY DEF StartingIsUnderWay
<1> QED
  BY <1>2, <1>3, <1>4, <1>5, <1>6, <1>7, <1>8, <1>9, <1>10

LEMMA TimerFiresKeeps == ASSUME IInv, TimerFires PROVE IInv'
<1>1. start' \in Start
  BY NoStartIsStart, FreshIsStart DEF IInv, TypeOK, Start, Points, ChildKnown, Holding, Polls, TimerFires, StartGateway
<1> USE DEF IInv, TimerFires, StartGateway, Fresh, NoStart, Starting, TypeOK, Start, Untold, Polls, Cleared, Holding, Stoppers
<1>2. TypeOK'
  <2>1. attempt' \in 0 .. MaxRestarts
    OBVIOUS
  <2>2. stopping' \in [Stoppers -> Processes \cup {NoProcess}]
    OBVIOUS
  <2>3. phase' \in Phases /\ proc' \in Processes \cup {NoProcess} /\ shutdown' \in BOOLEAN
    BY DEF Phases, ChildKnown
  <2>4. timer' \in BOOLEAN /\ threw' \in BOOLEAN
    OBVIOUS
  <2>5. alive' \subseteq Processes /\ told' \subseteq Processes
    BY DEF ChildKnown
  <2> QED
    BY <1>1, <2>1, <2>2, <2>3, <2>4, <2>5
<1>3. ChildKnown'
  BY DEF ChildKnown
<1>4. ProcRuns'
  BY DEF ProcRuns, ChildKnown
<1>5. AwaitedRun'
  BY DEF AwaitedRun, ProcRuns
<1>6. UntoldByPoint'
  BY DEF UntoldByPoint, ChildKnown, AwaitedRun, AnswerCounts, StopTells, ProcRuns
<1>7. StopTells'
  BY DEF StopTells, UntoldByPoint, AnswerCounts, AwaitedRun, ShutdownSeen, ProcRuns, ChildKnown
<1>8. AnswerCounts'
  BY DEF AnswerCounts, UntoldByPoint, AwaitedRun, StopTells, ChildKnown, ProcRuns
<1>9. ShutdownSeen'
  BY DEF ShutdownSeen, UntoldByPoint, ChildKnown, ProcRuns
<1>10. StartingIsUnderWay'
  BY DEF StartingIsUnderWay
<1> QED
  BY <1>2, <1>3, <1>4, <1>5, <1>6, <1>7, <1>8, <1>9, <1>10

LEMMA RecoveredKeeps == ASSUME IInv, Recovered PROVE IInv'
<1>1. start' \in Start
  BY NoStartIsStart, FreshIsStart DEF IInv, TypeOK, Start, Points, ChildKnown, Holding, Polls, Recovered
<1> USE DEF IInv, Recovered, NoStart, Starting, TypeOK, Start, Untold, Polls, Cleared, Holding, Stoppers
<1>2. TypeOK'
  <2>1. attempt' \in 0 .. MaxRestarts
    OBVIOUS
  <2>2. stopping' \in [Stoppers -> Processes \cup {NoProcess}]
    OBVIOUS
  <2>3. phase' \in Phases /\ proc' \in Processes \cup {NoProcess} /\ shutdown' \in BOOLEAN
    BY DEF Phases, ChildKnown
  <2>4. timer' \in BOOLEAN /\ threw' \in BOOLEAN
    OBVIOUS
  <2>5. alive' \subseteq Processes /\ told' \subseteq Processes
    BY DEF ChildKnown
  <2> QED
    BY <1>1, <2>1, <2>2, <2>3, <2>4, <2>5
<1>3. ChildKnown'
  BY DEF ChildKnown
<1>4. ProcRuns'
  BY DEF ProcRuns, ChildKnown
<1>5. AwaitedRun'
  BY DEF AwaitedRun, ProcRuns
<1>6. UntoldByPoint'
  BY DEF UntoldByPoint, ChildKnown, AwaitedRun, AnswerCounts, StopTells, ProcRuns
<1>7. StopTells'
  BY DEF StopTells, UntoldByPoint, AnswerCounts, AwaitedRun, ShutdownSeen, ProcRuns, ChildKnown
<1>8. AnswerCounts'
  BY DEF AnswerCounts, UntoldByPoint, AwaitedRun, StopTells, ChildKnown, ProcRuns
<1>9. ShutdownSeen'
  BY DEF ShutdownSeen, UntoldByPoint, ChildKnown, ProcRuns
<1>10. StartingIsUnderWay'
  BY DEF StartingIsUnderWay
<1> QED
  BY <1>2, <1>3, <1>4, <1>5, <1>6, <1>7, <1>8, <1>9, <1>10

LEMMA ProbingKeeps == ASSUME IInv, Answers("probing", "probed") PROVE IInv'
<1>1. start' \in Start
  BY NoStartIsStart, FreshIsStart DEF IInv, TypeOK, Start, Points, ChildKnown, Holding, Polls, Answers, Booted
<1> USE DEF IInv, Answers, Booted, NoStart, Starting, TypeOK, Start, Untold, Polls, Cleared, Holding, Stoppers
<1>2. TypeOK'
  <2>1. attempt' \in 0 .. MaxRestarts
    OBVIOUS
  <2>2. stopping' \in [Stoppers -> Processes \cup {NoProcess}]
    OBVIOUS
  <2>3. phase' \in Phases /\ proc' \in Processes \cup {NoProcess} /\ shutdown' \in BOOLEAN
    BY DEF Phases, ChildKnown
  <2>4. timer' \in BOOLEAN /\ threw' \in BOOLEAN
    OBVIOUS
  <2>5. alive' \subseteq Processes /\ told' \subseteq Processes
    BY DEF ChildKnown
  <2> QED
    BY <1>1, <2>1, <2>2, <2>3, <2>4, <2>5
<1>3. ChildKnown'
  BY DEF ChildKnown
<1>4. ProcRuns'
  BY DEF ProcRuns, ChildKnown
<1>5. AwaitedRun'
  BY DEF AwaitedRun, ProcRuns
<1>6. UntoldByPoint'
  BY DEF UntoldByPoint, ChildKnown, AwaitedRun, AnswerCounts, StopTells, ProcRuns
<1>7. StopTells'
  BY DEF StopTells, UntoldByPoint, AnswerCounts, AwaitedRun, ShutdownSeen, ProcRuns, ChildKnown
<1>8. AnswerCounts'
  BY DEF AnswerCounts, UntoldByPoint, AwaitedRun, StopTells, ChildKnown, ProcRuns
<1>9. ShutdownSeen'
  BY DEF ShutdownSeen, UntoldByPoint, ChildKnown, ProcRuns
<1>10. StartingIsUnderWay'
  BY DEF StartingIsUnderWay
<1> QED
  BY <1>2, <1>3, <1>4, <1>5, <1>6, <1>7, <1>8, <1>9, <1>10

LEMMA ProbedKeeps == ASSUME IInv, Probed PROVE IInv'
<1>1. ASSUME start.at = "probed", start.ok, phase' = "running", start' = NoStart,
              UNCHANGED <<told, threw, proc, alive, stopping, shutdown, timer, attempt>>
       PROVE  IInv'
  <2>1. start' \in Start
    BY <1>1, NoStartIsStart, FreshIsStart DEF IInv, TypeOK, Start, Points, ChildKnown, Holding, Polls
  <2> USE DEF IInv, NoStart, Starting, TypeOK, Start, Untold, Polls, Cleared, Holding, Stoppers
  <2>2. TypeOK'
    <3>1. attempt' \in 0 .. MaxRestarts
      BY <1>1
    <3>2. stopping' \in [Stoppers -> Processes \cup {NoProcess}]
      BY <1>1
    <3>3. phase' \in Phases /\ proc' \in Processes \cup {NoProcess} /\ shutdown' \in BOOLEAN
      BY <1>1 DEF Phases, ChildKnown
    <3>4. timer' \in BOOLEAN /\ threw' \in BOOLEAN
      BY <1>1
    <3>5. alive' \subseteq Processes /\ told' \subseteq Processes
      BY <1>1 DEF ChildKnown
    <3> QED
      BY <2>1, <3>1, <3>2, <3>3, <3>4, <3>5
  <2>3. ChildKnown'
    BY <1>1 DEF ChildKnown
  <2>4. ProcRuns'
    BY <1>1 DEF ProcRuns, ChildKnown
  <2>5. AwaitedRun'
    BY <1>1 DEF AwaitedRun, ProcRuns
  <2>6. UntoldByPoint'
    BY <1>1 DEF UntoldByPoint, ChildKnown, AwaitedRun, AnswerCounts, StopTells, ProcRuns
  <2>7. StopTells'
    BY <1>1 DEF StopTells, UntoldByPoint, AnswerCounts, AwaitedRun, ShutdownSeen, ProcRuns, ChildKnown
  <2>8. AnswerCounts'
    BY <1>1 DEF AnswerCounts, UntoldByPoint, AwaitedRun, StopTells, ChildKnown, ProcRuns
  <2>9. ShutdownSeen'
    BY <1>1 DEF ShutdownSeen, UntoldByPoint, ChildKnown, ProcRuns
  <2>10. StartingIsUnderWay'
    BY <1>1 DEF StartingIsUnderWay
  <2> QED
    BY <2>2, <2>3, <2>4, <2>5, <2>6, <2>7, <2>8, <2>9, <2>10
<1>2. ASSUME start.at = "probed", ~start.ok, proc # NoProcess, told' = told \cup {proc},
              start' = [start EXCEPT !.at = "killing", !.child = proc],
              UNCHANGED <<phase, threw, proc, alive, stopping, shutdown, timer, attempt>>
       PROVE  IInv'
  <2>1. start' \in Start
    BY <1>2, NoStartIsStart, FreshIsStart DEF IInv, TypeOK, Start, Points, ChildKnown, Holding, Polls
  <2> USE DEF IInv, NoStart, Starting, TypeOK, Start, Untold, Polls, Cleared, Holding, Stoppers
  <2>2. TypeOK'
    <3>1. attempt' \in 0 .. MaxRestarts
      BY <1>2
    <3>2. stopping' \in [Stoppers -> Processes \cup {NoProcess}]
      BY <1>2
    <3>3. phase' \in Phases /\ proc' \in Processes \cup {NoProcess} /\ shutdown' \in BOOLEAN
      BY <1>2 DEF Phases, ChildKnown
    <3>4. timer' \in BOOLEAN /\ threw' \in BOOLEAN
      BY <1>2
    <3>5. alive' \subseteq Processes /\ told' \subseteq Processes
      BY <1>2 DEF ChildKnown
    <3> QED
      BY <2>1, <3>1, <3>2, <3>3, <3>4, <3>5
  <2>3. ChildKnown'
    BY <1>2 DEF ChildKnown
  <2>4. ProcRuns'
    BY <1>2 DEF ProcRuns, ChildKnown
  <2>5. AwaitedRun'
    BY <1>2 DEF AwaitedRun, ProcRuns
  <2>6. UntoldByPoint'
    BY <1>2 DEF UntoldByPoint, ChildKnown, AwaitedRun, AnswerCounts, StopTells, ProcRuns
  <2>7. StopTells'
    BY <1>2 DEF StopTells, UntoldByPoint, AnswerCounts, AwaitedRun, ShutdownSeen, ProcRuns, ChildKnown
  <2>8. AnswerCounts'
    BY <1>2 DEF AnswerCounts, UntoldByPoint, AwaitedRun, StopTells, ChildKnown, ProcRuns
  <2>9. ShutdownSeen'
    BY <1>2 DEF ShutdownSeen, UntoldByPoint, ChildKnown, ProcRuns
  <2>10. StartingIsUnderWay'
    BY <1>2 DEF StartingIsUnderWay
  <2> QED
    BY <2>2, <2>3, <2>4, <2>5, <2>6, <2>7, <2>8, <2>9, <2>10
<1>3. ASSUME start.at = "probed", StartThrows PROVE IInv'
  BY <1>3, ThrowKeeps
<1> QED
  BY <1>1, <1>2, <1>3 DEF Probed

LEMMA KillTimesOutKeeps == ASSUME IInv, KillTimesOut PROVE IInv'
<1>1. start' \in Start
  BY NoStartIsStart, FreshIsStart DEF IInv, TypeOK, Start, Points, ChildKnown, Holding, Polls, KillTimesOut, GoesTo
<1> USE DEF IInv, KillTimesOut, GoesTo, NoStart, Starting, TypeOK, Start, Untold, Polls, Cleared, Holding, Stoppers
<1>2. TypeOK'
  <2>1. attempt' \in 0 .. MaxRestarts
    OBVIOUS
  <2>2. stopping' \in [Stoppers -> Processes \cup {NoProcess}]
    OBVIOUS
  <2>3. phase' \in Phases /\ proc' \in Processes \cup {NoProcess} /\ shutdown' \in BOOLEAN
    BY DEF Phases, ChildKnown
  <2>4. timer' \in BOOLEAN /\ threw' \in BOOLEAN
    OBVIOUS
  <2>5. alive' \subseteq Processes /\ told' \subseteq Processes
    BY DEF ChildKnown
  <2> QED
    BY <1>1, <2>1, <2>2, <2>3, <2>4, <2>5
<1>3. ChildKnown'
  BY DEF ChildKnown
<1>4. ProcRuns'
  BY DEF ProcRuns, ChildKnown
<1>5. AwaitedRun'
  BY DEF AwaitedRun, ProcRuns
<1>6. UntoldByPoint'
  BY DEF UntoldByPoint, ChildKnown, AwaitedRun, AnswerCounts, StopTells, ProcRuns
<1>7. StopTells'
  BY DEF StopTells, UntoldByPoint, AnswerCounts, AwaitedRun, ShutdownSeen, ProcRuns, ChildKnown
<1>8. AnswerCounts'
  BY DEF AnswerCounts, UntoldByPoint, AwaitedRun, StopTells, ChildKnown, ProcRuns
<1>9. ShutdownSeen'
  BY DEF ShutdownSeen, UntoldByPoint, ChildKnown, ProcRuns
<1>10. StartingIsUnderWay'
  BY DEF StartingIsUnderWay
<1> QED
  BY <1>2, <1>3, <1>4, <1>5, <1>6, <1>7, <1>8, <1>9, <1>10

LEMMA PreparedKeeps == ASSUME IInv, Prepared PROVE IInv'
<1>1. start' \in Start
  BY NoStartIsStart, FreshIsStart DEF IInv, TypeOK, Start, Points, ChildKnown, Holding, Polls, Prepared, GoesTo, StartThrows, StartFindsNothing
<1> USE DEF IInv, Prepared, GoesTo, StartThrows, StartFindsNothing, NoStart, Starting, TypeOK, Start, Untold, Polls, Cleared, Holding, Stoppers
<1>2. TypeOK'
  <2>1. attempt' \in 0 .. MaxRestarts
    OBVIOUS
  <2>2. stopping' \in [Stoppers -> Processes \cup {NoProcess}]
    OBVIOUS
  <2>3. phase' \in Phases /\ proc' \in Processes \cup {NoProcess} /\ shutdown' \in BOOLEAN
    BY DEF Phases, ChildKnown
  <2>4. timer' \in BOOLEAN /\ threw' \in BOOLEAN
    OBVIOUS
  <2>5. alive' \subseteq Processes /\ told' \subseteq Processes
    BY DEF ChildKnown
  <2> QED
    BY <1>1, <2>1, <2>2, <2>3, <2>4, <2>5
<1>3. ChildKnown'
  BY DEF ChildKnown
<1>4. ProcRuns'
  BY DEF ProcRuns, ChildKnown
<1>5. AwaitedRun'
  BY DEF AwaitedRun, ProcRuns
<1>6. UntoldByPoint'
  BY DEF UntoldByPoint, ChildKnown, AwaitedRun, AnswerCounts, StopTells, ProcRuns
<1>7. StopTells'
  BY DEF StopTells, UntoldByPoint, AnswerCounts, AwaitedRun, ShutdownSeen, ProcRuns, ChildKnown
<1>8. AnswerCounts'
  BY DEF AnswerCounts, UntoldByPoint, AwaitedRun, StopTells, ChildKnown, ProcRuns
<1>9. ShutdownSeen'
  BY DEF ShutdownSeen, UntoldByPoint, ChildKnown, ProcRuns
<1>10. StartingIsUnderWay'
  BY DEF StartingIsUnderWay
<1> QED
  BY <1>2, <1>3, <1>4, <1>5, <1>6, <1>7, <1>8, <1>9, <1>10

LEMMA ForkKeeps == ASSUME IInv, Fork PROVE IInv'
<1>1. ASSUME NEW c \in Processes \ alive, start.at = "migrating", shutdown,
              proc' = c, alive' = alive \cup {c}, phase' = "error", start' = NoStart, told' = told \cup {c},
              UNCHANGED <<stopping, shutdown, timer, attempt, threw>>
       PROVE  IInv'
  <2>1. start' \in Start
    BY <1>1, NoStartIsStart, FreshIsStart DEF IInv, TypeOK, Start, Points, ChildKnown, Holding, Polls
  <2> USE DEF IInv, NoStart, Starting, TypeOK, Start, Untold, Polls, Cleared, Holding, Stoppers
  <2>2. TypeOK'
    <3>1. attempt' \in 0 .. MaxRestarts
      BY <1>1
    <3>2. stopping' \in [Stoppers -> Processes \cup {NoProcess}]
      BY <1>1
    <3>3. phase' \in Phases /\ proc' \in Processes \cup {NoProcess} /\ shutdown' \in BOOLEAN
      BY <1>1 DEF Phases, ChildKnown
    <3>4. timer' \in BOOLEAN /\ threw' \in BOOLEAN
      BY <1>1
    <3>5. alive' \subseteq Processes /\ told' \subseteq Processes
      BY <1>1 DEF ChildKnown
    <3> QED
      BY <2>1, <3>1, <3>2, <3>3, <3>4, <3>5
  <2>3. ChildKnown'
    BY <1>1 DEF ChildKnown
  <2>4. ProcRuns'
    BY <1>1 DEF ProcRuns, ChildKnown
  <2>5. AwaitedRun'
    BY <1>1 DEF AwaitedRun, ProcRuns
  <2>6. UntoldByPoint'
    BY <1>1 DEF UntoldByPoint, ChildKnown, AwaitedRun, AnswerCounts, StopTells, ProcRuns
  <2>7. StopTells'
    BY <1>1 DEF StopTells, UntoldByPoint, AnswerCounts, AwaitedRun, ShutdownSeen, ProcRuns, ChildKnown
  <2>8. AnswerCounts'
    BY <1>1 DEF AnswerCounts, UntoldByPoint, AwaitedRun, StopTells, ChildKnown, ProcRuns
  <2>9. ShutdownSeen'
    BY <1>1 DEF ShutdownSeen, UntoldByPoint, ChildKnown, ProcRuns
  <2>10. StartingIsUnderWay'
    BY <1>1 DEF StartingIsUnderWay
  <2> QED
    BY <2>2, <2>3, <2>4, <2>5, <2>6, <2>7, <2>8, <2>9, <2>10
<1>2. ASSUME NEW c \in Processes \ alive, start.at = "migrating", ~shutdown,
              proc' = c, alive' = alive \cup {c}, told' = told \ {c},
              start' = [start EXCEPT !.at = "polling", !.child = c],
              UNCHANGED <<phase, stopping, shutdown, timer, attempt, threw>>
       PROVE  IInv'
  <2>1. start' \in Start
    BY <1>2, NoStartIsStart, FreshIsStart DEF IInv, TypeOK, Start, Points, ChildKnown, Holding, Polls
  <2> USE DEF IInv, NoStart, Starting, TypeOK, Start, Untold, Polls, Cleared, Holding, Stoppers
  <2>2. TypeOK'
    <3>1. attempt' \in 0 .. MaxRestarts
      BY <1>2
    <3>2. stopping' \in [Stoppers -> Processes \cup {NoProcess}]
      BY <1>2
    <3>3. phase' \in Phases /\ proc' \in Processes \cup {NoProcess} /\ shutdown' \in BOOLEAN
      BY <1>2 DEF Phases, ChildKnown
    <3>4. timer' \in BOOLEAN /\ threw' \in BOOLEAN
      BY <1>2
    <3>5. alive' \subseteq Processes /\ told' \subseteq Processes
      BY <1>2 DEF ChildKnown
    <3> QED
      BY <2>1, <3>1, <3>2, <3>3, <3>4, <3>5
  <2>3. ChildKnown'
    BY <1>2 DEF ChildKnown
  <2>4. ProcRuns'
    BY <1>2 DEF ProcRuns, ChildKnown
  <2>5. AwaitedRun'
    BY <1>2 DEF AwaitedRun, ProcRuns
  <2>6. UntoldByPoint'
    BY <1>2 DEF UntoldByPoint, ChildKnown, AwaitedRun, AnswerCounts, StopTells, ProcRuns
  <2>7. StopTells'
    BY <1>2 DEF StopTells, UntoldByPoint, AnswerCounts, AwaitedRun, ShutdownSeen, ProcRuns, ChildKnown
  <2>8. AnswerCounts'
    BY <1>2 DEF AnswerCounts, UntoldByPoint, AwaitedRun, StopTells, ChildKnown, ProcRuns
  <2>9. ShutdownSeen'
    BY <1>2 DEF ShutdownSeen, UntoldByPoint, ChildKnown, ProcRuns
  <2>10. StartingIsUnderWay'
    BY <1>2 DEF StartingIsUnderWay
  <2> QED
    BY <2>2, <2>3, <2>4, <2>5, <2>6, <2>7, <2>8, <2>9, <2>10
<1>3. ASSUME start.at = "migrating", StartThrows PROVE IInv'
  BY <1>3, ThrowKeeps
<1> QED
  BY <1>1, <1>2, <1>3 DEF Fork

LEMMA PollingKeeps == ASSUME IInv, Answers("polling", "polled") PROVE IInv'
<1>1. start' \in Start
  BY NoStartIsStart, FreshIsStart DEF IInv, TypeOK, Start, Points, ChildKnown, Holding, Polls, Answers, Booted
<1> USE DEF IInv, Answers, Booted, NoStart, Starting, TypeOK, Start, Untold, Polls, Cleared, Holding, Stoppers
<1>2. TypeOK'
  <2>1. attempt' \in 0 .. MaxRestarts
    OBVIOUS
  <2>2. stopping' \in [Stoppers -> Processes \cup {NoProcess}]
    OBVIOUS
  <2>3. phase' \in Phases /\ proc' \in Processes \cup {NoProcess} /\ shutdown' \in BOOLEAN
    BY DEF Phases, ChildKnown
  <2>4. timer' \in BOOLEAN /\ threw' \in BOOLEAN
    OBVIOUS
  <2>5. alive' \subseteq Processes /\ told' \subseteq Processes
    BY DEF ChildKnown
  <2> QED
    BY <1>1, <2>1, <2>2, <2>3, <2>4, <2>5
<1>3. ChildKnown'
  BY DEF ChildKnown
<1>4. ProcRuns'
  BY DEF ProcRuns, ChildKnown
<1>5. AwaitedRun'
  BY DEF AwaitedRun, ProcRuns
<1>6. UntoldByPoint'
  BY DEF UntoldByPoint, ChildKnown, AwaitedRun, AnswerCounts, StopTells, ProcRuns
<1>7. StopTells'
  BY DEF StopTells, UntoldByPoint, AnswerCounts, AwaitedRun, ShutdownSeen, ProcRuns, ChildKnown
<1>8. AnswerCounts'
  BY DEF AnswerCounts, UntoldByPoint, AwaitedRun, StopTells, ChildKnown, ProcRuns
<1>9. ShutdownSeen'
  BY DEF ShutdownSeen, UntoldByPoint, ChildKnown, ProcRuns
<1>10. StartingIsUnderWay'
  BY DEF StartingIsUnderWay
<1> QED
  BY <1>2, <1>3, <1>4, <1>5, <1>6, <1>7, <1>8, <1>9, <1>10

LEMMA PolledKeeps == ASSUME IInv, Polled PROVE IInv'
<1>1. ASSUME start.at = "polled", start.ok, phase' = "running", start' = NoStart, attempt' = 0,
              UNCHANGED <<told, proc, alive, stopping, shutdown, timer, threw>>
       PROVE  IInv'
  <2>1. start' \in Start
    BY <1>1, NoStartIsStart, FreshIsStart DEF IInv, TypeOK, Start, Points, ChildKnown, Holding, Polls
  <2> USE DEF IInv, NoStart, Starting, TypeOK, Start, Untold, Polls, Cleared, Holding, Stoppers
  <2>2. TypeOK'
    <3>1. attempt' \in 0 .. MaxRestarts
      BY <1>1
    <3>2. stopping' \in [Stoppers -> Processes \cup {NoProcess}]
      BY <1>1
    <3>3. phase' \in Phases /\ proc' \in Processes \cup {NoProcess} /\ shutdown' \in BOOLEAN
      BY <1>1 DEF Phases, ChildKnown
    <3>4. timer' \in BOOLEAN /\ threw' \in BOOLEAN
      BY <1>1
    <3>5. alive' \subseteq Processes /\ told' \subseteq Processes
      BY <1>1 DEF ChildKnown
    <3> QED
      BY <2>1, <3>1, <3>2, <3>3, <3>4, <3>5
  <2>3. ChildKnown'
    BY <1>1 DEF ChildKnown
  <2>4. ProcRuns'
    BY <1>1 DEF ProcRuns, ChildKnown
  <2>5. AwaitedRun'
    BY <1>1 DEF AwaitedRun, ProcRuns
  <2>6. UntoldByPoint'
    BY <1>1 DEF UntoldByPoint, ChildKnown, AwaitedRun, AnswerCounts, StopTells, ProcRuns
  <2>7. StopTells'
    BY <1>1 DEF StopTells, UntoldByPoint, AnswerCounts, AwaitedRun, ShutdownSeen, ProcRuns, ChildKnown
  <2>8. AnswerCounts'
    BY <1>1 DEF AnswerCounts, UntoldByPoint, AwaitedRun, StopTells, ChildKnown, ProcRuns
  <2>9. ShutdownSeen'
    BY <1>1 DEF ShutdownSeen, UntoldByPoint, ChildKnown, ProcRuns
  <2>10. StartingIsUnderWay'
    BY <1>1 DEF StartingIsUnderWay
  <2> QED
    BY <2>2, <2>3, <2>4, <2>5, <2>6, <2>7, <2>8, <2>9, <2>10
<1>2. ASSUME start.at = "polled", ~start.ok, StartFails,
              UNCHANGED <<proc, alive, stopping, shutdown, timer, attempt, threw>>
       PROVE  IInv'
  <2>1. start' \in Start
    BY <1>2, NoStartIsStart, FreshIsStart DEF IInv, TypeOK, Start, Points, ChildKnown, Holding, Polls, StartFails
  <2> USE DEF IInv, StartFails, NoStart, Starting, TypeOK, Start, Untold, Polls, Cleared, Holding, Stoppers
  <2>2. TypeOK'
    <3>1. attempt' \in 0 .. MaxRestarts
      BY <1>2
    <3>2. stopping' \in [Stoppers -> Processes \cup {NoProcess}]
      BY <1>2
    <3>3. phase' \in Phases /\ proc' \in Processes \cup {NoProcess} /\ shutdown' \in BOOLEAN
      BY <1>2 DEF Phases, ChildKnown
    <3>4. timer' \in BOOLEAN /\ threw' \in BOOLEAN
      BY <1>2
    <3>5. alive' \subseteq Processes /\ told' \subseteq Processes
      BY <1>2 DEF ChildKnown
    <3> QED
      BY <2>1, <3>1, <3>2, <3>3, <3>4, <3>5
  <2>3. ChildKnown'
    BY <1>2 DEF ChildKnown
  <2>4. ProcRuns'
    BY <1>2 DEF ProcRuns, ChildKnown
  <2>5. AwaitedRun'
    BY <1>2 DEF AwaitedRun, ProcRuns
  <2>6. UntoldByPoint'
    BY <1>2 DEF UntoldByPoint, ChildKnown, AwaitedRun, AnswerCounts, StopTells, ProcRuns
  <2>7. StopTells'
    BY <1>2 DEF StopTells, UntoldByPoint, AnswerCounts, AwaitedRun, ShutdownSeen, ProcRuns, ChildKnown
  <2>8. AnswerCounts'
    BY <1>2 DEF AnswerCounts, UntoldByPoint, AwaitedRun, StopTells, ChildKnown, ProcRuns
  <2>9. ShutdownSeen'
    BY <1>2 DEF ShutdownSeen, UntoldByPoint, ChildKnown, ProcRuns
  <2>10. StartingIsUnderWay'
    BY <1>2 DEF StartingIsUnderWay
  <2> QED
    BY <2>2, <2>3, <2>4, <2>5, <2>6, <2>7, <2>8, <2>9, <2>10
<1>3. ASSUME start.at = "polled", ~start.ok, start.polls < BootPolls, phase' = "starting",
              start' = [start EXCEPT !.at = "sleeping", !.polls = @ + 1],
              UNCHANGED <<told, proc, alive, stopping, shutdown, timer, attempt, threw>>
       PROVE  IInv'
  <2>1. start' \in Start
    <3>1. start.polls + 1 \in 0 .. BootPolls
      BY <1>3 DEF IInv, TypeOK, Start
    <3>2. "sleeping" \in Points
      BY DEF Points
    <3> QED
      BY <1>3, <3>1, <3>2 DEF IInv, TypeOK, Start
  <2> USE DEF IInv, NoStart, Starting, TypeOK, Start, Untold, Polls, Cleared, Holding, Stoppers
  <2>2. TypeOK'
    <3>1. attempt' \in 0 .. MaxRestarts
      BY <1>3
    <3>2. stopping' \in [Stoppers -> Processes \cup {NoProcess}]
      BY <1>3
    <3>3. phase' \in Phases /\ proc' \in Processes \cup {NoProcess} /\ shutdown' \in BOOLEAN
      BY <1>3 DEF Phases, ChildKnown
    <3>4. timer' \in BOOLEAN /\ threw' \in BOOLEAN
      BY <1>3
    <3>5. alive' \subseteq Processes /\ told' \subseteq Processes
      BY <1>3 DEF ChildKnown
    <3> QED
      BY <2>1, <3>1, <3>2, <3>3, <3>4, <3>5
  <2>3. ChildKnown'
    BY <1>3 DEF ChildKnown
  <2>4. ProcRuns'
    BY <1>3 DEF ProcRuns, ChildKnown
  <2>5. AwaitedRun'
    BY <1>3 DEF AwaitedRun, ProcRuns
  <2>6. UntoldByPoint'
    BY <1>3 DEF UntoldByPoint, ChildKnown, AwaitedRun, AnswerCounts, StopTells, ProcRuns
  <2>7. StopTells'
    BY <1>3 DEF StopTells, UntoldByPoint, AnswerCounts, AwaitedRun, ShutdownSeen, ProcRuns, ChildKnown
  <2>8. AnswerCounts'
    BY <1>3 DEF AnswerCounts, UntoldByPoint, AwaitedRun, StopTells, ChildKnown, ProcRuns
  <2>9. ShutdownSeen'
    BY <1>3 DEF ShutdownSeen, UntoldByPoint, ChildKnown, ProcRuns
  <2>10. StartingIsUnderWay'
    BY <1>3 DEF StartingIsUnderWay
  <2> QED
    BY <2>2, <2>3, <2>4, <2>5, <2>6, <2>7, <2>8, <2>9, <2>10
<1> QED
  BY <1>1, <1>2, <1>3 DEF Polled

LEMMA LookKeeps == ASSUME IInv, Look PROVE IInv'
<1>1. start' \in Start
  BY NoStartIsStart, FreshIsStart DEF IInv, TypeOK, Start, Points, ChildKnown, Holding, Polls, Look, StartFails, GoesTo
<1> USE DEF IInv, Look, StartFails, GoesTo, NoStart, Starting, TypeOK, Start, Untold, Polls, Cleared, Holding, Stoppers
<1>2. TypeOK'
  <2>1. attempt' \in 0 .. MaxRestarts
    OBVIOUS
  <2>2. stopping' \in [Stoppers -> Processes \cup {NoProcess}]
    OBVIOUS
  <2>3. phase' \in Phases /\ proc' \in Processes \cup {NoProcess} /\ shutdown' \in BOOLEAN
    BY DEF Phases, ChildKnown
  <2>4. timer' \in BOOLEAN /\ threw' \in BOOLEAN
    OBVIOUS
  <2>5. alive' \subseteq Processes /\ told' \subseteq Processes
    BY DEF ChildKnown
  <2> QED
    BY <1>1, <2>1, <2>2, <2>3, <2>4, <2>5
<1>3. ChildKnown'
  BY DEF ChildKnown
<1>4. ProcRuns'
  BY DEF ProcRuns, ChildKnown
<1>5. AwaitedRun'
  BY DEF AwaitedRun, ProcRuns
<1>6. UntoldByPoint'
  BY DEF UntoldByPoint, ChildKnown, AwaitedRun, AnswerCounts, StopTells, ProcRuns
<1>7. StopTells'
  BY DEF StopTells, UntoldByPoint, AnswerCounts, AwaitedRun, ShutdownSeen, ProcRuns, ChildKnown
<1>8. AnswerCounts'
  BY DEF AnswerCounts, UntoldByPoint, AwaitedRun, StopTells, ChildKnown, ProcRuns
<1>9. ShutdownSeen'
  BY DEF ShutdownSeen, UntoldByPoint, ChildKnown, ProcRuns
<1>10. StartingIsUnderWay'
  BY DEF StartingIsUnderWay
<1> QED
  BY <1>2, <1>3, <1>4, <1>5, <1>6, <1>7, <1>8, <1>9, <1>10

LEMMA StopTimesOutKeeps == ASSUME NEW w \in Stoppers, IInv, StopTimesOut(w) PROVE IInv'
<1>1. start' \in Start
  BY NoStartIsStart, FreshIsStart DEF IInv, TypeOK, Start, Points, ChildKnown, Holding, Polls, StopTimesOut, StopReturns
<1> USE DEF IInv, StopTimesOut, StopReturns, Fresh, NoStart, Starting, TypeOK, Start, Untold, Polls, Cleared, Holding, Stoppers
<1>2. TypeOK'
  <2>1. attempt' \in 0 .. MaxRestarts
    OBVIOUS
  <2>2. stopping' \in [Stoppers -> Processes \cup {NoProcess}]
    OBVIOUS
  <2>3. phase' \in Phases /\ proc' \in Processes \cup {NoProcess} /\ shutdown' \in BOOLEAN
    BY DEF Phases, ChildKnown
  <2>4. timer' \in BOOLEAN /\ threw' \in BOOLEAN
    OBVIOUS
  <2>5. alive' \subseteq Processes /\ told' \subseteq Processes
    BY DEF ChildKnown
  <2> QED
    BY <1>1, <2>1, <2>2, <2>3, <2>4, <2>5
<1>3. ChildKnown'
  BY DEF ChildKnown
<1>4. ProcRuns'
  BY DEF ProcRuns, ChildKnown
<1>5. AwaitedRun'
  BY DEF AwaitedRun, ProcRuns
<1>6. UntoldByPoint'
  BY DEF UntoldByPoint, ChildKnown, AwaitedRun, AnswerCounts, StopTells, ProcRuns
<1>7. StopTells'
  BY DEF StopTells, UntoldByPoint, AnswerCounts, AwaitedRun, ShutdownSeen, ProcRuns, ChildKnown
<1>8. AnswerCounts'
  BY DEF AnswerCounts, UntoldByPoint, AwaitedRun, StopTells, ChildKnown, ProcRuns
<1>9. ShutdownSeen'
  BY DEF ShutdownSeen, UntoldByPoint, ChildKnown, ProcRuns
<1>10. StartingIsUnderWay'
  BY DEF StartingIsUnderWay
<1> QED
  BY <1>2, <1>3, <1>4, <1>5, <1>6, <1>7, <1>8, <1>9, <1>10

LEMMA ToldExitsKeeps == ASSUME NEW c \in Processes, IInv, ToldExits(c) PROVE IInv'
<1>1. start' \in Start
  BY NoStartIsStart, FreshIsStart DEF IInv, TypeOK, Start, Points, ChildKnown, Holding, Polls, ToldExits, StopReturns
<1> USE DEF IInv, ToldExits, StopReturns, Fresh, NoStart, Starting, TypeOK, Start, Untold, Polls, Cleared, Holding, Stoppers
<1>2. TypeOK'
  <2>1. attempt' \in 0 .. MaxRestarts
    OBVIOUS
  <2>2. stopping' \in [Stoppers -> Processes \cup {NoProcess}]
    OBVIOUS
  <2>3. phase' \in Phases /\ proc' \in Processes \cup {NoProcess} /\ shutdown' \in BOOLEAN
    BY DEF Phases, ChildKnown
  <2>4. timer' \in BOOLEAN /\ threw' \in BOOLEAN
    OBVIOUS
  <2>5. alive' \subseteq Processes /\ told' \subseteq Processes
    BY DEF ChildKnown
  <2> QED
    BY <1>1, <2>1, <2>2, <2>3, <2>4, <2>5
<1>3. ChildKnown'
  BY DEF ChildKnown
<1>4. ProcRuns'
  BY DEF ProcRuns, ChildKnown
<1>5. AwaitedRun'
  BY DEF AwaitedRun, ProcRuns
<1>6. UntoldByPoint'
  BY DEF UntoldByPoint, ChildKnown, AwaitedRun, AnswerCounts, StopTells, ProcRuns
<1>7. StopTells'
  BY DEF StopTells, UntoldByPoint, AnswerCounts, AwaitedRun, ShutdownSeen, ProcRuns, ChildKnown
<1>8. AnswerCounts'
  BY DEF AnswerCounts, UntoldByPoint, AwaitedRun, StopTells, ChildKnown, ProcRuns
<1>9. ShutdownSeen'
  BY DEF ShutdownSeen, UntoldByPoint, ChildKnown, ProcRuns
<1>10. StartingIsUnderWay'
  BY DEF StartingIsUnderWay
<1> QED
  BY <1>2, <1>3, <1>4, <1>5, <1>6, <1>7, <1>8, <1>9, <1>10

LEMMA CrashExitsKeeps == ASSUME NEW c \in Processes, IInv, CrashExits(c) PROVE IInv'
<1>1. start' \in Start
  BY NoStartIsStart, FreshIsStart DEF IInv, TypeOK, Start, Points, ChildKnown, Holding, Polls, CrashExits, ScheduleRestart
<1> USE DEF IInv, CrashExits, ScheduleRestart, NoStart, Starting, TypeOK, Start, Untold, Polls, Cleared, Holding, Stoppers
<1>2. TypeOK'
  <2>1. attempt' \in 0 .. MaxRestarts
    OBVIOUS
  <2>2. stopping' \in [Stoppers -> Processes \cup {NoProcess}]
    OBVIOUS
  <2>3. phase' \in Phases /\ proc' \in Processes \cup {NoProcess} /\ shutdown' \in BOOLEAN
    BY DEF Phases, ChildKnown
  <2>4. timer' \in BOOLEAN /\ threw' \in BOOLEAN
    OBVIOUS
  <2>5. alive' \subseteq Processes /\ told' \subseteq Processes
    BY DEF ChildKnown
  <2> QED
    BY <1>1, <2>1, <2>2, <2>3, <2>4, <2>5
<1>3. ChildKnown'
  BY DEF ChildKnown
<1>4. ProcRuns'
  BY DEF ProcRuns, ChildKnown
<1>5. AwaitedRun'
  BY DEF AwaitedRun, ProcRuns
<1>6. UntoldByPoint'
  BY DEF UntoldByPoint, ChildKnown, AwaitedRun, AnswerCounts, StopTells, ProcRuns
<1>7. StopTells'
  BY DEF StopTells, UntoldByPoint, AnswerCounts, AwaitedRun, ShutdownSeen, ProcRuns, ChildKnown
<1>8. AnswerCounts'
  BY DEF AnswerCounts, UntoldByPoint, AwaitedRun, StopTells, ChildKnown, ProcRuns
<1>9. ShutdownSeen'
  BY DEF ShutdownSeen, UntoldByPoint, ChildKnown, ProcRuns
<1>10. StartingIsUnderWay'
  BY DEF StartingIsUnderWay
<1> QED
  BY <1>2, <1>3, <1>4, <1>5, <1>6, <1>7, <1>8, <1>9, <1>10
-----------------------------------------------------------------------------
(* The invariant of the specification, and what follows from it. *)

LEMMA StepKeeps == IInv /\ [Next]_vars => IInv'
<1> SUFFICES ASSUME IInv, [Next]_vars PROVE IInv'
  OBVIOUS
<1>1. ASSUME RequestStart \/ SetPhase \/ TimerFires PROVE IInv'
  BY <1>1, RequestStartKeeps, SetPhaseKeeps, TimerFiresKeeps
<1>2. ASSUME StartStep PROVE IInv'
  BY <1>2, RecoveredKeeps, ProbingKeeps, ProbedKeeps, KillTimesOutKeeps, PreparedKeeps, ForkKeeps,
     PollingKeeps, PolledKeeps, LookKeeps DEF StartStep
<1>3. ASSUME NEW w \in Stoppers, RequestStop(w) \/ StopTimesOut(w) PROVE IInv'
  BY <1>3, RequestStopKeeps, StopTimesOutKeeps
<1>4. ASSUME NEW c \in Processes, ToldExits(c) \/ CrashExits(c) PROVE IInv'
  BY <1>4, ToldExitsKeeps, CrashExitsKeeps
<1>5. CASE UNCHANGED vars
  BY <1>5 DEF vars, IInv, TypeOK, ChildKnown, ProcRuns, AwaitedRun, UntoldByPoint, StopTells,
     AnswerCounts, ShutdownSeen, StartingIsUnderWay, Untold, Starting
<1> QED
  BY <1>1, <1>2, <1>3, <1>4, <1>5 DEF Next

\* Where the start of the gateway is says which processes may run untold, in every
\* state of startGateway, stopGateway and the exit handler.
THEOREM GatewayInvariant == Spec => []IInv
<1>1. Init => IInv
  BY InitHolds
<1>2. IInv /\ [Next]_vars => IInv'
  BY StepKeeps
<1> QED
  BY <1>1, <1>2, PTL DEF Spec

\* The manager's fields keep their types: the attempts stay within the limit that
\* scheduleGatewayRestart tests, the polls within those of the boot timeout.
THEOREM GatewayTypes == Spec => []TypeOK
<1>1. IInv => TypeOK
  BY DEF IInv
<1> QED
  BY <1>1, GatewayInvariant, PTL

\* However often the gateway crashes, is stopped or outlives its kill, at most one
\* process that has not been killed runs, and doStartGateway or the manager has it.
THEOREM GatewayIsOne == Spec => []OneGateway
<1>1. IInv => OneGateway
  BY DEF IInv, UntoldByPoint, Untold, Polls, OneGateway
<1> QED
  BY <1>1, GatewayInvariant, PTL

\* A stopGateway that is over leaves no gateway and no scheduled restart, although
\* a start was under way when it was called.
THEOREM GatewayStopHolds == Spec => []StopHolds
<1>1. IInv => StopHolds
  BY DEF IInv, StopTells, ShutdownSeen, Untold, Polls, Starting, StopHolds
<1> QED
  BY <1>1, GatewayInvariant, PTL

\* The phase is "starting" only while startGatewayPromise is there, or after an
\* exception has ended it.
THEOREM GatewayStarting == Spec => []StartingIsUnderWay
<1>1. IInv => StartingIsUnderWay
  BY DEF IInv
<1> QED
  BY <1>1, GatewayInvariant, PTL
=============================================================================
