--------------------------- MODULE EngineManager ---------------------------
(***************************************************************************)
(* OpenClawEngineManager: the gateway process that the desktop starts,     *)
(* watches, stops and starts again.                                        *)
(*                                                                         *)
(* startGateway is a single flight: whoever calls it while one is under    *)
(* way waits for that one.  stopGateway is not; each of its callers waits  *)
(* on its own for the exit of the process it has killed, for 3.2 seconds   *)
(* at most.  What a promise resumes when a process exits belongs to the    *)
(* step of the exit: no other callback runs in between.                    *)
(***************************************************************************)
EXTENDS Naturals, FiniteSets

CONSTANTS
  Processes,      \* process objects; one may be used again when its process is gone
  NoProcess,      \* null
  MaxRestarts,    \* GATEWAY_MAX_RESTART_ATTEMPTS
  BootPolls       \* the polls within GATEWAY_BOOT_TIMEOUT_MS

ASSUME ProcessAssumption == NoProcess \notin Processes
ASSUME BoundAssumption == MaxRestarts \in Nat /\ BootPolls \in Nat

VARIABLES
  phase,      \* this.status.phase
  proc,       \* this.gatewayProcess
  alive,      \* the gateway processes that run
  told,       \* those among expectedGatewayExits: they have been killed
  start,      \* startGatewayPromise: where it awaits, and for which process
  stopping,   \* each caller of stopGateway: the process whose exit it awaits
  shutdown,   \* shutdownRequested
  timer,      \* gatewayRestartTimer is set
  attempt,    \* gatewayRestartAttempt
  threw       \* history: a start has thrown, or has found no runtime

vars == <<phase, proc, alive, told, start, stopping, shutdown, timer, attempt, threw>>
-----------------------------------------------------------------------------
Phases == {"ready", "starting", "running", "error"}

\* A restart (the page's, the settings', or the one config sync makes of a stop
\* and a start) and a stop for good (licence lost, quit).
Stoppers == {"restart", "suspend"}

\* The awaits of doStartGateway: recovery of resources, the probe of an existing
\* process and its answer, its end, the free port, the migrations, and in
\* waitForGatewayReady the poll, its answer and the pause after it.
Points == {"idle", "recovering", "probing", "probed", "killing", "preparing",
           "migrating", "polling", "polled", "sleeping"}

Start == [at : Points, child : Processes \cup {NoProcess}, ok : BOOLEAN, polls : 0 .. BootPolls]
NoStart == [at |-> "idle", child |-> NoProcess, ok |-> FALSE, polls |-> 0]
Starting == start.at # "idle"

Fresh == [NoStart EXCEPT !.at = "recovering"]

\* startGateway: a new flight, which takes the request to shut down back, or the
\* one under way, whatever that is about to come to.
StartGateway ==
  /\ start' = IF Starting THEN start ELSE Fresh
  /\ shutdown' = (shutdown /\ Starting)

\* The rest of stopGateway for the callers in who, when the start under way is at
\* flight and shutdownRequested is down; a restart goes on with startGateway, and
\* unless config sync asked for it, with the attempts counted anew.
StopReturns(who, flight, down) ==
  /\ phase' = "ready"
  /\ proc' = NoProcess
  /\ stopping' = [w \in Stoppers |-> IF w \in who THEN NoProcess ELSE stopping[w]]
  /\ attempt' = attempt \/ ("restart" \in who /\ attempt' = 0)
  /\ LET again == "restart" \in who /\ ~Starting
     IN start' = (IF again THEN Fresh ELSE flight) /\ shutdown' = (down /\ ~again)

\* mutant: the attempts are not counted against their limit.
ScheduleRestartAlways ==
  IF timer THEN UNCHANGED <<timer, attempt>> ELSE timer' = TRUE /\ attempt' = attempt + 1

\* scheduleGatewayRestart
ScheduleRestart ==
  IF timer \/ attempt >= MaxRestarts
    THEN UNCHANGED <<timer, attempt>>
    ELSE timer' = TRUE /\ attempt' = attempt + 1

\* mutant: the phase is left to whoever asked.
StartFailsSilently ==
  /\ told' = told \cup {start.child}
  /\ start' = NoStart
  /\ UNCHANGED phase

\* The start ends without a gateway: it is an error, and what was forked is killed.
StartFails ==
  /\ phase' = "error"
  /\ told' = told \cup {start.child}
  /\ start' = NoStart

\* The start ends without a fork: the runtime or its entry is not there.
StartFindsNothing ==
  /\ phase' = "error" /\ start' = NoStart /\ threw' = TRUE
  /\ UNCHANGED <<proc, alive, told, stopping, shutdown, timer, attempt>>

\* The start ends with an exception, which leaves the phase as it is.
StartThrows ==
  /\ start' = NoStart /\ threw' = TRUE
  /\ UNCHANGED <<phase, proc, alive, told, stopping, shutdown, timer, attempt>>

GoesTo(point) == start' = [start EXCEPT !.at = point]
-----------------------------------------------------------------------------
(* Requests.                                                                *)

\* Bootstrap, a cowork session, an IM channel or the gateway client asks for it.
RequestStart ==
  /\ ~Starting
  /\ StartGateway
  /\ UNCHANGED <<phase, proc, alive, told, stopping, timer, attempt, threw>>

\* stopGateway up to its await; without a process it has none.
RequestStop(w) ==
  /\ stopping[w] = NoProcess
  /\ timer' = FALSE
  /\ IF proc = NoProcess
       THEN /\ StopReturns({w}, start, TRUE)
            /\ UNCHANGED told
       ELSE /\ shutdown' = TRUE
            /\ told' = told \cup {proc}
            /\ stopping' = [stopping EXCEPT ![w] = proc]
            /\ UNCHANGED <<phase, proc, start, attempt>>
  /\ UNCHANGED <<alive, threw>>

\* Bootstrap calls ensureReady itself, and a failed config sync sets an error.
SetPhase ==
  /\ phase' = "error" \/ (phase # "running" /\ phase' = "ready")
  /\ UNCHANGED <<proc, alive, told, start, stopping, shutdown, timer, attempt, threw>>

\* mutant: the timer does nothing when the phase is no longer the crash's.
TimerFiresOnError ==
  /\ timer
  /\ timer' = FALSE
  /\ IF shutdown \/ phase # "error" THEN UNCHANGED <<start, shutdown>> ELSE StartGateway
  /\ UNCHANGED <<phase, proc, alive, told, stopping, attempt, threw>>

\* The delay, 3 seconds and more, is left out: the timer may have been set by an
\* earlier crash, since neither startGateway nor a second crash renews it.
TimerFires ==
  /\ timer
  /\ timer' = FALSE
  /\ IF shutdown THEN UNCHANGED <<start, shutdown>> ELSE StartGateway
  /\ UNCHANGED <<phase, proc, alive, told, stopping, attempt, threw>>
-----------------------------------------------------------------------------
(* doStartGateway.                                                          *)

\* mutant: an existing process is not looked for.
RecoveredBlind ==
  /\ start.at = "recovering"
  /\ phase' = IF phase = "running" THEN "running" ELSE "ready"
  /\ GoesTo("preparing")
  /\ UNCHANGED <<proc, alive, told, stopping, shutdown, timer, attempt, threw>>

\* ensureReady, and whether there is a process to probe.
Recovered ==
  /\ start.at = "recovering"
  /\ phase' = IF phase = "running" THEN "running" ELSE "ready"
  /\ start' = [start EXCEPT !.at = IF proc = NoProcess THEN "preparing" ELSE "probing",
                            !.child = proc]
  /\ UNCHANGED <<proc, alive, told, stopping, shutdown, timer, attempt, threw>>

\* A stop gives up after 3.2 seconds and a gateway takes tens of seconds to boot:
\* by then the stops that waited for an earlier process are over, and a start that
\* lost its process to one of them has looked.
Booted(child) == proc = child /\ \A w \in Stoppers : stopping[w] \in {NoProcess, child}

\* isGatewayHealthy asks in five ways at once and waits for all of them: the good
\* answer of one may be older than the process's end.
Answers(point, answered) ==
  /\ start.at = point
  /\ \E ok \in BOOLEAN :
       /\ ok => start.child \in alive /\ (point = "polling" => Booted(start.child))
       /\ start' = [start EXCEPT !.at = answered, !.ok = ok]
  /\ UNCHANGED <<phase, proc, alive, told, stopping, shutdown, timer, attempt, threw>>

\* An existing process that is well is kept; another is stopped first.  If it has
\* gone by itself meanwhile, stopGatewayProcess throws on null.
Probed ==
  /\ start.at = "probed"
  /\ \/ /\ start.ok
        /\ phase' = "running" /\ start' = NoStart
        /\ UNCHANGED <<told, threw, proc, alive, stopping, shutdown, timer, attempt>>
     \/ /\ ~start.ok /\ proc # NoProcess
        /\ told' = told \cup {proc}
        /\ start' = [start EXCEPT !.at = "killing", !.child = proc]
        /\ UNCHANGED <<phase, threw, proc, alive, stopping, shutdown, timer, attempt>>
     \/ /\ ~start.ok /\ proc = NoProcess
        /\ StartThrows

KillTimesOut ==
  /\ start.at = "killing"
  /\ proc' = NoProcess
  /\ GoesTo("preparing")
  /\ UNCHANGED <<phase, alive, told, stopping, shutdown, timer, attempt, threw>>

Prepared ==
  /\ start.at = "preparing"
  /\ \/ /\ phase' = "starting" /\ GoesTo("migrating")
        /\ UNCHANGED <<proc, alive, told, stopping, shutdown, timer, attempt, threw>>
     \/ StartFindsNothing
     \/ StartThrows

\* mutant: waitForGatewayReady polls before it looks.
ForkUnlooked ==
  /\ start.at = "migrating"
  /\ \/ \E c \in Processes \ alive :
          /\ proc' = c
          /\ alive' = alive \cup {c}
          /\ start' = [start EXCEPT !.at = "polling", !.child = c]
          /\ told' = told \ {c}
          /\ UNCHANGED <<phase, stopping, shutdown, timer, attempt, threw>>
     \/ StartThrows

\* The fork, and the first look of waitForGatewayReady.
Fork ==
  /\ start.at = "migrating"
  /\ \/ \E c \in Processes \ alive :
          /\ proc' = c
          /\ alive' = alive \cup {c}
          /\ IF shutdown
               THEN /\ phase' = "error" /\ start' = NoStart
                    /\ told' = told \cup {c}
               ELSE /\ start' = [start EXCEPT !.at = "polling", !.child = c]
                    /\ told' = told \ {c}
                    /\ UNCHANGED phase
          /\ UNCHANGED <<stopping, shutdown, timer, attempt, threw>>
     \/ StartThrows

\* mutant: the boot has no limit.
PolledForever ==
  /\ start.at = "polled"
  /\ \/ /\ start.ok
        /\ phase' = "running" /\ start' = NoStart /\ attempt' = 0
     \/ /\ ~start.ok
        /\ phase' = "starting" /\ GoesTo("sleeping")
        /\ UNCHANGED attempt
  /\ UNCHANGED <<proc, alive, told, stopping, shutdown, timer, threw>>

Polled ==
  /\ start.at = "polled"
  /\ \/ /\ start.ok
        /\ phase' = "running" /\ start' = NoStart /\ attempt' = 0
        /\ UNCHANGED told
     \/ /\ ~start.ok /\ start.polls = BootPolls
        /\ StartFails
        /\ UNCHANGED attempt
     \/ /\ ~start.ok /\ start.polls < BootPolls
        /\ phase' = "starting"
        /\ start' = [start EXCEPT !.at = "sleeping", !.polls = @ + 1]
        /\ UNCHANGED <<told, attempt>>
  /\ UNCHANGED <<proc, alive, stopping, shutdown, timer, threw>>

\* The next tick of waitForGatewayReady.
Look ==
  /\ start.at = "sleeping"
  /\ IF shutdown \/ proc = NoProcess
       THEN StartFails
       ELSE GoesTo("polling") /\ UNCHANGED <<phase, told>>
  /\ UNCHANGED <<proc, alive, stopping, shutdown, timer, attempt, threw>>

StartStep ==
  \/ Recovered \/ Answers("probing", "probed") \/ Probed \/ KillTimesOut
  \/ Prepared \/ Fork \/ Answers("polling", "polled") \/ Polled \/ Look
-----------------------------------------------------------------------------
(* stopGateway gives up, and processes end.                                  *)

StopTimesOut(w) ==
  /\ stopping[w] # NoProcess
  /\ StopReturns({w}, start, shutdown)
  /\ UNCHANGED <<alive, told, timer, threw>>

\* The end of a process that was killed; the promises that wait for it resolve.
ToldExits(c) ==
  LET waiting == {w \in Stoppers : stopping[w] = c}
      awaited == start.at = "killing" /\ start.child = c
      flight == IF awaited THEN [start EXCEPT !.at = "preparing"] ELSE start
  IN /\ c \in alive /\ c \in told
     /\ alive' = alive \ {c}
     /\ told' = told \ {c}
     /\ IF waiting = {}
          THEN /\ start' = flight
               /\ proc' = IF proc = c \/ awaited THEN NoProcess ELSE proc
               /\ UNCHANGED <<phase, stopping, shutdown, attempt>>
          ELSE StopReturns(waiting, flight, shutdown)
     /\ UNCHANGED <<timer, threw>>

\* The end of a process that nobody has killed: its config may be at fault, and
\* then it is not started again.
CrashExits(c) ==
  /\ c \in alive \ told
  /\ alive' = alive \ {c}
  /\ proc' = IF proc = c THEN NoProcess ELSE proc
  /\ IF shutdown THEN UNCHANGED <<phase, timer, attempt>>
     ELSE /\ phase' = "error"
          /\ ScheduleRestart \/ (attempt' = 0 /\ UNCHANGED timer)
  /\ UNCHANGED <<told, start, stopping, shutdown, threw>>
-----------------------------------------------------------------------------
Init ==
  /\ phase = "ready" /\ proc = NoProcess /\ alive = {} /\ told = {}
  /\ start = NoStart
  /\ stopping = [w \in Stoppers |-> NoProcess]
  /\ shutdown = FALSE /\ timer = FALSE /\ attempt = 0 /\ threw = FALSE

Next ==
  \/ RequestStart \/ SetPhase \/ TimerFires \/ StartStep
  \/ \E w \in Stoppers : RequestStop(w) \/ StopTimesOut(w)
  \/ \E c \in Processes : ToldExits(c) \/ CrashExits(c)

Spec == Init /\ [][Next]_vars

\* Probes, waits and timers have a limit each, and a killed process ends.
FairSpec ==
  /\ Spec
  /\ WF_vars(StartStep) /\ WF_vars(TimerFires)
  /\ \A w \in Stoppers : WF_vars(StopTimesOut(w))
  /\ \A c \in Processes : WF_vars(ToldExits(c))
-----------------------------------------------------------------------------
(* Properties.                                                              *)

TypeOK ==
  /\ phase \in Phases /\ proc \in Processes \cup {NoProcess}
  /\ alive \subseteq Processes /\ told \subseteq Processes
  /\ start \in Start /\ stopping \in [Stoppers -> Processes \cup {NoProcess}]
  /\ shutdown \in BOOLEAN /\ timer \in BOOLEAN /\ attempt \in 0 .. MaxRestarts
  /\ threw \in BOOLEAN

\* There is at most one gateway that has not been killed, and the manager knows
\* it, or the start that forked it does: no crash, restart, overlapping stop or
\* process that outlives its kill leaves a second one behind.
OneGateway ==
  \A c \in alive \ told : c = proc \/ (start.at \in {"polling", "polled", "sleeping"} /\ c = start.child)

\* Once a stop is over and no start has been asked for since, no gateway is left
\* to run and none is about to be started, although a start was under way.
StopHolds ==
  shutdown /\ ~Starting /\ (\A w \in Stoppers : stopping[w] = NoProcess) =>
    alive \subseteq told /\ ~timer

\* While the manager says that it is starting, it is, unless an exception ended
\* the start: a caller that waits because of the phase does not wait in vain.
StartingIsUnderWay == phase = "starting" => Starting \/ threw

\* Every start and every stop settles, whatever the gateway does.
EveryCallSettles ==
  /\ Starting ~> ~Starting
  /\ \A w \in Stoppers : stopping[w] # NoProcess ~> stopping[w] = NoProcess

\* A restart that is scheduled while no start is under way comes to a new process,
\* unless the gateway is stopped for good or a start throws: no request, restart,
\* change of the phase, probe or late exit in between spends it on nothing.  Of a
\* start under way it cannot be said: the timer may join one that has already
\* lost its process, and nothing starts then.
CrashRecovers == timer /\ ~Starting ~> proc # NoProcess \/ shutdown \/ threw
=============================================================================
