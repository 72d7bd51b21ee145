---------------------------- MODULE MeetingRoom ----------------------------
(***************************************************************************)
(* Meeting rooms: the rows MeetingRoomStore keeps in SQLite and the steps  *)
(* MeetingRoomCoordinator takes over them.                                 *)
(*                                                                         *)
(* A room is one record.  A function of the store is an operator from the  *)
(* record to the record after its transaction; an IPC command, a settled   *)
(* agent run or a timer is an action.  The main process runs a command and *)
(* every promise continuation it triggers before the next event, so an     *)
(* action goes on to the loop's next await: RunMeeting is part of the      *)
(* action that wakes the loop.                                             *)
(***************************************************************************)
EXTENDS Integers, Sequences, FiniteSets

CONSTANTS
  Rooms,                 \* meeting ids
  ParticipantCount,      \* participants of a room, by speaking order
  RoundsMax,             \* MeetingRoomLimits.RoundsMax
  MaxEpoch,              \* bound: the epoch from which no room is set running again
  MaxAttempts,           \* bound: the attempts begun in a room
  Events                 \* bound: the kinds of event that happen (see EventKinds)

ASSUME ParticipantAssumption == ParticipantCount \in Nat \ {0, 1}   \* ParticipantsMin
ASSUME RoundsAssumption == RoundsMax \in Nat \ {0}
ASSUME BoundAssumption == MaxEpoch \in Nat /\ MaxAttempts \in Nat

\* Streamed text, a managed image that can no longer be read when a turn starts,
\* the loss of the licence, the engine going down, the process ending, and the
\* process ending in the middle of a delete.
EventKinds == {"stream", "vanish", "licence", "engine", "restart", "torn"}
ASSUME EventAssumption == Events \subseteq EventKinds

VARIABLES
  rooms,        \* the rows of each meeting and the loop the coordinator runs for it
  authorized,   \* isLicenseAuthorized(licenseController.getState())
  available,    \* the engine's phase is Running
  runtime       \* how far the process has come: see Runtimes

vars == <<rooms, authorized, available, runtime>>

\* Held until the licence is there (no meeting command is registered), starting,
\* authorizedRuntimeStarted, or past suspendAuthorizedRuntime.
Runtimes == {"held", "starting", "started", "suspended"}
-----------------------------------------------------------------------------
(* A turn is the (round, order) its row was inserted with. *)

TurnIds == (0 .. RoundsMax) \X (-2 .. (ParticipantCount + 2))
NoTurn == <<-1, 0>>
Before(t, u) == t[1] < u[1] \/ (t[1] = u[1] /\ t[2] < u[2])

Kinds == {"none", "user_supplement", "host_opening", "round_focus",
          "participant", "round_summary", "final_summary"}
RoomStatuses == {"none", "draft", "running", "paused", "completed", "stopped", "deleted"}
PauseReasons == {"none", "user", "host_failure", "app_restart",
                 "authorization_lost", "runtime_unavailable"}
TurnStatuses == {"pending", "running", "completed", "interrupted", "failed", "skipped"}
AttemptStatuses == {"running", "completed", "interrupted", "failed"}

\* Whose text an attempt row holds: its own run's or an older run's.
Texts == {"none", "own", "other"}

Host == -1
Speakers == Host .. (ParticipantCount - 1)

\* A speaker's hidden session: no message yet, prompts only, an assistant
\* message too, or deleted.
Sessions == {"empty", "prompted", "answered", "gone"}

NoRun == [turn |-> NoTurn, attempt |-> 0, epoch |-> 0, stopped |-> FALSE]

NoRoom ==
  [status |-> "none", reason |-> "none", total |-> 0, epoch |-> 0,
   turn |-> NoTurn, attempt |-> 0,
   kind |-> [t \in TurnIds |-> "none"], state |-> [t \in TurnIds |-> "pending"],
   attempts |-> << >>, session |-> [s \in Speakers |-> "empty"],
   loop |-> "idle", run |-> NoRun]

Inserted(r) == {t \in TurnIds : r.kind[t] # "none"}
Concluded(r, t) == r.state[t] \in {"completed", "skipped"}
HostTurn(r, t) == r.kind[t] \notin {"none", "participant", "user_supplement"}
Speaker(r, t) == IF r.kind[t] = "participant" THEN t[2] ELSE Host

\* getNextTurn: the turns still to be held, and which of them comes first.
Open(r) == {t \in Inserted(r) : ~Concluded(r, t)}
IsNextAnyOrder(r, t) == t \in Open(r)   \* mutant: no ORDER BY
IsNext(r, t) == t \in Open(r) /\ \A u \in Open(r) : ~Before(u, t)

NoOtherRunning(m) == \A n \in Rooms \ {m} : rooms[n].status # "running"
-----------------------------------------------------------------------------
(* The store: each operator is the effect of one transaction on the room.  *)

CreateDraft(total) == [NoRoom EXCEPT !.status = "draft", !.total = total]

SetRunning(r) ==
  [r EXCEPT !.status = "running", !.reason = "none", !.epoch = @ + 1,
            !.turn = NoTurn, !.attempt = 0]

\* mutant: the final summary is inserted before the last round's participants
InitialKindSummaryFirst(total, t) ==
  CASE t = <<0, 0>> -> "host_opening"
    [] t[1] \in 1 .. total /\ t[2] \in 0 .. (ParticipantCount - 1) -> "participant"
    [] t = <<total, -1>> -> "final_summary"
    [] OTHER -> "none"

InitialKind(total, t) ==
  CASE t = <<0, 0>> -> "host_opening"
    [] t[1] \in 1 .. total /\ t[2] \in 0 .. (ParticipantCount - 1) -> "participant"
    [] t[1] \in 1 .. (total - 1) /\ t[2] = ParticipantCount + 1 -> "round_summary"
    [] t = <<total, ParticipantCount + 2>> -> "final_summary"
    [] OTHER -> "none"

FreezeForStart(r) ==
  [SetRunning(r) EXCEPT !.kind = [t \in TurnIds |-> InitialKind(r.total, t)]]

AppendedKind(t) ==
  CASE t[2] = -2 -> "user_supplement"
    [] t[2] = -1 -> "round_focus"
    [] t[2] \in 0 .. (ParticipantCount - 1) -> "participant"
    [] t[2] = ParticipantCount + 1 -> "final_summary"
    [] OTHER -> "none"

\* mutant: the supplement is inserted as a pending turn
AppendRoundSupplementOpen(r) ==
  LET next == r.total + 1
  IN  [SetRunning(r) EXCEPT
         !.total = next,
         !.kind = [t \in TurnIds |-> IF t[1] = next THEN AppendedKind(t) ELSE r.kind[t]]]

AppendRoundRows(r) ==
  LET next == r.total + 1
  IN  [SetRunning(r) EXCEPT
         !.total = next,
         !.kind = [t \in TurnIds |-> IF t[1] = next THEN AppendedKind(t) ELSE r.kind[t]],
         !.state[<<next, -2>>] = "completed"]

BeginAttempt(r, t) ==
  [r EXCEPT !.attempts = Append(@, [turn |-> t, epoch |-> r.epoch, status |-> "running",
                                    aborted |-> FALSE, text |-> "none"]),
            !.state[t] = "running",
            !.turn = t,
            !.attempt = Len(r.attempts) + 1]

\* mutant: the room's present attempt and epoch are not compared
MatchesActiveStatusOnly(r, x) == r.status = "running"

MatchesActive(r, x) ==
  /\ r.status = "running"
  /\ r.turn = x.turn
  /\ r.attempt = x.attempt
  /\ r.epoch = x.epoch

\* mutant: only the attempt's existence is checked
UpdateAttemptStreamUnguarded(r, x, text) ==
  IF x.attempt \in DOMAIN r.attempts THEN [r EXCEPT !.attempts[x.attempt].text = text] ELSE r

UpdateAttemptStream(r, x, text) ==
  IF MatchesActive(r, x) THEN [r EXCEPT !.attempts[x.attempt].text = text] ELSE r

CompleteAttempt(r, x, text) ==
  IF MatchesActive(r, x)
  THEN [r EXCEPT !.attempts[x.attempt] = [@ EXCEPT !.status = "completed", !.text = text],
                 !.state[x.turn] = "completed",
                 !.turn = NoTurn, !.attempt = 0]
  ELSE r

FailAttempt(r, x, skipped) ==
  IF MatchesActive(r, x)
  THEN [r EXCEPT !.attempts[x.attempt].status = "failed",
                 !.state[x.turn] = IF skipped THEN "skipped" ELSE "failed",
                 !.turn = NoTurn, !.attempt = 0]
  ELSE r

ResetTurnForRetry(r, t) == [r EXCEPT !.state[t] = "pending"]

\* mutant: an interrupted attempt consumes the retry allowance
FailedAttemptsAllClosed(r, t) ==
  {a \in DOMAIN r.attempts : r.attempts[a].turn = t /\ r.attempts[a].status # "running"}

FailedAttempts(r, t) ==
  {a \in DOMAIN r.attempts :
     r.attempts[a].turn = t /\ r.attempts[a].status = "failed" /\ ~r.attempts[a].aborted}

\* mutant: the room keeps pointing at the interrupted attempt
InterruptKeepsCurrent(r, aborted) ==
  IF r.attempt = 0 THEN r
  ELSE [r EXCEPT !.attempts[r.attempt].status = "interrupted",
                 !.state[r.turn] = "interrupted"]

\* mutant: the room forgets the attempt without closing its row
InterruptRoomOnly(r, aborted) == [r EXCEPT !.turn = NoTurn, !.attempt = 0]

\* Shared by pause, stop and the restart recovery: the current attempt, if it
\* is still running, and its turn become interrupted.
Interrupt(r, aborted) ==
  IF r.attempt = 0 THEN r
  ELSE [r EXCEPT !.attempts[r.attempt] =
                   IF @.status = "running"
                   THEN [@ EXCEPT !.status = "interrupted", !.aborted = aborted]
                   ELSE @,
                 !.state[r.turn] = "interrupted",
                 !.turn = NoTurn, !.attempt = 0]

PauseRow(r, reason, aborted) ==
  [Interrupt(r, aborted) EXCEPT !.status = "paused", !.reason = reason, !.epoch = @ + 1]

\* mutant: skipped turns are reopened too
ResumeRowReopensSkipped(r) ==
  [SetRunning(r) EXCEPT
     !.state = [t \in TurnIds |->
                  IF r.state[t] \in {"interrupted", "failed", "skipped"}
                  THEN "pending" ELSE r.state[t]]]

ResumeRow(r) ==
  [SetRunning(r) EXCEPT
     !.state = [t \in TurnIds |->
                  IF r.state[t] \in {"interrupted", "failed"} THEN "pending" ELSE r.state[t]]]

StopRow(r) ==
  [Interrupt(r, TRUE) EXCEPT !.status = "stopped", !.reason = "none", !.epoch = @ + 1]

MarkCompleted(r) ==
  [r EXCEPT !.status = "completed", !.reason = "none", !.turn = NoTurn, !.attempt = 0]

DeleteRows(r) ==
  [NoRoom EXCEPT !.status = "deleted", !.epoch = r.epoch + 1, !.loop = r.loop, !.run = r.run]

\* A new process: the rows survive, the loop and its timers do not.
RestartRow(r) ==
  LET row == [r EXCEPT !.loop = "idle", !.run = NoRun]
  IN  IF r.status = "running" THEN PauseRow(row, "app_restart", FALSE) ELSE row
-----------------------------------------------------------------------------
(* The coordinator's loop.  Set writes the room a step ends with.          *)

Set(m, r) == rooms' = [rooms EXCEPT ![m] = r]

StopActiveForgotten(r) == r   \* mutant: the session is not stopped

\* stopSession(getActiveSessionId(room)): only the run of the current attempt.
StopActive(r) ==
  IF r.attempt # 0 /\ r.loop = "awaiting" /\ r.run.attempt = r.attempt
  THEN [r EXCEPT !.run.stopped = TRUE]
  ELSE r

Leave(r) == [r EXCEPT !.loop = "idle", !.run = NoRun]

\* What runTurn does between beginAttempt and its try block throws when the
\* session is gone, or when its first prompt needs an image that is.
SetupThrows(r, t) ==
  LET session == r.session[Speaker(r, t)]
  IN  /\ r.kind[t] # "user_supplement"
      /\ session = "gone" \/ ("vanish" \in Events /\ session = "empty")
SetupReturns(r, t) ==
  r.kind[t] = "user_supplement" \/ r.session[Speaker(r, t)] # "gone"

AwaitRun(r, t) ==
  LET b == BeginAttempt(r, t)
  IN  [b EXCEPT !.session[Speaker(r, t)] = IF @ = "empty" THEN "prompted" ELSE @,
                !.loop = "awaiting",
                !.run = [turn |-> t, attempt |-> b.attempt, epoch |-> b.epoch,
                         stopped |-> FALSE]]

\* An open supplement is reset and read again: the loop never reaches an await.
Spin(r, t) == [ResetTurnForRetry(r, t) EXCEPT !.loop = "spinning", !.run = NoRun]

Bounded(r) == Len(r.attempts) < MaxAttempts

\* runMeeting from the top of its loop to its return or the await in runTurn.
RunMeeting(m, r) ==
  \/ /\ r.status # "running"
     /\ Set(m, Leave(r))
  \/ /\ r.status = "running"
     /\ ~(authorized /\ available)
     /\ Set(m, Leave(PauseRow(StopActive(r), IF ~authorized THEN "authorization_lost"
                                                            ELSE "runtime_unavailable", FALSE)))
  \/ /\ r.status = "running" /\ authorized /\ available
     /\ Open(r) = {}
     /\ Set(m, Leave(MarkCompleted(r)))
  \/ /\ r.status = "running" /\ authorized /\ available
     /\ Bounded(r)
     /\ \E t \in Open(r) :
          /\ IsNext(r, t)
          /\ \/ /\ SetupReturns(r, t)
                /\ Set(m, IF r.kind[t] = "user_supplement" THEN Spin(r, t) ELSE AwaitRun(r, t))
             \/ /\ SetupThrows(r, t)
                /\ Set(m, Leave(BeginAttempt(r, t)))

\* mutant: the command returns without waking the loop
ScheduleDropped(m, r) == Set(m, r)

\* schedule: a loop that is still awaiting a run is not started twice.
Schedule(m, r) ==
  IF r.loop = "idle" THEN RunMeeting(m, r) ELSE Set(m, r)

\* handleTurnFailure, with shouldRetryParticipantTurn and
\* shouldRetryHostToolViolation: two failures at most.
HandleTurnFailure(r, x, toolViolation) ==
  LET failedCount == Cardinality(FailedAttempts(r, x.turn)) + 1
      host  == HostTurn(r, x.turn)
      retry == failedCount < 2 /\ (host => toolViolation)
      f     == FailAttempt(r, x, ~host /\ ~retry)
  IN  IF retry THEN ResetTurnForRetry(f, x.turn)
      ELSE IF host THEN PauseRow(f, "host_failure", FALSE)
      ELSE f

\* What resolveFinalAssistantContent returns: the session's last assistant
\* message, which is this run's if it spoke, else the streamed text.
FinalContent(r, x, spoke) ==
  CASE spoke -> "own"
    [] ~spoke /\ r.session[Speaker(r, x.turn)] = "answered" -> "other"
    [] OTHER -> r.attempts[x.attempt].text

\* runTurn after its await.
AfterRun(r, outcome, spoke) ==
  LET x == r.run
      heard == IF r.status = "deleted" \/ ~spoke THEN r
               ELSE [r EXCEPT !.session[Speaker(r, x.turn)] = "answered"]
      content == FinalContent(r, x, spoke)
  IN  IF ~MatchesActive(r, x) THEN heard
      ELSE IF outcome # "resolved" \/ content = "none"
      THEN HandleTurnFailure(heard, x, outcome = "tool")
      ELSE CompleteAttempt(heard, x, content)

\* The room's rows after the run, as the loop goes round again.
RunReturns(m, outcome, spoke) ==
  RunMeeting(m, AfterRun(rooms[m], outcome, spoke))
-----------------------------------------------------------------------------
(* Commands: the body each IPC handler enqueues and the schedule after it. *)

Create(m) ==
  /\ rooms[m].status = "none"
  /\ \E total \in 1 .. RoundsMax : Set(m, CreateDraft(total))
  /\ UNCHANGED <<authorized, available, runtime>>

\* A command that sets a meeting running needs the licence, the runtime and no
\* other running meeting; on a running meeting it only calls schedule.
MaySetRunningUnchecked(m) == rooms[m].epoch < MaxEpoch   \* mutant: no look at the others
MaySetRunning(m) == NoOtherRunning(m) /\ rooms[m].epoch < MaxEpoch

Start(m) ==
  /\ authorized /\ available
  /\ \/ /\ rooms[m].status = "running"
        /\ Schedule(m, rooms[m])
     \/ /\ rooms[m].status = "draft"
        /\ MaySetRunning(m)
        /\ Schedule(m, FreezeForStart(rooms[m]))
  /\ UNCHANGED <<authorized, available, runtime>>

Pause(m) ==
  /\ rooms[m].status = "running"
  /\ Set(m, PauseRow(StopActive(rooms[m]), "user", TRUE))
  /\ UNCHANGED <<authorized, available, runtime>>

Resume(m) ==
  /\ authorized /\ available
  /\ \/ /\ rooms[m].status = "running"
        /\ Schedule(m, rooms[m])
     \/ /\ rooms[m].status = "paused"
        /\ MaySetRunning(m)
        /\ Schedule(m, ResumeRow(rooms[m]))
  /\ UNCHANGED <<authorized, available, runtime>>

\* The reset and the resume are two statements: when another meeting runs, the
\* resume throws and the reset stays.
RetryHost(m) ==
  /\ authorized /\ available
  /\ rooms[m].status = "paused" /\ rooms[m].reason = "host_failure"
  /\ \E t \in Inserted(rooms[m]) :
       /\ HostTurn(rooms[m], t) /\ rooms[m].state[t] = "failed"
       /\ \/ /\ MaySetRunning(m)
             /\ Schedule(m, ResumeRow(ResetTurnForRetry(rooms[m], t)))
          \/ /\ ~NoOtherRunning(m)
             /\ Set(m, ResetTurnForRetry(rooms[m], t))
  /\ UNCHANGED <<authorized, available, runtime>>

Stop(m) ==
  /\ rooms[m].status \in {"running", "paused"}
  /\ Set(m, StopRow(StopActive(rooms[m])))
  /\ UNCHANGED <<authorized, available, runtime>>

\* mutant: no MEETING_ROUND_LIMIT
AppendRoundUnlimited(m) ==
  /\ authorized /\ available
  /\ rooms[m].status = "completed"
  /\ MaySetRunning(m)
  /\ Schedule(m, AppendRoundRows(rooms[m]))
  /\ UNCHANGED <<authorized, available, runtime>>

AppendRound(m) ==
  /\ authorized /\ available
  /\ rooms[m].status = "completed"
  /\ rooms[m].total < RoundsMax
  /\ MaySetRunning(m)
  /\ Schedule(m, AppendRoundRows(rooms[m]))
  /\ UNCHANGED <<authorized, available, runtime>>

Delete(m) ==
  /\ rooms[m].status \notin {"none", "deleted"}
  /\ Set(m, DeleteRows(StopActive(rooms[m])))
  /\ UNCHANGED <<authorized, available, runtime>>
-----------------------------------------------------------------------------
(* Events of the runtime, the timer, the licence and the process.          *)

\* The run's promise settles: resolved, rejected, or ended by a forbidden tool
\* call; the agent may or may not have left a message in its session.
Settle(m) ==
  /\ rooms[m].loop = "awaiting"
  /\ \E outcome \in {"resolved", "rejected", "tool"}, spoke \in BOOLEAN :
       RunReturns(m, outcome, spoke)
  /\ UNCHANGED <<authorized, available, runtime>>

\* TurnTimeoutMs passes first: the race resolves whatever the run does.
Timeout(m) ==
  /\ rooms[m].loop = "awaiting"
  /\ \E spoke \in BOOLEAN : RunReturns(m, "timeout", spoke)
  /\ UNCHANGED <<authorized, available, runtime>>

\* acceptStream: the event must come from the run the loop awaits.
AcceptStream(r, a) ==
  IF r.loop = "awaiting" /\ r.run.attempt = a
  THEN UpdateAttemptStream(r, r.run, IF a = r.run.attempt THEN "own" ELSE "other")
  ELSE r

\* A stream event of the run of attempt a, which may be a run long gone.
MeetingRunStream(m, a) ==
  /\ "stream" \in Events
  /\ Set(m, AcceptStream(rooms[m], a))
  /\ UNCHANGED <<authorized, available, runtime>>

\* mutant: the meeting is left running
PauseRunningForgotten(reason) == UNCHANGED rooms

\* pauseForAuthorizationLoss and pauseForRuntimeUnavailable.
PauseRunning(reason) ==
  \/ /\ \A m \in Rooms : rooms[m].status # "running"
     /\ UNCHANGED rooms
  \/ \E m \in Rooms :
       /\ rooms[m].status = "running"
       /\ Set(m, PauseRow(StopActive(rooms[m]), reason, FALSE))

\* suspendAuthorizedRuntime pauses the meeting once; a licence that is lost
\* again, or before the runtime has started, is left to the loop's own test.
LoseAuthorization ==
  /\ "licence" \in Events
  /\ authorized
  /\ authorized' = FALSE
  /\ \/ /\ runtime = "started"
        /\ runtime' = "suspended"
        /\ PauseRunning("authorization_lost")
     \/ /\ runtime # "started"
        /\ UNCHANGED <<rooms, runtime>>
  /\ UNCHANGED available

RegainAuthorization ==
  /\ ~authorized
  /\ authorized' = TRUE
  /\ UNCHANGED <<rooms, available, runtime>>

\* ensureOpenClawRunningForCowork has settled, whatever the engine's phase.
RuntimeStarted ==
  /\ runtime = "starting"
  /\ runtime' = "started"
  /\ UNCHANGED <<rooms, authorized, available>>

\* The engine leaves its Running phase: it fails, or the suspension stops it.
RuntimeDown ==
  /\ "engine" \in Events \/ runtime = "suspended"
  /\ available
  /\ available' = FALSE
  /\ PauseRunning("runtime_unavailable")
  /\ UNCHANGED <<authorized, runtime>>

RuntimeUp ==
  /\ runtime # "held"
  /\ ~available
  /\ available' = TRUE
  /\ UNCHANGED <<rooms, authorized, runtime>>

\* A new process: the gate holds the runtime back until the licence is there.
NewProcess ==
  /\ authorized' \in BOOLEAN
  /\ available' = FALSE
  /\ runtime' = IF authorized' THEN "starting" ELSE "held"

\* The application is closed or crashes, and starts again.
Restart ==
  /\ "restart" \in Events
  /\ rooms' = [m \in Rooms |-> RestartRow(rooms[m])]
  /\ NewProcess

\* delete advances the epoch, then removes the sessions (the host's first) and
\* the rows, in statements of their own: the process ends after a few of them.
TornDelete ==
  /\ "torn" \in Events
  /\ \E m \in Rooms, last \in Speakers :
       /\ rooms[m].status \in {"running", "paused", "completed", "stopped"}
       /\ rooms[m].epoch < MaxEpoch
       /\ LET torn == [rooms[m] EXCEPT
                          !.epoch = @ + 1,
                          !.session = [s \in Speakers |-> IF s <= last THEN "gone" ELSE @[s]]]
          IN  rooms' = [n \in Rooms |-> RestartRow(IF n = m THEN torn ELSE rooms[n])]
  /\ NewProcess
-----------------------------------------------------------------------------
Init ==
  /\ rooms = [m \in Rooms |-> NoRoom]
  /\ authorized \in BOOLEAN
  /\ available = FALSE
  /\ runtime = IF authorized THEN "starting" ELSE "held"

Command(m) ==
  /\ runtime # "held"
  /\ \/ Create(m) \/ Start(m) \/ Pause(m) \/ Resume(m)
     \/ RetryHost(m) \/ Stop(m) \/ AppendRound(m) \/ Delete(m)

Next ==
  \/ \E m \in Rooms :
       \/ Command(m)
       \/ Settle(m)
       \/ Timeout(m)
       \/ \E a \in DOMAIN rooms[m].attempts : MeetingRunStream(m, a)
  \/ LoseAuthorization \/ RegainAuthorization
  \/ RuntimeStarted \/ RuntimeDown \/ RuntimeUp
  \/ Restart \/ TornDelete

Spec == Init /\ [][Next]_vars

\* setTimeout fires whatever the gateway does; nothing else is assumed.
FairSpec == Spec /\ \A m \in Rooms : WF_vars(Timeout(m))
-----------------------------------------------------------------------------
(* Properties.                                                              *)

Attempts == [turn : TurnIds, epoch : Nat, status : AttemptStatuses,
             aborted : BOOLEAN, text : Texts]
Runs == [turn : TurnIds \cup {NoTurn}, attempt : Nat, epoch : Nat, stopped : BOOLEAN]
RoomRecords ==
  [status : RoomStatuses, reason : PauseReasons, total : 0 .. RoundsMax, epoch : Nat,
   turn : TurnIds \cup {NoTurn}, attempt : Nat,
   kind : [TurnIds -> Kinds], state : [TurnIds -> TurnStatuses],
   attempts : Seq(Attempts), session : [Speakers -> Sessions],
   loop : {"idle", "awaiting", "spinning"}, run : Runs]

\* The rows and the loop's closure have the types the schema and the
\* coordinator give them.
TypeOK ==
  /\ rooms \in [Rooms -> RoomRecords]
  /\ authorized \in BOOLEAN /\ available \in BOOLEAN /\ runtime \in Runtimes

\* The four commands that set a meeting running each look for another running
\* meeting first; with pauses, resumes, appended rounds and restarts in any
\* order, two meetings never run at once.
SingleRunningMeeting ==
  \A m, n \in Rooms :
    rooms[m].status = "running" /\ rooms[n].status = "running" => m = n

\* The attempt a room points at is live: it and its turn are running, it was
\* begun in the room's present epoch, and only a running room has one.
CurrentLive(r) ==
  /\ (r.attempt = 0) = (r.turn = NoTurn)
  /\ r.attempt # 0 =>
       /\ r.status = "running"
       /\ r.attempt \in DOMAIN r.attempts
       /\ r.attempts[r.attempt].status = "running"
       /\ r.attempts[r.attempt].epoch = r.epoch
       /\ r.attempts[r.attempt].turn = r.turn
       /\ r.state[r.turn] = "running"
CurrentAttemptLive == \A m \in Rooms : CurrentLive(rooms[m])

\* No attempt is left running behind the room's back: whatever ended it (an
\* answer, a failure, a pause, a stop, a restart) closed its row.  A setup of
\* runTurn that throws, before its try, breaks this (SetupThrows).
NoOrphan(r) == \A a \in DOMAIN r.attempts : r.attempts[a].status = "running" => r.attempt = a
SetupSafe == Events \cap {"vanish", "torn"} = {}
NoOrphanAttempt == SetupSafe => \A m \in Rooms : NoOrphan(rooms[m])

\* A running meeting always has a loop waiting for a run: schedule's test of
\* scheduledMeetings never loses the wake-up of a resume, a start or an
\* appended round that comes while the loop still awaits an older run.  The
\* same throwing setup breaks this.
HasLoop(r) == r.status = "running" => r.loop = "awaiting"
RunningHasLoop == SetupSafe => \A m \in Rooms : HasLoop(rooms[m])

\* The loop never goes round without an await: the supplement of an appended
\* round is never open, so the main process is never caught in runMeeting.
NeverSpins == \A m \in Rooms : rooms[m].loop # "spinning"

\* A run that the room no longer waits for (paused, stopped, deleted, or
\* resumed under a new epoch) has been told to stop.
StaleStopped(r) == r.loop = "awaiting" /\ ~MatchesActive(r, r.run) => r.run.stopped
StaleRunStopped == \A m \in Rooms : StaleStopped(rooms[m])

\* No meeting runs on an engine that is down: the engine's failure pauses it,
\* and no start, resume, retry, appended round or late answer of an older run
\* sets it going before the engine is back.
RunningIsServed == \A m \in Rooms : rooms[m].status = "running" => available

\* The agenda is held in order: a turn that was ever taken up, and not put
\* back by a resume or a retry, finds every earlier turn completed or skipped.
InOrder(r) ==
  \A t, u \in Inserted(r) : Before(t, u) /\ r.state[u] # "pending" => Concluded(r, t)
AgendaInOrder == \A m \in Rooms : InOrder(rooms[m])

\* A completed meeting has held its whole agenda, and the last turn of the
\* agenda is a final summary that was given, never skipped.
AgendaHeld(r) ==
  r.status = "completed" =>
    /\ Open(r) = {}
    /\ \E t \in Inserted(r) :
         /\ r.kind[t] = "final_summary" /\ r.state[t] = "completed"
         /\ \A u \in Inserted(r) \ {t} : Before(u, t)
CompletedAgendaHeld == \A m \in Rooms : AgendaHeld(rooms[m])

\* The retry allowance: a participant is skipped after exactly two failures,
\* never earlier because of a pause or a restart and never later, and a host
\* turn is never skipped.
Failures(r, t) ==
  Cardinality({a \in DOMAIN r.attempts : r.attempts[a].turn = t /\ r.attempts[a].status = "failed"})
Allowance(r) ==
  \A t \in Inserted(r) :
    /\ r.kind[t] = "participant" =>
         Failures(r, t) <= 2 /\ (r.state[t] = "skipped") = (Failures(r, t) = 2)
    /\ HostTurn(r, t) => r.state[t] # "skipped"
SkippedAfterTwoFailures == \A m \in Rooms : Allowance(rooms[m])

\* A late answer, stream event or failure never rewrites history: an attempt
\* that is over keeps its row, until the meeting is deleted.
ClosedAttemptsFrozen ==
  [][\A m \in Rooms : \A a \in DOMAIN rooms[m].attempts :
       rooms'[m].status # "deleted" /\ rooms[m].attempts[a].status # "running" =>
         /\ a \in DOMAIN rooms'[m].attempts
         /\ rooms'[m].attempts[a] = rooms[m].attempts[a]]_vars

\* An attempt is completed only by a run the room was waiting for: an attempt
\* that completes was live in a running meeting, in that meeting's epoch.
OnlyLiveAttemptsComplete ==
  [][\A m \in Rooms : \A a \in DOMAIN rooms[m].attempts :
       LET r == rooms[m]
       IN  /\ r.attempts[a].status # "completed"
           /\ a \in DOMAIN rooms'[m].attempts
           /\ rooms'[m].attempts[a].status = "completed"
           => /\ r.status = "running" /\ r.attempt = a
              /\ r.attempts[a].epoch = r.epoch
              /\ r.loop = "awaiting" /\ r.run.attempt = a /\ ~r.run.stopped]_vars

\* The rooms implement the discussion: whatever the attempts, runs and timers
\* do, each step concludes the next turn of the one running meeting or none.
D == INSTANCE Discussion WITH
       Meetings <- Rooms,
       Turns    <- TurnIds,
       Precedes <- {p \in TurnIds \X TurnIds : Before(p[1], p[2])},
       phase    <- [m \in Rooms |-> rooms[m].status],
       agenda   <- [m \in Rooms |-> Inserted(rooms[m])],
       held     <- [m \in Rooms |-> {t \in Inserted(rooms[m]) : Concluded(rooms[m], t)}]
ImplementsDiscussion == D!Spec

\* A running meeting does not hang: its turns are answered, fail or time out
\* until it completes or is paused, stopped or deleted.
RunningMeetingEnds ==
  \A m \in Rooms : rooms[m].status = "running" ~> rooms[m].status # "running"

\* Every completed attempt holds text its own run produced: an empty response
\* is a failure (MEETING_EMPTY_RESPONSE), not an answer.
CompletedTextIsOwn ==
  \A m \in Rooms : \A a \in DOMAIN rooms[m].attempts :
    rooms[m].attempts[a].status = "completed" => rooms[m].attempts[a].text = "own"

\* A meeting paused for a host failure can be retried: the failed host turn
\* that retryHost looks for is there.
HostFailureCanBeRetried ==
  \A m \in Rooms :
    rooms[m].status = "paused" /\ rooms[m].reason = "host_failure" =>
      \E t \in Inserted(rooms[m]) :
        HostTurn(rooms[m], t) /\ rooms[m].state[t] = "failed"
=============================================================================
