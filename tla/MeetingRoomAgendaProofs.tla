---------------------- MODULE MeetingRoomAgendaProofs ----------------------
(***************************************************************************)
(* The agenda of a meeting, its turns and its attempts: in order, with the *)
(* allowance of failures, and frozen once over.                            *)
(*                                                                         *)
(* AgendaInv is the inductive invariant, on top of RoomsInv.  Sound says   *)
(* it of a room: Book is the bookkeeping of agenda and attempts (that a    *)
(* turn is skipped only after two failures is preserved only with what     *)
(* makes every attempt belong to a turn of the agenda); Stage is what the  *)
(* status says of the agenda (an appended round follows all that was held  *)
(* only because a completed meeting ends with its final summary); and by   *)
(* Unstopped the run of the current attempt has not been told to stop.     *)
(* Attended is that the loop of a running meeting is there: it holds as    *)
(* long as no setup throws and no delete is torn (SetupSafe).              *)
(*                                                                         *)
(* Every command, run and event is shown to give some q with Turns: the    *)
(* room is set to a sound q (Advances says how its status and turns move,  *)
(* Kept that its attempts stay), or, at a restart, AllWake.  The theorems  *)
(* and the refinement of Discussion follow from these alone.               *)
(***************************************************************************)
EXTENDS MeetingRoomProofs, FiniteSetTheorems

\* A turn no row was inserted for has never been held.
Fresh(r) == \A t \in TurnIds : r.kind[t] = "none" => r.state[t] = "pending"

\* The agenda lies within the rounds, and participants speak under their order.
Within(r) == \A t \in Inserted(r) : t[1] <= r.total
Placed(r) == \A t \in TurnIds : r.kind[t] = "participant" => t[2] \in 0 .. (ParticipantCount - 1)

\* Attempts belong to turns of the agenda; only an interrupted one was aborted.
Rooted(r) == \A a \in DOMAIN r.attempts : r.kind[r.attempts[a].turn] # "none"
Unaborted(r) == \A a \in DOMAIN r.attempts :
                  r.attempts[a].aborted => r.attempts[a].status = "interrupted"

Book(r) ==
  /\ r \in RoomRecords
  /\ Fresh(r) /\ Within(r) /\ Placed(r) /\ Rooted(r) /\ Unaborted(r)
  /\ InOrder(r) /\ Allowance(r)

\* What the status of a room says of its agenda.
LastIsFinal(r) ==
  \E t \in Inserted(r) : /\ r.kind[t] = "final_summary"
                         /\ \A u \in Inserted(r) \ {t} : Before(u, t)
Unstarted == {"none", "draft", "deleted"}
Stage(r) ==
  /\ r.status \in Unstarted => Inserted(r) = {}
  /\ r.status \notin Unstarted => LastIsFinal(r)
  /\ r.status = "completed" => Open(r) = {}

\* The attempt a room points at, if any, is running, and so is its turn.
Pointing(r) ==
  /\ r.attempt = 0 => r.turn = NoTurn
  /\ r.attempt # 0 =>
       /\ r.attempt \in DOMAIN r.attempts /\ r.turn \in TurnIds
       /\ r.attempts[r.attempt].status = "running"
       /\ r.attempts[r.attempt].turn = r.turn
       /\ r.state[r.turn] = "running"

\* The rows of r and q are the same.
SameRows(r, q) ==
  /\ q.total = r.total /\ q.kind = r.kind /\ q.state = r.state
  /\ q.attempts = r.attempts

\* From r to q the current attempt has come to status s and its turn to v.
Closes(r, q, s, v) ==
  /\ q.total = r.total /\ q.kind = r.kind /\ q.session = r.session
  /\ q.state = [r.state EXCEPT ![r.turn] = v]
  /\ DOMAIN q.attempts = DOMAIN r.attempts
  /\ \A a \in DOMAIN r.attempts \ {r.attempt} : q.attempts[a] = r.attempts[a]
  /\ LET x == q.attempts[r.attempt]
     IN  x.turn = r.turn /\ x.status = s /\ (x.aborted => s = "interrupted")

\* A pause, a stop or a restart: the current attempt, if any, is interrupted.
PutAside(r, q) ==
  /\ q.attempt = 0 /\ q.session = r.session
  /\ r.attempt = 0 => SameRows(r, q)
  /\ r.attempt # 0 => Closes(r, q, "interrupted", "interrupted")

\* From r to q the same turns are concluded.
SameHeld(r, q) == q.kind = r.kind /\ \A t \in TurnIds : (Concluded(q, t) <=> Concluded(r, t))

\* From r to q the next turn of the agenda is concluded.
HeldOne(r, q) ==
  /\ q.kind = r.kind
  /\ \E t \in Inserted(r) :
       /\ ~Concluded(r, t) /\ Concluded(q, t)
       /\ \A u \in Inserted(r) : Before(u, t) => Concluded(r, u)
       /\ \A u \in TurnIds \ {t} : (Concluded(q, u) <=> Concluded(r, u))

\* From r to q an attempt that is over keeps its row, and none is answered.
Recorded(r, q) ==
  \A a \in DOMAIN r.attempts :
    /\ a \in DOMAIN q.attempts
    /\ r.attempts[a].status # "running" => q.attempts[a] = r.attempts[a]
    /\ q.attempts[a].status = "completed" => r.attempts[a].status = "completed"

\* The same, but the attempt of the run that the loop awaits may be answered.
Answered(r, q) ==
  \A a \in DOMAIN r.attempts :
    /\ a \in DOMAIN q.attempts
    /\ r.attempts[a].status # "running" => q.attempts[a] = r.attempts[a]
    /\ q.attempts[a].status = "completed" =>
         \/ r.attempts[a].status = "completed"
         \/ a = r.attempt /\ r.loop = "awaiting" /\ MatchesActive(r, r.run)

\* What a run that is over does to the rows, before the loop goes round.
After(r, q) ==
  /\ Answered(r, q)
  /\ q.status = r.status \/ (r.status = "running" /\ q.status = "paused")
  /\ SameHeld(r, q) \/ (r.status = "running" /\ HeldOne(r, q))

\* What the loop does from its top: it goes on, or a running meeting pauses or
\* is completed.
Went(r, q) ==
  /\ Recorded(r, q) /\ SameHeld(r, q)
  /\ \/ q.status = r.status
     \/ r.status = "running" /\ q.status = "paused"
     \/ r.status = "running" /\ q.status = "completed" /\ Open(q) = {}

\* What holds as long as no setup throws and no delete is torn: sessions are
\* there, no attempt is orphaned, and the loop awaits the current attempt.
Tidy(r) == (\A s \in Speakers : r.session[s] # "gone") /\ NoOrphan(r)
Attended(r) ==
  /\ Tidy(r) /\ HasLoop(r)
  /\ r.attempt # 0 => r.loop = "awaiting" /\ MatchesActive(r, r.run)
-----------------------------------------------------------------------------
(* What each statement of the store leaves in the columns of a room.       *)

\* SetRunning clears the current turn and moves the epoch on.
LEMMA SetRunningFields ==
  ASSUME NEW r \in RoomRecords
  PROVE  LET q == SetRunning(r)
         IN  /\ q.status = "running" /\ q.total = r.total /\ q.kind = r.kind
             /\ q.state = r.state /\ q.attempts = r.attempts /\ q.session = r.session
             /\ q.turn = NoTurn /\ q.attempt = 0 /\ q.loop = r.loop /\ q.run = r.run
             /\ q.epoch = r.epoch + 1
  BY SMT DEF SetRunning, RoomRecords

\* Resuming puts interrupted and failed turns back.
LEMMA ResumeRowFields ==
  ASSUME NEW r \in RoomRecords
  PROVE  LET q == ResumeRow(r)
         IN  /\ q.status = "running" /\ q.total = r.total /\ q.kind = r.kind
             /\ q.attempts = r.attempts /\ q.session = r.session
             /\ q.turn = NoTurn /\ q.attempt = 0 /\ q.loop = r.loop /\ q.run = r.run
             /\ \A t \in TurnIds : q.state[t] = IF r.state[t] \in {"interrupted", "failed"}
                                                THEN "pending" ELSE r.state[t]
  BY SMT DEF ResumeRow, SetRunning, RoomRecords

\* Freezing the agenda inserts its turns and touches no other row.
LEMMA FreezeFields ==
  ASSUME NEW r \in RoomRecords
  PROVE  LET q == FreezeForStart(r)
         IN  /\ q.status = "running" /\ q.total = r.total
             /\ q.kind = [t \in TurnIds |-> InitialKind(r.total, t)]
             /\ q.state = r.state /\ q.attempts = r.attempts /\ q.session = r.session
             /\ q.turn = NoTurn /\ q.attempt = 0 /\ q.loop = r.loop /\ q.run = r.run
  <1> DEFINE s == SetRunning(r)
             kinds == [t \in TurnIds |-> InitialKind(r.total, t)]
  <1>1. FreezeForStart(r) = [s EXCEPT !.kind = kinds]
    BY Zenon DEF FreezeForStart
  <1>2. s = [r EXCEPT !.status = "running", !.reason = "none", !.epoch = @ + 1,
                      !.turn = NoTurn, !.attempt = 0]
    BY DEF SetRunning
  <1> HIDE DEF s, kinds
  <1> QED
    BY <1>1, <1>2, SMT DEF RoomRecords, kinds

\* Appending a round inserts its turns, the supplement held already.
LEMMA AppendFields ==
  ASSUME NEW r \in RoomRecords
  PROVE  LET q == AppendRoundRows(r)
             next == r.total + 1
         IN  /\ q.status = "running" /\ q.total = next
             /\ q.kind = [t \in TurnIds |-> IF t[1] = next THEN AppendedKind(t) ELSE r.kind[t]]
             /\ q.state = [r.state EXCEPT ![<<next, -2>>] = "completed"]
             /\ q.attempts = r.attempts /\ q.session = r.session
             /\ q.turn = NoTurn /\ q.attempt = 0 /\ q.loop = r.loop /\ q.run = r.run
  <1> DEFINE next == r.total + 1
             s == SetRunning(r)
             kinds == [t \in TurnIds |-> IF t[1] = next THEN AppendedKind(t) ELSE r.kind[t]]
             states == [s.state EXCEPT ![<<next, -2>>] = "completed"]
  <1>1. AppendRoundRows(r) = [s EXCEPT !.total = next, !.kind = kinds, !.state = states]
    BY Zenon DEF AppendRoundRows
  <1>2. s = [r EXCEPT !.status = "running", !.reason = "none", !.epoch = @ + 1,
                      !.turn = NoTurn, !.attempt = 0]
    BY DEF SetRunning
  <1>3. s.state = r.state
    BY SetRunningFields
  <1> HIDE DEF s, kinds, next
  <1> QED
    BY <1>1, <1>2, <1>3, SMT DEF RoomRecords, kinds, next

\* A turn begins with a new attempt, the one the room then points at.
LEMMA BeginFields ==
  ASSUME NEW r \in RoomRecords, NEW t
  PROVE  LET q == BeginAttempt(r, t)
         IN  /\ q.status = r.status /\ q.total = r.total /\ q.kind = r.kind
             /\ q.state = [r.state EXCEPT ![t] = "running"]
             /\ q.attempts = Append(r.attempts, [turn |-> t, epoch |-> r.epoch,
                                                 status |-> "running", aborted |-> FALSE,
                                                 text |-> "none"])
             /\ q.session = r.session /\ q.epoch = r.epoch
             /\ q.turn = t /\ q.attempt = Len(r.attempts) + 1
             /\ q.loop = r.loop /\ q.run = r.run
  <1> DEFINE row == [turn |-> t, epoch |-> r.epoch, status |-> "running",
                     aborted |-> FALSE, text |-> "none"]
             grown == Append(r.attempts, row)
             states == [r.state EXCEPT ![t] = "running"]
  <1>1. BeginAttempt(r, t) = [r EXCEPT !.attempts = grown, !.state = states, !.turn = t,
                                       !.attempt = Len(r.attempts) + 1]
    BY Zenon DEF BeginAttempt
  <1> HIDE DEF row, grown, states
  <1>2. LET q == BeginAttempt(r, t)
        IN  /\ q.status = r.status /\ q.total = r.total /\ q.kind = r.kind
            /\ q.state = states /\ q.attempts = grown
            /\ q.session = r.session /\ q.epoch = r.epoch
            /\ q.turn = t /\ q.attempt = Len(r.attempts) + 1
            /\ q.loop = r.loop /\ q.run = r.run
    BY <1>1, SMT DEF RoomRecords
  <1> QED BY <1>2, Zenon DEF states, grown, row

\* The loop's await adds a message to the speaker's session and its closure.
LEMMA AwaitFields ==
  ASSUME NEW r \in RoomRecords, NEW t
  PROVE  LET b == BeginAttempt(r, t)
             q == AwaitRun(r, t)
         IN  /\ q.status = b.status /\ q.total = b.total /\ q.kind = b.kind
             /\ q.state = b.state /\ q.attempts = b.attempts /\ q.epoch = b.epoch
             /\ q.turn = b.turn /\ q.attempt = b.attempt /\ q.loop = "awaiting"
             /\ q.session = [b.session EXCEPT ![Speaker(r, t)] =
                               IF b.session[Speaker(r, t)] = "empty" THEN "prompted"
                               ELSE b.session[Speaker(r, t)]]
             /\ q.run = [turn |-> t, attempt |-> b.attempt, epoch |-> b.epoch,
                         stopped |-> FALSE]
  <1> DEFINE b == BeginAttempt(r, t)
             speaker == Speaker(r, t)
             sessions == [b.session EXCEPT ![speaker] =
                            IF b.session[speaker] = "empty" THEN "prompted"
                                                            ELSE b.session[speaker]]
             run == [turn |-> t, attempt |-> b.attempt, epoch |-> b.epoch, stopped |-> FALSE]
  <1>1. AwaitRun(r, t) = [b EXCEPT !.session = sessions, !.loop = "awaiting", !.run = run]
    BY Zenon DEF AwaitRun
  <1>2. \E f, g, h, i : b = [r EXCEPT !.attempts = f, !.state = g, !.turn = h, !.attempt = i]
    BY Zenon DEF BeginAttempt
  <1> HIDE DEF b, sessions, run
  <1>3. LET q == AwaitRun(r, t)
        IN  /\ q.status = b.status /\ q.total = b.total /\ q.kind = b.kind
            /\ q.state = b.state /\ q.attempts = b.attempts /\ q.epoch = b.epoch
            /\ q.turn = b.turn /\ q.attempt = b.attempt /\ q.loop = "awaiting"
            /\ q.session = sessions /\ q.run = run
    BY <1>1, <1>2, SMT DEF RoomRecords
  <1> QED BY <1>3, Zenon DEF sessions, run, b

\* A reset puts one turn back.
LEMMA ResetFields ==
  ASSUME NEW r \in RoomRecords, NEW t
  PROVE  LET q == ResetTurnForRetry(r, t)
         IN  /\ q.status = r.status /\ q.total = r.total /\ q.kind = r.kind
             /\ q.state = [r.state EXCEPT ![t] = "pending"]
             /\ q.attempts = r.attempts /\ q.session = r.session
             /\ q.turn = r.turn /\ q.attempt = r.attempt /\ q.loop = r.loop /\ q.run = r.run
  <1> DEFINE states == [r.state EXCEPT ![t] = "pending"]
  <1>1. ResetTurnForRetry(r, t) = [r EXCEPT !.state = states]
    BY Zenon DEF ResetTurnForRetry
  <1> HIDE DEF states
  <1> QED BY <1>1, SMT DEF RoomRecords, states

\* Leaving the loop touches no row.
LEMMA LeaveFields ==
  ASSUME NEW r \in RoomRecords
  PROVE  LET q == Leave(r)
         IN  /\ q.status = r.status /\ q.total = r.total /\ q.kind = r.kind
             /\ q.state = r.state /\ q.attempts = r.attempts /\ q.session = r.session
             /\ q.turn = r.turn /\ q.attempt = r.attempt /\ q.loop = "idle"
  BY SMT DEF Leave, RoomRecords

\* A completed meeting keeps its turns and attempts.
LEMMA CompletedFields ==
  ASSUME NEW r \in RoomRecords
  PROVE  LET q == MarkCompleted(r)
         IN  /\ q.status = "completed" /\ q.total = r.total /\ q.kind = r.kind
             /\ q.state = r.state /\ q.attempts = r.attempts /\ q.session = r.session
             /\ q.turn = NoTurn /\ q.attempt = 0 /\ q.loop = r.loop
  BY SMT DEF MarkCompleted, RoomRecords

\* Telling the run to stop touches no row.
LEMMA StopActiveFields ==
  ASSUME NEW r \in RoomRecords
  PROVE  LET q == StopActive(r)
         IN  /\ q.status = r.status /\ q.total = r.total /\ q.kind = r.kind
             /\ q.state = r.state /\ q.attempts = r.attempts /\ q.session = r.session
             /\ q.turn = r.turn /\ q.attempt = r.attempt /\ q.loop = r.loop
             /\ q.epoch = r.epoch /\ q.run.attempt = r.run.attempt
  <1> DEFINE run == [r.run EXCEPT !.stopped = TRUE]
             q == [r EXCEPT !.run = run]
  <1>1. run.attempt = r.run.attempt
    BY FieldTyped, SMT DEF Runs
  <1> HIDE DEF run
  <1>2. StopActive(r) = r \/ StopActive(r) = q
    BY Zenon DEF StopActive, run
  <1> QED BY <1>1, <1>2, SMT DEF RoomRecords

\* The current attempt of a consistent room is what it points at.
LEMMA LivePoints ==
  ASSUME NEW r \in RoomRecords, CurrentLive(r)
  PROVE  Pointing(r)
  BY FieldTyped, Zenon DEF CurrentLive, Pointing

\* Interrupting closes the current attempt and nothing else.
LEMMA InterruptRows ==
  ASSUME NEW r \in RoomRecords, Pointing(r), NEW aborted \in BOOLEAN
  PROVE  LET q == Interrupt(r, aborted)
         IN  PutAside(r, q) /\ q.status = r.status /\ q.loop = r.loop /\ q.run = r.run
  <1>1. CASE r.attempt = 0
    BY <1>1, SMT DEF Interrupt, PutAside, SameRows
  <1>2. CASE r.attempt # 0
    <2> DEFINE old == r.attempts[r.attempt]
               new == [old EXCEPT !.status = "interrupted", !.aborted = aborted]
               grown == [r.attempts EXCEPT ![r.attempt] = new]
               states == [r.state EXCEPT ![r.turn] = "interrupted"]
    <2>1. r.attempt \in DOMAIN r.attempts /\ old.status = "running" /\ old.turn = r.turn
      BY <1>2 DEF Pointing
    <2>2. old \in Attempts
      BY <2>1, AttemptTyped
    <2> HIDE DEF old
    <2>3. new.turn = r.turn /\ new.status = "interrupted"
      BY <2>1, <2>2, SMT DEF Attempts
    <2>4. Interrupt(r, aborted) = [r EXCEPT !.attempts = grown, !.state = states,
                                            !.turn = NoTurn, !.attempt = 0]
      BY <1>2, <2>1, Zenon DEF Interrupt, old
    <2> HIDE DEF new
    <2>5. /\ DOMAIN grown = DOMAIN r.attempts /\ grown[r.attempt] = new
          /\ \A a \in DOMAIN r.attempts \ {r.attempt} : grown[a] = r.attempts[a]
      BY <2>1, Zenon
    <2> HIDE DEF grown, states
    <2>6. LET q == Interrupt(r, aborted)
          IN  /\ q.status = r.status /\ q.loop = r.loop /\ q.run = r.run
              /\ q.total = r.total /\ q.kind = r.kind /\ q.session = r.session
              /\ q.state = states /\ q.attempts = grown /\ q.attempt = 0
      BY <2>4, SMT DEF RoomRecords
    <2> QED
      BY <1>2, <2>3, <2>5, <2>6, Zenon DEF PutAside, Closes, states
  <1> QED BY <1>1, <1>2

\* What is done to the other columns does not matter.
LEMMA PutAsideSame ==
  ASSUME NEW r, NEW i, NEW q, PutAside(r, i), SameRows(i, q), q.attempt = 0,
         q.session = i.session
  PROVE  PutAside(r, q)
  BY Zenon DEF PutAside, SameRows, Closes

\* A pause puts the current attempt aside.
LEMMA PauseRowRows ==
  ASSUME NEW r \in RoomRecords, Pointing(r), NEW reason, NEW aborted \in BOOLEAN,
         Interrupt(r, aborted) \in RoomRecords
  PROVE  LET q == PauseRow(r, reason, aborted)
         IN  PutAside(r, q) /\ q.status = "paused" /\ q.loop = r.loop
  <1> DEFINE i == Interrupt(r, aborted)
             q == PauseRow(r, reason, aborted)
  <1>1. PutAside(r, i) /\ i.loop = r.loop
    BY InterruptRows
  <1>2. q = [i EXCEPT !.status = "paused", !.reason = reason, !.epoch = i.epoch + 1]
    BY Zenon DEF PauseRow
  <1> HIDE DEF i, q
  <1>3. i \in RoomRecords
    BY DEF i
  <1>4. SameRows(i, q) /\ q.attempt = i.attempt /\ q.status = "paused" /\ q.loop = i.loop
        /\ q.session = i.session
    BY <1>2, <1>3, SMT DEF SameRows, RoomRecords
  <1> QED
    BY <1>1, <1>4, PutAsideSame, Zenon DEF q, PutAside

\* A stop puts the current attempt aside.
LEMMA StopRowRows ==
  ASSUME NEW r \in RoomRecords, Pointing(r), Interrupt(r, TRUE) \in RoomRecords
  PROVE  LET q == StopRow(r)
         IN  PutAside(r, q) /\ q.status = "stopped" /\ q.loop = r.loop
  <1> DEFINE i == Interrupt(r, TRUE)
             q == StopRow(r)
  <1>1. PutAside(r, i) /\ i.loop = r.loop
    BY InterruptRows
  <1>2. q = [i EXCEPT !.status = "stopped", !.reason = "none", !.epoch = i.epoch + 1]
    BY Zenon DEF StopRow
  <1> HIDE DEF i, q
  <1>3. i \in RoomRecords
    BY DEF i
  <1>4. SameRows(i, q) /\ q.attempt = i.attempt /\ q.status = "stopped" /\ q.loop = i.loop
        /\ q.session = i.session
    BY <1>2, <1>3, SMT DEF SameRows, RoomRecords
  <1> QED
    BY <1>1, <1>4, PutAsideSame, Zenon DEF q, PutAside

\* A failed attempt and an answer.
LEMMA FailRows ==
  ASSUME NEW r \in RoomRecords, Pointing(r), Unaborted(r),
         NEW x, x.attempt # 0, MatchesActive(r, x), NEW skipped \in BOOLEAN
  PROVE  LET q == FailAttempt(r, x, skipped)
         IN  /\ Closes(r, q, "failed", IF skipped THEN "skipped" ELSE "failed")
             /\ q.status = "running" /\ q.attempt = 0 /\ q.turn = NoTurn
  <1> DEFINE old == r.attempts[x.attempt]
             new == [old EXCEPT !.status = "failed"]
             grown == [r.attempts EXCEPT ![x.attempt] = new]
             verdict == IF skipped THEN "skipped" ELSE "failed"
             states == [r.state EXCEPT ![x.turn] = verdict]
  <1>1. r.status = "running" /\ x.attempt = r.attempt /\ x.turn = r.turn
    BY Zenon DEF MatchesActive
  <1>2. /\ x.attempt \in DOMAIN r.attempts /\ old.status = "running" /\ old.turn = r.turn
        /\ ~old.aborted
    BY <1>1, Zenon DEF Pointing, Unaborted
  <1>3. old \in Attempts
    BY <1>2, AttemptTyped
  <1>4. FailAttempt(r, x, skipped) = [r EXCEPT !.attempts = grown, !.state = states,
                                               !.turn = NoTurn, !.attempt = 0]
    BY Zenon DEF FailAttempt
  <1> HIDE DEF old, verdict
  <1>5. new.turn = r.turn /\ new.status = "failed" /\ ~new.aborted
    BY <1>2, <1>3, SMT DEF Attempts
  <1> HIDE DEF new
  <1>6. /\ DOMAIN grown = DOMAIN r.attempts /\ grown[x.attempt] = new
        /\ \A a \in DOMAIN r.attempts \ {x.attempt} : grown[a] = r.attempts[a]
    BY <1>2, Zenon
  <1> HIDE DEF grown, states
  <1>7. LET q == FailAttempt(r, x, skipped)
        IN  /\ q.status = r.status /\ q.turn = NoTurn
            /\ q.total = r.total /\ q.kind = r.kind /\ q.session = r.session
            /\ q.state = states /\ q.attempts = grown /\ q.attempt = 0
    BY <1>4, SMT DEF RoomRecords
  <1> QED
    BY <1>1, <1>5, <1>6, <1>7, Zenon DEF Closes, states, verdict

\* An answer completes the current attempt and its turn.
LEMMA CompleteRows ==
  ASSUME NEW r \in RoomRecords, Pointing(r), Unaborted(r),
         NEW x, x.attempt # 0, MatchesActive(r, x), NEW text
  PROVE  LET q == CompleteAttempt(r, x, text)
         IN  /\ Closes(r, q, "completed", "completed")
             /\ q.status = "running" /\ q.attempt = 0 /\ q.turn = NoTurn
  <1> DEFINE old == r.attempts[x.attempt]
             new == [old EXCEPT !.status = "completed", !.text = text]
             grown == [r.attempts EXCEPT ![x.attempt] = new]
             states == [r.state EXCEPT ![x.turn] = "completed"]
  <1>1. r.status = "running" /\ x.attempt = r.attempt /\ x.turn = r.turn
    BY Zenon DEF MatchesActive
  <1>2. /\ x.attempt \in DOMAIN r.attempts /\ old.status = "running" /\ old.turn = r.turn
        /\ ~old.aborted
    BY <1>1, Zenon DEF Pointing, Unaborted
  <1>3. old \in Attempts
    BY <1>2, AttemptTyped
  <1>4. CompleteAttempt(r, x, text) = [r EXCEPT !.attempts = grown, !.state = states,
                                                !.turn = NoTurn, !.attempt = 0]
    BY Zenon DEF CompleteAttempt
  <1> HIDE DEF old
  <1>5. new.turn = r.turn /\ new.status = "completed" /\ ~new.aborted
    BY <1>2, <1>3, SMT DEF Attempts
  <1> HIDE DEF new
  <1>6. /\ DOMAIN grown = DOMAIN r.attempts /\ grown[x.attempt] = new
        /\ \A a \in DOMAIN r.attempts \ {x.attempt} : grown[a] = r.attempts[a]
    BY <1>2, Zenon
  <1> HIDE DEF grown, states
  <1>7. LET q == CompleteAttempt(r, x, text)
        IN  /\ q.status = r.status /\ q.turn = NoTurn
            /\ q.total = r.total /\ q.kind = r.kind /\ q.session = r.session
            /\ q.state = states /\ q.attempts = grown /\ q.attempt = 0
    BY <1>4, SMT DEF RoomRecords
  <1> QED
    BY <1>1, <1>5, <1>6, <1>7, Zenon DEF Closes, states
-----------------------------------------------------------------------------
(* Counting the failures of a turn.                                        *)

FailedOf(r, t) == {a \in DOMAIN r.attempts : r.attempts[a].turn = t /\ r.attempts[a].status = "failed"}

\* The failures of a turn are counted as a finite set.
LEMMA FailuresCount ==
  ASSUME NEW r \in RoomRecords, NEW t
  PROVE  /\ IsFiniteSet(FailedOf(r, t)) /\ Failures(r, t) = Cardinality(FailedOf(r, t))
         /\ Failures(r, t) \in Nat
  <1>1. DOMAIN r.attempts = 1 .. Len(r.attempts) /\ Len(r.attempts) \in Nat
    BY FieldTyped, SMT
  <1>2. IsFiniteSet(DOMAIN r.attempts)
    BY <1>1, FS_Interval
  <1>3. FailedOf(r, t) \subseteq DOMAIN r.attempts
    BY DEF FailedOf
  <1>4. IsFiniteSet(FailedOf(r, t))
    BY <1>2, <1>3, FS_Subset
  <1>5. Failures(r, t) = Cardinality(FailedOf(r, t))
    BY DEF Failures, FailedOf
  <1> QED
    BY <1>4, <1>5, FS_CardinalityType

\* The failures of a turn are those of the attempts it has: others do not count.
LEMMA FailuresKept ==
  ASSUME NEW r \in RoomRecords, NEW q \in RoomRecords, NEW t, FailedOf(r, t) = FailedOf(q, t)
  PROVE  Failures(q, t) = Failures(r, t)
  BY FailuresCount

\* One more failed attempt is one more failure,
LEMMA FailuresGrow ==
  ASSUME NEW r \in RoomRecords, NEW q \in RoomRecords, NEW t, NEW a, a \notin FailedOf(r, t),
         FailedOf(q, t) = FailedOf(r, t) \cup {a}
  PROVE  Failures(q, t) = Failures(r, t) + 1
  BY FailuresCount, FS_AddElement

\* and no failed attempt is none.
LEMMA NoFailures ==
  ASSUME NEW r \in RoomRecords, NEW t, FailedOf(r, t) = {}
  PROVE  Failures(r, t) = 0
  BY FailuresCount, FS_EmptySet
-----------------------------------------------------------------------------
(* The agenda and the attempts, statement by statement.                    *)

\* A turn is a pair: its round and its place in it.
LEMMA TurnTyped ==
  ASSUME NEW t \in TurnIds
  PROVE  /\ t[1] \in 0 .. RoundsMax /\ t[2] \in -2 .. (ParticipantCount + 2)
         /\ t = <<t[1], t[2]>> /\ ~Before(t, t)
  BY SMT, RoundsAssumption, ParticipantAssumption DEF TurnIds, Before

\* The bookkeeping is about the rows alone.
LEMMA SameRowsBook ==
  ASSUME NEW r, Book(r), NEW q \in RoomRecords, SameRows(r, q)
  PROVE  Book(q) /\ Inserted(q) = Inserted(r) /\ Open(q) = Open(r)
  <1>1. Fresh(q) /\ Placed(q) /\ Rooted(q) /\ Unaborted(q)
    BY Zenon DEF SameRows, Book, Fresh, Placed, Rooted, Unaborted
  <1>2. Inserted(q) = Inserted(r) /\ (\A t : (Concluded(q, t) <=> Concluded(r, t)))
        /\ (\A t : HostTurn(q, t) = HostTurn(r, t))
    BY Zenon DEF SameRows, Inserted, Concluded, HostTurn
  <1>3. Open(q) = Open(r) /\ Within(q) /\ InOrder(q)
    BY <1>2, Zenon DEF SameRows, Book, Open, Within, InOrder
  <1>4. \A t : Failures(q, t) = Failures(r, t)
    BY Zenon DEF SameRows, Failures
  <1>5. Allowance(q)
    BY <1>2, <1>4, Zenon DEF SameRows, Book, Allowance
  <1> QED BY <1>1, <1>2, <1>3, <1>5 DEF Book

\* The turn that is begun is the next one: all before it are concluded, and
\* none after it has been taken up.
LEMMA BeginBook ==
  ASSUME NEW r, Book(r), NEW t \in Open(r), IsNext(r, t), NEW q \in RoomRecords,
         q.total = r.total, q.kind = r.kind, q.state = [r.state EXCEPT ![t] = "running"],
         NEW row, row.turn = t, row.status = "running", row.aborted = FALSE,
         q.attempts = Append(r.attempts, row)
  PROVE  /\ Book(q) /\ Inserted(q) = Inserted(r)
         /\ \A u \in TurnIds : (Concluded(q, u) <=> Concluded(r, u))
  <1>1. /\ t \in TurnIds /\ r.kind[t] # "none" /\ ~Concluded(r, t) /\ r \in RoomRecords
        /\ t \in Inserted(r)
    BY DEF Open, Inserted, Book
  <1>2. \A u \in TurnIds : q.state[u] = IF u = t THEN "running" ELSE r.state[u]
    BY <1>1, FieldTyped, Zenon
  <1>3. /\ DOMAIN q.attempts = DOMAIN r.attempts \cup {Len(r.attempts) + 1}
        /\ Len(r.attempts) + 1 \notin DOMAIN r.attempts
        /\ q.attempts[Len(r.attempts) + 1] = row
        /\ \A a \in DOMAIN r.attempts : q.attempts[a] = r.attempts[a]
    BY <1>1, FieldTyped, SMT
  <1>4. Inserted(q) = Inserted(r) /\ (\A u : HostTurn(q, u) = HostTurn(r, u))
    BY Zenon DEF Inserted, HostTurn
  <1>5. \A u \in TurnIds : (Concluded(q, u) <=> Concluded(r, u))
    BY <1>1, <1>2, SMT DEF Concluded
  <1>6. Fresh(q) /\ Within(q) /\ Placed(q)
    BY <1>1, <1>2, <1>4, Zenon DEF Book, Fresh, Within, Placed
  <1>7. Rooted(q) /\ Unaborted(q)
    BY <1>1, <1>3, Zenon DEF Book, Rooted, Unaborted
  <1>8. InOrder(q)
    <2> SUFFICES ASSUME NEW b \in Inserted(q), NEW u \in Inserted(q), Before(b, u),
                        q.state[u] # "pending"
                 PROVE  Concluded(q, b)
      BY DEF InOrder
    <2>1. b \in Inserted(r) /\ u \in Inserted(r) /\ b \in TurnIds /\ u \in TurnIds
      BY <1>4 DEF Inserted
    <2>2. CASE u = t
      BY <1>5, <2>1, <2>2, Zenon DEF IsNext, Open
    <2>3. CASE u # t
      BY <1>2, <1>5, <2>1, <2>3, Zenon DEF Book, InOrder
    <2> QED BY <2>2, <2>3
  <1>9. Allowance(q)
    <2>1. \A u : FailedOf(r, u) = FailedOf(q, u)
      BY <1>3, Zenon DEF FailedOf
    <2>2. \A u : Failures(q, u) = Failures(r, u)
      BY <1>1, <2>1, FailuresKept
    <2>3. \A u \in TurnIds : (q.state[u] = "skipped") = (r.state[u] = "skipped")
      BY <1>1, <1>2, Zenon DEF Concluded
    <2> QED
      BY <1>4, <2>2, <2>3, Zenon DEF Book, Allowance, Inserted
  <1> QED BY <1>4, <1>5, <1>6, <1>7, <1>8, <1>9 DEF Book

\* How an attempt and its turn may end: a participant is skipped when its
\* second attempt fails, and no other turn is skipped.
Ends(r, s, v) ==
  /\ v \in TurnStatuses
  /\ v = "skipped" => s = "failed" /\ r.kind[r.turn] = "participant"
  /\ s = "failed" /\ r.kind[r.turn] = "participant" =>
       (v = "skipped") = (Failures(r, r.turn) = 1)

\* The current turn has no failure too many, being neither skipped nor done.
LEMMA CurrentCount ==
  ASSUME NEW r, Book(r), Pointing(r), r.attempt # 0
  PROVE  /\ r.turn \in Inserted(r) /\ ~Concluded(r, r.turn)
         /\ r.kind[r.turn] = "participant" => Failures(r, r.turn) \in {0, 1}
  <1>1. r.turn \in TurnIds /\ r.kind[r.turn] # "none" /\ r.state[r.turn] = "running"
    BY Zenon DEF Pointing, Book, Rooted
  <1>2. r.turn \in Inserted(r) /\ ~Concluded(r, r.turn)
    BY <1>1, Zenon DEF Inserted, Concluded
  <1>3. r.kind[r.turn] = "participant" =>
          Failures(r, r.turn) <= 2 /\ Failures(r, r.turn) # 2
    BY <1>1, <1>2, Zenon DEF Book, Allowance
  <1>4. Failures(r, r.turn) \in Nat
    BY FailuresCount DEF Book
  <1> QED BY <1>2, <1>3, <1>4, SMT

\* Closing the current attempt, in a way that Ends allows, keeps the bookkeeping.
LEMMA ClosesBook ==
  ASSUME NEW r, Book(r), Pointing(r), r.attempt # 0, NEW q \in RoomRecords,
         NEW s, s # "running", NEW v, Closes(r, q, s, v), Ends(r, s, v)
  PROVE  /\ Book(q) /\ Inserted(q) = Inserted(r)
         /\ \A u \in TurnIds \ {r.turn} : (Concluded(q, u) <=> Concluded(r, u))
  <1> DEFINE t == r.turn
             c == r.attempt
  <1>1. /\ r \in RoomRecords /\ t \in TurnIds /\ t \in Inserted(r) /\ r.state[t] = "running"
        /\ c \in DOMAIN r.attempts /\ r.attempts[c].status = "running"
        /\ r.attempts[c].turn = t /\ ~Concluded(r, t) /\ r.kind[t] # "none"
    BY CurrentCount DEF Book, Pointing, Inserted
  <1>2. /\ q.total = r.total /\ q.kind = r.kind /\ DOMAIN q.attempts = DOMAIN r.attempts
        /\ \A a \in DOMAIN r.attempts \ {c} : q.attempts[a] = r.attempts[a]
        /\ q.attempts[c].turn = t /\ q.attempts[c].status = s
        /\ q.attempts[c].aborted => s = "interrupted"
    BY Zenon DEF Closes
  <1>3. \A u \in TurnIds : q.state[u] = IF u = t THEN v ELSE r.state[u]
    BY <1>1, FieldTyped, Zenon DEF Closes
  <1> HIDE DEF t, c
  <1>4. Inserted(q) = Inserted(r) /\ (\A u : HostTurn(q, u) = HostTurn(r, u))
    BY <1>2, Zenon DEF Inserted, HostTurn
  <1>5. \A u \in TurnIds \ {t} : (Concluded(q, u) <=> Concluded(r, u))
    BY <1>3, SMT DEF Concluded
  <1>6. Fresh(q) /\ Within(q) /\ Placed(q)
    BY <1>1, <1>2, <1>3, <1>4, Zenon DEF Book, Fresh, Within, Placed
  <1>7. Rooted(q) /\ Unaborted(q)
    <2>1. Rooted(r) /\ Unaborted(r)
      BY DEF Book
    <2> SUFFICES ASSUME NEW a \in DOMAIN r.attempts
                 PROVE  /\ q.kind[q.attempts[a].turn] # "none"
                        /\ q.attempts[a].aborted => q.attempts[a].status = "interrupted"
      BY <1>2 DEF Rooted, Unaborted
    <2>2. CASE a = c
      BY <1>1, <1>2, <2>2
    <2>3. CASE a # c
      BY <1>2, <2>1, <2>3, Zenon DEF Rooted, Unaborted
    <2> QED BY <2>2, <2>3
  <1>8. InOrder(q)
    <2> SUFFICES ASSUME NEW b \in Inserted(q), NEW u \in Inserted(q), Before(b, u),
                        q.state[u] # "pending"
                 PROVE  Concluded(q, b)
      BY DEF InOrder
    <2>1. b \in Inserted(r) /\ u \in Inserted(r) /\ b \in TurnIds /\ u \in TurnIds
      BY <1>4 DEF Inserted
    <2>2. r.state[u] # "pending"
      BY <1>1, <1>3, <2>1, Zenon
    <2>3. Concluded(r, b)
      BY <2>1, <2>2, Zenon DEF Book, InOrder
    <2> QED BY <1>1, <1>5, <2>1, <2>3, Zenon
  <1>9. Allowance(q)
    <2>1. \A u : u # t => FailedOf(r, u) = FailedOf(q, u)
      BY <1>1, <1>2, Zenon DEF FailedOf
    <2>2. \A u : u # t => Failures(q, u) = Failures(r, u)
      BY <1>1, <2>1, FailuresKept
    <2>3. s # "failed" => Failures(q, t) = Failures(r, t)
      <3>1. s # "failed" => FailedOf(r, t) = FailedOf(q, t)
        BY <1>1, <1>2, Zenon DEF FailedOf
      <3> QED BY <1>1, <3>1, FailuresKept
    <2>4. s = "failed" => Failures(q, t) = Failures(r, t) + 1
      <3>1. c \notin FailedOf(r, t)
        BY <1>1, Zenon DEF FailedOf
      <3>2. s = "failed" => FailedOf(q, t) = FailedOf(r, t) \cup {c}
        BY <1>1, <1>2, Zenon DEF FailedOf
      <3> QED BY <1>1, <3>1, <3>2, FailuresGrow
    <2>5. r.kind[t] = "participant" =>
            Failures(q, t) <= 2 /\ (v = "skipped") = (Failures(q, t) = 2)
      <3>1. r.kind[t] = "participant" => Failures(r, t) \in {0, 1}
        BY CurrentCount DEF t
      <3>2. /\ v = "skipped" => s = "failed" /\ r.kind[t] = "participant"
            /\ s = "failed" /\ r.kind[t] = "participant" =>
                 (v = "skipped") = (Failures(r, t) = 1)
        BY Zenon DEF Ends, t
      <3> QED BY <2>3, <2>4, <3>1, <3>2, SMT
    <2>6. HostTurn(r, t) => v # "skipped"
      BY Zenon DEF Ends, HostTurn, t
    <2> SUFFICES ASSUME NEW u \in Inserted(q)
                 PROVE  /\ q.kind[u] = "participant" =>
                             Failures(q, u) <= 2 /\ (q.state[u] = "skipped") = (Failures(q, u) = 2)
                        /\ HostTurn(q, u) => q.state[u] # "skipped"
      BY DEF Allowance
    <2>7. u \in TurnIds /\ u \in Inserted(r)
      BY <1>4 DEF Inserted
    <2>8. CASE u = t
      BY <1>2, <1>3, <1>4, <2>5, <2>6, <2>7, <2>8, Zenon
    <2>9. CASE u # t
      BY <1>2, <1>3, <1>4, <2>2, <2>7, <2>9, Zenon DEF Book, Allowance
    <2> QED BY <2>8, <2>9
  <1> QED BY <1>4, <1>5, <1>6, <1>7, <1>8, <1>9 DEF Book, t

\* Turns that are not concluded are put back: nothing after them was taken up.
LEMMA PutBackBook ==
  ASSUME NEW r, Book(r), NEW q \in RoomRecords,
         q.total = r.total, q.kind = r.kind, q.attempts = r.attempts,
         \A u \in TurnIds : \/ q.state[u] = r.state[u]
                            \/ ~Concluded(r, u) /\ q.state[u] = "pending"
  PROVE  /\ Book(q) /\ Inserted(q) = Inserted(r)
         /\ \A u \in TurnIds : (Concluded(q, u) <=> Concluded(r, u))
  <1>1. Inserted(q) = Inserted(r) /\ (\A u : HostTurn(q, u) = HostTurn(r, u))
    BY Zenon DEF Inserted, HostTurn
  <1>2. \A u \in TurnIds : (Concluded(q, u) <=> Concluded(r, u))
    BY SMT DEF Concluded
  <1>3. Fresh(q) /\ Within(q) /\ Placed(q) /\ Rooted(q) /\ Unaborted(q)
    BY <1>1, Zenon DEF Book, Fresh, Within, Placed, Rooted, Unaborted
  <1>4. InOrder(q)
    BY <1>1, <1>2, Zenon DEF Book, InOrder, Inserted
  <1>5. \A u : Failures(q, u) = Failures(r, u)
    BY Zenon DEF Failures
  <1>6. \A u \in TurnIds : (q.state[u] = "skipped") = (r.state[u] = "skipped")
    BY SMT DEF Concluded
  <1>7. Allowance(q)
    BY <1>1, <1>5, <1>6, Zenon DEF Book, Allowance, Inserted
  <1> QED BY <1>1, <1>2, <1>3, <1>4, <1>7 DEF Book

\* Turns come in the order of their rounds, then of their places.
LEMMA OrderOfTurns ==
  ASSUME NEW t \in TurnIds, NEW u \in TurnIds
  PROVE  /\ Before(t, u) => t[1] <= u[1]
         /\ t[1] < u[1] => Before(t, u)
         /\ t[1] = u[1] => Before(t, u) = (t[2] < u[2])
         /\ t[1] = u[1] /\ t[2] = u[2] => t = u
  BY TurnTyped, SMT DEF Before

\* Where the turns of a new meeting lie.
LEMMA InitialPlaces ==
  ASSUME NEW total \in 0 .. RoundsMax, NEW t \in TurnIds
  PROVE  LET k == InitialKind(total, t)
         IN  /\ k # "none" => t[1] <= total /\ (t[1] = total => t[2] <= ParticipantCount + 2)
             /\ k = "participant" => t[2] \in 0 .. (ParticipantCount - 1)
             /\ k # "user_supplement"
             /\ t = <<total, ParticipantCount + 2>> => k = "final_summary"
             /\ k = "final_summary" => t = <<total, ParticipantCount + 2>>
  BY TurnTyped, ParticipantAssumption, RoundsAssumption, SMT DEF InitialKind

\* A draft has no turns yet, so it has neither attempts nor a turn taken up.
LEMMA FreezeBook ==
  ASSUME NEW r, Book(r), Inserted(r) = {}, FreezeForStart(r) \in RoomRecords
  PROVE  LET q == FreezeForStart(r)
         IN  /\ Book(q) /\ LastIsFinal(q)
             /\ \A t \in Inserted(q) : ~Concluded(q, t)
  <1> DEFINE q == FreezeForStart(r)
             last == <<r.total, ParticipantCount + 2>>
  <1>1. /\ q.total = r.total /\ q.kind = [t \in TurnIds |-> InitialKind(r.total, t)]
        /\ q.state = r.state /\ q.attempts = r.attempts /\ r \in RoomRecords
    BY FreezeFields DEF Book
  <1>2. r.total \in 0 .. RoundsMax
    BY <1>1, FieldTyped
  <1>3. q \in RoomRecords
    OBVIOUS
  <1> HIDE DEF q
  <1>4. \A t \in TurnIds : r.kind[t] = "none"
    BY DEF Inserted
  <1>5. \A t \in TurnIds : q.state[t] = "pending" /\ ~Concluded(q, t)
    BY <1>1, <1>4, Zenon DEF Book, Fresh, Concluded
  <1>6. DOMAIN r.attempts = {}
    <2> SUFFICES ASSUME NEW a \in DOMAIN r.attempts PROVE FALSE
      OBVIOUS
    <2>1. r.attempts[a].turn \in TurnIds
      BY <1>1, AttemptTyped, Zenon DEF Attempts
    <2> QED BY <1>4, <2>1, Zenon DEF Book, Rooted
  <1>7. Fresh(q) /\ Rooted(q) /\ Unaborted(q) /\ InOrder(q)
    BY <1>1, <1>5, <1>6, Zenon DEF Fresh, Rooted, Unaborted, InOrder, Inserted
  <1>8. Within(q) /\ Placed(q)
    BY <1>1, <1>2, InitialPlaces, Zenon DEF Within, Placed, Inserted
  <1>9. Allowance(q)
    <2>1. \A t : FailedOf(q, t) = {}
      BY <1>1, <1>6 DEF FailedOf
    <2>2. \A t : Failures(q, t) = 0
      BY <1>3, <2>1, NoFailures
    <2> QED BY <1>5, <2>2, SMT DEF Allowance, Inserted
  <1>10. LastIsFinal(q)
    <2>1. last \in TurnIds /\ last[1] = r.total /\ last[2] = ParticipantCount + 2
      BY <1>2, ParticipantAssumption, SMT DEF TurnIds
    <2>2. q.kind[last] = "final_summary" /\ last \in Inserted(q)
      BY <1>1, <1>2, <2>1, InitialPlaces DEF Inserted
    <2>3. ASSUME NEW u \in Inserted(q) \ {last} PROVE Before(u, last)
      <3>1. u \in TurnIds /\ InitialKind(r.total, u) # "none"
        BY <1>1, <2>3 DEF Inserted
      <3>2. u[1] <= r.total /\ (u[1] = r.total => u[2] <= ParticipantCount + 2)
        BY <1>2, <3>1, InitialPlaces
      <3>3. ~(u[1] = last[1] /\ u[2] = last[2])
        BY <2>1, <2>3, <3>1, OrderOfTurns
      <3> HIDE DEF last
      <3> QED BY <2>1, <3>1, <3>2, <3>3, TurnTyped, ParticipantAssumption, <1>2, SMT DEF Before
    <2> QED BY <2>2, <2>3, Zenon DEF LastIsFinal
  <1> QED BY <1>3, <1>5, <1>7, <1>8, <1>9, <1>10 DEF Book, q, Inserted

\* Where the turns of an appended round lie.
LEMMA AppendedPlaces ==
  ASSUME NEW t \in TurnIds
  PROVE  LET k == AppendedKind(t)
         IN  /\ k = "participant" => t[2] \in 0 .. (ParticipantCount - 1)
             /\ k = "user_supplement" => t[2] = -2
             /\ t[2] = -2 => k = "user_supplement"
             /\ t[2] = ParticipantCount + 1 => k = "final_summary"
             /\ k # "none" => t[2] <= ParticipantCount + 1
  BY TurnTyped, ParticipantAssumption, SMT DEF AppendedKind

\* Another round comes after all that has been held; only its supplement, the
\* first of its turns, counts as held.
LEMMA AppendBook ==
  ASSUME NEW r, Book(r), Open(r) = {}, r.total < RoundsMax, AppendRoundRows(r) \in RoomRecords
  PROVE  LET q == AppendRoundRows(r)
             next == r.total + 1
         IN  /\ Book(q) /\ LastIsFinal(q)
             /\ Inserted(r) \subseteq Inserted(q)
             /\ \A t \in Inserted(r) : Concluded(r, t) /\ Concluded(q, t) /\ t[1] < next
             /\ \A t \in Inserted(q) \ Inserted(r) :
                  t[1] = next /\ Concluded(q, t) = (t[2] = -2)
             /\ \E t \in Inserted(q) : ~Concluded(q, t)
  <1> DEFINE q == AppendRoundRows(r)
             next == r.total + 1
             last == <<next, ParticipantCount + 1>>
  <1>1. /\ q.total = next
        /\ q.kind = [t \in TurnIds |-> IF t[1] = next THEN AppendedKind(t) ELSE r.kind[t]]
        /\ q.state = [r.state EXCEPT ![<<next, -2>>] = "completed"]
        /\ q.attempts = r.attempts /\ r \in RoomRecords
    BY AppendFields DEF Book
  <1>2. r.total \in 0 .. RoundsMax /\ next \in 0 .. RoundsMax /\ r.total < next
    BY <1>1, FieldTyped, RoundsAssumption, SMT
  <1>3. q \in RoomRecords
    OBVIOUS
  <1> HIDE DEF q, next
  <1>4. \A t \in TurnIds : q.kind[t] = IF t[1] = next THEN AppendedKind(t) ELSE r.kind[t]
    BY <1>1, Zenon
  <1>5. \A t \in TurnIds : q.state[t] = IF t[1] = next /\ t[2] = -2 THEN "completed"
                                       ELSE r.state[t]
    <2> SUFFICES ASSUME NEW t \in TurnIds
                 PROVE  q.state[t] = IF t[1] = next /\ t[2] = -2 THEN "completed"
                                     ELSE r.state[t]
      OBVIOUS
    <2>1. (t = <<next, -2>>) = (t[1] = next /\ t[2] = -2)
      BY TurnTyped, SMT
    <2>2. r.state \in [TurnIds -> TurnStatuses]
      BY <1>1, FieldTyped
    <2> QED BY <1>1, <2>1, <2>2, Zenon
  <1>6. \A t \in TurnIds : t[1] = next => r.kind[t] = "none" /\ r.state[t] = "pending"
    <2>1. \A t \in Inserted(r) : t[1] # next
      BY <1>2, TurnTyped, SMT DEF Book, Within, Inserted
    <2> QED BY <2>1, Zenon DEF Book, Fresh, Inserted
  <1>7. \A t \in Inserted(r) : /\ t \in TurnIds /\ t[1] # next /\ t[1] < next
                             /\ Concluded(r, t)
    <2>1. \A t \in Inserted(r) : t \in TurnIds /\ Concluded(r, t) /\ t[1] <= r.total
      BY DEF Open, Inserted, Book, Within
    <2> QED BY <1>2, <2>1, TurnTyped, SMT
  <1>8. \A t \in Inserted(r) : t \in Inserted(q) /\ Concluded(q, t) /\ q.kind[t] = r.kind[t]
    BY <1>4, <1>5, <1>7, Zenon DEF Inserted, Concluded
  <1>9. \A t \in Inserted(q) \ Inserted(r) :
          /\ t \in TurnIds /\ t[1] = next /\ Concluded(q, t) = (t[2] = -2)
          /\ (t[2] # -2 => q.state[t] = "pending")
    <2> SUFFICES ASSUME NEW t \in Inserted(q) \ Inserted(r)
                 PROVE  /\ t \in TurnIds /\ t[1] = next /\ Concluded(q, t) = (t[2] = -2)
                        /\ (t[2] # -2 => q.state[t] = "pending")
      OBVIOUS
    <2>1. t \in TurnIds /\ t[1] = next
      BY <1>4, Zenon DEF Inserted
    <2>2. q.state[t] = IF t[2] = -2 THEN "completed" ELSE "pending"
      BY <1>5, <1>6, <2>1, Zenon
    <2> QED BY <2>1, <2>2, SMT DEF Concluded
  <1>10. Fresh(q)
    BY <1>4, <1>5, <1>6, AppendedPlaces, Zenon DEF Book, Fresh
  <1>11. Within(q) /\ Placed(q)
    <2>1. Within(q)
      BY <1>1, <1>2, <1>7, <1>9, TurnTyped, SMT DEF Within
    <2>2. Placed(q)
      BY <1>4, AppendedPlaces, Zenon DEF Book, Placed
    <2> QED BY <2>1, <2>2
  <1>12. \A a \in DOMAIN r.attempts : r.attempts[a].turn \in Inserted(r)
    <2> SUFFICES ASSUME NEW a \in DOMAIN r.attempts PROVE r.attempts[a].turn \in Inserted(r)
      OBVIOUS
    <2>1. r.attempts[a].turn \in TurnIds
      BY <1>1, AttemptTyped, Zenon DEF Attempts
    <2> QED BY <2>1, Zenon DEF Book, Rooted, Inserted
  <1>13. Rooted(q) /\ Unaborted(q)
    BY <1>1, <1>8, <1>12, Zenon DEF Book, Rooted, Unaborted, Inserted
  <1>14. InOrder(q)
    <2> SUFFICES ASSUME NEW b \in Inserted(q), NEW u \in Inserted(q), Before(b, u),
                        q.state[u] # "pending"
                 PROVE  Concluded(q, b)
      BY DEF InOrder
    <2>1. b \in TurnIds /\ u \in TurnIds
      BY DEF Inserted
    <2>2. CASE u \in Inserted(r)
      <3>1. b[1] # next
        BY <1>7, <2>1, <2>2, OrderOfTurns, TurnTyped, <1>2, SMT
      <3> QED BY <1>8, <1>9, <3>1, Zenon
    <2>3. CASE u \notin Inserted(r) /\ b \notin Inserted(r)
      <3>1. u[1] = next /\ b[1] = next /\ u[2] = -2
        BY <1>9, <2>3
      <3>2. b[2] < -2
        BY <2>1, <3>1, OrderOfTurns
      <3> QED BY <2>1, <3>2, TurnTyped, ParticipantAssumption, SMT
    <2>4. CASE b \in Inserted(r)
      BY <1>8, <2>4
    <2> QED BY <2>2, <2>3, <2>4
  <1>15. Allowance(q)
    <2>1. \A t : Failures(q, t) = Failures(r, t)
      <3>1. q.attempts = r.attempts
        BY <1>1
      <3> QED BY <3>1, Zenon DEF Failures
    <2>2. ASSUME NEW t \in Inserted(q) \ Inserted(r)
          PROVE  Failures(q, t) = 0 /\ (q.state[t] = "skipped") = FALSE
      <3>1. FailedOf(r, t) = {}
        BY <1>12, <2>2, Zenon DEF FailedOf
      <3>2. Failures(q, t) = 0
        BY <1>1, <2>1, <3>1, NoFailures
      <3>3. q.state[t] # "skipped"
        BY <1>5, <1>6, <1>9, <2>2, Zenon
      <3> QED BY <3>2, <3>3
    <2> SUFFICES ASSUME NEW u \in Inserted(q)
                 PROVE  /\ q.kind[u] = "participant" =>
                             Failures(q, u) <= 2 /\ (q.state[u] = "skipped") = (Failures(q, u) = 2)
                        /\ HostTurn(q, u) => q.state[u] # "skipped"
      BY DEF Allowance
    <2>3. CASE u \in Inserted(r)
      <3>1. u \in TurnIds /\ u[1] # next /\ q.kind[u] = r.kind[u] /\ q.state[u] = r.state[u]
        BY <1>5, <1>7, <1>8, <2>3
      <3> QED BY <2>1, <2>3, <3>1, Zenon DEF Book, Allowance, HostTurn
    <2>4. CASE u \notin Inserted(r)
      <3>1. Failures(q, u) = 0 /\ (q.state[u] = "skipped") = FALSE
        BY <2>2, <2>4
      <3> QED BY <3>1, SMT
    <2> QED BY <2>3, <2>4
  <1>16. last \in TurnIds /\ last[1] = next /\ last[2] = ParticipantCount + 1
    BY <1>2, ParticipantAssumption, SMT DEF TurnIds
  <1>17. q.kind[last] = "final_summary" /\ last \in Inserted(q) /\ ~Concluded(q, last)
    <2>1. q.kind[last] = "final_summary" /\ last \in Inserted(q)
      BY <1>4, <1>16, AppendedPlaces DEF Inserted
    <2>2. last \notin Inserted(r) /\ last[2] # -2
      BY <1>7, <1>16, ParticipantAssumption, SMT
    <2> QED BY <1>9, <2>1, <2>2, Zenon
  <1>18. LastIsFinal(q)
    <2> SUFFICES ASSUME NEW u \in Inserted(q) \ {last} PROVE Before(u, last)
      BY <1>17, Zenon DEF LastIsFinal
    <2>1. u \in TurnIds
      BY DEF Inserted
    <2>2. CASE u \in Inserted(r)
      BY <1>7, <1>16, <2>1, <2>2, OrderOfTurns
    <2>3. CASE u \notin Inserted(r)
      <3>1. u[1] = next /\ AppendedKind(u) # "none"
        BY <1>4, <1>9, <2>1, <2>3, Zenon DEF Inserted
      <3>2. u[2] <= ParticipantCount + 1
        BY <2>1, <3>1, AppendedPlaces
      <3>3. u[2] # last[2]
        BY <1>16, <2>1, <3>1, OrderOfTurns
      <3> HIDE DEF last
      <3>4. u[2] \in Int
        BY <2>1, TurnTyped, ParticipantAssumption, SMT
      <3>5. u[2] < last[2]
        BY <1>16, <3>2, <3>3, <3>4, ParticipantAssumption, SMT
      <3> QED BY <1>16, <2>1, <3>1, <3>5, OrderOfTurns
    <2> QED BY <2>2, <2>3
  <1> QED
    BY <1>3, <1>7, <1>8, <1>9, <1>10, <1>11, <1>13, <1>14, <1>15, <1>17, <1>18, Zenon
    DEF Book, q, next
-----------------------------------------------------------------------------
(* What the relations between rows preserve.                               *)

\* Same rows: the same turns are concluded, the same attempts recorded.
LEMMA SameRowsKeeps ==
  ASSUME NEW r, NEW q, SameRows(r, q)
  PROVE  /\ SameHeld(r, q) /\ Recorded(r, q)
         /\ Tidy(r) /\ q.session = r.session /\ q.attempt = r.attempt => Tidy(q)
  BY Zenon DEF SameRows, SameHeld, Recorded, Concluded, Tidy, NoOrphan

\* With the same turns concluded, the agenda is the same.
LEMMA SameHeldSets ==
  ASSUME NEW r, NEW q, SameHeld(r, q)
  PROVE  Inserted(q) = Inserted(r) /\ Open(q) = Open(r) /\ (LastIsFinal(r) => LastIsFinal(q))
  <1>1. Inserted(q) = Inserted(r)
    BY Zenon DEF SameHeld, Inserted
  <1>2. Open(q) = Open(r)
    BY <1>1, Zenon DEF SameHeld, Open, Inserted
  <1>3. LastIsFinal(r) => LastIsFinal(q)
    BY <1>1, Zenon DEF SameHeld, LastIsFinal
  <1> QED BY <1>1, <1>2, <1>3

\* A step that concludes nothing keeps what the status says.
LEMMA StageKept ==
  ASSUME NEW r, Stage(r), NEW q, SameHeld(r, q),
         q.status \in Unstarted <=> r.status \in Unstarted,
         q.status = "completed" => Open(q) = {}
  PROVE  Stage(q)
  BY SameHeldSets, Zenon DEF Stage

\* SameHeld and Recorded compose.
LEMMA SameHeldTransitive ==
  ASSUME NEW r, NEW i, NEW q, SameHeld(r, i), SameHeld(i, q)
  PROVE  SameHeld(r, q)
  BY Zenon DEF SameHeld

LEMMA RecordedTransitive ==
  ASSUME NEW r, NEW i, NEW q, Recorded(r, i), Recorded(i, q)
  PROVE  Recorded(r, q)
  <1> SUFFICES ASSUME NEW a \in DOMAIN r.attempts
               PROVE  /\ a \in DOMAIN q.attempts
                      /\ r.attempts[a].status # "running" => q.attempts[a] = r.attempts[a]
                      /\ q.attempts[a].status = "completed" => r.attempts[a].status = "completed"
    BY DEF Recorded
  <1>1. /\ a \in DOMAIN i.attempts
        /\ r.attempts[a].status # "running" => i.attempts[a] = r.attempts[a]
        /\ i.attempts[a].status = "completed" => r.attempts[a].status = "completed"
    BY DEF Recorded
  <1>2. /\ a \in DOMAIN q.attempts
        /\ i.attempts[a].status # "running" => q.attempts[a] = i.attempts[a]
        /\ q.attempts[a].status = "completed" => i.attempts[a].status = "completed"
    BY <1>1 DEF Recorded
  <1> QED BY <1>1, <1>2, Zenon

\* Closing the current attempt without an answer.
LEMMA ClosesKeeps ==
  ASSUME NEW r, Pointing(r), r.attempt # 0, NEW q, NEW s, NEW v, Closes(r, q, s, v)
  PROVE  /\ s # "completed" => Recorded(r, q)
         /\ s # "running" /\ q.attempt = 0 /\ Tidy(r) => Tidy(q)
  <1>1. /\ r.attempt \in DOMAIN r.attempts /\ r.attempts[r.attempt].status = "running"
        /\ DOMAIN q.attempts = DOMAIN r.attempts /\ q.session = r.session
        /\ \A a \in DOMAIN r.attempts \ {r.attempt} : q.attempts[a] = r.attempts[a]
        /\ q.attempts[r.attempt].status = s
    BY Zenon DEF Pointing, Closes
  <1>2. s # "completed" => Recorded(r, q)
    BY <1>1, Zenon DEF Recorded
  <1>3. s # "running" /\ q.attempt = 0 /\ Tidy(r) => Tidy(q)
    BY <1>1, Zenon DEF Tidy, NoOrphan
  <1> QED BY <1>2, <1>3

\* Putting the current attempt aside keeps the bookkeeping.
LEMMA PutAsideBook ==
  ASSUME NEW r, Book(r), Pointing(r), NEW q \in RoomRecords, PutAside(r, q)
  PROVE  Book(q) /\ SameHeld(r, q) /\ Recorded(r, q) /\ (Tidy(r) => Tidy(q))
  <1>1. CASE r.attempt = 0
    BY <1>1, SameRowsBook, SameRowsKeeps DEF PutAside
  <1>2. CASE r.attempt # 0
    <2>1. Closes(r, q, "interrupted", "interrupted") /\ q.attempt = 0
      BY <1>2 DEF PutAside
    <2>2. Ends(r, "interrupted", "interrupted")
      BY DEF Ends, TurnStatuses
    <2>3. /\ Book(q)
          /\ \A u \in TurnIds \ {r.turn} : (Concluded(q, u) <=> Concluded(r, u))
      BY <1>2, <2>1, <2>2, ClosesBook
    <2>4. Recorded(r, q) /\ (Tidy(r) => Tidy(q))
      BY <1>2, <2>1, ClosesKeeps
    <2>5. ~Concluded(r, r.turn) /\ r.turn \in TurnIds
      BY <1>2, CurrentCount DEF Inserted
    <2>6. q.state[r.turn] = "interrupted" /\ q.kind = r.kind
      BY <2>1, <2>5, FieldTyped, Zenon DEF Closes, Book
    <2>7. ~Concluded(q, r.turn)
      BY <2>6 DEF Concluded
    <2>8. SameHeld(r, q)
      BY <2>3, <2>5, <2>6, <2>7, SMT DEF SameHeld
    <2> QED BY <2>3, <2>4, <2>8
  <1> QED BY <1>1, <1>2
-----------------------------------------------------------------------------
(* The loop, from its top to its return or its next await.                 *)

Ledger(r) == Book(r) /\ Stage(r)

\* The run of the attempt a room points at has not been told to stop.
Unstopped(r) == r.loop = "awaiting" /\ r.attempt # 0 => ~r.run.stopped

\* The step sets room m, after its loop went from r.
Goes(m, r) ==
  \E q : /\ Set(m, q) /\ Ledger(q) /\ Went(r, q) /\ Unstopped(q)
         /\ authorized /\ available /\ r.status = "running" => q.status # "paused"
         /\ SetupSafe /\ Tidy(r) /\ r.attempt = 0 => Attended(q)

\* Leaving the loop is one of the ways the loop goes.
LEMMA LeaveWent ==
  ASSUME NEW r, RowInv(r), Ledger(r)
  PROVE  LET q == Leave(r)
         IN  /\ Ledger(q) /\ Went(r, q) /\ (Tidy(r) => Tidy(q))
             /\ q.attempt = r.attempt /\ q.status = r.status /\ Unstopped(q)
  <1> DEFINE q == Leave(r)
  <1>1. SameRows(r, q) /\ q.session = r.session /\ q.status = r.status /\ q.attempt = r.attempt
        /\ q.loop = "idle"
    BY LeaveFields DEF RowInv, SameRows
  <1>2. q \in RoomRecords
    BY LeaveInv DEF RoomInv, RowInv
  <1> HIDE DEF q
  <1>3. Book(q) /\ SameHeld(r, q) /\ Recorded(r, q) /\ (Tidy(r) => Tidy(q))
    BY <1>1, <1>2, SameRowsBook, SameRowsKeeps DEF Ledger
  <1>4. Stage(q)
    BY <1>1, <1>3, StageKept, SameHeldSets DEF Ledger, Stage
  <1> QED BY <1>1, <1>3, <1>4 DEF Ledger, Went, Unstopped, q

\* A room that does not run, and holds no attempt, is attended by no loop.
LEMMA AtRestAttended ==
  ASSUME NEW q, q.status # "running", q.attempt = 0
  PROVE  Tidy(q) => Attended(q)
  BY DEF Attended, HasLoop

\* So is pausing for the licence or the engine,
LEMMA PauseWent ==
  ASSUME NEW r, RowInv(r), Ledger(r), r.status \notin Unstarted,
         NEW reason \in PauseReasons, NEW aborted \in BOOLEAN
  PROVE  LET q == PauseRow(StopActive(r), reason, aborted)
         IN  /\ Ledger(q) /\ SameHeld(r, q) /\ Recorded(r, q) /\ (Tidy(r) => Tidy(q))
             /\ q.status = "paused" /\ q.attempt = 0 /\ RowInv(q)
  <1> DEFINE s == StopActive(r)
             q == PauseRow(s, reason, aborted)
  <1>1. RowInv(s) /\ s \in RoomRecords /\ Pointing(s)
    BY StopActiveRow, LivePoints DEF RowInv
  <1>2. SameRows(r, s) /\ s.session = r.session /\ s.attempt = r.attempt
    BY StopActiveFields DEF RowInv, SameRows
  <1> HIDE DEF s
  <1>3. Book(s) /\ SameHeld(r, s) /\ Recorded(r, s) /\ (Tidy(r) => Tidy(s))
    BY <1>1, <1>2, SameRowsBook, SameRowsKeeps DEF Ledger
  <1>4. Interrupt(s, aborted) \in RoomRecords
    BY <1>1, RowInterruptible, InterruptQuiet DEF Quiet
  <1>5. PutAside(s, q) /\ q.status = "paused"
    BY <1>1, <1>4, PauseRowRows
  <1>6. Quiet(q)
    BY <1>1, RowInterruptible, PauseRowQuiet
  <1> HIDE DEF q
  <1>7. Book(q) /\ SameHeld(s, q) /\ Recorded(s, q) /\ (Tidy(s) => Tidy(q))
    BY <1>1, <1>3, <1>5, <1>6, PutAsideBook DEF Quiet
  <1>8. SameHeld(r, q) /\ Recorded(r, q)
    BY <1>3, <1>7, SameHeldTransitive, RecordedTransitive
  <1>9. Stage(q)
    BY <1>5, <1>8, StageKept, Zenon DEF Ledger, Unstarted
  <1> QED BY <1>3, <1>5, <1>6, <1>7, <1>8, <1>9, QuietRow DEF Ledger, Quiet, q, s

\* completing a meeting with nothing left,
LEMMA CompletedWent ==
  ASSUME NEW r, RowInv(r), Ledger(r), r.status \notin Unstarted, Open(r) = {}
  PROVE  LET q == MarkCompleted(r)
         IN  /\ Ledger(q) /\ SameHeld(r, q) /\ Recorded(r, q)
             /\ (Tidy(r) /\ r.attempt = 0 => Tidy(q))
             /\ q.status = "completed" /\ q.attempt = 0 /\ RowInv(q) /\ Open(q) = {}
  <1> DEFINE q == MarkCompleted(r)
  <1>1. SameRows(r, q) /\ q.session = r.session /\ q.status = "completed" /\ q.attempt = 0
    BY CompletedFields DEF RowInv, SameRows
  <1>2. Quiet(q)
    BY MarkCompletedQuiet
  <1> HIDE DEF q
  <1>3. Book(q) /\ SameHeld(r, q) /\ Recorded(r, q) /\ Open(q) = {}
        /\ (Tidy(r) /\ r.attempt = 0 => Tidy(q))
    BY <1>1, <1>2, SameRowsBook, SameRowsKeeps DEF Ledger, Quiet
  <1>4. Stage(q)
    BY <1>1, <1>3, StageKept, Zenon DEF Ledger, Unstarted
  <1> QED BY <1>1, <1>2, <1>3, <1>4, QuietRow DEF Ledger, q

\* A turn is begun.
LEMMA BeginWent ==
  ASSUME NEW r, RowInv(r), Ledger(r), r.status = "running", NEW t \in Open(r), IsNext(r, t)
  PROVE  LET q == BeginAttempt(r, t)
         IN  /\ Ledger(q) /\ SameHeld(r, q) /\ Recorded(r, q) /\ RowInv(q)
             /\ q.status = "running" /\ q.session = r.session /\ q.turn = t
             /\ (NoOrphan(r) /\ r.attempt = 0 => NoOrphan(q))
  <1> DEFINE row == [turn |-> t, epoch |-> r.epoch, status |-> "running",
                     aborted |-> FALSE, text |-> "none"]
             q == BeginAttempt(r, t)
  <1>1. r \in RoomRecords /\ r.attempts \in Seq(Attempts) /\ Book(r) /\ Stage(r)
    BY FieldTyped DEF RowInv, Ledger
  <1>2. /\ q.status = "running" /\ q.total = r.total /\ q.kind = r.kind
        /\ q.state = [r.state EXCEPT ![t] = "running"]
        /\ q.attempts = Append(r.attempts, row) /\ q.session = r.session
        /\ q.turn = t /\ q.attempt = Len(r.attempts) + 1
    BY <1>1, BeginFields
  <1>3. row.turn = t /\ row.status = "running" /\ row.aborted = FALSE
    OBVIOUS
  <1>4. RowInv(q) /\ q \in RoomRecords
    BY BeginAttemptLive DEF RowInv
  <1> HIDE DEF q, row
  <1>5. Book(q) /\ SameHeld(r, q)
    BY <1>1, <1>2, <1>3, <1>4, BeginBook DEF SameHeld
  <1>6. /\ DOMAIN q.attempts = DOMAIN r.attempts \cup {q.attempt}
        /\ \A a \in DOMAIN r.attempts : q.attempts[a] = r.attempts[a]
        /\ 0 \notin DOMAIN r.attempts
    BY <1>1, <1>2, SMT
  <1>7. Recorded(r, q)
    BY <1>6, Zenon DEF Recorded
  <1>8. NoOrphan(r) /\ r.attempt = 0 => NoOrphan(q)
    BY <1>6, Zenon DEF NoOrphan
  <1>9. Stage(q)
    BY <1>1, <1>2, <1>5, StageKept, Zenon DEF Unstarted
  <1> QED BY <1>2, <1>4, <1>5, <1>7, <1>8, <1>9 DEF Ledger, q

\* and beginning the next turn.
LEMMA AwaitWent ==
  ASSUME NEW r, RowInv(r), Ledger(r), r.status = "running", NEW t \in Open(r), IsNext(r, t)
  PROVE  LET q == AwaitRun(r, t)
         IN  /\ Ledger(q) /\ Went(r, q) /\ (Tidy(r) /\ r.attempt = 0 => Attended(q))
             /\ q.status = "running" /\ Unstopped(q)
  <1> DEFINE b == BeginAttempt(r, t)
             speaker == Speaker(r, t)
             said == IF b.session[speaker] = "empty" THEN "prompted" ELSE b.session[speaker]
             q == AwaitRun(r, t)
  <1>1. r \in RoomRecords
    BY DEF RowInv
  <1>2. /\ Ledger(b) /\ SameHeld(r, b) /\ Recorded(r, b)
        /\ b.status = "running" /\ b.session = r.session /\ b.turn = t
        /\ (NoOrphan(r) /\ r.attempt = 0 => NoOrphan(b))
    BY BeginWent
  <1>3. SameRows(b, q) /\ q.status = b.status /\ q.attempt = b.attempt /\ q.loop = "awaiting"
        /\ q.turn = b.turn /\ q.epoch = b.epoch
        /\ q.session = [b.session EXCEPT ![speaker] = said]
        /\ q.run = [turn |-> t, attempt |-> b.attempt, epoch |-> b.epoch, stopped |-> FALSE]
    BY <1>1, AwaitFields, Zenon DEF SameRows
  <1>4. q \in RoomRecords /\ r.session \in [Speakers -> Sessions]
    BY <1>1, AwaitRunInv, FieldTyped DEF RoomInv, RowInv
  <1> HIDE DEF b, q, speaker
  <1>5. Book(q) /\ SameHeld(b, q) /\ Recorded(b, q)
    BY <1>2, <1>3, <1>4, SameRowsBook, SameRowsKeeps DEF Ledger
  <1>6. SameHeld(r, q) /\ Recorded(r, q)
    BY <1>2, <1>5, SameHeldTransitive, RecordedTransitive
  <1>7. Stage(q)
    BY <1>2, <1>3, <1>6, StageKept, Zenon DEF Ledger, Unstarted
  <1>8. Tidy(r) /\ r.attempt = 0 => Tidy(q)
    <2> SUFFICES ASSUME Tidy(r), r.attempt = 0 PROVE Tidy(q)
      OBVIOUS
    <2>1. NoOrphan(q)
      BY <1>2, <1>3, Zenon DEF Tidy, SameRows, NoOrphan
    <2>2. \A s \in Speakers : r.session[s] # "gone"
      BY DEF Tidy
    <2>3. \A s \in Speakers : q.session[s] = IF s = speaker THEN said ELSE r.session[s]
      BY <1>2, <1>3, <1>4, Zenon
    <2>4. speaker \in Speakers => said # "gone"
      BY <1>2, <2>2, Zenon
    <2> HIDE DEF said
    <2>5. \A s \in Speakers : q.session[s] # "gone"
      BY <2>2, <2>3, <2>4, Zenon
    <2> QED BY <2>1, <2>5 DEF Tidy
  <1>9. MatchesActive(q, q.run) /\ HasLoop(q)
    BY <1>2, <1>3, SMT DEF MatchesActive, HasLoop
  <1> QED BY <1>2, <1>3, <1>5, <1>6, <1>7, <1>8, <1>9 DEF Ledger, Went, Attended, Unstopped, q

\* A setup throws only when an image or a session is gone.
LEMMA SetupHolds ==
  ASSUME NEW r, Book(r), Tidy(r), SetupSafe, NEW t \in Open(r)
  PROVE  ~SetupThrows(r, t)
  <1>1. Speaker(r, t) \in Speakers
    BY ParticipantAssumption, SMT DEF Speaker, Speakers, Host, Book, Placed, Open, Inserted
  <1>2. "vanish" \notin Events
    BY Zenon DEF SetupSafe
  <1> QED BY <1>1, <1>2, Zenon DEF SetupThrows, Tidy

\* Whichever way the loop goes from its top, the ledger is kept.
LEMMA RunMeetingGoes ==
  ASSUME NEW m \in Rooms, NEW r, RowInv(r), Ledger(r), RunMeeting(m, r)
  PROVE  Goes(m, r)
  <1> USE DEF Goes
  <1>1. CASE r.status # "running" /\ Set(m, Leave(r))
    <2>1. Ledger(Leave(r)) /\ Went(r, Leave(r)) /\ (Tidy(r) => Tidy(Leave(r)))
          /\ Leave(r).attempt = r.attempt /\ Leave(r).status = r.status /\ Unstopped(Leave(r))
      BY LeaveWent
    <2>2. Tidy(r) /\ r.attempt = 0 => Attended(Leave(r))
      BY <1>1, <2>1, AtRestAttended
    <2> QED BY <1>1, <2>1, <2>2, Zenon
  <1>2. CASE /\ r.status = "running" /\ ~(authorized /\ available)
             /\ Set(m, Leave(PauseRow(StopActive(r),
                                      IF ~authorized THEN "authorization_lost"
                                                     ELSE "runtime_unavailable", FALSE)))
    <2> DEFINE reason == IF ~authorized THEN "authorization_lost" ELSE "runtime_unavailable"
               p == PauseRow(StopActive(r), reason, FALSE)
    <2>1. reason \in PauseReasons
      BY DEF PauseReasons
    <2> HIDE DEF reason
    <2>2. /\ Ledger(p) /\ SameHeld(r, p) /\ Recorded(r, p) /\ (Tidy(r) => Tidy(p))
          /\ p.status = "paused" /\ p.attempt = 0 /\ RowInv(p)
      BY <1>2, <2>1, PauseWent DEF Unstarted
    <2>3. Set(m, Leave(p))
      BY <1>2 DEF reason
    <2> HIDE DEF p
    <2>4. /\ Ledger(Leave(p)) /\ Went(p, Leave(p)) /\ (Tidy(p) => Tidy(Leave(p)))
          /\ Leave(p).attempt = p.attempt /\ Leave(p).status = p.status /\ Unstopped(Leave(p))
      BY <2>2, LeaveWent
    <2>5. Tidy(r) => Attended(Leave(p))
      BY <2>2, <2>4, AtRestAttended
    <2>6. Went(r, Leave(p))
      BY <1>2, <2>2, <2>4, SameHeldTransitive, RecordedTransitive DEF Went
    <2> QED BY <1>2, <2>3, <2>4, <2>5, <2>6, Zenon
  <1>3. CASE r.status = "running" /\ Open(r) = {} /\ Set(m, Leave(MarkCompleted(r)))
    <2> DEFINE p == MarkCompleted(r)
    <2>2. /\ Ledger(p) /\ SameHeld(r, p) /\ Recorded(r, p)
          /\ (Tidy(r) /\ r.attempt = 0 => Tidy(p))
          /\ p.status = "completed" /\ p.attempt = 0 /\ RowInv(p) /\ Open(p) = {}
      BY <1>3, CompletedWent DEF Unstarted
    <2>3. Set(m, Leave(p))
      BY <1>3
    <2> HIDE DEF p
    <2>4. /\ Ledger(Leave(p)) /\ Went(p, Leave(p)) /\ (Tidy(p) => Tidy(Leave(p)))
          /\ Leave(p).attempt = p.attempt /\ Leave(p).status = p.status /\ Unstopped(Leave(p))
      BY <2>2, LeaveWent
    <2>5. Tidy(r) /\ r.attempt = 0 => Attended(Leave(p))
      BY <2>2, <2>4, AtRestAttended
    <2>6. Open(Leave(p)) = {}
      BY <2>2, <2>4, SameHeldSets DEF Went
    <2>7. Went(r, Leave(p))
      BY <1>3, <2>2, <2>4, <2>6, SameHeldTransitive, RecordedTransitive DEF Went
    <2> QED BY <2>2, <2>3, <2>4, <2>5, <2>7, Zenon
  <1>4. ASSUME r.status = "running", NEW t \in Open(r), IsNext(r, t),
               Set(m, IF r.kind[t] = "user_supplement" THEN Spin(r, t) ELSE AwaitRun(r, t))
        PROVE  Goes(m, r)
    <2>1. r.kind[t] # "user_supplement"
      BY Zenon DEF RowInv, SupplementsHeld, Open, Inserted, Concluded
    <2>2. /\ Ledger(AwaitRun(r, t)) /\ Went(r, AwaitRun(r, t))
          /\ (Tidy(r) /\ r.attempt = 0 => Attended(AwaitRun(r, t)))
          /\ AwaitRun(r, t).status = "running" /\ Unstopped(AwaitRun(r, t))
      BY <1>4, AwaitWent
    <2> QED BY <1>4, <2>1, <2>2, Zenon
  <1>5. ASSUME r.status = "running", NEW t \in Open(r), IsNext(r, t), SetupThrows(r, t),
               Set(m, Leave(BeginAttempt(r, t)))
        PROVE  Goes(m, r)
    <2> DEFINE b == BeginAttempt(r, t)
    <2>1. Ledger(b) /\ SameHeld(r, b) /\ Recorded(r, b) /\ RowInv(b) /\ b.status = "running"
      BY <1>5, BeginWent
    <2>2. Set(m, Leave(b))
      BY <1>5
    <2> HIDE DEF b
    <2>3. /\ Ledger(Leave(b)) /\ Went(b, Leave(b)) /\ Leave(b).status = b.status
          /\ Unstopped(Leave(b))
      BY <2>1, LeaveWent
    <2>4. Went(r, Leave(b))
      BY <1>5, <2>1, <2>3, SameHeldTransitive, RecordedTransitive DEF Went
    <2>5. ~(SetupSafe /\ Tidy(r))
      BY <1>5, SetupHolds DEF Ledger
    <2> QED BY <2>1, <2>2, <2>3, <2>4, <2>5, Zenon
  <1> QED
    BY <1>1, <1>2, <1>3, <1>4, <1>5, Zenon DEF RunMeeting
-----------------------------------------------------------------------------
(* What runTurn writes after its await.                                    *)

\* Closing an attempt concludes its turn, or none if it is to be tried again.
LEMMA ClosesHeld ==
  ASSUME NEW r, Book(r), Pointing(r), r.attempt # 0, NEW q \in RoomRecords,
         NEW s, s # "running", NEW v, Closes(r, q, s, v), Ends(r, s, v)
  PROVE  IF v \in {"completed", "skipped"} THEN HeldOne(r, q) ELSE SameHeld(r, q)
  <1> DEFINE t == r.turn
  <1>1. /\ t \in Inserted(r) /\ t \in TurnIds /\ ~Concluded(r, t) /\ r.state[t] = "running"
    BY CurrentCount DEF Pointing
  <1>2. \A u \in TurnIds \ {t} : (Concluded(q, u) <=> Concluded(r, u))
    BY ClosesBook
  <1>3. q.kind = r.kind /\ q.state[t] = v
    BY <1>1, FieldTyped, Zenon DEF Closes, Book
  <1>4. \A u \in Inserted(r) : Before(u, t) => Concluded(r, u)
    BY <1>1, Zenon DEF Book, InOrder
  <1> HIDE DEF t
  <1>5. CASE v \in {"completed", "skipped"}
    <2>1. Concluded(q, t)
      BY <1>3, <1>5 DEF Concluded
    <2> QED BY <1>1, <1>2, <1>3, <1>4, <1>5, <2>1 DEF HeldOne
  <1>6. CASE v \notin {"completed", "skipped"}
    <2>1. ~Concluded(q, t)
      BY <1>3, <1>6 DEF Concluded
    <2> QED BY <1>1, <1>2, <1>3, <1>6, <2>1, SMT DEF SameHeld
  <1> QED BY <1>5, <1>6

\* The stage of a room that goes on or pauses depends on its agenda only.
LEMMA StageOfRunning ==
  ASSUME NEW r, Stage(r), r.status = "running", NEW q, q.kind = r.kind,
         q.status \in {"running", "paused"}
  PROVE  Stage(q)
  <1>1. Inserted(q) = Inserted(r)
    BY Zenon DEF Inserted
  <1>2. LastIsFinal(r) => LastIsFinal(q)
    BY <1>1, Zenon DEF LastIsFinal
  <1> QED BY <1>2 DEF Stage, Unstarted

\* The failures that count are the failures there are.
LEMMA FailedAttemptsCount ==
  ASSUME NEW r, Book(r), NEW t
  PROVE  Cardinality(FailedAttempts(r, t)) = Failures(r, t)
  <1>1. FailedAttempts(r, t) = FailedOf(r, t)
    BY Zenon DEF FailedAttempts, FailedOf, Book, Unaborted
  <1> QED BY <1>1, FailuresCount DEF Book

\* Concluding a turn after a step that concluded none.
LEMMA HeldOneAfter ==
  ASSUME NEW r, NEW i, NEW q, SameHeld(r, i), HeldOne(i, q)
  PROVE  HeldOne(r, q)
  <1>1. Inserted(i) = Inserted(r) /\ i.kind = r.kind
    BY SameHeldSets DEF SameHeld
  <1>2. PICK t \in Inserted(i) :
          /\ ~Concluded(i, t) /\ Concluded(q, t)
          /\ \A u \in Inserted(i) : Before(u, t) => Concluded(i, u)
          /\ \A u \in TurnIds \ {t} : (Concluded(q, u) <=> Concluded(i, u))
    BY Zenon DEF HeldOne
  <1>3. \A u \in TurnIds : (Concluded(i, u) <=> Concluded(r, u))
    BY DEF SameHeld
  <1>4. Inserted(r) \subseteq TurnIds
    BY DEF Inserted
  <1>5. q.kind = r.kind
    BY <1>1 DEF HeldOne
  <1> QED BY <1>1, <1>2, <1>3, <1>4, <1>5, Zenon DEF HeldOne

\* A failed run: a retry, a pause of the host, or a skip of the turn.
LEMMA FailureLedger ==
  ASSUME NEW r, RowInv(r), Ledger(r), NEW x, x.attempt # 0, MatchesActive(r, x),
         NEW toolViolation \in BOOLEAN
  PROVE  LET q == HandleTurnFailure(r, x, toolViolation)
         IN  /\ Ledger(q) /\ Recorded(r, q) /\ (Tidy(r) => Tidy(q))
             /\ q.attempt = 0 /\ q.status \in {"running", "paused"}
             /\ SameHeld(r, q) \/ HeldOne(r, q)
  <1> DEFINE failedCount == Cardinality(FailedAttempts(r, x.turn)) + 1
             host == HostTurn(r, x.turn)
             retry == failedCount < 2 /\ (host => toolViolation)
             skipped == ~host /\ ~retry
             v == IF skipped THEN "skipped" ELSE "failed"
             f == FailAttempt(r, x, skipped)
             q == HandleTurnFailure(r, x, toolViolation)
  <1>1. /\ r \in RoomRecords /\ Book(r) /\ Stage(r) /\ Pointing(r)
        /\ r.status = "running" /\ x.turn = r.turn /\ x.attempt = r.attempt /\ r.attempt # 0
        /\ r.turn \in TurnIds /\ r.kind[r.turn] # "user_supplement"
        /\ r.turn \in Inserted(r)
    BY MatchedRun, LivePoints, CurrentCount DEF RowInv, Ledger, Book
  <1>2. q = IF retry THEN ResetTurnForRetry(f, x.turn)
            ELSE IF host THEN PauseRow(f, "host_failure", FALSE)
            ELSE f
    BY Zenon DEF HandleTurnFailure
  <1>3. host <=> r.kind[r.turn] # "participant"
    BY <1>1 DEF HostTurn, Inserted
  <1>4. Ends(r, "failed", v)
    <2>1. ~host => Failures(r, r.turn) \in {0, 1}
      BY <1>1, <1>3, CurrentCount
    <2>2. failedCount = Failures(r, r.turn) + 1
      BY <1>1, FailedAttemptsCount
    <2> HIDE DEF failedCount, host
    <2>3. ~host => (retry <=> Failures(r, r.turn) = 0)
      BY <2>1, <2>2, SMT
    <2> HIDE DEF retry
    <2>4. ~host => (v = "skipped") = (Failures(r, r.turn) = 1)
      BY <2>1, <2>3, SMT
    <2>5. v \in TurnStatuses /\ (v = "skipped" => ~host)
      BY DEF TurnStatuses
    <2> QED BY <1>3, <2>4, <2>5 DEF Ends
  <1>5. Closes(r, f, "failed", v) /\ f.status = "running" /\ f.attempt = 0
        /\ Quiet(f) /\ f \in RoomRecords /\ f.kind = r.kind
    <2>1. skipped \in BOOLEAN
      OBVIOUS
    <2> HIDE DEF skipped
    <2> QED BY <1>1, <2>1, FailRows, FailAttemptQuiet DEF Book, Quiet
  <1>6. host \/ retry => v = "failed"
    OBVIOUS
  <1> HIDE DEF f, q, v, retry, host
  <1>7. Book(f) /\ Recorded(r, f) /\ (Tidy(r) => Tidy(f)) /\ Stage(f)
    <2>1. Book(f)
      BY <1>1, <1>4, <1>5, ClosesBook
    <2>2. Recorded(r, f) /\ (Tidy(r) => Tidy(f))
      BY <1>1, <1>5, ClosesKeeps
    <2>3. Stage(f)
      BY <1>1, <1>5, StageOfRunning
    <2> QED BY <2>1, <2>2, <2>3
  <1>8. IF v \in {"completed", "skipped"} THEN HeldOne(r, f) ELSE SameHeld(r, f)
    BY <1>1, <1>4, <1>5, ClosesHeld
  <1>9. CASE retry
    <2> DEFINE p == ResetTurnForRetry(f, x.turn)
    <2>1. /\ p.status = f.status /\ p.total = f.total /\ p.kind = f.kind
          /\ p.state = [f.state EXCEPT ![x.turn] = "pending"]
          /\ p.attempts = f.attempts /\ p.session = f.session /\ p.attempt = f.attempt
      BY <1>5, ResetFields
    <2>2. RowInv(p)
      BY <1>1, <1>5, ResetTurnRow, QuietRow
    <2> HIDE DEF p
    <2>3. f.state[x.turn] = "failed" /\ ~Concluded(f, x.turn)
      BY <1>1, <1>5, <1>6, <1>9, FieldTyped, Zenon DEF Closes, Concluded
    <2>4. \A u \in TurnIds : p.state[u] = IF u = x.turn THEN "pending" ELSE f.state[u]
      BY <1>1, <1>5, <2>1, FieldTyped, Zenon
    <2>5. Book(p) /\ SameHeld(f, p)
      <3>1. \A u \in TurnIds : \/ p.state[u] = f.state[u]
                               \/ ~Concluded(f, u) /\ p.state[u] = "pending"
        BY <2>3, <2>4
      <3>2. p \in RoomRecords
        BY <2>2 DEF RowInv
      <3>3. Book(p) /\ \A u \in TurnIds : (Concluded(p, u) <=> Concluded(f, u))
        BY <1>7, <2>1, <3>1, <3>2, PutBackBook
      <3> QED BY <2>1, <3>3 DEF SameHeld
    <2>6. Recorded(f, p) /\ (Tidy(f) => Tidy(p))
      BY <2>1, Zenon DEF Recorded, Tidy, NoOrphan
    <2>7. Stage(p)
      BY <1>1, <1>5, <2>1, StageOfRunning
    <2>8. SameHeld(r, p) /\ Recorded(r, p)
      BY <1>6, <1>7, <1>8, <1>9, <2>5, <2>6, SameHeldTransitive, RecordedTransitive
    <2>9. q = p
      BY <1>2, <1>9 DEF p
    <2> QED BY <1>5, <1>7, <2>1, <2>5, <2>6, <2>7, <2>8, <2>9 DEF Ledger, q
  <1>10. CASE ~retry /\ host
    <2> DEFINE p == PauseRow(f, "host_failure", FALSE)
    <2>1. RowInv(f) /\ Pointing(f)
      BY <1>5, QuietRow, LivePoints DEF RowInv
    <2>2. Interrupt(f, FALSE) \in RoomRecords
      BY <2>1, RowInterruptible, InterruptQuiet DEF Quiet
    <2>3. PutAside(f, p) /\ p.status = "paused"
      BY <1>5, <2>1, <2>2, PauseRowRows
    <2>4. Quiet(p)
      BY <2>1, RowInterruptible, PauseRowQuiet DEF PauseReasons
    <2> HIDE DEF p
    <2>5. Book(p) /\ SameHeld(f, p) /\ Recorded(f, p) /\ (Tidy(f) => Tidy(p))
      BY <1>7, <2>1, <2>3, <2>4, PutAsideBook DEF Quiet
    <2>6. SameHeld(r, p) /\ Recorded(r, p)
      BY <1>6, <1>7, <1>8, <1>10, <2>5, SameHeldTransitive, RecordedTransitive
    <2>7. Stage(p)
      BY <1>1, <2>3, <2>6, StageOfRunning DEF SameHeld
    <2>8. q = p
      BY <1>2, <1>10 DEF p
    <2> QED BY <1>7, <2>3, <2>4, <2>5, <2>6, <2>7, <2>8 DEF Ledger, Quiet, q
  <1>11. CASE ~retry /\ ~host
    BY <1>2, <1>5, <1>7, <1>8, <1>11 DEF Ledger, q
  <1> QED BY <1>9, <1>10, <1>11

\* Whatever a run returned, its rows are kept in order.
LEMMA AfterRunLedger ==
  ASSUME NEW r, RoomInv(r), Ledger(r), r.loop = "awaiting", NEW outcome, NEW spoke \in BOOLEAN
  PROVE  LET q == AfterRun(r, outcome, spoke)
         IN  /\ Ledger(q) /\ After(r, q)
             /\ Attended(r) => Tidy(q) /\ q.attempt = 0
  <1> DEFINE x == r.run
             heard == IF r.status = "deleted" \/ ~spoke THEN r
                      ELSE [r EXCEPT !.session[Speaker(r, x.turn)] = "answered"]
             content == FinalContent(r, x, spoke)
             tool == outcome = "tool"
             q == AfterRun(r, outcome, spoke)
  <1>1. RowInv(r) /\ r \in RoomRecords /\ x.attempt # 0 /\ Book(r) /\ Stage(r)
    BY DEF RoomInv, RowInv, AwaitsRun, Ledger
  <1>2. /\ RowInv(heard) /\ SameRows(r, heard) /\ heard.status = r.status
        /\ heard.turn = r.turn /\ heard.attempt = r.attempt /\ heard.epoch = r.epoch
        /\ heard.session = r.session \/ \E s : heard.session = [r.session EXCEPT ![s] = "answered"]
    <2>1. CASE heard = r
      BY <1>1, <2>1 DEF SameRows
    <2>2. CASE heard = [r EXCEPT !.session[Speaker(r, x.turn)] = "answered"]
      <3> DEFINE s == Speaker(r, x.turn)
      <3>1. heard = [r EXCEPT !.session[s] = "answered"]
        BY <2>2
      <3> HIDE DEF s
      <3> DEFINE h == [r EXCEPT !.session[s] = "answered"]
      <3>2. /\ RowInv(h) /\ h.status = r.status /\ h.turn = r.turn
            /\ h.attempt = r.attempt /\ h.epoch = r.epoch /\ h.attempts = r.attempts
            /\ h.kind = r.kind /\ h.state = r.state /\ h.total = r.total
            /\ h.session = [r.session EXCEPT ![s] = "answered"]
        BY <1>1, SpokenRow
      <3>3. heard = h
        BY <3>1
      <3> HIDE DEF heard, h
      <3> QED BY <3>2, <3>3, Zenon DEF SameRows
    <2> QED BY <2>1, <2>2
  <1>3. q = IF ~MatchesActive(r, x) THEN heard
            ELSE IF outcome # "resolved" \/ content = "none"
            THEN HandleTurnFailure(heard, x, tool)
            ELSE CompleteAttempt(heard, x, content)
    BY Zenon DEF AfterRun
  <1>4. tool \in BOOLEAN
    OBVIOUS
  <1>5. MatchesActive(r, x) <=> MatchesActive(heard, x)
    BY <1>2, Zenon DEF MatchesActive
  <1>6. MatchesActive(r, x) => x.attempt = r.attempt /\ r.status = "running"
    BY Zenon DEF MatchesActive
  <1>7. MatchesActive(r, x) /\ ~(outcome # "resolved" \/ content = "none") => content \in Texts
    <2>1. MatchesActive(r, x) => x.attempt \in DOMAIN r.attempts
      BY <1>1, MatchedRun
    <2>2. MatchesActive(r, x) => r.attempts[x.attempt].text \in Texts
      BY <1>1, <2>1, AttemptTyped, Zenon DEF Attempts
    <2> QED BY <2>2, Zenon DEF FinalContent, Texts
  <1> HIDE DEF q, heard, content, tool
  <1>8. /\ Book(heard) /\ SameHeld(r, heard) /\ Recorded(r, heard) /\ Stage(heard)
        /\ (Tidy(r) => Tidy(heard))
    <2>1. heard \in RoomRecords /\ r.session \in [Speakers -> Sessions]
      BY <1>1, <1>2, FieldTyped DEF RowInv
    <2>2. Book(heard) /\ SameHeld(r, heard) /\ Recorded(r, heard)
      BY <1>1, <1>2, <2>1, SameRowsBook, SameRowsKeeps
    <2>3. Stage(heard)
      BY <1>1, <1>2, <2>2, StageKept, SameHeldSets DEF Stage
    <2>4. Tidy(r) => Tidy(heard)
      <3>1. NoOrphan(r) => NoOrphan(heard)
        BY <1>2, Zenon DEF SameRows, NoOrphan
      <3>2. (\A s \in Speakers : r.session[s] # "gone")
              => (\A s \in Speakers : heard.session[s] # "gone")
        <4>1. CASE heard.session = r.session
          BY <4>1
        <4>2. ASSUME NEW k, heard.session = [r.session EXCEPT ![k] = "answered"]
              PROVE  \A s \in Speakers :
                       heard.session[s] = IF s = k THEN "answered" ELSE r.session[s]
          BY <2>1, <4>2, Zenon
        <4> QED BY <1>2, <4>1, <4>2
      <3> QED BY <3>1, <3>2 DEF Tidy
    <2> QED BY <2>2, <2>3, <2>4
  <1>9. CASE ~MatchesActive(r, x)
    <2>1. q = heard
      BY <1>3, <1>9
    <2>2. Answered(r, heard)
      BY <1>8, Zenon DEF Recorded, Answered
    <2>3. Attended(r) => r.attempt = 0
      BY <1>9 DEF Attended
    <2> QED BY <1>2, <1>8, <2>1, <2>2, <2>3 DEF Ledger, After, Attended, q
  <1>10. CASE MatchesActive(r, x) /\ (outcome # "resolved" \/ content = "none")
    <2> DEFINE p == HandleTurnFailure(heard, x, tool)
    <2>1. /\ Ledger(p) /\ Recorded(heard, p) /\ (Tidy(heard) => Tidy(p))
          /\ p.attempt = 0 /\ p.status \in {"running", "paused"}
          /\ SameHeld(heard, p) \/ HeldOne(heard, p)
      BY <1>1, <1>2, <1>4, <1>5, <1>8, <1>10, FailureLedger DEF Ledger
    <2>2. q = p
      BY <1>3, <1>10
    <2> HIDE DEF p
    <2>3. Answered(r, p)
      BY <1>8, <2>1, RecordedTransitive, Zenon DEF Recorded, Answered
    <2>4. SameHeld(r, p) \/ HeldOne(r, p)
      BY <1>8, <2>1, SameHeldTransitive, HeldOneAfter
    <2> QED BY <1>6, <1>8, <1>10, <2>1, <2>2, <2>3, <2>4 DEF After, Attended, q
  <1>11. CASE MatchesActive(r, x) /\ ~(outcome # "resolved" \/ content = "none")
    <2> DEFINE p == CompleteAttempt(heard, x, content)
    <2>1. Pointing(heard) /\ heard \in RoomRecords /\ heard.attempt # 0 /\ Unaborted(heard)
      BY <1>1, <1>2, <1>6, <1>8, <1>11, LivePoints DEF RowInv, Book
    <2>2. /\ Closes(heard, p, "completed", "completed")
          /\ p.status = "running" /\ p.attempt = 0
      BY <1>1, <1>5, <1>11, <2>1, CompleteRows
    <2>3. p \in RoomRecords
      BY <1>1, <1>2, <1>5, <1>7, <1>11, CompleteAttemptQuiet DEF Quiet
    <2>4. q = p
      BY <1>3, <1>11
    <2> HIDE DEF p
    <2>5. Ends(heard, "completed", "completed")
      BY DEF Ends, TurnStatuses
    <2>6. Book(p) /\ HeldOne(heard, p) /\ (Tidy(heard) => Tidy(p))
      BY <1>8, <2>1, <2>2, <2>3, <2>5, ClosesBook, ClosesHeld, ClosesKeeps
    <2>7. HeldOne(r, p)
      BY <1>8, <2>6, HeldOneAfter
    <2>8. Answered(r, p)
      <3> HIDE DEF x
      <3>1. heard.attempts = r.attempts /\ heard.attempt = r.attempt
        BY <1>2 DEF SameRows
      <3>2. /\ DOMAIN p.attempts = DOMAIN r.attempts
            /\ \A a \in DOMAIN r.attempts \ {r.attempt} : p.attempts[a] = r.attempts[a]
        BY <2>2, <3>1 DEF Closes
      <3>3. r.attempts[r.attempt].status = "running"
        BY <2>1, <3>1 DEF Pointing
      <3> QED BY <1>11, <3>2, <3>3, Zenon DEF Answered, x
    <2>9. Stage(p)
      BY <1>1, <1>6, <1>11, <2>2, <2>7, StageOfRunning DEF HeldOne
    <2> QED BY <1>6, <1>8, <1>11, <2>2, <2>4, <2>6, <2>7, <2>8, <2>9 DEF Ledger, After, Attended, q
  <1> QED BY <1>9, <1>10, <1>11
-----------------------------------------------------------------------------
(* What a step does to a room, as the agenda sees it.                      *)

\* The status moves on and no turn is concluded.
PhaseMoves(m, r, q) ==
  \/ q.status = r.status
  \/ r.status = "none" /\ q.status = "draft"
  \/ r.status = "running" /\ q.status = "paused"
  \/ r.status = "paused" /\ NoOtherRunning(m) /\ q.status = "running"
  \/ /\ r.status = "running" \/ (r.status = "paused" /\ NoOtherRunning(m))
     /\ q.status = "completed" /\ Open(q) = {}
  \/ r.status \in {"running", "paused"} /\ q.status = "stopped"

\* A running meeting has concluded its next turn, and goes on, pauses or ends.
TurnHeld(r, q) ==
  /\ r.status = "running" /\ HeldOne(r, q)
  /\ q.status \in {"running", "paused"} \/ (q.status = "completed" /\ Open(q) = {})

\* A draft has been given its agenda.
Begins(m, r, q) ==
  /\ r.status = "draft" /\ NoOtherRunning(m) /\ q.status = "running"
  /\ Inserted(r) = {} /\ Inserted(q) # {} /\ Open(q) = Inserted(q)

\* A completed meeting has been given another round.
Extends(m, r, q) ==
  /\ r.status = "completed" /\ NoOtherRunning(m) /\ q.status = "running"
  /\ Inserted(r) \subseteq Inserted(q)
  /\ \A t \in Inserted(r) : Concluded(r, t) /\ Concluded(q, t)
  /\ Open(q) # {}
  /\ \A t \in Inserted(r), u \in Inserted(q) \ Inserted(r) : Before(t, u)
  /\ \A t, u \in Inserted(q) : Concluded(q, t) /\ ~Concluded(q, u) => Before(t, u)

Deletes(r, q) ==
  /\ r.status \notin {"none", "deleted"} /\ q.status = "deleted"
  /\ Inserted(q) = {} /\ q.attempts = << >>

Advances(m, r, q) ==
  \/ SameHeld(r, q) /\ PhaseMoves(m, r, q)
  \/ TurnHeld(r, q)
  \/ Begins(m, r, q) \/ Extends(m, r, q) \/ Deletes(r, q)

\* The attempts of a deleted meeting are gone, any other's are kept.
Kept(r, q) == Answered(r, q) \/ Deletes(r, q)

Sound(r) == Ledger(r) /\ Unstopped(r)

\* The step sets room m, and keeps its agenda and its attempts in order.
Turns(m) ==
  \E q : /\ Set(m, q) /\ Sound(q)
         /\ Kept(rooms[m], q) /\ Advances(m, rooms[m], q)
         /\ SetupSafe /\ Attended(rooms[m]) => Attended(q)

\* A command has made the rows p of the rows r, and the loop may go from them.
Readied(r, p) ==
  /\ RowInv(p) /\ Ledger(p) /\ p.status = "running" /\ p.attempt = 0
  /\ p.loop = r.loop /\ Recorded(r, p) /\ (Tidy(r) => Tidy(p))

\* Recorded is the stronger of the two.
LEMMA RecordedAnswered ==
  ASSUME NEW r, NEW q, Recorded(r, q)
  PROVE  Answered(r, q)
  BY Zenon DEF Recorded, Answered

\* The loop goes from what a command has made ready, or still awaits a run.
LEMMA ReadiedGoes ==
  ASSUME NEW m \in Rooms, NEW r, r.loop # "spinning", r \in RoomRecords,
         NEW p, Readied(r, p), Schedule(m, p), authorized, available
  PROVE  \E q : /\ Set(m, q) /\ Sound(q) /\ Recorded(r, q) /\ SameHeld(p, q)
                /\ q.status = "running" \/ (q.status = "completed" /\ Open(q) = {})
                /\ SetupSafe /\ Tidy(r) => Attended(q)
  <1>1. /\ RowInv(p) /\ Ledger(p) /\ p.status = "running" /\ p.attempt = 0
        /\ p.loop = r.loop /\ Recorded(r, p) /\ (Tidy(r) => Tidy(p))
    BY DEF Readied
  <1>2. CASE RunMeeting(m, p)
    <2>1. Goes(m, p)
      BY <1>1, <1>2, RunMeetingGoes
    <2>2. PICK q : /\ Set(m, q) /\ Ledger(q) /\ Went(p, q) /\ Unstopped(q)
                   /\ q.status # "paused"
                   /\ SetupSafe /\ Tidy(p) => Attended(q)
      BY <1>1, <2>1, Zenon DEF Goes
    <2>3. Recorded(r, q) /\ SameHeld(p, q)
      BY <1>1, <2>2, RecordedTransitive DEF Went
    <2>4. q.status = "running" \/ (q.status = "completed" /\ Open(q) = {})
      BY <1>1, <2>2, Zenon DEF Went
    <2> QED BY <1>1, <2>2, <2>3, <2>4, Zenon DEF Sound
  <1>3. CASE p.loop # "idle" /\ Set(m, p)
    <2>1. p.loop = "awaiting"
      BY <1>1, <1>3, FieldTyped
    <2>2. Tidy(r) => Attended(p)
      BY <1>1, <2>1, Zenon DEF Attended, HasLoop
    <2>3. SameHeld(p, p) /\ Unstopped(p)
      BY <1>1, Zenon DEF SameHeld, Unstopped
    <2> QED BY <1>1, <1>3, <2>2, <2>3, Zenon DEF Sound
  <1> QED BY <1>2, <1>3, Zenon DEF Schedule

\* The command on a meeting that runs only wakes its loop, if it has none.
LEMMA WokenTurns ==
  ASSUME NEW m \in Rooms, RoomInv(rooms[m]), Sound(rooms[m]), rooms[m].status = "running",
         Schedule(m, rooms[m])
  PROVE  Turns(m)
  <1> DEFINE r == rooms[m]
  <1>1. SameHeld(r, r) /\ Recorded(r, r) /\ RowInv(r) /\ Ledger(r)
    BY Zenon DEF SameHeld, Recorded, RoomInv, Sound
  <1>2. CASE Set(m, r)
    BY <1>1, <1>2, RecordedAnswered, Zenon DEF Turns, Kept, Advances, PhaseMoves
  <1>3. CASE r.loop = "idle" /\ RunMeeting(m, r)
    <2>1. Goes(m, r)
      BY <1>1, <1>3, RunMeetingGoes
    <2> HIDE DEF r
    <2>2. PICK q : /\ Set(m, q) /\ Ledger(q) /\ Went(r, q) /\ Unstopped(q)
                   /\ SetupSafe /\ Tidy(r) /\ r.attempt = 0 => Attended(q)
      BY <2>1, Zenon DEF Goes
    <2>3. Kept(r, q) /\ SameHeld(r, q) /\ PhaseMoves(m, r, q)
      BY <2>2, RecordedAnswered, Zenon DEF Went, Kept, PhaseMoves
    <2>4. Attended(r) => Tidy(r) /\ r.attempt = 0
      BY <1>3, Zenon DEF Attended
    <2> QED BY <2>2, <2>3, <2>4, Zenon DEF Turns, Sound, Advances, r
  <1> QED BY <1>2, <1>3, Zenon DEF Schedule
-----------------------------------------------------------------------------
(* The commands, one by one.                                               *)

\* Rows without an agenda are in order.
LEMMA EmptyBook ==
  ASSUME NEW q \in RoomRecords, \A t \in TurnIds : q.kind[t] = "none" /\ q.state[t] = "pending",
         q.attempts = << >>, \A s \in Speakers : q.session[s] = "empty",
         q.status \in Unstarted, q.attempt = 0
  PROVE  /\ Sound(q) /\ Inserted(q) = {} /\ Attended(q)
         /\ \A t \in TurnIds : ~Concluded(q, t)
  <1>1. Inserted(q) = {} /\ \A t \in TurnIds : ~Concluded(q, t)
    BY DEF Inserted, Concluded
  <1>2. DOMAIN q.attempts = {}
    BY SMT
  <1>3. Fresh(q) /\ Within(q) /\ Placed(q) /\ Rooted(q) /\ Unaborted(q)
    BY <1>1, <1>2 DEF Fresh, Within, Placed, Rooted, Unaborted
  <1>4. InOrder(q) /\ Allowance(q)
    BY <1>1 DEF InOrder, Allowance
  <1>5. Stage(q)
    BY <1>1 DEF Stage, Unstarted
  <1>6. Attended(q)
    BY <1>2 DEF Attended, Tidy, NoOrphan, HasLoop, Unstarted
  <1> QED BY <1>1, <1>3, <1>4, <1>5, <1>6 DEF Sound, Ledger, Book, Unstopped

\* A meeting that is not there yet.
LEMMA NoRoomFields ==
  /\ \A t \in TurnIds : NoRoom.kind[t] = "none" /\ NoRoom.state[t] = "pending"
  /\ NoRoom.attempts = << >> /\ \A s \in Speakers : NoRoom.session[s] = "empty"
  /\ NoRoom.status = "none" /\ NoRoom.attempt = 0 /\ NoRoom \in RoomRecords
  BY NoRoomQuiet, Zenon DEF NoRoom, Quiet

\* A meeting without an agenda has no attempts, and nothing concluded.
LEMMA NoAgenda ==
  ASSUME NEW r, Book(r), Inserted(r) = {}
  PROVE  /\ DOMAIN r.attempts = {}
         /\ r.kind = [t \in TurnIds |-> "none"]
         /\ \A t \in TurnIds : ~Concluded(r, t)
  <1>1. \A t \in TurnIds : r.kind[t] = "none"
    BY DEF Inserted
  <1>2. \A a \in DOMAIN r.attempts : r.attempts[a].turn \in TurnIds
    BY AttemptTyped, Zenon DEF Book, Attempts
  <1>3. DOMAIN r.attempts = {}
    BY <1>1, <1>2, Zenon DEF Book, Rooted
  <1>4. r.kind = [t \in TurnIds |-> "none"]
    <2>1. r.kind \in [TurnIds -> Kinds]
      BY FieldTyped DEF Book
    <2> QED BY <1>1, <2>1, Zenon
  <1>5. \A t \in TurnIds : ~Concluded(r, t)
    BY <1>1, Zenon DEF Book, Fresh, Concluded
  <1> QED BY <1>3, <1>4, <1>5

\* The commands, one by one.
LEMMA CreateTurns ==
  ASSUME NEW m \in Rooms, RoomInv(rooms[m]), Sound(rooms[m]), Create(m)
  PROVE  Turns(m)
  <1> DEFINE r == rooms[m]
  <1>1. r.status = "none" /\ Book(r) /\ Inserted(r) = {}
    BY DEF Create, Sound, Ledger, Stage, Unstarted
  <1>2. PICK total \in 1 .. RoundsMax : Set(m, CreateDraft(total))
    BY Zenon DEF Create
  <1> DEFINE q == [NoRoom EXCEPT !.status = "draft", !.total = total]
  <1>3. Set(m, q)
    BY <1>2 DEF CreateDraft
  <1>4. total \in 0 .. RoundsMax /\ "draft" \in RoomStatuses
    BY RoundsAssumption, SMT DEF RoomStatuses
  <1>5. NoRoom \in RoomRecords
    BY NoRoomFields
  <1>6. NoRoom.kind = [t \in TurnIds |-> "none"]
    BY DEF NoRoom
  <1> HIDE DEF NoRoom
  <1>7. q \in RoomRecords
    BY <1>4, <1>5, FieldReplaced, Zenon
  <1>8. /\ q.status = "draft" /\ q.kind = NoRoom.kind /\ q.state = NoRoom.state
        /\ q.attempts = NoRoom.attempts /\ q.session = NoRoom.session /\ q.attempt = NoRoom.attempt
    BY <1>5, SMT DEF RoomRecords
  <1> HIDE DEF q, r
  <1>9. /\ Sound(q) /\ Inserted(q) = {} /\ Attended(q)
        /\ \A t \in TurnIds : ~Concluded(q, t)
    <2>1. /\ \A t \in TurnIds : q.kind[t] = "none" /\ q.state[t] = "pending"
          /\ q.attempts = << >> /\ \A s \in Speakers : q.session[s] = "empty"
          /\ q.attempt = 0 /\ q.status \in Unstarted
      BY <1>8, NoRoomFields, Zenon DEF Unstarted
    <2> QED BY <1>7, <2>1, EmptyBook
  <1>10. SameHeld(r, q)
    BY <1>1, <1>6, <1>8, <1>9, NoAgenda, Zenon DEF SameHeld
  <1>11. Answered(r, q)
    BY <1>1, NoAgenda DEF Answered
  <1> QED
    BY <1>1, <1>3, <1>8, <1>9, <1>10, <1>11, Zenon DEF Turns, Kept, Advances, PhaseMoves, r

LEMMA DeleteTurns ==
  ASSUME NEW m \in Rooms, RoomInv(rooms[m]), Sound(rooms[m]), Delete(m)
  PROVE  Turns(m)
  <1> DEFINE r == rooms[m]
             s == StopActive(r)
             epoch == s.epoch + 1
             q == [NoRoom EXCEPT !.status = "deleted", !.epoch = epoch,
                                 !.loop = s.loop, !.run = s.run]
  <1>1. r.status \notin {"none", "deleted"} /\ Set(m, q)
    BY DEF Delete, DeleteRows
  <1>2. RoomInv(q)
    BY DeleteInv DEF DeleteRows
  <1>3. NoRoom \in RoomRecords /\ q \in RoomRecords
    BY <1>2, NoRoomFields DEF RoomInv, RowInv
  <1> HIDE DEF NoRoom, s, epoch, r
  <1>4. /\ q.status = "deleted" /\ q.kind = NoRoom.kind /\ q.state = NoRoom.state
        /\ q.attempts = NoRoom.attempts /\ q.session = NoRoom.session /\ q.attempt = NoRoom.attempt
    BY <1>3, SMT DEF RoomRecords
  <1> HIDE DEF q
  <1>5. Sound(q) /\ Inserted(q) = {} /\ Attended(q)
    <2>1. /\ \A t \in TurnIds : q.kind[t] = "none" /\ q.state[t] = "pending"
          /\ q.attempts = << >> /\ \A k \in Speakers : q.session[k] = "empty"
          /\ q.attempt = 0 /\ q.status \in Unstarted
      BY <1>4, NoRoomFields, Zenon DEF Unstarted
    <2> QED BY <1>3, <2>1, EmptyBook
  <1>6. Deletes(r, q)
    BY <1>1, <1>4, <1>5, NoRoomFields DEF Deletes
  <1> QED BY <1>1, <1>5, <1>6, Zenon DEF Turns, Kept, Advances, r

LEMMA PauseTurns ==
  ASSUME NEW m \in Rooms, RoomInv(rooms[m]), Sound(rooms[m]), rooms[m].status = "running",
         NEW reason \in PauseReasons, NEW aborted \in BOOLEAN,
         Set(m, PauseRow(StopActive(rooms[m]), reason, aborted))
  PROVE  Turns(m)
  <1> DEFINE r == rooms[m]
             q == PauseRow(StopActive(r), reason, aborted)
  <1>1. /\ Ledger(q) /\ SameHeld(r, q) /\ Recorded(r, q) /\ (Tidy(r) => Tidy(q))
        /\ q.status = "paused" /\ q.attempt = 0
    BY PauseWent DEF RoomInv, Sound, Unstarted
  <1> HIDE DEF q, r
  <1>2. Sound(q) /\ (Attended(r) => Attended(q))
    BY <1>1, AtRestAttended DEF Sound, Unstopped, Attended
  <1>3. Kept(r, q) /\ PhaseMoves(m, r, q)
    BY <1>1, RecordedAnswered DEF Kept, PhaseMoves, r
  <1> QED BY <1>1, <1>2, <1>3, Zenon DEF Turns, Advances, q, r

LEMMA StopTurns ==
  ASSUME NEW m \in Rooms, RoomInv(rooms[m]), Sound(rooms[m]), Stop(m)
  PROVE  Turns(m)
  <1> DEFINE r == rooms[m]
             s == StopActive(r)
             q == StopRow(s)
  <1>1. r.status \in {"running", "paused"} /\ Set(m, q) /\ RowInv(r) /\ Ledger(r)
    BY DEF Stop, RoomInv, Sound
  <1>2. RowInv(s) /\ s \in RoomRecords /\ Pointing(s)
    BY <1>1, StopActiveRow, LivePoints DEF RowInv
  <1>3. SameRows(r, s) /\ s.session = r.session /\ s.attempt = r.attempt
    BY <1>1, StopActiveFields DEF RowInv, SameRows
  <1> HIDE DEF s, r
  <1>4. Book(s) /\ SameHeld(r, s) /\ Recorded(r, s) /\ (Tidy(r) => Tidy(s))
    BY <1>1, <1>2, <1>3, SameRowsBook, SameRowsKeeps DEF Ledger
  <1>5. Interrupt(s, TRUE) \in RoomRecords
    BY <1>2, RowInterruptible, InterruptQuiet DEF Quiet
  <1>6. PutAside(s, q) /\ q.status = "stopped"
    BY <1>2, <1>5, StopRowRows
  <1>7. Quiet(q)
    BY <1>2, StopRowQuiet
  <1> HIDE DEF q
  <1>8. Book(q) /\ SameHeld(s, q) /\ Recorded(s, q) /\ (Tidy(s) => Tidy(q))
    BY <1>2, <1>4, <1>6, <1>7, PutAsideBook DEF Quiet
  <1>9. SameHeld(r, q) /\ Recorded(r, q)
    BY <1>4, <1>8, SameHeldTransitive, RecordedTransitive
  <1>10. Stage(q)
    BY <1>1, <1>6, <1>9, StageKept, Zenon DEF Ledger, Unstarted
  <1>11. Sound(q) /\ (Attended(r) => Attended(q))
    BY <1>4, <1>6, <1>7, <1>8, <1>10, AtRestAttended DEF Sound, Ledger, Unstopped, Attended, Quiet
  <1>12. Kept(r, q) /\ PhaseMoves(m, r, q)
    BY <1>1, <1>6, <1>9, RecordedAnswered DEF Kept, PhaseMoves
  <1> QED BY <1>1, <1>9, <1>11, <1>12, Zenon DEF Turns, Advances, r

LEMMA StartTurns ==
  ASSUME NEW m \in Rooms, RoomInv(rooms[m]), Sound(rooms[m]), Start(m)
  PROVE  Turns(m)
  <1> DEFINE r == rooms[m]
             p == FreezeForStart(r)
  <1>1. CASE r.status = "running" /\ Schedule(m, r)
    BY <1>1, WokenTurns
  <1>2. CASE r.status = "draft" /\ NoOtherRunning(m) /\ Schedule(m, p)
    <2>1. /\ RowInv(r) /\ Book(r) /\ Inserted(r) = {} /\ r \in RoomRecords
          /\ r.loop # "spinning" /\ authorized /\ available
      BY <1>2, Zenon DEF RoomInv, RowInv, Sound, Ledger, Stage, Unstarted, Start
    <2>2. Quiet(p) /\ p.loop = r.loop /\ p \in RoomRecords
      BY <2>1, FreezeForStartQuiet DEF Quiet
    <2>3. /\ p.status = "running" /\ p.attempts = r.attempts /\ p.session = r.session
          /\ p.attempt = 0
      BY <2>1, FreezeFields
    <2>4. Book(p) /\ LastIsFinal(p) /\ \A t \in Inserted(p) : ~Concluded(p, t)
      BY <2>1, <2>2, FreezeBook
    <2>5. DOMAIN r.attempts = {}
      BY <2>1, NoAgenda
    <2> HIDE DEF p, r
    <2>6. Stage(p)
      BY <2>3, <2>4 DEF Stage, Unstarted
    <2>7. Recorded(r, p) /\ (Tidy(r) => Tidy(p))
      BY <2>3, <2>5, Zenon DEF Recorded, Tidy, NoOrphan
    <2>8. Readied(r, p)
      BY <2>2, <2>3, <2>4, <2>6, <2>7, QuietRow DEF Readied, Ledger
    <2>9. PICK q : /\ Set(m, q) /\ Sound(q) /\ Recorded(r, q) /\ SameHeld(p, q)
                   /\ q.status = "running" \/ (q.status = "completed" /\ Open(q) = {})
                   /\ SetupSafe /\ Tidy(r) => Attended(q)
      BY <1>2, <2>1, <2>8, ReadiedGoes
    <2>10. Inserted(p) # {} /\ Open(p) = Inserted(p)
      BY <2>4 DEF LastIsFinal, Open
    <2>11. Inserted(q) = Inserted(p) /\ Open(q) = Open(p)
      BY <2>9, SameHeldSets
    <2>12. Begins(m, r, q)
      BY <1>2, <2>1, <2>9, <2>10, <2>11 DEF Begins
    <2>13. Kept(r, q) /\ (Attended(r) => Tidy(r))
      BY <2>9, RecordedAnswered DEF Kept, Attended
    <2> QED BY <2>9, <2>12, <2>13, Zenon DEF Turns, Advances, r
  <1> QED BY <1>1, <1>2, Zenon DEF Start, MaySetRunning

\* A meeting that is paused is set running again with the same turns held.
LEMMA PutBackTurns ==
  ASSUME NEW m \in Rooms, NEW r, r = rooms[m], RoomInv(r), r.status = "paused",
         authorized, available, NoOtherRunning(m),
         NEW p, Readied(r, p), SameHeld(r, p), Schedule(m, p)
  PROVE  Turns(m)
  <1>1. r \in RoomRecords /\ r.loop # "spinning"
    BY DEF RoomInv, RowInv
  <1>2. PICK q : /\ Set(m, q) /\ Sound(q) /\ Recorded(r, q) /\ SameHeld(p, q)
                 /\ q.status = "running" \/ (q.status = "completed" /\ Open(q) = {})
                 /\ SetupSafe /\ Tidy(r) => Attended(q)
    BY <1>1, ReadiedGoes
  <1>3. SameHeld(r, q)
    BY <1>2, SameHeldTransitive
  <1>4. PhaseMoves(m, r, q)
    BY <1>2 DEF PhaseMoves
  <1>5. Kept(r, q) /\ (Attended(r) => Tidy(r))
    BY <1>2, RecordedAnswered DEF Kept, Attended
  <1> QED BY <1>2, <1>3, <1>4, <1>5, Zenon DEF Turns, Advances

LEMMA ResumeReadied ==
  ASSUME NEW r, RowInv(r), Ledger(r), r.status = "paused"
  PROVE  Readied(r, ResumeRow(r)) /\ SameHeld(r, ResumeRow(r))
  <1> DEFINE p == ResumeRow(r)
  <1>1. Quiet(p) /\ p.loop = r.loop /\ p \in RoomRecords /\ r \in RoomRecords
        /\ Book(r) /\ Stage(r)
    BY ResumeRowQuiet DEF Quiet, RowInv, Ledger
  <1>2. /\ p.status = "running" /\ p.total = r.total /\ p.kind = r.kind
        /\ p.attempts = r.attempts /\ p.session = r.session /\ p.attempt = 0
        /\ \A t \in TurnIds : p.state[t] = IF r.state[t] \in {"interrupted", "failed"}
                                           THEN "pending" ELSE r.state[t]
    BY <1>1, ResumeRowFields
  <1> HIDE DEF p
  <1>3. \A u \in TurnIds : \/ p.state[u] = r.state[u]
                           \/ ~Concluded(r, u) /\ p.state[u] = "pending"
    BY <1>2, SMT DEF Concluded
  <1>4. Book(p) /\ \A u \in TurnIds : (Concluded(p, u) <=> Concluded(r, u))
    BY <1>1, <1>2, <1>3, PutBackBook
  <1>5. SameHeld(r, p) /\ Recorded(r, p)
    BY <1>2, <1>4, Zenon DEF SameHeld, Recorded
  <1>6. Stage(p)
    BY <1>1, <1>2, <1>5, StageKept DEF Unstarted
  <1>7. Tidy(r) => Tidy(p)
    <2>1. r.attempt = 0
      BY Zenon DEF RowInv, CurrentLive
    <2> QED BY <1>2, <2>1, Zenon DEF Tidy, NoOrphan
  <1> QED BY <1>1, <1>2, <1>4, <1>5, <1>6, <1>7, QuietRow DEF Readied, Ledger, p

LEMMA ResumeTurns ==
  ASSUME NEW m \in Rooms, RoomInv(rooms[m]), Sound(rooms[m]), Resume(m)
  PROVE  Turns(m)
  <1> DEFINE r == rooms[m]
  <1>1. CASE r.status = "running" /\ Schedule(m, r)
    BY <1>1, WokenTurns
  <1>2. CASE /\ r.status = "paused" /\ NoOtherRunning(m) /\ authorized /\ available
             /\ Schedule(m, ResumeRow(r))
    <2>1. Readied(r, ResumeRow(r)) /\ SameHeld(r, ResumeRow(r))
      BY <1>2, ResumeReadied DEF RoomInv, Sound
    <2> QED BY <1>2, <2>1, PutBackTurns
  <1> QED BY <1>1, <1>2, Zenon DEF Resume, MaySetRunning

\* The failed host turn is put back.
LEMMA ResetLedger ==
  ASSUME NEW r, RowInv(r), Ledger(r), r.status = "paused",
         NEW t \in TurnIds, r.state[t] = "failed"
  PROVE  LET p == ResetTurnForRetry(r, t)
         IN  /\ RowInv(p) /\ Ledger(p) /\ p.status = "paused" /\ p.attempt = 0
             /\ p.loop = r.loop /\ SameHeld(r, p) /\ Recorded(r, p) /\ (Tidy(r) => Tidy(p))
  <1> DEFINE p == ResetTurnForRetry(r, t)
  <1>1. r.attempt = 0 /\ r.kind[t] # "user_supplement" /\ r \in RoomRecords
        /\ Book(r) /\ Stage(r)
    BY Zenon DEF RowInv, CurrentLive, SupplementsHeld, Ledger
  <1>2. RowInv(p) /\ p \in RoomRecords
    BY <1>1, ResetTurnRow DEF RowInv
  <1>3. /\ p.status = r.status /\ p.total = r.total /\ p.kind = r.kind
        /\ p.state = [r.state EXCEPT ![t] = "pending"]
        /\ p.attempts = r.attempts /\ p.session = r.session
        /\ p.attempt = r.attempt /\ p.loop = r.loop
    BY <1>1, ResetFields
  <1> HIDE DEF p
  <1>4. \A u \in TurnIds : p.state[u] = IF u = t THEN "pending" ELSE r.state[u]
    BY <1>1, <1>3, FieldTyped, Zenon
  <1>5. \A u \in TurnIds : \/ p.state[u] = r.state[u]
                           \/ ~Concluded(r, u) /\ p.state[u] = "pending"
    BY <1>4 DEF Concluded
  <1>6. Book(p) /\ \A u \in TurnIds : (Concluded(p, u) <=> Concluded(r, u))
    BY <1>1, <1>2, <1>3, <1>5, PutBackBook
  <1>7. SameHeld(r, p) /\ Recorded(r, p) /\ (Tidy(r) => Tidy(p))
    BY <1>3, <1>6, Zenon DEF SameHeld, Recorded, Tidy, NoOrphan
  <1>8. Stage(p)
    BY <1>1, <1>3, <1>7, StageKept DEF Unstarted
  <1> QED BY <1>1, <1>2, <1>3, <1>6, <1>7, <1>8 DEF Ledger, p

LEMMA RetryHostTurns ==
  ASSUME NEW m \in Rooms, RoomInv(rooms[m]), Sound(rooms[m]), RetryHost(m)
  PROVE  Turns(m)
  <1> DEFINE r == rooms[m]
  <1>1. r.status = "paused" /\ authorized /\ available /\ RowInv(r) /\ Ledger(r)
    BY Zenon DEF RetryHost, RoomInv, Sound
  <1>2. PICK t \in Inserted(r) :
          /\ r.state[t] = "failed"
          /\ \/ NoOtherRunning(m) /\ Schedule(m, ResumeRow(ResetTurnForRetry(r, t)))
             \/ Set(m, ResetTurnForRetry(r, t))
    BY Zenon DEF RetryHost, MaySetRunning
  <1>3. t \in TurnIds
    BY DEF Inserted
  <1> DEFINE p == ResetTurnForRetry(r, t)
  <1>4. /\ RowInv(p) /\ Ledger(p) /\ p.status = "paused" /\ p.attempt = 0
        /\ p.loop = r.loop /\ SameHeld(r, p) /\ Recorded(r, p) /\ (Tidy(r) => Tidy(p))
    BY <1>1, <1>2, <1>3, ResetLedger
  <1>5. CASE NoOtherRunning(m) /\ Schedule(m, ResumeRow(p))
    <2> HIDE DEF p
    <2> DEFINE q == ResumeRow(p)
    <2>1. Readied(p, q) /\ SameHeld(p, q)
      BY <1>4, ResumeReadied
    <2> HIDE DEF q
    <2>2. Readied(r, q)
      BY <1>4, <2>1, RecordedTransitive DEF Readied
    <2>3. SameHeld(r, q)
      BY <1>4, <2>1, SameHeldTransitive
    <2>4. Schedule(m, q)
      BY <1>5 DEF q
    <2> QED BY <1>1, <1>5, <2>2, <2>3, <2>4, PutBackTurns
  <1>6. CASE Set(m, p)
    <2> HIDE DEF p
    <2>1. Sound(p) /\ (Attended(r) => Attended(p))
      BY <1>4, AtRestAttended DEF Sound, Unstopped, Attended
    <2>2. Kept(r, p) /\ PhaseMoves(m, r, p)
      BY <1>1, <1>4, RecordedAnswered DEF Kept, PhaseMoves
    <2> QED BY <1>4, <1>6, <2>1, <2>2, Zenon DEF Turns, Advances
  <1> QED BY <1>2, <1>5, <1>6

LEMMA AppendRoundTurns ==
  ASSUME NEW m \in Rooms, RoomInv(rooms[m]), Sound(rooms[m]), AppendRound(m)
  PROVE  Turns(m)
  <1> DEFINE r == rooms[m]
             next == r.total + 1
             p == AppendRoundRows(r)
  <1>1. /\ r.status = "completed" /\ NoOtherRunning(m) /\ authorized /\ available
        /\ r.total < RoundsMax /\ Schedule(m, p)
        /\ RowInv(r) /\ Book(r) /\ Open(r) = {} /\ r \in RoomRecords /\ r.loop # "spinning"
    BY Zenon DEF AppendRound, MaySetRunning, RoomInv, RowInv, Sound, Ledger, Stage
  <1>2. Quiet(p) /\ p.loop = r.loop /\ p \in RoomRecords
    BY <1>1, AppendRoundRowsQuiet DEF Quiet
  <1>3. /\ p.status = "running" /\ p.attempts = r.attempts /\ p.session = r.session
        /\ p.attempt = 0
    BY <1>1, AppendFields
  <1>4. /\ Book(p) /\ LastIsFinal(p)
        /\ Inserted(r) \subseteq Inserted(p)
        /\ \A t \in Inserted(r) : Concluded(r, t) /\ Concluded(p, t) /\ t[1] < next
        /\ \A t \in Inserted(p) \ Inserted(r) :
             t[1] = next /\ Concluded(p, t) = (t[2] = -2)
        /\ \E t \in Inserted(p) : ~Concluded(p, t)
    BY <1>1, <1>2, AppendBook
  <1> HIDE DEF p, r, next
  <1>5. Stage(p)
    BY <1>3, <1>4 DEF Stage, Unstarted
  <1>6. Recorded(r, p)
    BY <1>3, Zenon DEF Recorded
  <1>7. Tidy(r) => Tidy(p)
    <2>1. r.attempt = 0
      BY <1>1, Zenon DEF RowInv, CurrentLive
    <2> QED BY <1>3, <2>1, Zenon DEF Tidy, NoOrphan
  <1>8. Readied(r, p)
    BY <1>2, <1>3, <1>4, <1>5, <1>6, <1>7, QuietRow DEF Readied, Ledger
  <1>9. PICK q : /\ Set(m, q) /\ Sound(q) /\ Recorded(r, q) /\ SameHeld(p, q)
                 /\ q.status = "running" \/ (q.status = "completed" /\ Open(q) = {})
                 /\ SetupSafe /\ Tidy(r) => Attended(q)
    BY <1>1, <1>8, ReadiedGoes
  <1>10. Inserted(q) = Inserted(p) /\ Open(q) = Open(p)
         /\ \A t \in TurnIds : (Concluded(q, t) <=> Concluded(p, t))
    BY <1>9, SameHeldSets DEF SameHeld
  <1>11. Open(q) # {}
    BY <1>4, <1>10 DEF Open
  <1>12. Inserted(p) \subseteq TurnIds
    BY DEF Inserted
  <1>13. \A t \in Inserted(r), u \in Inserted(q) \ Inserted(r) : Before(t, u)
    BY <1>4, <1>10, <1>12, OrderOfTurns
  <1>14. \A t, u \in Inserted(q) : Concluded(q, t) /\ ~Concluded(q, u) => Before(t, u)
    <2> SUFFICES ASSUME NEW t \in Inserted(p), NEW u \in Inserted(p),
                        Concluded(p, t), ~Concluded(p, u)
                 PROVE  Before(t, u)
      BY <1>10, <1>12
    <2>1. u \notin Inserted(r) /\ u[1] = next /\ u[2] # -2
      BY <1>4
    <2>2. CASE t \in Inserted(r)
      BY <1>10, <1>13, <2>1, <2>2
    <2>3. CASE t \notin Inserted(r)
      <3>1. t[1] = next /\ t[2] = -2
        BY <1>4, <2>3
      <3>2. t \in TurnIds /\ u \in TurnIds
        BY <1>12
      <3>3. u[2] \in -2 .. (ParticipantCount + 2)
        BY <3>2, TurnTyped
      <3>4. t[2] < u[2]
        BY <2>1, <3>1, <3>3, ParticipantAssumption, SMT
      <3> QED BY <2>1, <3>1, <3>2, <3>4, OrderOfTurns, Zenon
    <2> QED BY <2>2, <2>3
  <1>15. Extends(m, r, q)
    <2>1. q.status = "running"
      BY <1>9, <1>11
    <2>2. \A t \in Inserted(r) : Concluded(r, t) /\ Concluded(q, t)
      BY <1>4, <1>10, <1>12
    <2> QED BY <1>1, <1>4, <1>10, <1>11, <1>13, <1>14, <2>1, <2>2 DEF Extends
  <1>16. Kept(r, q) /\ (Attended(r) => Tidy(r))
    BY <1>9, RecordedAnswered DEF Kept, Attended
  <1> QED BY <1>9, <1>15, <1>16, Zenon DEF Turns, Advances, r

\* All the commands.
LEMMA CommandTurns ==
  ASSUME NEW m \in Rooms, RoomInv(rooms[m]), Sound(rooms[m]), Command(m)
  PROVE  Turns(m)
  <1>1. CASE Pause(m)
    BY <1>1, PauseTurns DEF Pause, PauseReasons
  <1> QED
    BY <1>1, CreateTurns, StartTurns, ResumeTurns, RetryHostTurns, StopTurns,
       AppendRoundTurns, DeleteTurns, Zenon DEF Command
-----------------------------------------------------------------------------
(* Runs that end, streams, pauses and restarts.                            *)

\* The run the loop awaits is over, and the loop goes on from its rows.
LEMMA RunReturnsTurns ==
  ASSUME NEW m \in Rooms, RoomInv(rooms[m]), Sound(rooms[m]), rooms[m].loop = "awaiting",
         NEW outcome, NEW spoke \in BOOLEAN, RunReturns(m, outcome, spoke)
  PROVE  Turns(m)
  <1> DEFINE r == rooms[m]
             p == AfterRun(r, outcome, spoke)
  <1>1. /\ Ledger(p) /\ After(r, p)
        /\ Attended(r) => Tidy(p) /\ p.attempt = 0
    BY AfterRunLedger DEF Sound
  <1>2. RowInv(p) /\ RunMeeting(m, p)
    BY AfterRunRow DEF RunReturns
  <1> HIDE DEF p, r
  <1>3. Goes(m, p)
    BY <1>1, <1>2, RunMeetingGoes
  <1>4. PICK q : /\ Set(m, q) /\ Ledger(q) /\ Went(p, q) /\ Unstopped(q)
                 /\ SetupSafe /\ Tidy(p) /\ p.attempt = 0 => Attended(q)
    BY <1>3, Zenon DEF Goes
  <1>5. Answered(r, q)
    <2>1. Answered(r, p) /\ Recorded(p, q)
      BY <1>1, <1>4 DEF After, Went
    <2> SUFFICES ASSUME NEW a \in DOMAIN r.attempts
                 PROVE  /\ a \in DOMAIN q.attempts
                        /\ r.attempts[a].status # "running" => q.attempts[a] = r.attempts[a]
                        /\ q.attempts[a].status = "completed" =>
                             \/ r.attempts[a].status = "completed"
                             \/ a = r.attempt /\ r.loop = "awaiting" /\ MatchesActive(r, r.run)
      BY DEF Answered
    <2>2. /\ a \in DOMAIN p.attempts
          /\ r.attempts[a].status # "running" => p.attempts[a] = r.attempts[a]
          /\ p.attempts[a].status = "completed" =>
               \/ r.attempts[a].status = "completed"
               \/ a = r.attempt /\ r.loop = "awaiting" /\ MatchesActive(r, r.run)
      BY <2>1 DEF Answered
    <2>3. /\ a \in DOMAIN q.attempts
          /\ p.attempts[a].status # "running" => q.attempts[a] = p.attempts[a]
          /\ q.attempts[a].status = "completed" => p.attempts[a].status = "completed"
      BY <2>1, <2>2 DEF Recorded
    <2> QED BY <2>2, <2>3, Zenon
  <1>6. Advances(m, r, q)
    <2>1. SameHeld(p, q) /\ (q.status = p.status \/ (p.status = "running" /\ q.status = "paused")
             \/ (p.status = "running" /\ q.status = "completed" /\ Open(q) = {}))
      BY <1>4, Zenon DEF Went
    <2>2. p.status = r.status \/ (r.status = "running" /\ p.status = "paused")
      BY <1>1 DEF After
    <2>3. CASE SameHeld(r, p)
      <3>1. SameHeld(r, q)
        BY <2>1, <2>3, SameHeldTransitive
      <3>2. PhaseMoves(m, r, q)
        BY <2>1, <2>2, Zenon DEF PhaseMoves
      <3> QED BY <3>1, <3>2 DEF Advances
    <2>4. CASE r.status = "running" /\ HeldOne(r, p)
      <3>1. HeldOne(r, q)
        <4>1. PICK t \in Inserted(r) :
                /\ ~Concluded(r, t) /\ Concluded(p, t)
                /\ \A u \in Inserted(r) : Before(u, t) => Concluded(r, u)
                /\ \A u \in TurnIds \ {t} : (Concluded(p, u) <=> Concluded(r, u))
          BY <2>4, Zenon DEF HeldOne
        <4>2. q.kind = r.kind /\ t \in TurnIds
          BY <2>1, <2>4 DEF HeldOne, SameHeld, Inserted
        <4>3. \A u \in TurnIds : (Concluded(q, u) <=> Concluded(p, u))
          BY <2>1 DEF SameHeld
        <4> QED BY <4>1, <4>2, <4>3, Zenon DEF HeldOne
      <3>2. q.status \in {"running", "paused"} \/ (q.status = "completed" /\ Open(q) = {})
        BY <2>1, <2>2, <2>4
      <3> QED BY <2>4, <3>1, <3>2 DEF Advances, TurnHeld
    <2> QED BY <1>1, <2>3, <2>4 DEF After
  <1> QED BY <1>1, <1>4, <1>5, <1>6, Zenon DEF Turns, Sound, Kept, r

\* Streamed text changes the text of the current attempt, and nothing else.
LEMMA StreamTurns ==
  ASSUME NEW m \in Rooms, RoomInv(rooms[m]), Sound(rooms[m]), NEW a,
         Set(m, AcceptStream(rooms[m], a))
  PROVE  Turns(m)
  <1> DEFINE r == rooms[m]
             q == AcceptStream(r, a)
             said == IF a = r.run.attempt THEN "own" ELSE "other"
             c == r.attempt
             new == [r.attempts[c] EXCEPT !.text = said]
             grown == [r.attempts EXCEPT ![c] = new]
  <1>1. /\ RowInv(r) /\ r \in RoomRecords /\ Ledger(r) /\ Book(r) /\ Stage(r)
        /\ Unstopped(r) /\ Pointing(r)
    BY LivePoints DEF RoomInv, RowInv, Sound, Ledger
  <1>2. CASE q = r
    <2>1. SameHeld(r, r) /\ Recorded(r, r)
      BY Zenon DEF SameHeld, Recorded
    <2>2. Set(m, r)
      BY <1>2
    <2> QED BY <1>1, <2>1, <2>2, RecordedAnswered, Zenon
               DEF Turns, Kept, Advances, PhaseMoves, Sound
  <1>3. CASE q # r
    <2>1. r.loop = "awaiting" /\ r.run.attempt = a /\ MatchesActive(r, r.run)
          /\ q = [r EXCEPT !.attempts[r.run.attempt].text = said]
      BY <1>3, Zenon DEF AcceptStream, UpdateAttemptStream
    <2>2. /\ r.run.attempt = c /\ c \in DOMAIN r.attempts /\ r.attempts[c].status = "running"
      BY <1>1, <2>1, MatchedRun, Zenon DEF RoomInv, AwaitsRun, RowInv, CurrentLive
    <2>3. q = [r EXCEPT !.attempts = grown]
      BY <2>1, <2>2, Zenon
    <2>4. q \in RoomRecords
      BY StreamInv DEF RoomInv, RowInv
    <2>5. r.attempts[c] \in Attempts
      BY <1>1, <2>2, AttemptTyped
    <2> HIDE DEF said, q, r
    <2>6. new.status = r.attempts[c].status /\ new.turn = r.attempts[c].turn
          /\ new.aborted = r.attempts[c].aborted
      BY <2>5, SMT DEF Attempts
    <2> HIDE DEF new
    <2>7. DOMAIN grown = DOMAIN r.attempts /\ grown[c] = new
          /\ \A k \in DOMAIN r.attempts \ {c} : grown[k] = r.attempts[k]
      BY <2>2, Zenon
    <2> HIDE DEF grown
    <2>8. /\ q.status = r.status /\ q.turn = r.turn /\ q.attempt = r.attempt
          /\ q.epoch = r.epoch /\ q.attempts = grown /\ q.state = r.state
          /\ q.kind = r.kind /\ q.loop = r.loop /\ q.run = r.run
          /\ q.total = r.total /\ q.session = r.session
      BY <1>1, <2>3, SMT DEF RoomRecords
    <2>9. /\ DOMAIN q.attempts = DOMAIN r.attempts
          /\ \A k \in DOMAIN r.attempts : /\ q.attempts[k].status = r.attempts[k].status
                                          /\ q.attempts[k].turn = r.attempts[k].turn
                                          /\ q.attempts[k].aborted = r.attempts[k].aborted
                                          /\ k # c => q.attempts[k] = r.attempts[k]
      BY <2>6, <2>7, <2>8, Zenon
    <2>10. SameHeld(r, q) /\ Recorded(r, q)
      BY <2>2, <2>8, <2>9, Zenon DEF SameHeld, Recorded, Concluded
    <2>11. Book(q)
      <3>1. Fresh(q) /\ Placed(q)
        BY <1>1, <2>8, Zenon DEF Book, Fresh, Placed
      <3>2. Rooted(q) /\ Unaborted(q)
        <4>1. Rooted(q)
          BY <1>1, <2>8, <2>9, Zenon DEF Book, Rooted
        <4>2. \A k \in DOMAIN r.attempts : q.attempts[k].aborted => r.attempts[k].aborted
          BY <2>9
        <4>3. Unaborted(q)
          BY <1>1, <2>9, <4>2, Zenon DEF Book, Unaborted
        <4> QED BY <4>1, <4>3
      <3>3. Inserted(q) = Inserted(r) /\ (\A t : (Concluded(q, t) <=> Concluded(r, t)))
            /\ (\A t : HostTurn(q, t) = HostTurn(r, t))
        BY <2>8, Zenon DEF Inserted, Concluded, HostTurn
      <3>4. Within(q) /\ InOrder(q)
        BY <1>1, <2>8, <3>3, Zenon DEF Book, Within, InOrder
      <3>5. \A t : FailedOf(q, t) = FailedOf(r, t)
        BY <2>9, Zenon DEF FailedOf
      <3>6. \A t : Failures(q, t) = Failures(r, t)
        BY <1>1, <2>4, <3>5, FailuresKept
      <3>7. Allowance(q)
        BY <1>1, <2>8, <3>3, <3>6, Zenon DEF Book, Allowance
      <3> QED BY <2>4, <3>1, <3>2, <3>4, <3>7 DEF Book
    <2>12. Stage(q)
      BY <1>1, <2>8, <2>10, StageKept, SameHeldSets DEF Stage
    <2>13. Sound(q)
      BY <1>1, <2>8, <2>11, <2>12, Zenon DEF Sound, Ledger, Unstopped
    <2>14. Attended(r) => Attended(q)
      BY <2>8, <2>9, Zenon DEF Attended, Tidy, NoOrphan, HasLoop, MatchesActive
    <2>15. Kept(r, q) /\ PhaseMoves(m, r, q)
      BY <2>8, <2>10, RecordedAnswered DEF Kept, PhaseMoves
    <2>16. Set(m, q)
      BY DEF q, r
    <2> QED BY <2>10, <2>13, <2>14, <2>15, <2>16, Zenon DEF Turns, Advances, r
  <1> QED BY <1>2, <1>3

\* Losing the licence or the engine pauses the meetings that run.
LEMMA PauseRunningTurns ==
  ASSUME RoomsInv, \A m \in Rooms : Sound(rooms[m]), NEW reason \in PauseReasons,
         PauseRunning(reason)
  PROVE  UNCHANGED rooms \/ \E m \in Rooms : Turns(m)
  <1>1. ASSUME NEW m \in Rooms, rooms[m].status = "running",
               Set(m, PauseRow(StopActive(rooms[m]), reason, FALSE))
        PROVE  Turns(m)
    BY <1>1, PauseTurns DEF RoomsInv
  <1> QED BY <1>1, Zenon DEF PauseRunning

\* What a new process makes of a room.
Wakes(r, q) ==
  /\ Sound(q) /\ Recorded(r, q) /\ SameHeld(r, q)
  /\ q.status = IF r.status = "running" THEN "paused" ELSE r.status
  /\ Tidy(r) => Attended(q)

\* A restart of one room; then of all of them.
LEMMA RestartRowWakes ==
  ASSUME NEW r \in RoomRecords, Book(r), Stage(r), Pointing(r), SupplementsHeld(r),
         r.status # "running" => r.attempt = 0
  PROVE  Wakes(r, RestartRow(r))
  <1> DEFINE row == [r EXCEPT !.loop = "idle", !.run = NoRun]
             p == PauseRow(row, "app_restart", FALSE)
  <1>1. NoRun \in Runs
    BY SMT DEF NoRun, Runs
  <1>2. row \in RoomRecords
    BY <1>1, FieldReplaced, Zenon
  <1>3. /\ row.status = r.status /\ row.turn = r.turn /\ row.attempt = r.attempt
        /\ row.attempts = r.attempts /\ row.state = r.state /\ row.total = r.total
        /\ row.kind = r.kind /\ row.session = r.session /\ row.loop = "idle"
    BY SMT DEF RoomRecords
  <1>4. RestartRow(r) = IF r.status = "running" THEN p ELSE row
    BY Zenon DEF RestartRow
  <1> HIDE DEF row
  <1>5. Book(row) /\ SameHeld(r, row) /\ Recorded(r, row) /\ (Tidy(r) => Tidy(row))
    BY <1>2, <1>3, SameRowsBook, SameRowsKeeps DEF SameRows
  <1>6. Stage(row)
    BY <1>3, <1>5, StageKept, SameHeldSets DEF Stage
  <1>7. CASE r.status # "running"
    <2>1. Tidy(r) => Attended(row)
      BY <1>3, <1>5, <1>7, AtRestAttended
    <2> QED BY <1>3, <1>4, <1>5, <1>6, <1>7, <2>1 DEF Wakes, Sound, Ledger, Unstopped
  <1>8. CASE r.status = "running"
    <2>1. Pointing(row) /\ Interruptible(row)
      BY <1>2, <1>3, Zenon DEF Pointing, Interruptible, SupplementsHeld
    <2>2. Interrupt(row, FALSE) \in RoomRecords
      BY <2>1, InterruptQuiet DEF Quiet
    <2>3. PutAside(row, p) /\ p.status = "paused"
      BY <1>2, <2>1, <2>2, PauseRowRows
    <2>4. Quiet(p)
      BY <2>1, PauseRowQuiet DEF PauseReasons
    <2> HIDE DEF p
    <2>5. Book(p) /\ SameHeld(row, p) /\ Recorded(row, p) /\ (Tidy(row) => Tidy(p))
      BY <1>5, <2>1, <2>3, <2>4, PutAsideBook DEF Quiet
    <2>6. SameHeld(r, p) /\ Recorded(r, p)
      BY <1>5, <2>5, SameHeldTransitive, RecordedTransitive
    <2>7. Stage(p)
      BY <1>8, <2>3, <2>6, StageKept DEF Unstarted
    <2>8. Tidy(r) => Attended(p)
      BY <1>5, <2>3, <2>4, <2>5, AtRestAttended DEF Quiet
    <2> QED BY <1>4, <1>8, <2>3, <2>4, <2>5, <2>6, <2>7, <2>8
               DEF Wakes, Sound, Ledger, Unstopped, Quiet
  <1> QED BY <1>7, <1>8

\* Every room wakes up in a new process.
AllWake == /\ rooms \in [Rooms -> RoomRecords]
           /\ \A m \in Rooms : /\ Sound(rooms'[m]) /\ Recorded(rooms[m], rooms'[m])
                               /\ SameHeld(rooms[m], rooms'[m])
                               /\ rooms'[m].status = IF rooms[m].status = "running"
                                                     THEN "paused" ELSE rooms[m].status
                               /\ SetupSafe /\ Tidy(rooms[m]) => Attended(rooms'[m])

LEMMA RestartWakes ==
  ASSUME RoomsInv, \A m \in Rooms : Sound(rooms[m]), Restart
  PROVE  AllWake
  <1>1. ASSUME NEW m \in Rooms
        PROVE  Wakes(rooms[m], RestartRow(rooms[m]))
    <2> DEFINE r == rooms[m]
    <2>1. /\ r \in RoomRecords /\ Book(r) /\ Stage(r) /\ Pointing(r) /\ SupplementsHeld(r)
          /\ r.status # "running" => r.attempt = 0
      BY LivePoints, Zenon DEF RoomsInv, RoomInv, RowInv, CurrentLive, Sound, Ledger
    <2> HIDE DEF r
    <2>2. Wakes(r, RestartRow(r))
      BY <2>1, RestartRowWakes
    <2> QED BY <2>2 DEF r
  <1>2. \A m \in Rooms : rooms'[m] = RestartRow(rooms[m])
    BY DEF Restart
  <1> QED BY <1>1, <1>2, Zenon DEF AllWake, Wakes, RoomsInv

\* A delete cut short by the end of the process, and the restart after it.
LEMMA TornDeleteWakes ==
  ASSUME RoomsInv, \A m \in Rooms : Sound(rooms[m]), TornDelete
  PROVE  AllWake
  <1>1. PICK m \in Rooms, last \in Speakers :
          LET torn == [rooms[m] EXCEPT
                         !.epoch = @ + 1,
                         !.session = [s \in Speakers |-> IF s <= last THEN "gone" ELSE @[s]]]
          IN  rooms' = [n \in Rooms |-> RestartRow(IF n = m THEN torn ELSE rooms[n])]
    BY Zenon DEF TornDelete
  <1> DEFINE r == rooms[m]
             sessions == [s \in Speakers |-> IF s <= last THEN "gone" ELSE r.session[s]]
             torn == [r EXCEPT !.epoch = r.epoch + 1, !.session = sessions]
             before(n) == IF n = m THEN torn ELSE rooms[n]
  <1>2. ~SetupSafe
    BY DEF TornDelete, SetupSafe
  <1>3. \A n \in Rooms :
          /\ rooms[n] \in RoomRecords /\ Book(rooms[n]) /\ Stage(rooms[n])
          /\ Pointing(rooms[n]) /\ SupplementsHeld(rooms[n])
          /\ rooms[n].status # "running" => rooms[n].attempt = 0
    BY LivePoints, Zenon DEF RoomsInv, RoomInv, RowInv, CurrentLive, Sound, Ledger
  <1>4. rooms' = [n \in Rooms |-> RestartRow(before(n))]
    BY <1>1, Zenon
  <1>5. sessions \in [Speakers -> Sessions]
    <2>1. r.session \in [Speakers -> Sessions]
      BY <1>3, FieldTyped
    <2> HIDE DEF r
    <2> QED
      BY <2>1, Zenon DEF Sessions
  <1>6. torn \in RoomRecords
    <2>1. RowInv(r)
      BY DEF RoomsInv, RoomInv
    <2> HIDE DEF r, sessions
    <2> QED BY <1>5, <2>1, TornInterruptible DEF Interruptible
  <1> HIDE DEF sessions
  <1>7. /\ torn.status = r.status /\ torn.turn = r.turn /\ torn.attempt = r.attempt
        /\ torn.attempts = r.attempts /\ torn.state = r.state /\ torn.total = r.total
        /\ torn.kind = r.kind
    BY <1>3, SMT DEF RoomRecords
  <1> HIDE DEF torn, r
  <1>8. SameRows(r, torn)
    BY <1>7 DEF SameRows
  <1>9. /\ Book(torn) /\ SameHeld(r, torn) /\ Recorded(r, torn)
    BY <1>3, <1>6, <1>8, SameRowsBook, SameRowsKeeps DEF r
  <1>10. Stage(torn)
    BY <1>3, <1>7, <1>9, StageKept, SameHeldSets DEF Stage, r
  <1>11. Pointing(torn) /\ SupplementsHeld(torn)
    BY <1>3, <1>7, Zenon DEF Pointing, SupplementsHeld, r
  <1>12. \A n \in Rooms :
          /\ before(n) \in RoomRecords /\ Book(before(n)) /\ Stage(before(n))
          /\ Pointing(before(n)) /\ SupplementsHeld(before(n))
          /\ before(n).status # "running" => before(n).attempt = 0
          /\ SameHeld(rooms[n], before(n)) /\ Recorded(rooms[n], before(n))
          /\ before(n).status = rooms[n].status
    <2>1. \A n \in Rooms : SameHeld(rooms[n], rooms[n]) /\ Recorded(rooms[n], rooms[n])
      BY Zenon DEF SameHeld, Recorded
    <2> QED BY <1>3, <1>6, <1>7, <1>9, <1>10, <1>11, <2>1, Zenon DEF r
  <1> HIDE DEF before
  <1>13. \A n \in Rooms : Wakes(before(n), RestartRow(before(n)))
    BY <1>12, RestartRowWakes
  <1>14. \A n \in Rooms : rooms'[n] = RestartRow(before(n))
    BY <1>4
  <1>15. ASSUME NEW n \in Rooms
         PROVE  /\ Sound(rooms'[n]) /\ Recorded(rooms[n], rooms'[n])
                /\ SameHeld(rooms[n], rooms'[n])
                /\ rooms'[n].status = IF rooms[n].status = "running"
                                      THEN "paused" ELSE rooms[n].status
    <2>1. SameHeld(before(n), rooms'[n]) /\ Recorded(before(n), rooms'[n]) /\ Sound(rooms'[n])
          /\ rooms'[n].status = IF before(n).status = "running"
                                THEN "paused" ELSE before(n).status
      BY <1>13, <1>14 DEF Wakes
    <2>2. SameHeld(rooms[n], rooms'[n])
      BY <1>12, <2>1, SameHeldTransitive
    <2>3. Recorded(rooms[n], rooms'[n])
      BY <1>12, <2>1, RecordedTransitive
    <2> QED BY <1>12, <2>1, <2>2, <2>3
  <1> QED BY <1>2, <1>15, Zenon DEF AllWake, RoomsInv
-----------------------------------------------------------------------------
(* The invariant of the agenda, and the theorems.                          *)

AgendaInv ==
  /\ \A m \in Rooms : Sound(rooms[m])
  /\ SetupSafe => \A m \in Rooms : Attended(rooms[m])

\* What a step does to the rooms, as the agenda sees it.
AgendaStep ==
  \/ UNCHANGED rooms
  \/ \E m \in Rooms : Turns(m)
  \/ AllWake

\* Every step of the specification.
LEMMA NextTurns ==
  ASSUME RoomsInv, AgendaInv, [Next]_vars
  PROVE  AgendaStep
  <1> USE DEF AgendaStep
  <1>1. \A m \in Rooms : RoomInv(rooms[m]) /\ Sound(rooms[m])
    BY DEF RoomsInv, AgendaInv
  <1>2. CASE \E m \in Rooms : Command(m)
    BY <1>1, <1>2, CommandTurns
  <1>3. CASE \E m \in Rooms : Settle(m) \/ Timeout(m)
    <2>1. PICK m \in Rooms : Settle(m) \/ Timeout(m)
      BY <1>3
    <2>2. rooms[m].loop = "awaiting" /\ \E outcome : \E spoke \in BOOLEAN : RunReturns(m, outcome, spoke)
      BY <2>1, Zenon DEF Settle, Timeout
    <2> QED BY <1>1, <2>2, RunReturnsTurns
  <1>4. CASE \E m \in Rooms : \E a \in DOMAIN rooms[m].attempts : MeetingRunStream(m, a)
    <2>1. PICK m \in Rooms : \E a \in DOMAIN rooms[m].attempts : MeetingRunStream(m, a)
      BY <1>4
    <2>2. PICK a : Set(m, AcceptStream(rooms[m], a))
      BY <2>1 DEF MeetingRunStream
    <2> QED BY <1>1, <2>2, StreamTurns
  <1>5. CASE UNCHANGED rooms \/ PauseRunning("authorization_lost") \/ PauseRunning("runtime_unavailable")
    BY <1>1, <1>5, PauseRunningTurns DEF PauseReasons
  <1>6. CASE Restart \/ TornDelete
    BY <1>1, <1>6, RestartWakes, TornDeleteWakes
  <1> QED
    BY <1>2, <1>3, <1>4, <1>5, <1>6, Zenon
    DEF Next, vars, LoseAuthorization, RegainAuthorization, RuntimeStarted, RuntimeDown, RuntimeUp

\* One room takes the step, the others do not.
LEMMA TurnsNext ==
  ASSUME RoomsInv, NEW m \in Rooms, Turns(m)
  PROVE  /\ Sound(rooms'[m]) /\ Kept(rooms[m], rooms'[m]) /\ Advances(m, rooms[m], rooms'[m])
         /\ SetupSafe /\ Attended(rooms[m]) => Attended(rooms'[m])
         /\ \A n \in Rooms \ {m} : rooms'[n] = rooms[n]
  <1>1. PICK q : /\ Set(m, q) /\ Sound(q)
                 /\ Kept(rooms[m], q) /\ Advances(m, rooms[m], q)
                 /\ SetupSafe /\ Attended(rooms[m]) => Attended(q)
    BY Zenon DEF Turns
  <1>2. rooms \in [Rooms -> RoomRecords]
    BY DEF RoomsInv
  <1>3. rooms'[m] = q /\ \A n \in Rooms \ {m} : rooms'[n] = rooms[n]
    BY <1>1, <1>2, Zenon DEF Set
  <1> QED BY <1>1, <1>3

\* The invariant holds at first and is kept by every step.
LEMMA AgendaInvInit == Init => AgendaInv
  <1> SUFFICES ASSUME Init PROVE AgendaInv
    OBVIOUS
  <1>1. \A m \in Rooms : rooms[m] = NoRoom
    BY DEF Init
  <1>2. Sound(NoRoom) /\ Attended(NoRoom)
    BY NoRoomFields, EmptyBook DEF Unstarted
  <1> QED BY <1>1, <1>2 DEF AgendaInv

LEMMA AgendaInvNext == RoomsInv /\ AgendaInv /\ [Next]_vars => AgendaInv'
  <1> SUFFICES ASSUME RoomsInv, AgendaInv, [Next]_vars PROVE AgendaInv'
    OBVIOUS
  <1>1. AgendaStep
    BY NextTurns
  <1>2. CASE UNCHANGED rooms
    BY <1>2 DEF AgendaInv
  <1>3. ASSUME NEW m \in Rooms, Turns(m)
        PROVE  AgendaInv'
    <2>1. /\ Sound(rooms'[m]) /\ (SetupSafe /\ Attended(rooms[m]) => Attended(rooms'[m]))
          /\ \A n \in Rooms \ {m} : rooms'[n] = rooms[n]
      BY <1>3, TurnsNext
    <2>2. \A n \in Rooms : Sound(rooms'[n])
      BY <2>1, Zenon DEF AgendaInv
    <2>3. SetupSafe => \A n \in Rooms : Attended(rooms'[n])
      BY <2>1, Zenon DEF AgendaInv
    <2> QED BY <2>2, <2>3 DEF AgendaInv
  <1>4. CASE AllWake
    BY <1>4, Zenon DEF AllWake, AgendaInv, Attended
  <1> QED BY <1>1, <1>2, <1>3, <1>4 DEF AgendaStep

\* The agenda and the attempts of every room are in order.
THEOREM AgendaInvariant == Spec => []AgendaInv
  <1> QED BY AgendaInvInit, AgendaInvNext, RoomsInvariant, PTL DEF Spec

\* The agenda is held in order, for any number of participants and rounds.
THEOREM HeldInOrder == Spec => []AgendaInOrder
  <1>1. AgendaInv => AgendaInOrder
    BY DEF AgendaInv, Sound, Ledger, Book, AgendaInOrder
  <1> QED BY <1>1, AgendaInvariant, PTL

\* A completed meeting has held its whole agenda; its last turn, the final
\* summary, is a host turn and so was never skipped.
THEOREM CompletedHeld == Spec => []CompletedAgendaHeld
  <1>1. AgendaInv => CompletedAgendaHeld
    <2> SUFFICES ASSUME AgendaInv, NEW m \in Rooms, rooms[m].status = "completed"
                 PROVE  AgendaHeld(rooms[m])
      BY DEF CompletedAgendaHeld, AgendaHeld
    <2> DEFINE r == rooms[m]
    <2>1. Open(r) = {} /\ LastIsFinal(r) /\ Allowance(r)
      BY Zenon DEF AgendaInv, Sound, Ledger, Book, Stage, Unstarted
    <2>2. PICK t \in Inserted(r) : /\ r.kind[t] = "final_summary"
                                   /\ \A u \in Inserted(r) \ {t} : Before(u, t)
      BY <2>1 DEF LastIsFinal
    <2>3. Concluded(r, t) /\ HostTurn(r, t)
      BY <2>1, <2>2 DEF Open, HostTurn
    <2>4. r.state[t] = "completed"
      BY <2>1, <2>3 DEF Allowance, Concluded
    <2> QED BY <2>1, <2>2, <2>4 DEF AgendaHeld
  <1> QED BY <1>1, AgendaInvariant, PTL

\* A participant is skipped after exactly two failures, a host turn never.
THEOREM SkippedAfterTwo == Spec => []SkippedAfterTwoFailures
  <1>1. AgendaInv => SkippedAfterTwoFailures
    BY DEF AgendaInv, Sound, Ledger, Book, SkippedAfterTwoFailures
  <1> QED BY <1>1, AgendaInvariant, PTL

\* As long as no setup throws and no delete is torn, no attempt is left running
\* behind its room's back.
THEOREM NoneOrphaned == Spec => []NoOrphanAttempt
  <1>1. AgendaInv => NoOrphanAttempt
    BY DEF AgendaInv, Attended, Tidy, NoOrphanAttempt
  <1> QED BY <1>1, AgendaInvariant, PTL

\* As long as no setup throws, a running meeting has a loop that awaits a run.
THEOREM RunningIsAttended == Spec => []RunningHasLoop
  <1>1. AgendaInv => RunningHasLoop
    BY DEF AgendaInv, Attended, RunningHasLoop
  <1> QED BY <1>1, AgendaInvariant, PTL

\* An attempt that is over keeps its row until the meeting is deleted.
THEOREM ClosedIsFrozen == Spec => ClosedAttemptsFrozen
  <1>1. RoomsInv /\ AgendaInv /\ [Next]_vars =>
          [\A m \in Rooms : \A a \in DOMAIN rooms[m].attempts :
             rooms'[m].status # "deleted" /\ rooms[m].attempts[a].status # "running" =>
               /\ a \in DOMAIN rooms'[m].attempts
               /\ rooms'[m].attempts[a] = rooms[m].attempts[a]]_vars
    <2> SUFFICES ASSUME RoomsInv, AgendaInv, [Next]_vars,
                        NEW m \in Rooms, NEW a \in DOMAIN rooms[m].attempts,
                        rooms'[m].status # "deleted", rooms[m].attempts[a].status # "running"
                 PROVE  /\ a \in DOMAIN rooms'[m].attempts
                        /\ rooms'[m].attempts[a] = rooms[m].attempts[a]
      OBVIOUS
    <2>1. AgendaStep
      BY NextTurns
    <2>2. ASSUME NEW n \in Rooms, Turns(n)
          PROVE  rooms'[m] = rooms[m] \/ Kept(rooms[m], rooms'[m])
      BY <2>2, TurnsNext
    <2>3. rooms'[m] = rooms[m] \/ Kept(rooms[m], rooms'[m])
      BY <2>1, <2>2, RecordedAnswered DEF AgendaStep, AllWake, Kept
    <2> QED BY <2>3, Zenon DEF Kept, Deletes, Answered
  <1> QED BY <1>1, RoomsInvariant, AgendaInvariant, PTL DEF Spec, ClosedAttemptsFrozen

\* Only the run that a running meeting awaits completes an attempt.
THEOREM OnlyLiveComplete == Spec => OnlyLiveAttemptsComplete
  <1>1. RoomsInv /\ AgendaInv /\ [Next]_vars =>
          [\A m \in Rooms : \A a \in DOMAIN rooms[m].attempts :
             LET r == rooms[m]
             IN  /\ r.attempts[a].status # "completed"
                 /\ a \in DOMAIN rooms'[m].attempts
                 /\ rooms'[m].attempts[a].status = "completed"
                 => /\ r.status = "running" /\ r.attempt = a
                    /\ r.attempts[a].epoch = r.epoch
                    /\ r.loop = "awaiting" /\ r.run.attempt = a /\ ~r.run.stopped]_vars
    <2> SUFFICES ASSUME RoomsInv, AgendaInv, [Next]_vars,
                        NEW m \in Rooms, NEW a \in DOMAIN rooms[m].attempts,
                        rooms[m].attempts[a].status # "completed",
                        a \in DOMAIN rooms'[m].attempts,
                        rooms'[m].attempts[a].status = "completed"
                 PROVE  LET r == rooms[m]
                        IN  /\ r.status = "running" /\ r.attempt = a
                            /\ r.attempts[a].epoch = r.epoch
                            /\ r.loop = "awaiting" /\ r.run.attempt = a /\ ~r.run.stopped
      OBVIOUS
    <2> DEFINE r == rooms[m]
    <2>1. AgendaStep
      BY NextTurns
    <2>2. ASSUME NEW n \in Rooms, Turns(n)
          PROVE  rooms'[m] = rooms[m] \/ Kept(rooms[m], rooms'[m])
      BY <2>2, TurnsNext
    <2>3. rooms'[m] = rooms[m] \/ Kept(rooms[m], rooms'[m])
      BY <2>1, <2>2, RecordedAnswered DEF AgendaStep, AllWake, Kept
    <2>4. a = r.attempt /\ r.loop = "awaiting" /\ MatchesActive(r, r.run)
      <3>1. ~Deletes(r, rooms'[m])
        BY SMT DEF Deletes
      <3> QED BY <2>3, <3>1, Zenon DEF Kept, Answered
    <2>5. a # 0
      BY FieldTyped, SMT DEF RoomsInv
    <2>6. CurrentLive(r) /\ Unstopped(r)
      BY DEF RoomsInv, RoomInv, RowInv, AgendaInv, Sound
    <2> HIDE DEF r
    <2>7. r.status = "running" /\ r.run.attempt = a /\ r.attempts[a].epoch = r.epoch
      BY <2>4, <2>5, <2>6, Zenon DEF MatchesActive, CurrentLive
    <2>8. ~r.run.stopped
      BY <2>4, <2>5, <2>6, Zenon DEF Unstopped
    <2> QED BY <2>4, <2>7, <2>8 DEF r
  <1> QED BY <1>1, RoomsInvariant, AgendaInvariant, PTL DEF Spec, OnlyLiveAttemptsComplete
=============================================================================
