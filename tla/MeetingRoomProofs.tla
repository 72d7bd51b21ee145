------------------------- MODULE MeetingRoomProofs -------------------------
(***************************************************************************)
(* Theorems of MeetingRoom, for any rooms, participants, rounds, attempts, *)
(* epochs and kinds of event.                                              *)
(*                                                                         *)
(* RoomInv is the inductive invariant of a room.  CurrentLive alone is not *)
(* inductive: the loop's step would put an open supplement back while it   *)
(* is the current turn, so the supplements must be known to be held; and a *)
(* run is told to stop only if its attempt is the room's, so the loop must *)
(* be known to await a real attempt.                                       *)
(***************************************************************************)
EXTENDS MeetingRoom, SequenceTheorems, TLAPS

\* The user's words of an appended round count as held from the start.
SupplementsHeld(r) ==
  \A t \in TurnIds : r.kind[t] = "user_supplement" => r.state[t] = "completed"

\* A loop that awaits, awaits a run of a turn and an attempt.
AwaitsRun(r) == r.loop = "awaiting" => r.run.turn \in TurnIds /\ r.run.attempt # 0

RowInv(r) == r \in RoomRecords /\ CurrentLive(r) /\ SupplementsHeld(r)
RoomInv(r) == RowInv(r) /\ AwaitsRun(r) /\ StaleStopped(r) /\ r.loop # "spinning"

RoomsInv ==
  /\ rooms \in [Rooms -> RoomRecords]
  /\ \A m \in Rooms : RoomInv(rooms[m])
  /\ authorized \in BOOLEAN /\ available \in BOOLEAN /\ runtime \in Runtimes

\* A room whose current attempt, if any, is one that can be closed: a delete
\* that was cut short has moved the epoch on, so it need not be live.
Interruptible(r) ==
  /\ r \in RoomRecords /\ SupplementsHeld(r)
  /\ r.attempt = 0 => r.turn = NoTurn
  /\ r.attempt # 0 => /\ r.attempt \in DOMAIN r.attempts
                      /\ r.turn \in TurnIds /\ r.state[r.turn] = "running"

\* A room that holds no current attempt.
Quiet(r) ==
  /\ r \in RoomRecords /\ SupplementsHeld(r)
  /\ r.attempt = 0 /\ r.turn = NoTurn
-----------------------------------------------------------------------------
(* Rows: a field of a room, or of one of its attempts, is replaced by a    *)
(* value of its type.                                                      *)

\* No row has the identity that stands for "no current turn".
LEMMA NoTurnIsNoTurnId == NoTurn \notin TurnIds
  BY SMT, RoundsAssumption DEF NoTurn, TurnIds

LEMMA FieldReplaced ==
  ASSUME NEW r \in RoomRecords
  PROVE  /\ \A x \in RoomStatuses : [r EXCEPT !.status = x] \in RoomRecords
         /\ \A x \in PauseReasons : [r EXCEPT !.reason = x] \in RoomRecords
         /\ \A x \in 0 .. RoundsMax : [r EXCEPT !.total = x] \in RoomRecords
         /\ \A x \in Nat : [r EXCEPT !.epoch = x] \in RoomRecords
         /\ \A x \in TurnIds \cup {NoTurn} : [r EXCEPT !.turn = x] \in RoomRecords
         /\ \A x \in Nat : [r EXCEPT !.attempt = x] \in RoomRecords
         /\ \A x \in [TurnIds -> Kinds] : [r EXCEPT !.kind = x] \in RoomRecords
         /\ \A x \in [TurnIds -> TurnStatuses] : [r EXCEPT !.state = x] \in RoomRecords
         /\ \A x \in Seq(Attempts) : [r EXCEPT !.attempts = x] \in RoomRecords
         /\ \A x \in [Speakers -> Sessions] : [r EXCEPT !.session = x] \in RoomRecords
         /\ \A x \in {"idle", "awaiting", "spinning"} : [r EXCEPT !.loop = x] \in RoomRecords
         /\ \A x \in Runs : [r EXCEPT !.run = x] \in RoomRecords
  BY Zenon DEF RoomRecords

\* The types of a room's fields.
LEMMA FieldTyped ==
  ASSUME NEW r \in RoomRecords
  PROVE  /\ r.status \in RoomStatuses /\ r.epoch \in Nat /\ r.attempt \in Nat
         /\ r.total \in 0 .. RoundsMax
         /\ r.turn \in TurnIds \cup {NoTurn}
         /\ r.kind \in [TurnIds -> Kinds] /\ r.state \in [TurnIds -> TurnStatuses]
         /\ r.attempts \in Seq(Attempts) /\ r.session \in [Speakers -> Sessions]
         /\ r.loop \in {"idle", "awaiting", "spinning"} /\ r.run \in Runs
  BY Zenon DEF RoomRecords

\* An attempt row is updated in place.
LEMMA AttemptReplaced ==
  ASSUME NEW r \in RoomRecords, NEW a \in DOMAIN r.attempts, NEW x \in Attempts
  PROVE  [r.attempts EXCEPT ![a] = x] \in Seq(Attempts)
  BY FieldTyped, ExceptSeq

LEMMA AttemptTyped ==
  ASSUME NEW r \in RoomRecords, NEW a \in DOMAIN r.attempts
  PROVE  r.attempts[a] \in Attempts
  BY FieldTyped, SMT

\* What a closing statement writes in an attempt row.
LEMMA AttemptClosed ==
  ASSUME NEW x \in Attempts
  PROVE  /\ \A s \in AttemptStatuses : [x EXCEPT !.status = s] \in Attempts
         /\ \A s \in AttemptStatuses, b \in BOOLEAN :
              [x EXCEPT !.status = s, !.aborted = b] \in Attempts
         /\ \A u \in Texts : [x EXCEPT !.text = u] \in Attempts
         /\ \A s \in AttemptStatuses, u \in Texts :
              [x EXCEPT !.status = s, !.text = u] \in Attempts
  BY Zenon DEF Attempts

\* A turn row is updated in place.
LEMMA TurnReplaced ==
  ASSUME NEW r \in RoomRecords, NEW t \in TurnIds, NEW x \in TurnStatuses
  PROVE  [r.state EXCEPT ![t] = x] \in [TurnIds -> TurnStatuses]
  BY FieldTyped, SMT

\* A session of a speaker is replaced; any other key leaves the function alone.
LEMMA SessionReplaced ==
  ASSUME NEW f \in [Speakers -> Sessions]
  PROVE  \A s : \A x : (s \in Speakers => x \in Sessions)
                        => [f EXCEPT ![s] = x] \in [Speakers -> Sessions]
  <1> SUFFICES ASSUME NEW s, NEW x, s \in Speakers => x \in Sessions
               PROVE  [f EXCEPT ![s] = x] \in [Speakers -> Sessions]
    OBVIOUS
  <1>1. \A k \in Speakers : [f EXCEPT ![s] = x][k] = IF k = s THEN x ELSE f[k]
    OBVIOUS
  <1> QED BY <1>1
-----------------------------------------------------------------------------
(* The store's transactions keep the rows consistent.                      *)

\* The statement that sets a room running, whichever command issues it.
LEMMA SetRunningQuiet ==
  ASSUME NEW r, RowInv(r)
  PROVE  LET q == SetRunning(r)
         IN  Quiet(q) /\ q.loop = r.loop /\ q.run = r.run /\ q.state = r.state
             /\ q.kind = r.kind
  <1>1. r \in RoomRecords /\ r.epoch + 1 \in Nat
    BY FieldTyped, SMT DEF RowInv
  <1>2. "running" \in RoomStatuses /\ "none" \in PauseReasons
        /\ 0 \in Nat /\ NoTurn \in TurnIds \cup {NoTurn}
    BY DEF RoomStatuses, PauseReasons
  <1>3. SetRunning(r) \in RoomRecords
    BY <1>1, <1>2, FieldReplaced, Zenon DEF SetRunning
  <1> QED
    BY <1>1, <1>3, SMT DEF Quiet, RowInv, SetRunning, RoomRecords, SupplementsHeld

LEMMA RowInterruptible ==
  ASSUME NEW r, RowInv(r)
  PROVE  Interruptible(r)
  BY FieldTyped, Zenon DEF RowInv, CurrentLive, Interruptible

\* The current attempt is closed and its turn put aside; nothing else moves.
LEMMA InterruptQuiet ==
  ASSUME NEW r, Interruptible(r), NEW aborted \in BOOLEAN
  PROVE  LET q == Interrupt(r, aborted)
         IN  Quiet(q) /\ q.loop = r.loop /\ q.run = r.run /\ q.epoch = r.epoch
  <1>1. CASE r.attempt = 0
    BY <1>1, SMT DEF Interrupt, Interruptible, Quiet
  <1>2. CASE r.attempt # 0
    <2> DEFINE old == r.attempts[r.attempt]
               new == IF old.status = "running"
                      THEN [old EXCEPT !.status = "interrupted", !.aborted = aborted]
                      ELSE old
    <2>1. /\ r \in RoomRecords /\ r.attempt \in DOMAIN r.attempts /\ r.turn \in TurnIds
          /\ r.state[r.turn] = "running"
      BY <1>2, SMT DEF Interruptible
    <2>2. new \in Attempts
      <3>1. old \in Attempts
        BY <2>1, AttemptTyped
      <3>2. "interrupted" \in AttemptStatuses
        BY DEF AttemptStatuses
      <3> HIDE DEF old
      <3> QED
        BY <3>1, <3>2, AttemptClosed, Zenon
    <2> HIDE DEF new
    <2>3. [r.attempts EXCEPT ![r.attempt] = new] \in Seq(Attempts)
      BY <2>1, <2>2, AttemptReplaced
    <2>4. "interrupted" \in TurnStatuses /\ 0 \in Nat /\ NoTurn \in TurnIds \cup {NoTurn}
      BY DEF TurnStatuses
    <2>5. [r.state EXCEPT ![r.turn] = "interrupted"] \in [TurnIds -> TurnStatuses]
      BY <2>1, <2>4, TurnReplaced
    <2> DEFINE q == [r EXCEPT !.attempts = [r.attempts EXCEPT ![r.attempt] = new],
                              !.state = [r.state EXCEPT ![r.turn] = "interrupted"],
                              !.turn = NoTurn, !.attempt = 0]
    <2>6. q \in RoomRecords
      BY <2>1, <2>3, <2>4, <2>5, FieldReplaced, Zenon
    <2>7. Interrupt(r, aborted) = q
      BY <1>2, Zenon DEF Interrupt, new
    <2>8. SupplementsHeld(q)
      BY <2>1, SMT DEF SupplementsHeld, Interruptible, RoomRecords
    <2> QED
      BY <2>1, <2>6, <2>7, <2>8, SMT DEF Quiet, RoomRecords
  <1> QED BY <1>1, <1>2

\* pause, stop and the restart recovery.
LEMMA PauseRowQuiet ==
  ASSUME NEW r, Interruptible(r), NEW reason \in PauseReasons, NEW aborted \in BOOLEAN
  PROVE  LET q == PauseRow(r, reason, aborted)
         IN  Quiet(q) /\ q.loop = r.loop /\ q.run = r.run /\ q.status = "paused"
  <1> DEFINE i == Interrupt(r, aborted)
  <1>1. Quiet(i) /\ i.loop = r.loop /\ i.run = r.run
    BY InterruptQuiet
  <1> HIDE DEF i
  <1>2. i \in RoomRecords /\ i.epoch + 1 \in Nat /\ "paused" \in RoomStatuses
    BY <1>1, FieldTyped, SMT DEF Quiet, RoomStatuses
  <1> DEFINE q == [i EXCEPT !.status = "paused", !.reason = reason, !.epoch = i.epoch + 1]
  <1>3. q \in RoomRecords
    BY <1>2, FieldReplaced, Zenon
  <1>4. PauseRow(r, reason, aborted) = q
    BY Zenon DEF PauseRow, i
  <1> QED
    BY <1>1, <1>2, <1>3, <1>4, SMT DEF Quiet, SupplementsHeld, RoomRecords

LEMMA StopRowQuiet ==
  ASSUME NEW r, RowInv(r)
  PROVE  LET q == StopRow(r)
         IN  Quiet(q) /\ q.loop = r.loop /\ q.run = r.run /\ q.status = "stopped"
  <1> DEFINE i == Interrupt(r, TRUE)
  <1>1. Quiet(i) /\ i.loop = r.loop /\ i.run = r.run
    BY InterruptQuiet, RowInterruptible
  <1> HIDE DEF i
  <1>2. i \in RoomRecords /\ i.epoch + 1 \in Nat /\ "stopped" \in RoomStatuses
        /\ "none" \in PauseReasons
    BY <1>1, FieldTyped, SMT DEF Quiet, RoomStatuses, PauseReasons
  <1> DEFINE q == [i EXCEPT !.status = "stopped", !.reason = "none", !.epoch = i.epoch + 1]
  <1>3. q \in RoomRecords
    BY <1>2, FieldReplaced, Zenon
  <1>4. StopRow(r) = q
    BY Zenon DEF StopRow, i
  <1> QED
    BY <1>1, <1>2, <1>3, <1>4, SMT DEF Quiet, SupplementsHeld, RoomRecords

LEMMA MarkCompletedQuiet ==
  ASSUME NEW r, RowInv(r)
  PROVE  LET q == MarkCompleted(r)
         IN  Quiet(q) /\ q.loop = r.loop /\ q.run = r.run /\ q.status = "completed"
  <1>1. r \in RoomRecords /\ "completed" \in RoomStatuses /\ "none" \in PauseReasons
        /\ 0 \in Nat /\ NoTurn \in TurnIds \cup {NoTurn}
    BY DEF RowInv, RoomStatuses, PauseReasons
  <1>2. MarkCompleted(r) \in RoomRecords
    BY <1>1, FieldReplaced, Zenon DEF MarkCompleted
  <1> QED
    BY <1>1, <1>2, SMT DEF Quiet, RowInv, MarkCompleted, RoomRecords, SupplementsHeld

\* resume reopens interrupted and failed turns: never a supplement.
LEMMA ResumeRowQuiet ==
  ASSUME NEW r, RowInv(r)
  PROVE  LET q == ResumeRow(r)
         IN  Quiet(q) /\ q.loop = r.loop /\ q.run = r.run
  <1> DEFINE s == SetRunning(r)
             reopened == [t \in TurnIds |->
                            IF r.state[t] \in {"interrupted", "failed"}
                            THEN "pending" ELSE r.state[t]]
             q == [s EXCEPT !.state = reopened]
  <1>1. Quiet(s) /\ s.loop = r.loop /\ s.run = r.run /\ s.kind = r.kind
    BY SetRunningQuiet
  <1>2. reopened \in [TurnIds -> TurnStatuses]
    BY FieldTyped, SMT DEF RowInv, TurnStatuses
  <1>3. \A t \in TurnIds : r.state[t] = "completed" => reopened[t] = "completed"
    BY SMT
  <1> HIDE DEF s, reopened
  <1>4. q \in RoomRecords
    BY <1>1, <1>2, FieldReplaced, Zenon DEF Quiet
  <1>5. ResumeRow(r) = q
    BY Zenon DEF ResumeRow, s, reopened
  <1>6. q.state = reopened /\ q.kind = r.kind /\ q.attempt = 0 /\ q.turn = NoTurn
        /\ q.loop = r.loop /\ q.run = r.run
    BY <1>1, SMT DEF Quiet, RoomRecords
  <1>7. SupplementsHeld(q)
    BY <1>3, <1>6, SMT DEF SupplementsHeld, RowInv
  <1> QED
    BY <1>4, <1>5, <1>6, <1>7, Zenon DEF Quiet

\* The turns a new meeting starts with hold no supplement.
LEMMA FreezeForStartQuiet ==
  ASSUME NEW r, RowInv(r)
  PROVE  LET q == FreezeForStart(r)
         IN  Quiet(q) /\ q.loop = r.loop /\ q.run = r.run
  <1> DEFINE s == SetRunning(r)
             kinds == [t \in TurnIds |-> InitialKind(r.total, t)]
             q == [s EXCEPT !.kind = kinds]
  <1>1. Quiet(s) /\ s.loop = r.loop /\ s.run = r.run
    BY SetRunningQuiet
  <1>2. \A t \in TurnIds : InitialKind(r.total, t) \in Kinds \ {"user_supplement"}
    BY SMT DEF InitialKind, Kinds
  <1>3. kinds \in [TurnIds -> Kinds] /\ \A t \in TurnIds : kinds[t] # "user_supplement"
    BY <1>2, SMT
  <1> HIDE DEF s, kinds
  <1>4. q \in RoomRecords
    BY <1>1, <1>3, FieldReplaced, Zenon DEF Quiet
  <1>5. FreezeForStart(r) = q
    BY Zenon DEF FreezeForStart, s, kinds
  <1>6. q.kind = kinds /\ q.attempt = 0 /\ q.turn = NoTurn /\ q.loop = r.loop /\ q.run = r.run
    BY <1>1, SMT DEF Quiet, RoomRecords
  <1>7. SupplementsHeld(q)
    BY <1>3, <1>6, Zenon DEF SupplementsHeld
  <1> QED
    BY <1>4, <1>5, <1>6, <1>7, Zenon DEF Quiet

\* An appended round: its supplement is inserted as a completed turn.
LEMMA AppendRoundRowsQuiet ==
  ASSUME NEW r, RowInv(r), r.total < RoundsMax
  PROVE  LET q == AppendRoundRows(r)
         IN  Quiet(q) /\ q.loop = r.loop /\ q.run = r.run
  <1> DEFINE next == r.total + 1
             s == SetRunning(r)
             kinds == [t \in TurnIds |-> IF t[1] = next THEN AppendedKind(t) ELSE r.kind[t]]
             states == [s.state EXCEPT ![<<next, -2>>] = "completed"]
             q == [s EXCEPT !.total = next, !.kind = kinds, !.state = states]
  <1>1. Quiet(s) /\ s.loop = r.loop /\ s.run = r.run /\ s.state = r.state
    BY SetRunningQuiet
  <1>2. r \in RoomRecords /\ r.total \in 0 .. RoundsMax /\ r.kind \in [TurnIds -> Kinds]
        /\ r.state \in [TurnIds -> TurnStatuses]
    BY FieldTyped DEF RowInv
  <1>3. next \in 0 .. RoundsMax
    BY <1>2, RoundsAssumption, SMT
  <1>4. \A t \in TurnIds : AppendedKind(t) \in Kinds
                           /\ (AppendedKind(t) = "user_supplement" => t[2] = -2)
    BY SMT DEF AppendedKind, Kinds
  <1>5. kinds \in [TurnIds -> Kinds]
    BY <1>2, <1>4, SMT
  <1>6. states \in [TurnIds -> TurnStatuses]
    <2>1. s.state \in [TurnIds -> TurnStatuses] /\ "completed" \in TurnStatuses
      BY <1>1, <1>2, Zenon DEF TurnStatuses
    <2> HIDE DEF s, next
    <2> QED
      BY <2>1, Zenon
  <1>7. \A t \in TurnIds : kinds[t] = "user_supplement" => states[t] = "completed"
    <2> SUFFICES ASSUME NEW t \in TurnIds, kinds[t] = "user_supplement"
                 PROVE  states[t] = "completed"
      OBVIOUS
    <2>1. t = <<t[1], t[2]>>
      BY SMT DEF TurnIds
    <2>2. CASE t[1] = next
      <3>1. t[2] = -2
        BY <1>4, <2>2, SMT
      <3> QED
        BY <1>1, <1>2, <2>1, <2>2, <3>1, SMT
    <2>3. CASE t[1] # next
      BY <1>1, <1>2, <2>1, <2>3, SMT DEF RowInv, SupplementsHeld
    <2> QED BY <2>2, <2>3
  <1> HIDE DEF s, kinds, states, next
  <1>8. q \in RoomRecords
    BY <1>1, <1>3, <1>5, <1>6, FieldReplaced, Zenon DEF Quiet
  <1>9. AppendRoundRows(r) = q
    BY Zenon DEF AppendRoundRows, s, kinds, states, next
  <1> QED
    BY <1>1, <1>7, <1>8, <1>9, SMT DEF Quiet, RoomRecords, SupplementsHeld

\* The attempt that is begun is the live one, and its turn no supplement.
LEMMA BeginAttemptLive ==
  ASSUME NEW r, RowInv(r), r.status = "running", NEW t \in Open(r)
  PROVE  LET q == BeginAttempt(r, t)
         IN  /\ RowInv(q) /\ q.status = "running"
             /\ q.turn = t /\ q.attempt # 0
             /\ q.loop = r.loop /\ q.run = r.run /\ q.session = r.session
  <1> DEFINE row == [turn |-> t, epoch |-> r.epoch, status |-> "running",
                     aborted |-> FALSE, text |-> "none"]
             grown == Append(r.attempts, row)
             states == [r.state EXCEPT ![t] = "running"]
             q == [r EXCEPT !.attempts = grown, !.state = states, !.turn = t,
                            !.attempt = Len(r.attempts) + 1]
  <1>1. r \in RoomRecords /\ r.attempts \in Seq(Attempts) /\ r.epoch \in Nat
        /\ r.state \in [TurnIds -> TurnStatuses]
    BY FieldTyped DEF RowInv
  <1>2. t \in TurnIds /\ r.state[t] # "completed"
    BY DEF Open, Inserted, Concluded
  <1>3. row \in Attempts
    BY <1>1, <1>2, SMT DEF Attempts, AttemptStatuses, Texts
  <1> HIDE DEF row
  <1>4. /\ grown \in Seq(Attempts) /\ Len(r.attempts) + 1 \in Nat \ {0}
        /\ Len(r.attempts) + 1 \in DOMAIN grown /\ grown[Len(r.attempts) + 1] = row
    BY <1>1, <1>3, SMT
  <1>5. states \in [TurnIds -> TurnStatuses] /\ states[t] = "running"
        /\ \A u \in TurnIds \ {t} : states[u] = r.state[u]
    BY <1>1, <1>2, SMT DEF TurnStatuses
  <1> HIDE DEF grown, states
  <1>6. q \in RoomRecords
    BY <1>1, <1>2, <1>4, <1>5, FieldReplaced, Zenon
  <1>7. BeginAttempt(r, t) = q
    BY Zenon DEF BeginAttempt, grown, states, row
  <1>8. /\ q.attempts = grown /\ q.state = states /\ q.turn = t
        /\ q.attempt = Len(r.attempts) + 1 /\ q.status = "running" /\ q.epoch = r.epoch
        /\ q.kind = r.kind /\ q.loop = r.loop /\ q.run = r.run /\ q.session = r.session
    BY <1>1, SMT DEF RoomRecords
  <1> HIDE DEF q
  <1>9. CurrentLive(q)
    <2>1. row.turn = t /\ row.epoch = r.epoch /\ row.status = "running"
      BY Zenon DEF row
    <2>2. q.turn # NoTurn /\ q.attempt # 0
      BY <1>2, <1>4, <1>8, NoTurnIsNoTurnId, SMT
    <2> QED
      BY <1>4, <1>5, <1>8, <2>1, <2>2, Zenon DEF CurrentLive
  <1>10. SupplementsHeld(q)
    BY <1>2, <1>5, <1>8, Zenon DEF SupplementsHeld, RowInv
  <1> QED
    BY <1>4, <1>6, <1>7, <1>8, <1>9, <1>10, SMT DEF RowInv

\* The loop awaits the run of the attempt it has begun.
LEMMA AwaitRunInv ==
  ASSUME NEW r, RowInv(r), r.status = "running", NEW t \in Open(r)
  PROVE  RoomInv(AwaitRun(r, t))
  <1> DEFINE b == BeginAttempt(r, t)
             speaker == Speaker(r, t)
             sessions == [b.session EXCEPT ![speaker] =
                            IF b.session[speaker] = "empty" THEN "prompted"
                                                            ELSE b.session[speaker]]
             run == [turn |-> t, attempt |-> b.attempt, epoch |-> b.epoch, stopped |-> FALSE]
             q == [b EXCEPT !.session = sessions, !.loop = "awaiting", !.run = run]
  <1>1. /\ RowInv(b) /\ b.status = "running"
        /\ b.turn = t /\ b.attempt # 0 /\ b.session = r.session
    BY BeginAttemptLive
  <1>2. t \in TurnIds /\ r \in RoomRecords
    BY DEF Open, Inserted, RowInv
  <1> HIDE DEF b
  <1>3. b \in RoomRecords /\ b.epoch \in Nat /\ b.attempt \in Nat
        /\ b.session \in [Speakers -> Sessions]
    BY <1>1, FieldTyped DEF RowInv
  <1>4. run \in Runs
    BY <1>2, <1>3, SMT DEF Runs
  <1>5. sessions \in [Speakers -> Sessions]
    <2> DEFINE x == IF b.session[speaker] = "empty" THEN "prompted" ELSE b.session[speaker]
    <2> HIDE DEF speaker
    <2>1. speaker \in Speakers => x \in Sessions
      BY <1>3, Zenon DEF Sessions
    <2>2. sessions = [b.session EXCEPT ![speaker] = x]
      OBVIOUS
    <2> HIDE DEF x, sessions
    <2> QED
      BY <1>3, <2>1, <2>2, SessionReplaced, Zenon
  <1>6. run.turn = t /\ run.attempt = b.attempt /\ run.epoch = b.epoch
    BY Zenon
  <1>7. AwaitRun(r, t) = q
    BY Zenon DEF AwaitRun, b
  <1> HIDE DEF run, sessions, speaker
  <1>8. q \in RoomRecords
    BY <1>3, <1>4, <1>5, FieldReplaced, Zenon
  <1>9. /\ q.status = b.status /\ q.turn = b.turn /\ q.attempt = b.attempt
        /\ q.epoch = b.epoch /\ q.attempts = b.attempts /\ q.state = b.state
        /\ q.kind = b.kind /\ q.loop = "awaiting" /\ q.run = run
    BY <1>3, SMT DEF RoomRecords
  <1> HIDE DEF q
  <1>10. CurrentLive(q) /\ SupplementsHeld(q)
    BY <1>1, <1>9, Zenon DEF RowInv, CurrentLive, SupplementsHeld
  <1>11. AwaitsRun(q) /\ MatchesActive(q, q.run)
    BY <1>1, <1>2, <1>6, <1>9, Zenon DEF AwaitsRun, MatchesActive
  <1> QED
    BY <1>7, <1>8, <1>9, <1>10, <1>11, Zenon DEF RoomInv, RowInv, StaleStopped

\* A loop that returns leaves the rows alone.
LEMMA LeaveInv ==
  ASSUME NEW r, RowInv(r)
  PROVE  RoomInv(Leave(r)) /\ Leave(r).status = r.status
  <1>1. r \in RoomRecords /\ NoRun \in Runs
    BY SMT DEF RowInv, NoRun, Runs
  <1>2. Leave(r) \in RoomRecords
    BY <1>1, FieldReplaced, Zenon DEF Leave
  <1>3. LET q == Leave(r)
        IN  /\ q.status = r.status /\ q.turn = r.turn /\ q.attempt = r.attempt
            /\ q.epoch = r.epoch /\ q.attempts = r.attempts /\ q.state = r.state
            /\ q.kind = r.kind /\ q.loop = "idle"
    BY <1>1, SMT DEF Leave, RoomRecords
  <1> QED
    BY <1>2, <1>3, Zenon DEF RoomInv, RowInv, CurrentLive, SupplementsHeld, AwaitsRun, StaleStopped

-----------------------------------------------------------------------------
(* Pausing, stopping and deleting: the run is told to stop, the rows close. *)

LEMMA QuietInv ==
  ASSUME NEW q, Quiet(q), AwaitsRun(q), q.loop = "awaiting" => q.run.stopped,
         q.loop # "spinning"
  PROVE  RoomInv(q)
  BY Zenon DEF Quiet, RoomInv, RowInv, CurrentLive, StaleStopped

LEMMA QuietRow ==
  ASSUME NEW q, Quiet(q)
  PROVE  RowInv(q)
  BY Zenon DEF Quiet, RowInv, CurrentLive

\* stopSession touches the run only.
LEMMA StopActiveRow ==
  ASSUME NEW r, RowInv(r)
  PROVE  LET q == StopActive(r)
         IN  /\ RowInv(q) /\ q.status = r.status /\ q.loop = r.loop /\ q.epoch = r.epoch
             /\ q.run.turn = r.run.turn /\ q.run.attempt = r.run.attempt
  <1> DEFINE run == [r.run EXCEPT !.stopped = TRUE]
             q == [r EXCEPT !.run = run]
  <1>1. r \in RoomRecords /\ r.run \in Runs
    BY FieldTyped DEF RowInv
  <1>2. run \in Runs /\ run.turn = r.run.turn /\ run.attempt = r.run.attempt
    BY <1>1, Zenon DEF Runs
  <1> HIDE DEF run
  <1>3. q \in RoomRecords
    BY <1>1, <1>2, FieldReplaced, Zenon
  <1>4. /\ q.status = r.status /\ q.turn = r.turn /\ q.attempt = r.attempt
        /\ q.epoch = r.epoch /\ q.attempts = r.attempts /\ q.state = r.state
        /\ q.kind = r.kind /\ q.loop = r.loop /\ q.run = run
    BY <1>1, SMT DEF RoomRecords
  <1>5. StopActive(r) = r \/ StopActive(r) = q
    BY Zenon DEF StopActive, run
  <1> HIDE DEF q
  <1>6. RowInv(q)
    BY <1>3, <1>4, Zenon DEF RowInv, CurrentLive, SupplementsHeld
  <1> QED
    BY <1>2, <1>4, <1>5, <1>6, Zenon

\* After stopSession no run is awaited that was not told to stop: the run of
\* the current attempt now, a stale one before.
LEMMA StopActiveStops ==
  ASSUME NEW r, RoomInv(r)
  PROVE  LET q == StopActive(r)
         IN  AwaitsRun(q) /\ (q.loop = "awaiting" => q.run.stopped)
  <1>1. RowInv(r) /\ r \in RoomRecords
    BY DEF RoomInv, RowInv
  <1>2. AwaitsRun(StopActive(r))
    BY <1>1, StopActiveRow, Zenon DEF RoomInv, AwaitsRun
  <1>3. CASE r.attempt # 0 /\ r.loop = "awaiting" /\ r.run.attempt = r.attempt
    <2>1. StopActive(r) = [r EXCEPT !.run = [r.run EXCEPT !.stopped = TRUE]]
      BY <1>3, Zenon DEF StopActive
    <2>2. r.run \in Runs
      BY <1>1, FieldTyped
    <2>3. [r.run EXCEPT !.stopped = TRUE].stopped
      BY <2>2, SMT DEF Runs
    <2> HIDE DEF Runs
    <2>4. StopActive(r).run = [r.run EXCEPT !.stopped = TRUE]
      BY <1>1, <2>1, Zenon DEF RoomRecords
    <2> QED
      BY <1>2, <2>3, <2>4, Zenon
  <1>4. CASE ~(r.attempt # 0 /\ r.loop = "awaiting" /\ r.run.attempt = r.attempt)
    <2>1. StopActive(r) = r
      BY <1>4, Zenon DEF StopActive
    <2>2. r.loop = "awaiting" => ~MatchesActive(r, r.run)
      BY <1>4, Zenon DEF RoomInv, AwaitsRun, MatchesActive
    <2> QED
      BY <1>2, <2>1, <2>2, Zenon DEF RoomInv, StaleStopped
  <1> QED BY <1>3, <1>4

LEMMA PauseInv ==
  ASSUME NEW r, RoomInv(r), NEW reason \in PauseReasons, NEW aborted \in BOOLEAN
  PROVE  LET q == PauseRow(StopActive(r), reason, aborted)
         IN  RoomInv(q) /\ q.status = "paused"
  <1> DEFINE s == StopActive(r)
             q == PauseRow(s, reason, aborted)
  <1>1. /\ RowInv(s) /\ s.loop = r.loop /\ r.loop # "spinning"
        /\ AwaitsRun(s) /\ (s.loop = "awaiting" => s.run.stopped)
    BY StopActiveRow, StopActiveStops, Zenon DEF RoomInv
  <1> HIDE DEF s
  <1>2. Quiet(q) /\ q.loop = s.loop /\ q.run = s.run /\ q.status = "paused"
    BY <1>1, PauseRowQuiet, RowInterruptible
  <1> HIDE DEF q
  <1>3. RoomInv(q)
    BY <1>1, <1>2, QuietInv, Zenon DEF AwaitsRun
  <1> QED
    BY <1>2, <1>3 DEF q, s

LEMMA StopInv ==
  ASSUME NEW r, RoomInv(r)
  PROVE  LET q == StopRow(StopActive(r))
         IN  RoomInv(q) /\ q.status = "stopped"
  <1> DEFINE s == StopActive(r)
             q == StopRow(s)
  <1>1. /\ RowInv(s) /\ s.loop = r.loop /\ r.loop # "spinning"
        /\ AwaitsRun(s) /\ (s.loop = "awaiting" => s.run.stopped)
    BY StopActiveRow, StopActiveStops, Zenon DEF RoomInv
  <1> HIDE DEF s
  <1>2. Quiet(q) /\ q.loop = s.loop /\ q.run = s.run /\ q.status = "stopped"
    BY <1>1, StopRowQuiet
  <1> HIDE DEF q
  <1>3. RoomInv(q)
    BY <1>1, <1>2, QuietInv, Zenon DEF AwaitsRun
  <1> QED
    BY <1>2, <1>3 DEF q, s

\* A meeting before it is created.
LEMMA NoRoomQuiet == Quiet(NoRoom) /\ NoRoom.loop = "idle" /\ NoRoom.run = NoRun
  <1> DEFINE kinds == [t \in TurnIds |-> "none"]
             states == [t \in TurnIds |-> "pending"]
             sessions == [s \in Speakers |-> "empty"]
  <1>1. kinds \in [TurnIds -> Kinds] /\ states \in [TurnIds -> TurnStatuses]
        /\ sessions \in [Speakers -> Sessions]
    BY SMT DEF Kinds, TurnStatuses, Sessions
  <1>2. \A t \in TurnIds : kinds[t] # "user_supplement"
    BY SMT
  <1>3. NoRun \in Runs /\ << >> \in Seq(Attempts) /\ 0 \in 0 .. RoundsMax /\ 0 \in Nat
    BY RoundsAssumption, SMT DEF NoRun, Runs
  <1>4. "none" \in RoomStatuses /\ "none" \in PauseReasons
    BY DEF RoomStatuses, PauseReasons
  <1> HIDE DEF kinds, states, sessions
  <1>5. [status |-> "none", reason |-> "none", total |-> 0, epoch |-> 0,
         turn |-> NoTurn, attempt |-> 0, kind |-> kinds, state |-> states,
         attempts |-> << >>, session |-> sessions, loop |-> "idle", run |-> NoRun]
         \in RoomRecords
    BY <1>1, <1>3, <1>4, Zenon DEF RoomRecords
  <1>6. NoRoom = [status |-> "none", reason |-> "none", total |-> 0, epoch |-> 0,
         turn |-> NoTurn, attempt |-> 0, kind |-> kinds, state |-> states,
         attempts |-> << >>, session |-> sessions, loop |-> "idle", run |-> NoRun]
    BY Zenon DEF NoRoom, kinds, states, sessions
  <1> QED
    BY <1>2, <1>5, <1>6, Zenon DEF Quiet, SupplementsHeld

LEMMA DeleteInv ==
  ASSUME NEW r, RoomInv(r)
  PROVE  LET q == DeleteRows(StopActive(r))
         IN  RoomInv(q) /\ q.status = "deleted"
  <1> DEFINE s == StopActive(r)
             q == [NoRoom EXCEPT !.status = "deleted", !.epoch = s.epoch + 1,
                                 !.loop = s.loop, !.run = s.run]
  <1>1. /\ RowInv(s) /\ s.loop = r.loop /\ r.loop # "spinning"
        /\ AwaitsRun(s) /\ (s.loop = "awaiting" => s.run.stopped)
    BY StopActiveRow, StopActiveStops, Zenon DEF RoomInv
  <1> HIDE DEF s
  <1>2. /\ s.epoch + 1 \in Nat /\ s.loop \in {"idle", "awaiting", "spinning"}
        /\ s.run \in Runs /\ "deleted" \in RoomStatuses
    BY <1>1, FieldTyped, SMT DEF RowInv, RoomStatuses
  <1>3. Quiet(NoRoom) /\ NoRoom \in RoomRecords
    BY NoRoomQuiet DEF Quiet
  <1> HIDE DEF NoRoom
  <1>4. q \in RoomRecords
    BY <1>2, <1>3, FieldReplaced, Zenon
  <1>5. DeleteRows(StopActive(r)) = q
    BY Zenon DEF DeleteRows, s
  <1>6. /\ Quiet(q) /\ q.loop = s.loop /\ q.run = s.run /\ q.status = "deleted"
    BY <1>3, <1>4, SMT DEF Quiet, RoomRecords, SupplementsHeld
  <1> HIDE DEF q
  <1>7. RoomInv(q)
    BY <1>1, <1>6, QuietInv, Zenon DEF AwaitsRun
  <1> QED
    BY <1>5, <1>6, <1>7

-----------------------------------------------------------------------------
(* What runTurn writes after its await.                                    *)

\* A turn that is not a supplement is given another status.
LEMMA ResetTurnRow ==
  ASSUME NEW r, RowInv(r), r.attempt = 0, NEW t \in TurnIds, r.kind[t] # "user_supplement"
  PROVE  LET q == ResetTurnForRetry(r, t)
         IN  /\ RowInv(q) /\ q.attempt = 0 /\ q.status = r.status
             /\ q.loop = r.loop /\ q.run = r.run
  <1> DEFINE states == [r.state EXCEPT ![t] = "pending"]
             q == [r EXCEPT !.state = states]
  <1>1. r \in RoomRecords /\ "pending" \in TurnStatuses
        /\ r.state \in [TurnIds -> TurnStatuses]
    BY FieldTyped, Zenon DEF RowInv, TurnStatuses
  <1>2. states \in [TurnIds -> TurnStatuses]
    BY <1>1, TurnReplaced
  <1>3. \A u \in TurnIds \ {t} : states[u] = r.state[u]
    BY <1>1, SMT
  <1> HIDE DEF states
  <1>4. q \in RoomRecords
    BY <1>1, <1>2, FieldReplaced, Zenon
  <1>5. ResetTurnForRetry(r, t) = q
    BY Zenon DEF ResetTurnForRetry, states
  <1>6. /\ q.status = r.status /\ q.turn = r.turn /\ q.attempt = r.attempt
        /\ q.state = states /\ q.kind = r.kind /\ q.loop = r.loop /\ q.run = r.run
    BY <1>1, SMT DEF RoomRecords
  <1> HIDE DEF q
  <1>7. CurrentLive(q)
    BY <1>6, Zenon DEF RowInv, CurrentLive
  <1>8. SupplementsHeld(q)
    BY <1>3, <1>6, Zenon DEF RowInv, SupplementsHeld
  <1> QED
    BY <1>4, <1>5, <1>6, <1>7, <1>8, Zenon DEF RowInv

\* What a run that matches the room's current attempt can count on.
LEMMA MatchedRun ==
  ASSUME NEW r, RowInv(r), NEW x, x.attempt # 0, MatchesActive(r, x)
  PROVE  /\ r.status = "running" /\ x.attempt = r.attempt /\ x.turn = r.turn
         /\ x.attempt \in DOMAIN r.attempts /\ x.turn \in TurnIds
         /\ r.kind[x.turn] # "user_supplement"
  <1>1. r.status = "running" /\ x.attempt = r.attempt /\ x.turn = r.turn /\ r.attempt # 0
    BY Zenon DEF MatchesActive
  <1>2. x.attempt \in DOMAIN r.attempts /\ r.turn # NoTurn /\ r.state[r.turn] = "running"
    BY <1>1, Zenon DEF RowInv, CurrentLive
  <1>3. r.turn \in TurnIds
    BY <1>2, FieldTyped, Zenon DEF RowInv
  <1> QED
    BY <1>1, <1>2, <1>3, Zenon DEF RowInv, SupplementsHeld

\* A failed attempt: its turn is failed or skipped, the room points at nothing.
LEMMA FailAttemptQuiet ==
  ASSUME NEW r, RowInv(r), NEW x, x.attempt # 0, MatchesActive(r, x),
         NEW skipped \in BOOLEAN
  PROVE  LET q == FailAttempt(r, x, skipped)
         IN  /\ Quiet(q) /\ q.status = "running" /\ q.kind = r.kind
             /\ q.loop = r.loop /\ q.run = r.run
  <1> DEFINE new == [r.attempts[x.attempt] EXCEPT !.status = "failed"]
             grown == [r.attempts EXCEPT ![x.attempt] = new]
             verdict == IF skipped THEN "skipped" ELSE "failed"
             states == [r.state EXCEPT ![x.turn] = verdict]
             q == [r EXCEPT !.attempts = grown, !.state = states, !.turn = NoTurn, !.attempt = 0]
  <1>1. /\ r \in RoomRecords /\ r.status = "running" /\ x.attempt \in DOMAIN r.attempts
        /\ x.turn \in TurnIds /\ r.kind[x.turn] # "user_supplement"
        /\ r.state \in [TurnIds -> TurnStatuses]
    BY MatchedRun, FieldTyped DEF RowInv
  <1>2. new \in Attempts
    BY <1>1, AttemptTyped, AttemptClosed, Zenon DEF AttemptStatuses
  <1> HIDE DEF new
  <1>3. grown \in Seq(Attempts)
    BY <1>1, <1>2, AttemptReplaced
  <1>4. verdict \in TurnStatuses
    BY DEF TurnStatuses
  <1> HIDE DEF verdict
  <1>5. states \in [TurnIds -> TurnStatuses]
    BY <1>1, <1>4, TurnReplaced
  <1>6. \A u \in TurnIds \ {x.turn} : states[u] = r.state[u]
    BY <1>1, SMT
  <1>7. FailAttempt(r, x, skipped) = q
    BY Zenon DEF FailAttempt, new, verdict
  <1> HIDE DEF grown, states
  <1>8. q \in RoomRecords
    BY <1>1, <1>3, <1>5, FieldReplaced, Zenon
  <1>9. /\ q.status = r.status /\ q.turn = NoTurn /\ q.attempt = 0
        /\ q.state = states /\ q.kind = r.kind /\ q.loop = r.loop /\ q.run = r.run
    BY <1>1, SMT DEF RoomRecords
  <1> HIDE DEF q
  <1>10. SupplementsHeld(q)
    BY <1>1, <1>6, <1>9, Zenon DEF RowInv, SupplementsHeld
  <1> QED
    BY <1>1, <1>7, <1>8, <1>9, <1>10, Zenon DEF Quiet

\* An answer: the attempt and its turn are completed.
LEMMA CompleteAttemptQuiet ==
  ASSUME NEW r, RowInv(r), NEW x, x.attempt # 0, MatchesActive(r, x), NEW text \in Texts
  PROVE  LET q == CompleteAttempt(r, x, text)
         IN  /\ Quiet(q) /\ q.status = "running" /\ q.loop = r.loop /\ q.run = r.run
  <1> DEFINE new == [r.attempts[x.attempt] EXCEPT !.status = "completed", !.text = text]
             grown == [r.attempts EXCEPT ![x.attempt] = new]
             states == [r.state EXCEPT ![x.turn] = "completed"]
             q == [r EXCEPT !.attempts = grown, !.state = states, !.turn = NoTurn, !.attempt = 0]
  <1>1. /\ r \in RoomRecords /\ r.status = "running" /\ x.attempt \in DOMAIN r.attempts
        /\ x.turn \in TurnIds
        /\ r.state \in [TurnIds -> TurnStatuses] /\ r.attempts \in Seq(Attempts)
    BY MatchedRun, FieldTyped DEF RowInv
  <1>2. new \in Attempts
    BY <1>1, AttemptTyped, AttemptClosed, Zenon DEF AttemptStatuses
  <1>4. CompleteAttempt(r, x, text) = q
    BY Zenon DEF CompleteAttempt, new
  <1> HIDE DEF new
  <1>5. grown \in Seq(Attempts)
    BY <1>1, <1>2, AttemptReplaced
  <1>6. states \in [TurnIds -> TurnStatuses]
    BY <1>1, TurnReplaced, Zenon DEF TurnStatuses
  <1>7. \A u \in TurnIds : states[u] = IF u = x.turn THEN "completed" ELSE r.state[u]
    BY <1>1, SMT
  <1> HIDE DEF grown, states
  <1>8. q \in RoomRecords
    BY <1>1, <1>5, <1>6, FieldReplaced, Zenon
  <1>9. /\ q.status = r.status /\ q.turn = NoTurn /\ q.attempt = 0
        /\ q.state = states /\ q.kind = r.kind /\ q.loop = r.loop /\ q.run = r.run
    BY <1>1, SMT DEF RoomRecords
  <1> HIDE DEF q
  <1>10. SupplementsHeld(q)
    BY <1>7, <1>9, Zenon DEF RowInv, SupplementsHeld
  <1> QED
    BY <1>1, <1>4, <1>8, <1>9, <1>10, Zenon DEF Quiet

\* Streamed text goes to the attempt the room points at, and touches no status.
LEMMA StreamInv ==
  ASSUME NEW r, RoomInv(r), NEW a
  PROVE  LET q == AcceptStream(r, a)
         IN  RoomInv(q) /\ q.status = r.status
  <1> DEFINE said == IF a = r.run.attempt THEN "own" ELSE "other"
             c == r.attempt
             new == [r.attempts[c] EXCEPT !.text = said]
             grown == [r.attempts EXCEPT ![c] = new]
             q == [r EXCEPT !.attempts = grown]
  <1>1. RowInv(r) /\ r \in RoomRecords /\ r.attempts \in Seq(Attempts)
    BY FieldTyped DEF RoomInv, RowInv
  <1>2. CASE AcceptStream(r, a) = r
    BY <1>2
  <1>3. CASE AcceptStream(r, a) # r
    <2>1. r.loop = "awaiting" /\ r.run.attempt = a /\ MatchesActive(r, r.run)
          /\ AcceptStream(r, a) = [r EXCEPT !.attempts[r.run.attempt].text = said]
      BY <1>3, Zenon DEF AcceptStream, UpdateAttemptStream
    <2>2. /\ r.run.attempt = c /\ c \in DOMAIN r.attempts
      BY <1>1, <2>1, MatchedRun, Zenon DEF RoomInv, AwaitsRun
    <2>3. said \in Texts
      BY DEF Texts
    <2>4. AcceptStream(r, a) = q
      BY <2>1, <2>2, Zenon
    <2> HIDE DEF said
    <2>5. r.attempts[c] \in Attempts
      BY <1>1, <2>2, AttemptTyped
    <2>6. new \in Attempts /\ new.status = r.attempts[c].status
          /\ new.epoch = r.attempts[c].epoch /\ new.turn = r.attempts[c].turn
      BY <2>3, <2>5, Zenon DEF Attempts
    <2> HIDE DEF new
    <2>7. grown \in Seq(Attempts)
      BY <1>1, <2>2, <2>6, AttemptReplaced
    <2>8. DOMAIN grown = DOMAIN r.attempts /\ grown[c] = new
      BY <2>2, Zenon
    <2> HIDE DEF grown
    <2>9. q \in RoomRecords
      BY <1>1, <2>7, FieldReplaced, Zenon
    <2>10. /\ q.status = r.status /\ q.turn = r.turn /\ q.attempt = r.attempt
           /\ q.epoch = r.epoch /\ q.attempts = grown /\ q.state = r.state
           /\ q.kind = r.kind /\ q.loop = r.loop /\ q.run = r.run
      BY <1>1, SMT DEF RoomRecords
    <2> HIDE DEF q
    <2>11. CurrentLive(q)
      BY <1>1, <2>2, <2>6, <2>8, <2>10, Zenon DEF RowInv, CurrentLive
    <2>12. SupplementsHeld(q) /\ AwaitsRun(q) /\ StaleStopped(q) /\ q.loop # "spinning"
      BY <2>10, Zenon DEF RoomInv, RowInv, SupplementsHeld, AwaitsRun, StaleStopped, MatchesActive
    <2> QED
      BY <2>4, <2>9, <2>10, <2>11, <2>12, Zenon DEF RoomInv, RowInv
  <1> QED BY <1>2, <1>3

\* A message arrives in a speaker's session.
LEMMA SpokenRow ==
  ASSUME NEW r, RowInv(r), NEW s
  PROVE  LET q == [r EXCEPT !.session[s] = "answered"]
         IN  /\ RowInv(q) /\ q.status = r.status /\ q.loop = r.loop /\ q.run = r.run
             /\ q.turn = r.turn /\ q.attempt = r.attempt /\ q.epoch = r.epoch
             /\ q.attempts = r.attempts /\ q.kind = r.kind
             /\ q.state = r.state /\ q.total = r.total
             /\ q.session = [r.session EXCEPT ![s] = "answered"]
  <1> DEFINE sessions == [r.session EXCEPT ![s] = "answered"]
             q == [r EXCEPT !.session = sessions]
  <1>1. r \in RoomRecords /\ r.session \in [Speakers -> Sessions]
    BY FieldTyped DEF RowInv
  <1>2. sessions \in [Speakers -> Sessions]
    BY <1>1, SessionReplaced, Zenon DEF Sessions
  <1> HIDE DEF sessions
  <1>3. q \in RoomRecords
    BY <1>1, <1>2, FieldReplaced, Zenon
  <1>4. /\ q.status = r.status /\ q.turn = r.turn /\ q.attempt = r.attempt
        /\ q.epoch = r.epoch /\ q.attempts = r.attempts /\ q.state = r.state
        /\ q.kind = r.kind /\ q.loop = r.loop /\ q.run = r.run
        /\ q.total = r.total /\ q.session = sessions
    BY <1>1, SMT DEF RoomRecords
  <1>5. [r EXCEPT !.session[s] = "answered"] = q
    BY Zenon DEF sessions
  <1> HIDE DEF q
  <1> QED
    BY <1>3, <1>4, <1>5, Zenon DEF RowInv, CurrentLive, SupplementsHeld, sessions

\* A failure is retried, pauses the meeting or skips the turn.
LEMMA HandleTurnFailureRow ==
  ASSUME NEW r, RowInv(r), NEW x, x.attempt # 0, MatchesActive(r, x),
         NEW toolViolation \in BOOLEAN
  PROVE  RowInv(HandleTurnFailure(r, x, toolViolation))
  <1> DEFINE failedCount == Cardinality(FailedAttempts(r, x.turn)) + 1
             host == HostTurn(r, x.turn)
             retry == failedCount < 2 /\ (host => toolViolation)
             skipped == ~host /\ ~retry
             f == FailAttempt(r, x, skipped)
             q == HandleTurnFailure(r, x, toolViolation)
  <1>1. skipped \in BOOLEAN
    OBVIOUS
  <1>2. q = IF retry THEN ResetTurnForRetry(f, x.turn)
            ELSE IF host THEN PauseRow(f, "host_failure", FALSE)
            ELSE f
    BY Zenon DEF HandleTurnFailure
  <1> HIDE DEF q, skipped, retry, host
  <1>3. Quiet(f) /\ f.kind = r.kind
    BY <1>1, FailAttemptQuiet
  <1>4. x.turn \in TurnIds /\ r.kind[x.turn] # "user_supplement"
    BY MatchedRun
  <1> HIDE DEF f
  <1>5. RowInv(f) /\ f.attempt = 0
    BY <1>3, QuietRow DEF Quiet
  <1>6. RowInv(ResetTurnForRetry(f, x.turn))
    BY <1>3, <1>4, <1>5, ResetTurnRow
  <1>7. RowInv(PauseRow(f, "host_failure", FALSE))
    BY <1>5, PauseRowQuiet, RowInterruptible, QuietRow DEF PauseReasons
  <1> QED
    BY <1>2, <1>5, <1>6, <1>7, Zenon DEF q

\* The whole of runTurn after its await keeps the rows consistent.
LEMMA AfterRunRow ==
  ASSUME NEW r, RoomInv(r), r.loop = "awaiting", NEW outcome, NEW spoke \in BOOLEAN
  PROVE  LET q == AfterRun(r, outcome, spoke)
         IN  RowInv(q) /\ (q.status = "running" => r.status = "running")
  <1> DEFINE x == r.run
             heard == IF r.status = "deleted" \/ ~spoke THEN r
                      ELSE [r EXCEPT !.session[Speaker(r, x.turn)] = "answered"]
             content == FinalContent(r, x, spoke)
             tool == outcome = "tool"
             q == AfterRun(r, outcome, spoke)
  <1>1. RowInv(r) /\ x.attempt # 0
    BY DEF RoomInv, AwaitsRun
  <1>2. /\ RowInv(heard) /\ heard.status = r.status
        /\ heard.turn = r.turn /\ heard.attempt = r.attempt /\ heard.epoch = r.epoch
    BY <1>1, SpokenRow, Zenon
  <1>3. q = IF ~MatchesActive(r, x) THEN heard
            ELSE IF outcome # "resolved" \/ content = "none"
            THEN HandleTurnFailure(heard, x, tool)
            ELSE CompleteAttempt(heard, x, content)
    BY Zenon DEF AfterRun
  <1>4. MatchesActive(r, x) => content \in Texts
    <2> SUFFICES ASSUME MatchesActive(r, x)
                 PROVE  content \in Texts
      OBVIOUS
    <2>1. r \in RoomRecords /\ x.attempt \in DOMAIN r.attempts
      BY <1>1, MatchedRun DEF RowInv
    <2>2. r.attempts[x.attempt].text \in Texts
      BY <2>1, AttemptTyped, Zenon DEF Attempts
    <2>3. "own" \in Texts /\ "other" \in Texts
      BY DEF Texts
    <2> QED
      BY <2>2, <2>3, Zenon DEF FinalContent
  <1>5. tool \in BOOLEAN
    OBVIOUS
  <1> HIDE DEF q, heard, content, x, tool
  <1>6. MatchesActive(r, x) => MatchesActive(heard, x) /\ r.status = "running"
    BY <1>2, Zenon DEF MatchesActive
  <1>7. MatchesActive(r, x) => RowInv(HandleTurnFailure(heard, x, tool))
    BY <1>1, <1>2, <1>5, <1>6, HandleTurnFailureRow
  <1>8. MatchesActive(r, x) => RowInv(CompleteAttempt(heard, x, content))
    BY <1>1, <1>2, <1>4, <1>6, CompleteAttemptQuiet, QuietRow
  <1>9. RowInv(q) /\ (q.status = "running" => r.status = "running")
    BY <1>2, <1>3, <1>6, <1>7, <1>8, Zenon
  <1> QED
    BY <1>9 DEF q

-----------------------------------------------------------------------------
(* The loop, from its top to its return or its next await.                 *)

\* The step ends with a consistent room m, which runs only if r did.
Keeps(m, r) ==
  \E q : RoomInv(q) /\ (q.status = "running" => r.status = "running") /\ Set(m, q)

LEMMA RunMeetingKeeps ==
  ASSUME NEW m \in Rooms, NEW r, RowInv(r), RunMeeting(m, r)
  PROVE  Keeps(m, r)
  <1>1. CASE r.status # "running" /\ Set(m, Leave(r))
    BY <1>1, LeaveInv, Zenon DEF Keeps
  <1>2. CASE /\ r.status = "running"
             /\ Set(m, Leave(PauseRow(StopActive(r),
                                      IF ~authorized THEN "authorization_lost"
                                                     ELSE "runtime_unavailable", FALSE)))
    <2> DEFINE reason == IF ~authorized THEN "authorization_lost" ELSE "runtime_unavailable"
               q == PauseRow(StopActive(r), reason, FALSE)
    <2>1. reason \in PauseReasons
      BY DEF PauseReasons
    <2> HIDE DEF reason
    <2>2. Quiet(q)
      BY <2>1, StopActiveRow, RowInterruptible, PauseRowQuiet
    <2> HIDE DEF q
    <2>3. RoomInv(Leave(q))
      BY <2>2, QuietRow, LeaveInv
    <2> QED
      BY <1>2, <2>3, Zenon DEF Keeps, q, reason
  <1>3. CASE r.status = "running" /\ Set(m, Leave(MarkCompleted(r)))
    <2>1. RoomInv(Leave(MarkCompleted(r)))
      BY MarkCompletedQuiet, QuietRow, LeaveInv
    <2> QED
      BY <1>3, <2>1, Zenon DEF Keeps
  <1>4. ASSUME r.status = "running", NEW t \in Open(r),
               Set(m, IF r.kind[t] = "user_supplement" THEN Spin(r, t) ELSE AwaitRun(r, t))
        PROVE  Keeps(m, r)
    <2>1. r.kind[t] # "user_supplement"
      BY Zenon DEF RowInv, SupplementsHeld, Open, Inserted, Concluded
    <2> QED
      BY <1>4, <2>1, AwaitRunInv, Zenon DEF Keeps
  <1>5. ASSUME r.status = "running", NEW t \in Open(r), Set(m, Leave(BeginAttempt(r, t)))
        PROVE  Keeps(m, r)
    <2>1. RoomInv(Leave(BeginAttempt(r, t)))
      BY <1>5, BeginAttemptLive, LeaveInv
    <2> QED
      BY <1>5, <2>1, Zenon DEF Keeps
  <1> QED
    BY <1>1, <1>2, <1>3, <1>4, <1>5, Zenon DEF RunMeeting

LEMMA ScheduleKeeps ==
  ASSUME NEW m \in Rooms, NEW r, RoomInv(r), Schedule(m, r)
  PROVE  Keeps(m, r)
  <1>1. CASE RunMeeting(m, r)
    BY <1>1, RunMeetingKeeps DEF RoomInv
  <1>2. CASE Set(m, r)
    BY <1>2, Zenon DEF Keeps
  <1> QED
    BY <1>1, <1>2, Zenon DEF Schedule

\* A room set running while a loop still awaits an older run: that run was
\* told to stop when the room ceased to run.
LEMMA SetRunningInv ==
  ASSUME NEW r, RoomInv(r), r.status # "running",
         NEW q, Quiet(q), q.loop = r.loop, q.run = r.run
  PROVE  RoomInv(q)
  <1>1. AwaitsRun(q) /\ q.loop # "spinning"
    BY Zenon DEF RoomInv, AwaitsRun
  <1>2. q.loop = "awaiting" => q.run.stopped
    BY Zenon DEF RoomInv, StaleStopped, MatchesActive
  <1> QED
    BY <1>1, <1>2, QuietInv
-----------------------------------------------------------------------------
(* Steps of one room.                                                      *)

\* When a step may leave room m running: it ran, or no other did on an engine
\* that is up.
MayRun(m) == rooms[m].status = "running" \/ (NoOtherRunning(m) /\ available)

\* The step sets room m.
RoomStep(m) ==
  \E q : RoomInv(q) /\ Set(m, q) /\ (q.status = "running" => MayRun(m))

LEMMA KeepsStep ==
  ASSUME NEW m \in Rooms, NEW r, Keeps(m, r),
         r.status = "running" => MayRun(m)
  PROVE  RoomStep(m)
  BY Zenon DEF Keeps, RoomStep

LEMMA CommandStep ==
  ASSUME RoomsInv, NEW m \in Rooms, Command(m)
  PROVE  RoomStep(m)
  <1> DEFINE r == rooms[m]
  <1>1. RoomInv(r) /\ RowInv(r)
    BY DEF RoomsInv, RoomInv
  <1>2. CASE Create(m)
    <2>1. PICK total \in 1 .. RoundsMax : Set(m, CreateDraft(total))
      BY <1>2, Zenon DEF Create
    <2> DEFINE q == [NoRoom EXCEPT !.status = "draft", !.total = total]
    <2>2. Quiet(NoRoom) /\ NoRoom \in RoomRecords /\ NoRoom.loop = "idle"
      BY NoRoomQuiet DEF Quiet
    <2>3. total \in 0 .. RoundsMax /\ "draft" \in RoomStatuses
      BY RoundsAssumption, SMT DEF RoomStatuses
    <2> HIDE DEF NoRoom
    <2>4. q \in RoomRecords
      BY <2>2, <2>3, FieldReplaced, Zenon
    <2>5. Quiet(q) /\ q.loop = "idle" /\ q.status = "draft"
      BY <2>2, <2>4, SMT DEF Quiet, RoomRecords, SupplementsHeld
    <2> HIDE DEF q
    <2>6. RoomInv(q)
      BY <2>5, QuietInv, Zenon DEF AwaitsRun
    <2>7. Set(m, q)
      BY <2>1, Zenon DEF CreateDraft, q
    <2> QED
      BY <2>5, <2>6, <2>7, Zenon DEF RoomStep
  <1>3. ASSUME NEW q, Quiet(q), q.loop = r.loop, q.run = r.run, r.status # "running",
               available, MaySetRunning(m), Schedule(m, q)
        PROVE  RoomStep(m)
    <2>1. RoomInv(q)
      BY <1>1, <1>3, SetRunningInv
    <2> QED
      BY <1>3, <2>1, ScheduleKeeps, KeepsStep DEF MaySetRunning, MayRun
  <1>4. ASSUME r.status = "running", Schedule(m, r)
        PROVE  RoomStep(m)
    BY <1>1, <1>4, ScheduleKeeps, KeepsStep DEF MayRun
  <1>5. CASE Start(m)
    <2>1. CASE r.status = "running" /\ Schedule(m, r)
      BY <1>4, <2>1
    <2>2. CASE r.status = "draft" /\ available /\ MaySetRunning(m) /\ Schedule(m, FreezeForStart(r))
      BY <1>1, <1>3, <2>2, FreezeForStartQuiet
    <2> QED
      BY <1>5, <2>1, <2>2, Zenon DEF Start
  <1>6. CASE Pause(m)
    <2>1. LET q == PauseRow(StopActive(r), "user", TRUE)
          IN  RoomInv(q) /\ q.status = "paused" /\ Set(m, q)
      BY <1>1, <1>6, PauseInv DEF Pause, PauseReasons
    <2> QED
      BY <2>1, Zenon DEF RoomStep
  <1>7. CASE Resume(m)
    <2>1. CASE r.status = "running" /\ Schedule(m, r)
      BY <1>4, <2>1
    <2>2. CASE r.status = "paused" /\ available /\ MaySetRunning(m) /\ Schedule(m, ResumeRow(r))
      BY <1>1, <1>3, <2>2, ResumeRowQuiet
    <2> QED
      BY <1>7, <2>1, <2>2, Zenon DEF Resume
  <1>8. CASE RetryHost(m)
    <2>1. PICK t \in Inserted(r) :
            /\ HostTurn(r, t)
            /\ \/ MaySetRunning(m) /\ Schedule(m, ResumeRow(ResetTurnForRetry(r, t)))
               \/ Set(m, ResetTurnForRetry(r, t))
      BY <1>8, Zenon DEF RetryHost
    <2> DEFINE f == ResetTurnForRetry(r, t)
    <2>2. t \in TurnIds /\ r.kind[t] # "user_supplement" /\ r.status = "paused"
          /\ r.attempt = 0 /\ available
      BY <1>1, <1>8, <2>1, SMT DEF Inserted, HostTurn, RetryHost, RowInv, CurrentLive
    <2>3. /\ RowInv(f) /\ f.attempt = 0 /\ f.status = "paused"
          /\ f.loop = r.loop /\ f.run = r.run
      BY <1>1, <2>2, ResetTurnRow
    <2> HIDE DEF f
    <2>4. CASE MaySetRunning(m) /\ Schedule(m, ResumeRow(f))
      BY <1>3, <2>2, <2>3, <2>4, ResumeRowQuiet
    <2>5. CASE Set(m, f)
      <3>1. Quiet(f)
        BY <2>3, Zenon DEF RowInv, CurrentLive, Quiet
      <3>2. RoomInv(f)
        BY <1>1, <2>2, <2>3, <3>1, SetRunningInv
      <3> QED
        BY <2>3, <2>5, <3>2, Zenon DEF RoomStep
    <2> QED
      BY <2>1, <2>4, <2>5 DEF f
  <1>9. CASE Stop(m)
    <2>1. LET q == StopRow(StopActive(r))
          IN  RoomInv(q) /\ q.status = "stopped" /\ Set(m, q)
      BY <1>1, <1>9, StopInv DEF Stop
    <2> QED
      BY <2>1, Zenon DEF RoomStep
  <1>10. CASE AppendRound(m)
    <2>1. /\ r.status = "completed" /\ r.total < RoundsMax /\ available /\ MaySetRunning(m)
          /\ Schedule(m, AppendRoundRows(r))
      BY <1>10, Zenon DEF AppendRound
    <2> QED
      BY <1>1, <1>3, <2>1, AppendRoundRowsQuiet
  <1>11. CASE Delete(m)
    <2>1. LET q == DeleteRows(StopActive(r))
          IN  RoomInv(q) /\ q.status = "deleted" /\ Set(m, q)
      BY <1>1, <1>11, DeleteInv DEF Delete
    <2> QED
      BY <2>1, Zenon DEF RoomStep
  <1> QED
    BY <1>2, <1>5, <1>6, <1>7, <1>8, <1>9, <1>10, <1>11, Zenon DEF Command

\* The run settles or its time is up: the loop goes round.
LEMMA RunReturnsStep ==
  ASSUME RoomsInv, NEW m \in Rooms, rooms[m].loop = "awaiting",
         NEW outcome, NEW spoke \in BOOLEAN, RunReturns(m, outcome, spoke)
  PROVE  RoomStep(m)
  <1> DEFINE q == AfterRun(rooms[m], outcome, spoke)
  <1>1. RowInv(q) /\ (q.status = "running" => rooms[m].status = "running")
    BY AfterRunRow DEF RoomsInv
  <1>2. RunMeeting(m, q)
    BY DEF RunReturns
  <1> HIDE DEF q
  <1> QED
    BY <1>1, <1>2, RunMeetingKeeps, KeepsStep DEF MayRun

LEMMA PauseRunningStep ==
  ASSUME RoomsInv, NEW reason \in PauseReasons, PauseRunning(reason)
  PROVE  UNCHANGED rooms \/ \E m \in Rooms : RoomStep(m)
  <1>1. ASSUME NEW m \in Rooms, Set(m, PauseRow(StopActive(rooms[m]), reason, FALSE))
        PROVE  RoomStep(m)
    <2>1. LET q == PauseRow(StopActive(rooms[m]), reason, FALSE)
          IN  RoomInv(q) /\ q.status = "paused"
      BY PauseInv DEF RoomsInv
    <2> QED
      BY <1>1, <2>1, Zenon DEF RoomStep
  <1> QED
    BY <1>1, Zenon DEF PauseRunning
-----------------------------------------------------------------------------
(* A new process finds the rows of the old one, and no loop.               *)

LEMMA RestartRowInv ==
  ASSUME NEW r, Interruptible(r), r.status # "running" => CurrentLive(r)
  PROVE  LET q == RestartRow(r)
         IN  RoomInv(q) /\ q.status # "running"
  <1> DEFINE row == [r EXCEPT !.loop = "idle", !.run = NoRun]
  <1>1. r \in RoomRecords /\ NoRun \in Runs
    BY SMT DEF Interruptible, NoRun, Runs
  <1>2. row \in RoomRecords
    BY <1>1, FieldReplaced, Zenon
  <1>3. /\ row.status = r.status /\ row.turn = r.turn /\ row.attempt = r.attempt
        /\ row.epoch = r.epoch /\ row.attempts = r.attempts /\ row.state = r.state
        /\ row.kind = r.kind /\ row.loop = "idle"
    BY <1>1, SMT DEF RoomRecords
  <1>4. RestartRow(r) = IF r.status = "running" THEN PauseRow(row, "app_restart", FALSE) ELSE row
    BY Zenon DEF RestartRow
  <1> HIDE DEF row
  <1>5. Interruptible(row)
    BY <1>2, <1>3, Zenon DEF Interruptible, SupplementsHeld
  <1>6. CASE r.status = "running"
    <2> DEFINE q == PauseRow(row, "app_restart", FALSE)
    <2>1. Quiet(q) /\ q.loop = "idle" /\ q.status = "paused"
      BY <1>3, <1>5, PauseRowQuiet DEF PauseReasons
    <2> HIDE DEF q
    <2>2. RoomInv(q)
      BY <2>1, QuietInv, Zenon DEF AwaitsRun
    <2> QED
      BY <1>4, <1>6, <2>1, <2>2 DEF q
  <1>7. CASE r.status # "running"
    <2>1. CurrentLive(row) /\ SupplementsHeld(row)
      BY <1>3, <1>5, <1>7, Zenon DEF CurrentLive, Interruptible
    <2> QED
      BY <1>2, <1>3, <1>4, <1>7, <2>1, Zenon DEF RoomInv, RowInv, AwaitsRun, StaleStopped
  <1> QED BY <1>6, <1>7

\* What a delete that is cut short leaves of a room.
LEMMA TornInterruptible ==
  ASSUME NEW r, RowInv(r), NEW sessions \in [Speakers -> Sessions]
  PROVE  LET q == [r EXCEPT !.epoch = r.epoch + 1, !.session = sessions]
         IN  Interruptible(q) /\ (q.status # "running" => CurrentLive(q))
  <1> DEFINE q == [r EXCEPT !.epoch = r.epoch + 1, !.session = sessions]
  <1>1. r \in RoomRecords /\ r.epoch + 1 \in Nat
    BY FieldTyped, SMT DEF RowInv
  <1>2. q \in RoomRecords
    BY <1>1, FieldReplaced, Zenon
  <1>3. /\ q.status = r.status /\ q.turn = r.turn /\ q.attempt = r.attempt
        /\ q.attempts = r.attempts /\ q.state = r.state /\ q.kind = r.kind
    BY <1>1, SMT DEF RoomRecords
  <1> HIDE DEF q
  <1>4. Interruptible(r)
    BY RowInterruptible
  <1>5. Interruptible(q)
    BY <1>2, <1>3, <1>4, Zenon DEF Interruptible, SupplementsHeld
  <1>6. q.status # "running" => CurrentLive(q)
    BY <1>3, Zenon DEF RowInv, CurrentLive
  <1> QED
    BY <1>5, <1>6 DEF q

\* Every room is consistent afterwards and none is running.
AllAtRest == /\ rooms' \in [Rooms -> RoomRecords]
             /\ \A m \in Rooms : RoomInv(rooms'[m]) /\ rooms'[m].status # "running"

LEMMA RestartAtRest ==
  ASSUME RoomsInv, Restart
  PROVE  AllAtRest
  <1>1. \A m \in Rooms : RoomInv(RestartRow(rooms[m])) /\ RestartRow(rooms[m]).status # "running"
    BY RowInterruptible, RestartRowInv, Zenon DEF RoomsInv, RoomInv, RowInv
  <1>2. rooms' = [m \in Rooms |-> RestartRow(rooms[m])]
    BY DEF Restart
  <1>3. \A m \in Rooms : RestartRow(rooms[m]) \in RoomRecords
    BY <1>1 DEF RoomInv, RowInv
  <1> HIDE DEF RoomInv, RoomRecords
  <1> QED
    BY <1>1, <1>2, <1>3, Zenon DEF AllAtRest

LEMMA TornDeleteAtRest ==
  ASSUME RoomsInv, TornDelete
  PROVE  AllAtRest
  <1>1. PICK m \in Rooms, last \in Speakers :
          LET torn == [rooms[m] EXCEPT
                         !.epoch = @ + 1,
                         !.session = [s \in Speakers |-> IF s <= last THEN "gone" ELSE @[s]]]
          IN  rooms' = [n \in Rooms |-> RestartRow(IF n = m THEN torn ELSE rooms[n])]
    BY Zenon DEF TornDelete
  <1> DEFINE r == rooms[m]
             sessions == [s \in Speakers |-> IF s <= last THEN "gone" ELSE r.session[s]]
             torn == [r EXCEPT !.epoch = r.epoch + 1, !.session = sessions]
             before(n) == IF n = m THEN torn ELSE rooms[n]
  <1>2. \A n \in Rooms : RowInv(rooms[n])
    BY DEF RoomsInv, RoomInv
  <1>3. sessions \in [Speakers -> Sessions]
    <2>1. r.session \in [Speakers -> Sessions]
      BY <1>2, FieldTyped DEF RowInv
    <2> HIDE DEF r
    <2> QED
      BY <2>1, Zenon DEF Sessions
  <1>4. rooms' = [n \in Rooms |-> RestartRow(before(n))]
    BY <1>1, Zenon
  <1> HIDE DEF sessions
  <1>5. Interruptible(torn) /\ (torn.status # "running" => CurrentLive(torn))
    BY <1>2, <1>3, TornInterruptible
  <1> HIDE DEF torn
  <1>6. \A n \in Rooms : /\ Interruptible(before(n))
                         /\ before(n).status # "running" => CurrentLive(before(n))
    BY <1>2, <1>5, RowInterruptible, Zenon DEF RowInv
  <1> HIDE DEF before
  <1>7. \A n \in Rooms : RoomInv(RestartRow(before(n))) /\ RestartRow(before(n)).status # "running"
    BY <1>6, RestartRowInv
  <1>8. \A n \in Rooms : RestartRow(before(n)) \in RoomRecords
    BY <1>7, Zenon DEF RoomInv, RowInv
  <1> QED
    BY <1>4, <1>7, <1>8, Zenon DEF AllAtRest
-----------------------------------------------------------------------------
(* The invariant and what follows from it.                                 *)

\* What a step does to the rooms.
RoomsStep == \/ UNCHANGED rooms
             \/ \E m \in Rooms : RoomStep(m)
             \/ AllAtRest

LEMMA NextStep ==
  ASSUME RoomsInv, Next
  PROVE  /\ RoomsStep
         /\ authorized' \in BOOLEAN /\ available' \in BOOLEAN /\ runtime' \in Runtimes
  <1> USE DEF RoomsStep
  <1>1. authorized \in BOOLEAN /\ available \in BOOLEAN /\ runtime \in Runtimes
    BY DEF RoomsInv
  <1>2. CASE \E m \in Rooms : Command(m)
    <2>1. \E m \in Rooms : RoomStep(m)
      BY <1>2, CommandStep
    <2>2. UNCHANGED <<authorized, available, runtime>>
      BY <1>2, Zenon DEF Command, Create, Start, Pause, Resume, RetryHost, Stop, AppendRound, Delete
    <2> QED BY <1>1, <2>1, <2>2
  <1>3. CASE \E m \in Rooms : Settle(m) \/ Timeout(m)
    <2>1. PICK m \in Rooms : Settle(m) \/ Timeout(m)
      BY <1>3
    <2>2. /\ rooms[m].loop = "awaiting" /\ UNCHANGED <<authorized, available, runtime>>
          /\ \E outcome : \E spoke \in BOOLEAN : RunReturns(m, outcome, spoke)
      BY <2>1, Zenon DEF Settle, Timeout
    <2> QED BY <1>1, <2>2, RunReturnsStep
  <1>4. CASE \E m \in Rooms : \E a \in DOMAIN rooms[m].attempts : MeetingRunStream(m, a)
    <2>1. PICK m \in Rooms : \E a \in DOMAIN rooms[m].attempts : MeetingRunStream(m, a)
      BY <1>4
    <2>2. PICK a : Set(m, AcceptStream(rooms[m], a)) /\ UNCHANGED <<authorized, available, runtime>>
      BY <2>1 DEF MeetingRunStream
    <2>3. LET q == AcceptStream(rooms[m], a)
          IN  RoomInv(q) /\ q.status = rooms[m].status
      BY StreamInv DEF RoomsInv
    <2>4. RoomStep(m)
      BY <2>2, <2>3, Zenon DEF RoomStep, MayRun
    <2> QED BY <1>1, <2>2, <2>4
  <1>5. CASE LoseAuthorization
    <2>1. authorized' \in BOOLEAN /\ available' \in BOOLEAN /\ runtime' \in Runtimes
      BY <1>1, <1>5, Zenon DEF LoseAuthorization, Runtimes
    <2>2. UNCHANGED rooms \/ PauseRunning("authorization_lost")
      BY <1>5, Zenon DEF LoseAuthorization
    <2> QED BY <2>1, <2>2, PauseRunningStep DEF PauseReasons
  <1>6. CASE RegainAuthorization
    BY <1>1, <1>6 DEF RegainAuthorization
  <1>7. CASE RuntimeStarted
    BY <1>1, <1>7 DEF RuntimeStarted, Runtimes
  <1>8. CASE RuntimeDown
    BY <1>1, <1>8, PauseRunningStep DEF RuntimeDown, PauseReasons
  <1>9. CASE RuntimeUp
    BY <1>1, <1>9 DEF RuntimeUp
  <1>10. CASE Restart \/ TornDelete
    <2>1. AllAtRest
      BY <1>10, RestartAtRest, TornDeleteAtRest
    <2>2. NewProcess
      BY <1>10, Zenon DEF Restart, TornDelete
    <2>3. authorized' \in BOOLEAN /\ available' \in BOOLEAN /\ runtime' \in Runtimes
      BY <2>2, Zenon DEF NewProcess, Runtimes
    <2> QED BY <2>1, <2>3
  <1> QED
    BY <1>2, <1>3, <1>4, <1>5, <1>6, <1>7, <1>8, <1>9, <1>10, Zenon DEF Next

LEMMA RoomStepNext ==
  ASSUME RoomsInv, NEW m \in Rooms, RoomStep(m)
  PROVE  /\ rooms' \in [Rooms -> RoomRecords]
         /\ \A n \in Rooms : RoomInv(rooms'[n])
         /\ \A n \in Rooms \ {m} : rooms'[n] = rooms[n]
         /\ rooms'[m].status = "running" => MayRun(m)
  <1>1. PICK q : /\ RoomInv(q) /\ rooms' = [rooms EXCEPT ![m] = q]
                 /\ q.status = "running" => MayRun(m)
    BY Zenon DEF RoomStep, Set
  <1>2. q \in RoomRecords /\ rooms \in [Rooms -> RoomRecords]
    BY <1>1 DEF RoomInv, RowInv, RoomsInv
  <1>3. rooms' \in [Rooms -> RoomRecords]
    BY <1>1, <1>2, Zenon
  <1>4. rooms'[m] = q /\ \A n \in Rooms \ {m} : rooms'[n] = rooms[n]
    BY <1>1, <1>2, Zenon
  <1> QED
    BY <1>1, <1>3, <1>4, Zenon DEF RoomsInv

LEMMA RoomsInvInit == Init => RoomsInv
  <1> SUFFICES ASSUME Init PROVE RoomsInv
    OBVIOUS
  <1>1. Quiet(NoRoom) /\ NoRoom \in RoomRecords /\ NoRoom.loop = "idle"
    BY NoRoomQuiet DEF Quiet
  <1> HIDE DEF NoRoom
  <1>2. RoomInv(NoRoom)
    BY <1>1, QuietInv, Zenon DEF AwaitsRun
  <1>3. rooms = [m \in Rooms |-> NoRoom]
    BY DEF Init
  <1>4. rooms \in [Rooms -> RoomRecords] /\ \A m \in Rooms : RoomInv(rooms[m])
    BY <1>1, <1>2, <1>3, Zenon
  <1>5. authorized \in BOOLEAN /\ available \in BOOLEAN /\ runtime \in Runtimes
    BY Zenon DEF Init, Runtimes
  <1> QED BY <1>4, <1>5 DEF RoomsInv

LEMMA RoomsInvNext == RoomsInv /\ [Next]_vars => RoomsInv'
  <1> SUFFICES ASSUME RoomsInv, [Next]_vars PROVE RoomsInv'
    OBVIOUS
  <1>1. CASE UNCHANGED vars
    BY <1>1 DEF vars, RoomsInv, RoomInv, RowInv, CurrentLive, SupplementsHeld, AwaitsRun,
                StaleStopped, MatchesActive
  <1>2. CASE Next
    <2>1. /\ RoomsStep
          /\ authorized' \in BOOLEAN /\ available' \in BOOLEAN /\ runtime' \in Runtimes
      BY <1>2, NextStep
    <2>2. /\ rooms' \in [Rooms -> RoomRecords]
          /\ \A n \in Rooms : RoomInv(rooms'[n])
      BY <2>1, RoomStepNext, Zenon DEF RoomsStep, AllAtRest, RoomsInv
    <2> QED BY <2>1, <2>2 DEF RoomsInv
  <1> QED BY <1>1, <1>2

\* The inductive invariant holds in every reachable state.
THEOREM RoomsInvariant == Spec => []RoomsInv
  <1> QED BY RoomsInvInit, RoomsInvNext, PTL DEF Spec

\* The rows always have their types: no transaction, whatever run, timer,
\* event or restart it follows, writes a value outside the schema.
THEOREM TypeCorrect == Spec => []TypeOK
  <1>1. RoomsInv => TypeOK
    BY DEF RoomsInv, TypeOK
  <1> QED BY <1>1, RoomsInvariant, PTL

\* A room that points at an attempt points at a live one.
THEOREM CurrentIsLive == Spec => []CurrentAttemptLive
  <1>1. RoomsInv => CurrentAttemptLive
    BY DEF RoomsInv, RoomInv, RowInv, CurrentAttemptLive
  <1> QED BY <1>1, RoomsInvariant, PTL

\* A run the room no longer waits for has been told to stop.
THEOREM StaleIsStopped == Spec => []StaleRunStopped
  <1>1. RoomsInv => StaleRunStopped
    BY DEF RoomsInv, RoomInv, StaleRunStopped
  <1> QED BY <1>1, RoomsInvariant, PTL

\* The loop always reaches an await: the supplements are held.
THEOREM LoopAwaits == Spec => []NeverSpins
  <1>1. RoomsInv => NeverSpins
    BY DEF RoomsInv, RoomInv, NeverSpins
  <1> QED BY <1>1, RoomsInvariant, PTL

\* Two meetings never run at once, however many rooms there are.
THEOREM OneRuns == Spec => []SingleRunningMeeting
  <1>1. Init => SingleRunningMeeting
    <2>1. NoRoom.status = "none"
      BY DEF NoRoom
    <2> HIDE DEF NoRoom
    <2> QED BY <2>1 DEF Init, SingleRunningMeeting
  <1>2. RoomsInv /\ SingleRunningMeeting /\ [Next]_vars => SingleRunningMeeting'
    <2> SUFFICES ASSUME RoomsInv, SingleRunningMeeting, [Next]_vars
                 PROVE  SingleRunningMeeting'
      OBVIOUS
    <2>1. CASE UNCHANGED rooms
      BY <2>1 DEF SingleRunningMeeting
    <2>2. ASSUME NEW m \in Rooms, RoomStep(m)
          PROVE  SingleRunningMeeting'
      BY <2>2, RoomStepNext DEF SingleRunningMeeting, MayRun, NoOtherRunning
    <2>3. CASE AllAtRest
      BY <2>3, Zenon DEF AllAtRest, SingleRunningMeeting
    <2>4. UNCHANGED rooms \/ RoomsStep
      BY NextStep DEF vars
    <2> QED BY <2>1, <2>2, <2>3, <2>4, Zenon DEF RoomsStep
  <1> QED BY <1>1, <1>2, RoomsInvariant, PTL DEF Spec

\* The failure of the engine pauses the meeting that runs, and there is but one.
LEMMA DownPausesAll ==
  ASSUME RoomsInv, SingleRunningMeeting, NEW reason \in PauseReasons, PauseRunning(reason)
  PROVE  \A n \in Rooms : rooms'[n].status # "running"
  <1>1. CASE UNCHANGED rooms /\ \A m \in Rooms : rooms[m].status # "running"
    BY <1>1
  <1>2. ASSUME NEW m \in Rooms, rooms[m].status = "running",
               Set(m, PauseRow(StopActive(rooms[m]), reason, FALSE))
        PROVE  \A n \in Rooms : rooms'[n].status # "running"
    <2> DEFINE q == PauseRow(StopActive(rooms[m]), reason, FALSE)
    <2>1. q.status = "paused"
      BY PauseInv DEF RoomsInv
    <2>2. rooms' = [rooms EXCEPT ![m] = q] /\ rooms \in [Rooms -> RoomRecords]
      BY <1>2 DEF Set, RoomsInv
    <2> HIDE DEF q, RoomRecords
    <2>3. rooms'[m] = q /\ \A n \in Rooms \ {m} : rooms'[n] = rooms[n]
      BY <2>2, Zenon
    <2> QED
      BY <1>2, <2>1, <2>3, Zenon DEF SingleRunningMeeting
  <1> QED
    BY <1>1, <1>2, Zenon DEF PauseRunning

\* No meeting runs on an engine that is down.
THEOREM ServedRuns == Spec => []RunningIsServed
  <1>1. Init => RunningIsServed
    <2>1. NoRoom.status = "none"
      BY DEF NoRoom
    <2> HIDE DEF NoRoom
    <2> QED BY <2>1 DEF Init, RunningIsServed
  <1>2. RoomsInv /\ SingleRunningMeeting /\ RunningIsServed /\ [Next]_vars => RunningIsServed'
    <2> SUFFICES ASSUME RoomsInv, SingleRunningMeeting, RunningIsServed, [Next]_vars
                 PROVE  RunningIsServed'
      OBVIOUS
    <2>1. CASE available' = available \/ available'
      <3>1. CASE UNCHANGED rooms
        BY <2>1, <3>1 DEF RunningIsServed
      <3>2. ASSUME NEW m \in Rooms, RoomStep(m)
            PROVE  RunningIsServed'
        BY <2>1, <3>2, RoomStepNext DEF RunningIsServed, MayRun
      <3>3. CASE AllAtRest
        BY <3>3, Zenon DEF AllAtRest, RunningIsServed
      <3>4. UNCHANGED rooms \/ RoomsStep
        BY NextStep DEF vars
      <3> QED BY <3>1, <3>2, <3>3, <3>4, Zenon DEF RoomsStep
    <2>2. CASE RuntimeDown
      BY <2>2, DownPausesAll, Zenon DEF RuntimeDown, RunningIsServed, PauseReasons
    <2>3. CASE Restart \/ TornDelete
      BY <2>3, RestartAtRest, TornDeleteAtRest, Zenon DEF AllAtRest, RunningIsServed
    <2>4. \/ available' = available \/ available'
          \/ RuntimeDown \/ Restart \/ TornDelete
      BY Zenon DEF Next, vars, Command, Create, Start, Pause, Resume, RetryHost, Stop,
         AppendRound, Delete, Settle, Timeout, MeetingRunStream, LoseAuthorization,
         RegainAuthorization, RuntimeStarted, RuntimeUp
    <2> QED BY <2>1, <2>2, <2>3, <2>4
  <1> QED BY <1>1, <1>2, RoomsInvariant, OneRuns, PTL DEF Spec
=============================================================================
