-------------------- MODULE MeetingRoomDiscussionProofs --------------------
(***************************************************************************)
(* The rooms implement the discussion, for any rooms, participants, rounds *)
(* and kinds of event: every step of MeetingRoom is a step of Discussion,  *)
(* or changes no status, no agenda and no concluded turn.                  *)
(*                                                                         *)
(* Advances, proved of every step in MeetingRoomAgendaProofs, already says *)
(* what a step does to a room's status and turns; here it is read as an    *)
(* action of Discussion.  A restart pauses whatever runs, which is one     *)
(* step of Discussion because at most one meeting runs.                    *)
(***************************************************************************)
EXTENDS MeetingRoomAgendaProofs

\* The abstract state: Discussion's three variables, of the rooms.
Phase == [m \in Rooms |-> rooms[m].status]
Agenda == [m \in Rooms |-> Inserted(rooms[m])]
HeldOf(r) == {t \in Inserted(r) : Concluded(r, t)}
Held == [m \in Rooms |-> HeldOf(rooms[m])]

LEMMA DiscussionInit == Init => D!Init
  <1> SUFFICES ASSUME Init PROVE D!Init
    OBVIOUS
  <1>1. \A m \in Rooms : rooms[m] = NoRoom
    BY DEF Init
  <1>2. NoRoom.status = "none" /\ Inserted(NoRoom) = {}
    BY NoRoomFields DEF Inserted
  <1> QED BY <1>1, <1>2, Zenon DEF D!Init

\* A step that changes one room changes its place in each abstract variable.
LEMMA PlacesChange ==
  ASSUME NEW m \in Rooms, \A n \in Rooms \ {m} : rooms'[n] = rooms[n]
  PROVE  /\ Phase' = [Phase EXCEPT ![m] = rooms'[m].status]
         /\ Agenda' = [Agenda EXCEPT ![m] = Inserted(rooms'[m])]
         /\ Held' = [Held EXCEPT ![m] = HeldOf(rooms'[m])]
  <1>1. Phase' = [Phase EXCEPT ![m] = rooms'[m].status]
    BY Zenon DEF Phase
  <1>2. Agenda' = [Agenda EXCEPT ![m] = Inserted(rooms'[m])]
    BY Zenon DEF Agenda
  <1>3. Held' = [Held EXCEPT ![m] = HeldOf(rooms'[m])]
    BY Zenon DEF Held
  <1> QED BY <1>1, <1>2, <1>3

\* Steps that conclude no turn.
LEMMA SameHeldOf ==
  ASSUME NEW r, NEW q, SameHeld(r, q)
  PROVE  Inserted(q) = Inserted(r) /\ HeldOf(q) = HeldOf(r)
  <1>1. Inserted(q) = Inserted(r) /\ Inserted(r) \subseteq TurnIds
    BY SameHeldSets DEF Inserted
  <1> QED BY <1>1 DEF SameHeld, HeldOf

LEMMA OpenIsLeft ==
  ASSUME NEW r
  PROVE  /\ HeldOf(r) \subseteq Inserted(r) /\ Open(r) = Inserted(r) \ HeldOf(r)
         /\ Open(r) = {} <=> HeldOf(r) = Inserted(r)
  BY DEF HeldOf, Open

LEMMA PhaseMovesStep ==
  ASSUME NEW m \in Rooms, \A n \in Rooms \ {m} : rooms'[n] = rooms[n],
         SameHeld(rooms[m], rooms'[m]), PhaseMoves(m, rooms[m], rooms'[m])
  PROVE  D!Next \/ UNCHANGED <<Phase, Agenda, Held>>
  <1> DEFINE r == rooms[m]
             q == rooms'[m]
  <1>1. Inserted(q) = Inserted(r) /\ HeldOf(q) = HeldOf(r)
    BY SameHeldOf
  <1>2. /\ Phase' = [Phase EXCEPT ![m] = q.status]
        /\ Agenda' = [Agenda EXCEPT ![m] = Inserted(q)]
        /\ Held' = [Held EXCEPT ![m] = HeldOf(q)]
    BY PlacesChange
  <1>3. Agenda' = Agenda /\ Held' = Held
    BY <1>1, <1>2, Zenon DEF Agenda, Held
  <1>4. Phase[m] = r.status /\ Agenda[m] = Inserted(r) /\ Held[m] = HeldOf(r)
    BY DEF Phase, Agenda, Held
  <1>5. NoOtherRunning(m) => \A n \in Rooms \ {m} : Phase[n] # "running"
    BY DEF NoOtherRunning, Phase
  <1>6. CASE q.status = r.status
    <2>1. Phase' = Phase
      BY <1>2, <1>6, Zenon DEF Phase
    <2> QED BY <1>3, <2>1
  <1>7. Open(q) = {} => HeldOf(r) = Inserted(r)
    BY <1>1, OpenIsLeft
  <1>8. CASE q.status # r.status
    <2>1. \/ r.status = "none" /\ q.status = "draft"
          \/ r.status = "running" /\ q.status = "paused"
          \/ r.status = "paused" /\ NoOtherRunning(m) /\ q.status = "running"
          \/ /\ r.status = "running" \/ (r.status = "paused" /\ NoOtherRunning(m))
             /\ q.status = "completed" /\ HeldOf(r) = Inserted(r)
          \/ r.status \in {"running", "paused"} /\ q.status = "stopped"
      BY <1>7, <1>8, Zenon DEF PhaseMoves
    <2>2. \/ D!Draft(m) \/ D!Suspend(m) \/ D!Continue(m) \/ D!Close(m) \/ D!Stop(m)
      BY <1>2, <1>3, <1>4, <1>5, <2>1
         DEF D!Draft, D!Suspend, D!Continue, D!Close, D!Stop, D!MoveTo, D!Alone,
             Phase, Agenda, Held, HeldOf
    <2> QED BY <2>2 DEF D!Next
  <1> QED BY <1>6, <1>8

\* The sets of turns that a meeting's rows give are sets of turns.
LEMMA MapsAreSets ==
  /\ Agenda \in [Rooms -> SUBSET TurnIds] /\ Agenda' \in [Rooms -> SUBSET TurnIds]
  /\ Held \in [Rooms -> SUBSET TurnIds] /\ Held' \in [Rooms -> SUBSET TurnIds]
  <1>1. \A r : Inserted(r) \subseteq TurnIds /\ HeldOf(r) \subseteq TurnIds
    BY DEF Inserted, HeldOf
  <1> QED BY <1>1, Zenon DEF Agenda, Held

\* The abstract state of each room, before and after a step.
LEMMA MapsAt ==
  ASSUME NEW m \in Rooms
  PROVE  /\ Phase[m] = rooms[m].status /\ Agenda[m] = Inserted(rooms[m])
         /\ Held[m] = HeldOf(rooms[m])
         /\ Phase'[m] = rooms'[m].status /\ Agenda'[m] = Inserted(rooms'[m])
         /\ Held'[m] = HeldOf(rooms'[m])
         /\ NoOtherRunning(m) => \A n \in Rooms \ {m} : Phase[n] # "running"
  BY DEF Phase, Agenda, Held, NoOtherRunning

\* The next turn is concluded: the turns before it are concluded already.
LEMMA TurnHeldStep ==
  ASSUME NEW m \in Rooms, \A n \in Rooms \ {m} : rooms'[n] = rooms[n],
         TurnHeld(rooms[m], rooms'[m])
  PROVE  D!Conclude(m)
  <1> DEFINE r == rooms[m]
             q == rooms'[m]
  <1>1. PICK t \in Inserted(r) :
          /\ ~Concluded(r, t) /\ Concluded(q, t)
          /\ \A u \in Inserted(r) : Before(u, t) => Concluded(r, u)
          /\ \A u \in TurnIds \ {t} : (Concluded(q, u) <=> Concluded(r, u))
    BY Zenon DEF TurnHeld, HeldOne
  <1>2. Inserted(q) = Inserted(r) /\ Inserted(r) \subseteq TurnIds
    BY Zenon DEF TurnHeld, HeldOne, Inserted
  <1> HIDE DEF r, q
  <1>3. HeldOf(q) = HeldOf(r) \cup {t} /\ t \in Inserted(r) \ HeldOf(r)
    BY <1>1, <1>2 DEF HeldOf
  <1>4. \A u \in Inserted(r) :
          <<u, t>> \in {p \in TurnIds \X TurnIds : Before(p[1], p[2])} => u \in HeldOf(r)
    BY <1>1, <1>2 DEF HeldOf
  <1>5. Open(q) = {} => HeldOf(q) = Inserted(r)
    BY <1>2, OpenIsLeft
  <1>6. r.status = "running"
        /\ (q.status \in {"running", "paused"} \/ (q.status = "completed" /\ Open(q) = {}))
    BY DEF TurnHeld, r, q
  <1>7. /\ Phase[m] = r.status /\ Agenda[m] = Inserted(r) /\ Held[m] = HeldOf(r)
        /\ Held'[m] = HeldOf(q)
    BY MapsAt DEF r, q
  <1>8. /\ Phase' = [Phase EXCEPT ![m] = q.status]
        /\ Agenda' = [Agenda EXCEPT ![m] = Inserted(q)]
        /\ Held' = [Held EXCEPT ![m] = HeldOf(q)]
    BY PlacesChange DEF r, q
  <1>9. Agenda' = Agenda
    BY <1>2, <1>7, <1>8, Zenon DEF Agenda
  <1>10. Held' = [Held EXCEPT ![m] = Held[m] \cup {t}]
    BY <1>3, <1>7, <1>8
  <1>11. /\ t \in Agenda[m] \ Held[m]
         /\ \A u \in Agenda[m] :
              <<u, t>> \in {p \in TurnIds \X TurnIds : Before(p[1], p[2])} => u \in Held[m]
    BY <1>3, <1>4, <1>7
  <1>12. \/ Phase' = [Phase EXCEPT ![m] = "running"]
         \/ Phase' = [Phase EXCEPT ![m] = "paused"]
         \/ Phase' = [Phase EXCEPT ![m] = "completed"] /\ Held'[m] = Agenda[m]
    BY <1>5, <1>6, <1>7, <1>8
  <1>13. Phase[m] = "running"
    BY <1>6, <1>7
  <1> QED
    BY <1>9, <1>10, <1>11, <1>12, <1>13, Zenon
       DEF D!Conclude, D!Ready, D!MoveTo, Phase, Agenda, Held, HeldOf

\* A draft is given its agenda: none of its turns is concluded.
LEMMA BeginsStep ==
  ASSUME NEW m \in Rooms, \A n \in Rooms \ {m} : rooms'[n] = rooms[n],
         Begins(m, rooms[m], rooms'[m])
  PROVE  D!Begin(m)
  <1>1. HeldOf(rooms[m]) = {} /\ HeldOf(rooms'[m]) = {}
    BY OpenIsLeft DEF Begins
  <1>2. /\ Phase' = [Phase EXCEPT ![m] = rooms'[m].status]
        /\ Held' = [Held EXCEPT ![m] = HeldOf(rooms'[m])]
    BY PlacesChange
  <1>3. Held' = Held
    BY <1>1, <1>2, Zenon DEF Held
  <1>4. \A n \in Rooms \ {m} : Agenda'[n] = Agenda[n]
    BY DEF Agenda
  <1>5. /\ Phase[m] = "draft" /\ \A n \in Rooms \ {m} : Phase[n] # "running"
        /\ Phase' = [Phase EXCEPT ![m] = "running"] /\ Agenda'[m] # {}
    BY <1>2, MapsAt DEF Begins
  <1> QED
    BY <1>3, <1>4, <1>5, MapsAreSets, Zenon
       DEF D!Begin, D!Alone, D!MoveTo, D!OthersKept, Phase, Agenda, Held, HeldOf

\* A completed meeting is given another round, after all it has held.
LEMMA ExtendsStep ==
  ASSUME NEW m \in Rooms, \A n \in Rooms \ {m} : rooms'[n] = rooms[n],
         Extends(m, rooms[m], rooms'[m])
  PROVE  D!Extend(m)
  <1> DEFINE r == rooms[m]
             q == rooms'[m]
  <1>1. HeldOf(r) \subseteq HeldOf(q) /\ HeldOf(q) \subseteq Inserted(q) /\ HeldOf(q) # Inserted(q)
    BY OpenIsLeft DEF Extends, HeldOf
  <1>2. Inserted(q) \subseteq TurnIds /\ Inserted(r) \subseteq Inserted(q)
    BY DEF Inserted, Extends
  <1>3. /\ \A t \in Inserted(r), u \in Inserted(q) \ Inserted(r) : Before(t, u)
        /\ \A t, u \in Inserted(q) : Concluded(q, t) /\ ~Concluded(q, u) => Before(t, u)
    BY DEF Extends
  <1> HIDE DEF r, q
  <1>4. \A t \in Inserted(r), u \in Inserted(q) \ Inserted(r) :
          <<t, u>> \in {p \in TurnIds \X TurnIds : Before(p[1], p[2])}
    BY <1>2, <1>3
  <1>5. \A t \in HeldOf(q), u \in Inserted(q) \ HeldOf(q) :
          <<t, u>> \in {p \in TurnIds \X TurnIds : Before(p[1], p[2])}
    BY <1>2, <1>3 DEF HeldOf
  <1>6. /\ Agenda[m] = Inserted(r) /\ Held[m] = HeldOf(r)
        /\ Agenda'[m] = Inserted(q) /\ Held'[m] = HeldOf(q)
    BY MapsAt DEF r, q
  <1>7. \A n \in Rooms \ {m} : Agenda'[n] = Agenda[n] /\ Held'[n] = Held[n]
    BY DEF Agenda, Held
  <1>8. /\ Phase[m] = "completed" /\ \A n \in Rooms \ {m} : Phase[n] # "running"
        /\ Phase' = [Phase EXCEPT ![m] = "running"]
    BY PlacesChange, MapsAt DEF Extends
  <1>9. /\ Agenda[m] \subseteq Agenda'[m] /\ Held[m] \subseteq Held'[m]
        /\ Held'[m] \subseteq Agenda'[m] /\ Held'[m] # Agenda'[m]
        /\ \A t \in Agenda[m], u \in Agenda'[m] \ Agenda[m] :
             <<t, u>> \in {p \in TurnIds \X TurnIds : Before(p[1], p[2])}
        /\ \A t \in Held'[m], u \in Agenda'[m] \ Held'[m] :
             <<t, u>> \in {p \in TurnIds \X TurnIds : Before(p[1], p[2])}
    BY <1>1, <1>2, <1>4, <1>5, <1>6, Zenon
  <1> QED
    BY <1>7, <1>8, <1>9, MapsAreSets, Zenon
       DEF D!Extend, D!Alone, D!MoveTo, D!OthersKept, Phase, Agenda, Held, HeldOf

\* A deleted meeting has no rows left.
LEMMA DeletesStep ==
  ASSUME NEW m \in Rooms, \A n \in Rooms \ {m} : rooms'[n] = rooms[n],
         Deletes(rooms[m], rooms'[m])
  PROVE  D!Delete(m)
  <1>1. Inserted(rooms'[m]) = {} /\ HeldOf(rooms'[m]) = {}
    BY DEF Deletes, HeldOf
  <1>2. /\ Phase' = [Phase EXCEPT ![m] = "deleted"]
        /\ Agenda' = [Agenda EXCEPT ![m] = {}] /\ Held' = [Held EXCEPT ![m] = {}]
    BY <1>1, PlacesChange DEF Deletes
  <1>3. Phase[m] \notin {"none", "deleted"}
    BY MapsAt DEF Deletes
  <1> QED
    BY <1>2, <1>3, Zenon DEF D!Delete, D!MoveTo, Phase, Agenda, Held, HeldOf

\* A restart suspends the meeting that runs, if one does.
LEMMA AllWakeStep ==
  ASSUME SingleRunningMeeting, AllWake
  PROVE  D!Next \/ UNCHANGED <<Phase, Agenda, Held>>
  <1>1. \A m \in Rooms : /\ Inserted(rooms'[m]) = Inserted(rooms[m])
                         /\ HeldOf(rooms'[m]) = HeldOf(rooms[m])
    BY SameHeldOf, Zenon DEF AllWake
  <1>2. Agenda' = Agenda /\ Held' = Held
    BY <1>1, Zenon DEF Agenda, Held
  <1>3. \A m \in Rooms : rooms'[m].status = IF rooms[m].status = "running"
                                            THEN "paused" ELSE rooms[m].status
    BY DEF AllWake
  <1>4. CASE \A m \in Rooms : rooms[m].status # "running"
    <2>1. Phase' = Phase
      BY <1>3, <1>4, Zenon DEF Phase
    <2> QED BY <1>2, <2>1
  <1>5. ASSUME NEW m \in Rooms, rooms[m].status = "running"
        PROVE  D!Suspend(m)
    <2>1. \A n \in Rooms \ {m} : rooms[n].status # "running"
      BY <1>5 DEF SingleRunningMeeting
    <2>2. Phase' = [Phase EXCEPT ![m] = "paused"]
      BY <1>3, <1>5, <2>1, Zenon DEF Phase
    <2>3. Phase[m] = "running"
      BY <1>5 DEF Phase
    <2> QED
      BY <1>2, <2>2, <2>3, Zenon DEF D!Suspend, D!MoveTo, Phase, Agenda, Held, HeldOf
  <1> QED BY <1>4, <1>5 DEF D!Next

LEMMA DiscussionNext ==
  RoomsInv /\ AgendaInv /\ SingleRunningMeeting /\ [Next]_vars => [D!Next]_(D!vars)
  <1> SUFFICES ASSUME RoomsInv, AgendaInv, SingleRunningMeeting, [Next]_vars
               PROVE  D!Next \/ UNCHANGED <<Phase, Agenda, Held>>
    BY Zenon DEF D!vars, Phase, Agenda, Held, HeldOf
  <1>1. AgendaStep
    BY NextTurns
  <1>2. CASE UNCHANGED rooms
    BY <1>2 DEF Phase, Agenda, Held
  <1>3. CASE \E m \in Rooms : Turns(m)
    <2>1. PICK m \in Rooms : Turns(m)
      BY <1>3
    <2>2. /\ \A n \in Rooms \ {m} : rooms'[n] = rooms[n]
          /\ Advances(m, rooms[m], rooms'[m])
      BY <2>1, TurnsNext
    <2>3. CASE SameHeld(rooms[m], rooms'[m]) /\ PhaseMoves(m, rooms[m], rooms'[m])
      BY <2>2, <2>3, PhaseMovesStep
    <2>4. CASE TurnHeld(rooms[m], rooms'[m])
      BY <2>2, <2>4, TurnHeldStep DEF D!Next
    <2>5. CASE Begins(m, rooms[m], rooms'[m])
      BY <2>2, <2>5, BeginsStep DEF D!Next
    <2>6. CASE Extends(m, rooms[m], rooms'[m])
      BY <2>2, <2>6, ExtendsStep DEF D!Next
    <2>7. CASE Deletes(rooms[m], rooms'[m])
      BY <2>2, <2>7, DeletesStep DEF D!Next
    <2> QED BY <2>2, <2>3, <2>4, <2>5, <2>6, <2>7 DEF Advances
  <1>4. CASE AllWake
    BY <1>4, AllWakeStep
  <1> QED BY <1>1, <1>2, <1>3, <1>4 DEF AgendaStep

\* The rooms keep the promise of Discussion: a meeting's turns are concluded
\* one at a time, in order, only while it runs, one meeting running at a time;
\* it is completed only with its whole agenda concluded (MeetingStore's writes,
\* MeetingCoordinator's loop, restarts and torn deletes).
THEOREM DiscussionImplemented == Spec => ImplementsDiscussion
  <1>1. Init => D!Init
    BY DiscussionInit
  <1>2. RoomsInv /\ AgendaInv /\ SingleRunningMeeting /\ [Next]_vars => [D!Next]_(D!vars)
    BY DiscussionNext
  <1> QED
    BY <1>1, <1>2, RoomsInvariant, AgendaInvariant, OneRuns, PTL
       DEF Spec, ImplementsDiscussion, D!Spec

=============================================================================
