----------------------------- MODULE Discussion -----------------------------
(***************************************************************************)
(* What the meeting rooms promise: a meeting has an agenda; its turns are  *)
(* concluded one at a time, in the agenda's order, only while the meeting  *)
(* runs; one meeting runs at a time; a meeting is completed only when its  *)
(* whole agenda is concluded, and a concluded turn stays concluded until   *)
(* the meeting is deleted.  No attempts, runs, timers or epochs.           *)
(***************************************************************************)
CONSTANTS Meetings, Turns, Precedes

VARIABLES
  phase,    \* the status of each meeting
  agenda,   \* the turns of each meeting
  held      \* the turns concluded so far

vars == <<phase, agenda, held>>

Init ==
  /\ phase = [m \in Meetings |-> "none"]
  /\ agenda = [m \in Meetings |-> {}]
  /\ held = [m \in Meetings |-> {}]

MoveTo(m, p) == phase' = [phase EXCEPT ![m] = p]
Alone(m) == \A n \in Meetings \ {m} : phase[n] # "running"
OthersKept(f, g, m) == \A n \in Meetings \ {m} : f[n] = g[n]

\* Every turn that comes before t has been concluded.
Ready(m, t) == \A u \in agenda[m] : <<u, t>> \in Precedes => u \in held[m]

Draft(m) ==
  /\ phase[m] = "none" /\ MoveTo(m, "draft")
  /\ UNCHANGED <<agenda, held>>

\* The agenda is fixed when the meeting starts.
Begin(m) ==
  /\ phase[m] = "draft" /\ Alone(m) /\ MoveTo(m, "running")
  /\ agenda' \in [Meetings -> SUBSET Turns]
  /\ agenda'[m] # {} /\ OthersKept(agenda, agenda', m)
  /\ UNCHANGED held

\* The next turn is concluded; the meeting goes on, pauses, or is over.
Conclude(m) ==
  /\ phase[m] = "running"
  /\ \E t \in agenda[m] \ held[m] :
       /\ Ready(m, t)
       /\ held' = [held EXCEPT ![m] = @ \cup {t}]
  /\ \/ MoveTo(m, "running")
     \/ MoveTo(m, "paused")
     \/ MoveTo(m, "completed") /\ held'[m] = agenda[m]
  /\ UNCHANGED agenda

Suspend(m) ==
  /\ phase[m] = "running" /\ MoveTo(m, "paused")
  /\ UNCHANGED <<agenda, held>>

Continue(m) ==
  /\ phase[m] = "paused" /\ Alone(m) /\ MoveTo(m, "running")
  /\ UNCHANGED <<agenda, held>>

\* Nothing is left to hold, in a meeting that runs or is set running again.
Close(m) ==
  /\ phase[m] = "running" \/ (phase[m] = "paused" /\ Alone(m))
  /\ held[m] = agenda[m]
  /\ MoveTo(m, "completed")
  /\ UNCHANGED <<agenda, held>>

Stop(m) ==
  /\ phase[m] \in {"running", "paused"} /\ MoveTo(m, "stopped")
  /\ UNCHANGED <<agenda, held>>

\* Another round: its turns come after every turn of the agenda so far, and
\* what the user adds to it is concluded from the start.
Extend(m) ==
  /\ phase[m] = "completed" /\ Alone(m) /\ MoveTo(m, "running")
  /\ agenda' \in [Meetings -> SUBSET Turns] /\ held' \in [Meetings -> SUBSET Turns]
  /\ agenda[m] \subseteq agenda'[m] /\ held[m] \subseteq held'[m]
  /\ held'[m] \subseteq agenda'[m] /\ held'[m] # agenda'[m]
  /\ \A t \in agenda[m], u \in agenda'[m] \ agenda[m] : <<t, u>> \in Precedes
  /\ \A t \in held'[m], u \in agenda'[m] \ held'[m] : <<t, u>> \in Precedes
  /\ OthersKept(agenda, agenda', m) /\ OthersKept(held, held', m)

Delete(m) ==
  /\ phase[m] \notin {"none", "deleted"} /\ MoveTo(m, "deleted")
  /\ agenda' = [agenda EXCEPT ![m] = {}]
  /\ held' = [held EXCEPT ![m] = {}]

Next ==
  \E m \in Meetings :
    \/ Draft(m) \/ Begin(m) \/ Conclude(m) \/ Suspend(m) \/ Continue(m)
    \/ Close(m) \/ Stop(m) \/ Extend(m) \/ Delete(m)

Spec == Init /\ [][Next]_vars
=============================================================================
