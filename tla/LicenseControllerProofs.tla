---------------------- MODULE LicenseControllerProofs ----------------------
(***************************************************************************)
(* The session in memory keeps up with the server's token pairs, for any   *)
(* number of pairs, calls in flight and days, and under every fault.       *)
(*                                                                         *)
(* A pair is new to the desktop while the answer that brings it is on its  *)
(* way: nothing holds it, no two answers bring the same, and nobody can    *)
(* have it replaced.  That is why the answers of a login, a redemption and *)
(* a refresh may be applied in any order.                                  *)
(*                                                                         *)
(* The licence stays watched and its loss is reported: each step goes on   *)
(* under the licence, gives the session up, ends the licence or starts the *)
(* process anew (Sorted).  What could go wrong is a removal of the session *)
(* that began without a licence and ends under a new one: then another     *)
(* removal or the new session answers for it (Unreported).                 *)
(***************************************************************************)
EXTENDS LicenseController, TLAPS

Bringers == {"login", "refresh", "redeem"}
Known == 1 .. issued
Brings(f) == call[f].at = "answered" /\ call[f].ans.pair # 0

\* A good answer of a bringer has a pair, and no other answer has one.
AnswersBring ==
  \A f \in Calls : call[f].at = "answered" =>
    IF f \in Bringers /\ call[f].ans.kind = "ok"
      THEN call[f].ans.pair \in Known
      ELSE call[f].ans.pair = 0

\* What is kept or presented has been issued.
HeldIsKnown ==
  /\ \A s \in {session, disk, tmp} : s # NoSession => s.pair \in Known
  /\ \A f \in Calls :
       /\ call[f].at = "sent" /\ f # "login" => call[f].pair \in Known
       /\ call[f].at = "saving" => call[f].rec # NoSession /\ call[f].rec.pair \in Known

BroughtIsNew ==
  \A f \in Calls : Brings(f) =>
    /\ pairs[call[f].ans.pair].refresh # "rotated"
    /\ SignedIn => session.pair # call[f].ans.pair
    /\ call["refresh"].at = "sent" => call["refresh"].pair # call[f].ans.pair
    /\ \A g \in Calls \ {f} : Brings(g) => call[g].ans.pair # call[f].ans.pair

\* A refresh gives the session up only for an answer that was an error.
RefreshGivesUp == call["refresh"].at = "clearing" => call["refresh"].ans.kind # "ok"

TimerHasSession == timer => SignedIn

IInv ==
  /\ TypeOK /\ AnswersBring /\ HeldIsKnown /\ BroughtIsNew
  /\ RefreshGivesUp /\ TimerHasSession /\ MemoryKeepsUp

USE BoundAssumption, TermAssumption, RoomAssumption
-----------------------------------------------------------------------------
(* Types. *)

LEMMA ErrorIsAnswer == \A kind \in Kinds : Error(kind) \in Answer
  BY DEF Error, Answer

LEMMA NoSessionIsSession == NoSession \in Session
  BY DEF Session

LEMMA IdleIsCall == Idle \in Call
<1>1. "ok" \in Kinds /\ "idle" \in Points
  BY DEF Kinds, Points
<1> QED
  BY <1>1, ErrorIsAnswer, NoSessionIsSession DEF Idle, Call

LEMMA SentIsCall ==
  ASSUME NEW p \in 0 .. MaxPairs, NEW again \in BOOLEAN
  PROVE  Sent(p, again) \in Call /\ Sent(p, again).at = "sent" /\ Sent(p, again).pair = p
<1>1. "sent" \in Points
  BY DEF Points
<1> QED
  BY <1>1, IdleIsCall DEF Sent, Call

LEMMA IdleFields == Idle.at = "idle"
  BY DEF Idle

Waiting == [Idle EXCEPT !.at = "waiting"]
Clearing(a, b) == [Idle EXCEPT !.at = "clearing", !.ans = a, !.was = b]
Saving(b, s) == [Idle EXCEPT !.at = "saving", !.again = b, !.rec = s]
Meets(c, kind) == [c EXCEPT !.at = "answered", !.again = TRUE, !.ans = Error(kind)]
At(c, point) == [c EXCEPT !.at = point]

LEMMA RecordsAreCalls ==
  /\ Waiting \in Call /\ Waiting.at = "waiting"
  /\ \A a \in Answer, b \in BOOLEAN :
       Clearing(a, b) \in Call /\ Clearing(a, b).at = "clearing" /\ Clearing(a, b).ans = a
  /\ \A b \in BOOLEAN, s \in Session :
       Saving(b, s) \in Call /\ Saving(b, s).at = "saving" /\ Saving(b, s).rec = s
  /\ \A c \in Call, kind \in Kinds :
       Meets(c, kind) \in Call /\ Meets(c, kind).at = "answered" /\ Meets(c, kind).ans = Error(kind)
  /\ \A c \in Call, point \in Points : At(c, point) \in Call /\ At(c, point).at = point
<1>1. {"waiting", "clearing", "saving", "answered"} \subseteq Points
  BY DEF Points
<1>2. Waiting \in Call /\ Waiting.at = "waiting"
  BY <1>1, IdleIsCall DEF Waiting, Call
<1>3. ASSUME NEW a \in Answer, NEW b \in BOOLEAN
      PROVE  Clearing(a, b) \in Call /\ Clearing(a, b).at = "clearing" /\ Clearing(a, b).ans = a
  BY <1>1, IdleIsCall DEF Clearing, Call
<1>4. ASSUME NEW b \in BOOLEAN, NEW s \in Session
      PROVE  Saving(b, s) \in Call /\ Saving(b, s).at = "saving" /\ Saving(b, s).rec = s
  BY <1>1, IdleIsCall DEF Saving, Call
<1>5. ASSUME NEW c \in Call, NEW kind \in Kinds
      PROVE  Meets(c, kind) \in Call /\ Meets(c, kind).at = "answered" /\ Meets(c, kind).ans = Error(kind)
  BY <1>1, ErrorIsAnswer DEF Meets, Call
<1>6. ASSUME NEW c \in Call, NEW point \in Points PROVE At(c, point) \in Call /\ At(c, point).at = point
  BY DEF At, Call
<1> QED
  BY <1>2, <1>3, <1>4, <1>5, <1>6
-----------------------------------------------------------------------------
(* Client steps that bring nothing.  A call stays, ends, waits, removes the  *)
(* file, meets an error, or presents the pair of the session.               *)

Quiet(f) ==
  \/ call'[f] = call[f]
  \/ call'[f].at \in {"idle", "waiting", "renaming", "saved"}
  \/ call'[f].at = "clearing" /\ (f = "refresh" => call'[f].ans.kind # "ok")
  \/ call'[f].at = "answered" /\ call'[f].ans.pair = 0 /\ call'[f].ans.kind # "ok"
  \/ call'[f].at = "sent" /\ (f # "login" => SignedIn /\ call'[f].pair = session.pair)

QuietCalls ==
  /\ call' \in [Calls -> Call]
  /\ \A f \in Calls : Quiet(f)
  \* The answer that brings a refresh its pair is not passed over.
  /\ Brings("refresh") => call'["refresh"] = call["refresh"] \/ session' = NoSession

QuietFiles ==
  /\ session' \in {session, NoSession}
  /\ disk' \in {disk, tmp, NoSession}
  /\ tmp' \in {tmp, NoSession} \cup {call[f].rec : f \in {g \in Calls : call[g].at = "saving"}}

QuietFlags ==
  /\ phase' \in Phases /\ timer' \in BOOLEAN /\ runtime' \in Runtimes /\ relaunch' \in BOOLEAN
  /\ timer' => session' # NoSession \/ (timer /\ session' = session)

QuietStep ==
  /\ QuietCalls /\ QuietFiles /\ QuietFlags
  /\ UNCHANGED <<serverVars, lost>> /\ online' \in BOOLEAN

LEMMA QuietKeeps == ASSUME IInv, QuietStep PROVE IInv'
<1>0. TypeOK'
  <2>1. session' \in Session /\ disk' \in Session /\ tmp' \in Session
    BY NoSessionIsSession DEF IInv, QuietStep, QuietFiles, TypeOK, Call
  <2> QED
    BY <2>1 DEF IInv, QuietStep, QuietCalls, QuietFlags, TypeOK, serverVars
<1> USE DEF IInv, QuietStep, QuietCalls, QuietFiles, serverVars, Quiet
<1>1. AnswersBring'
  BY DEF AnswersBring, Known, Bringers
<1>2. HeldIsKnown'
  BY DEF HeldIsKnown, Known, SignedIn, TypeOK
<1>3. BroughtIsNew'
  <2>1. \A f \in Calls : Brings(f)' => Brings(f) /\ call'[f] = call[f]
    BY DEF Brings
  <2>2. SUFFICES ASSUME NEW f \in Calls, Brings(f)'
                 PROVE  /\ pairs[call[f].ans.pair].refresh # "rotated"
                        /\ SignedIn' => session'.pair # call[f].ans.pair
                        /\ call'["refresh"].at = "sent" => call'["refresh"].pair # call[f].ans.pair
                        /\ \A g \in Calls \ {f} : Brings(g)' => call'[g].ans.pair # call[f].ans.pair
    BY <2>1 DEF BroughtIsNew
  <2>3. SignedIn' => SignedIn /\ session' = session
    BY DEF SignedIn
  <2>4. call'["refresh"].at = "sent" => call'["refresh"].pair # call[f].ans.pair
    BY <2>1, <2>2 DEF BroughtIsNew, Calls
  <2> QED
    BY <2>1, <2>2, <2>3, <2>4 DEF BroughtIsNew
<1>4. MemoryKeepsUp'
  BY DEF MemoryKeepsUp, Brings, SignedIn
<1>5. RefreshGivesUp'
  BY DEF RefreshGivesUp, Calls
<1>6. TimerHasSession'
  BY DEF TimerHasSession, SignedIn, QuietFlags
<1> QED
  BY <1>0, <1>1, <1>2, <1>3, <1>4, <1>5, <1>6
-----------------------------------------------------------------------------
(* The ends of the methods, and their catch blocks.                         *)

LEMMA NotifiedIsRuntime == ASSUME TypeOK, NEW b \in BOOLEAN PROVE Notified(b) \in Runtimes
  BY DEF TypeOK, Notified, Runtimes

LEMMA SettledIsQuiet ==
  ASSUME TypeOK, NEW after \in Runtimes, Settled(after)
  PROVE  QuietCalls /\ runtime' \in Runtimes /\ relaunch' \in BOOLEAN
<1>1. call' \in [Calls -> Call]
  BY IdleIsCall DEF TypeOK, Settled
<1>2. \A f \in Calls : Quiet(f)
  BY IdleFields DEF TypeOK, Settled, Quiet, Calls
<1>3. call'["refresh"] = call["refresh"]
  BY DEF TypeOK, Settled, Calls
<1>4. runtime' \in Runtimes /\ relaunch' \in BOOLEAN
  BY DEF TypeOK, Settled, Runtimes
<1> QED
  BY <1>1, <1>2, <1>3, <1>4 DEF QuietCalls

LEMMA OfflineIsQuiet ==
  ASSUME TypeOK, OfflineOrRestrict
  PROVE  QuietCalls /\ QuietFiles /\ QuietFlags
<1>1. PICK after \in Runtimes : Settled(after)
  <2>1. Authorized(phase) \in BOOLEAN
    BY DEF Authorized
  <2>2. runtime \in Runtimes /\ Notified(Authorized(phase)) \in Runtimes
    BY <2>1, NotifiedIsRuntime DEF TypeOK
  <2>3. Settled(runtime) \/ Settled(Notified(Authorized(phase)))
    BY DEF OfflineOrRestrict
  <2> QED
    BY <2>2, <2>3
<1>2. QuietCalls /\ runtime' \in Runtimes /\ relaunch' \in BOOLEAN
  BY <1>1, SettledIsQuiet
<1>3. QuietFiles
  BY DEF OfflineOrRestrict, QuietFiles
<1>4. phase' \in Phases /\ timer' \in BOOLEAN /\ (timer' => session' # NoSession)
  BY DEF OfflineOrRestrict, Phases, Schedule, Authorized
<1> QED
  BY <1>2, <1>3, <1>4 DEF QuietFlags

LEMMA InvalidateIsQuiet ==
  ASSUME TypeOK, NEW f \in Calls, Invalidate(f), f = "refresh" => call[f].ans.kind # "ok"
  PROVE  QuietCalls /\ QuietFiles /\ QuietFlags
<1>1. call[f].ans \in Answer /\ Authorized(phase) \in BOOLEAN /\ call \in [Calls -> Call]
  BY DEF TypeOK, Call, Authorized
<1>2. PICK c \in Call : c.at = "clearing" /\ c.ans = call[f].ans /\ call' = [call EXCEPT ![f] = c]
  <2>1. call' = [call EXCEPT ![f] = Clearing(call[f].ans, Authorized(phase))]
    BY DEF Invalidate, Clearing
  <2>2. Clearing(call[f].ans, Authorized(phase)) \in Call
        /\ Clearing(call[f].ans, Authorized(phase)).at = "clearing"
        /\ Clearing(call[f].ans, Authorized(phase)).ans = call[f].ans
    BY <1>1, RecordsAreCalls
  <2> QED
    BY <2>1, <2>2
<1>3. call' \in [Calls -> Call] /\ \A g \in Calls : Quiet(g)
  BY <1>1, <1>2 DEF Quiet
<1>4. session' = NoSession
  BY DEF Invalidate
<1>5. QuietFiles /\ QuietFlags
  BY DEF Invalidate, QuietFiles, QuietFlags, TypeOK
<1> QED
  BY <1>3, <1>4, <1>5 DEF QuietCalls

LEMMA RefreshFailsIsQuiet ==
  ASSUME TypeOK, NEW kind \in Kinds \ {"ok"}, RefreshFails(kind),
         Brings("refresh") => session' = NoSession
  PROVE  QuietCalls
<1>1. call \in [Calls -> Call] /\ {"heartbeat", "refresh"} \subseteq Calls
  BY DEF TypeOK, Calls
<1>2. Error(kind).pair = 0 /\ Error(kind).kind # "ok"
  BY DEF Error
<1>3. PICK c \in Call : /\ c = call["heartbeat"] \/ (c.at = "answered" /\ c.ans = Error(kind))
                        /\ call' = [call EXCEPT !["refresh"] = Idle, !["heartbeat"] = c]
  <2> DEFINE m == Meets(call["heartbeat"], kind)
  <2>1. m \in Call /\ m.at = "answered" /\ m.ans = Error(kind)
    BY <1>1, RecordsAreCalls
  <2>2. call' = [call EXCEPT !["refresh"] = Idle,
                             !["heartbeat"] = IF call["heartbeat"].at = "waiting" THEN m ELSE call["heartbeat"]]
    BY <1>1 DEF RefreshFails, Meets
  <2> QED
    BY <1>1, <2>1, <2>2
<1>4. call' \in [Calls -> Call] /\ \A g \in Calls : Quiet(g)
  BY <1>1, <1>2, <1>3, IdleFields, IdleIsCall DEF Quiet
<1> QED
  BY <1>4 DEF QuietCalls

LEMMA HeartbeatFailsIsQuiet ==
  ASSUME TypeOK, NEW kind \in Kinds \ {"ok"}, HeartbeatFails(kind)
  PROVE  QuietCalls /\ QuietFiles /\ QuietFlags
<1>1. call \in [Calls -> Call] /\ {"heartbeat", "refresh"} \subseteq Calls
  BY DEF TypeOK, Calls
<1>2. CASE /\ SignedIn \/ InFlight("refresh")
           /\ call' = [call EXCEPT
                         !["heartbeat"] = [Idle EXCEPT !.at = "waiting"],
                         !["refresh"] = IF InFlight("refresh") THEN @ ELSE Sent(session.pair, FALSE)]
           /\ UNCHANGED <<session, disk, tmp, phase, timer, runtime, relaunch>>
  <2>1. Waiting \in Call /\ Waiting.at = "waiting"
    BY RecordsAreCalls
  <2>2. SignedIn => session.pair \in 0 .. MaxPairs
    BY DEF SignedIn, TypeOK, Session, PairIds
  <2>3. PICK c \in Call : /\ \/ c = call["refresh"]
                             \/ ~InFlight("refresh") /\ SignedIn /\ c.at = "sent" /\ c.pair = session.pair
                          /\ call' = [call EXCEPT !["heartbeat"] = Waiting, !["refresh"] = c]
    BY <1>1, <1>2, <2>2, SentIsCall DEF Waiting
  <2>4. call' \in [Calls -> Call] /\ \A g \in Calls : Quiet(g)
    BY <1>1, <2>1, <2>3 DEF Quiet
  <2>5. Brings("refresh") => call'["refresh"] = call["refresh"]
    BY <1>1, <2>3 DEF Brings, InFlight
  <2> QED
    BY <1>2, <2>4, <2>5 DEF QuietCalls, QuietFiles, QuietFlags, TypeOK
<1>3. CASE OfflineOrRestrict
  BY <1>3, OfflineIsQuiet
<1>4. CASE Invalidate("heartbeat")
  BY <1>1, <1>4, InvalidateIsQuiet
<1>5. CASE UNCHANGED <<session, disk, tmp, phase>> /\ Settled(runtime) /\ Schedule
  BY <1>5, SettledIsQuiet DEF TypeOK, QuietFiles, QuietFlags, Schedule, Authorized
<1> QED
  BY <1>2, <1>3, <1>4, <1>5 DEF HeartbeatFails

LEMMA FailsIsQuiet ==
  ASSUME IInv, NEW f \in Calls, NEW kind \in Kinds, Fails(f, kind),
         f # "logout" => kind # "ok",
         f = "refresh" /\ Brings(f) => ~SignedIn,
         f = "refresh" /\ Terminal(kind) => call[f].ans.kind # "ok"
  PROVE  QuietCalls /\ QuietFiles /\ QuietFlags
<1>1. TypeOK
  BY DEF IInv
<1>2. CASE f = "heartbeat"
  BY <1>1, <1>2, HeartbeatFailsIsQuiet DEF Fails
<1>3. CASE f = "refresh"
  BY <1>1, <1>3, InvalidateIsQuiet, RefreshFailsIsQuiet
     DEF Fails, SignedIn, QuietFiles, QuietFlags, TypeOK
<1>4. CASE f \in {"redeem", "login"}
  <2>1. call' = [call EXCEPT ![f] = Idle] /\ UNCHANGED <<session, disk, tmp, phase, timer, runtime, relaunch>>
    BY <1>4 DEF Fails, Return
  <2>2. call' \in [Calls -> Call] /\ \A g \in Calls : Quiet(g)
    BY <1>1, <2>1, IdleIsCall, IdleFields DEF TypeOK, Quiet
  <2> QED
    BY <1>1, <1>4, <2>1, <2>2 DEF QuietCalls, QuietFiles, QuietFlags, TypeOK, Calls
<1>5. CASE f = "logout"
  BY <1>1, <1>5, InvalidateIsQuiet DEF Fails
<1> QED
  BY <1>2, <1>3, <1>4, <1>5 DEF Calls
-----------------------------------------------------------------------------
(* One lemma per action of a call.                                          *)

LEMMA TimesOutKeeps == ASSUME IInv, NEW f \in Calls, TimesOut(f) PROVE IInv'
<1>1. "offline" \in Kinds /\ ~Terminal("offline") /\ ~Brings(f)
  BY DEF Kinds, Terminal, TimesOut, Brings
<1>2. QuietCalls /\ QuietFiles /\ QuietFlags
  BY <1>1, FailsIsQuiet DEF TimesOut
<1> QED
  BY <1>2, QuietKeeps DEF QuietStep, TimesOut, IInv, TypeOK

LEMMA SaveKeeps == ASSUME IInv, NEW f \in Calls, Save(f) PROVE IInv'
<1>1. call \in [Calls -> Call] /\ "renaming" \in Points
  BY DEF IInv, TypeOK, Points
<1>2. At(call[f], "renaming") \in Call /\ At(call[f], "renaming").at = "renaming"
  BY <1>1, RecordsAreCalls
<1>3. call' = [call EXCEPT ![f] = At(call[f], "renaming")]
  BY DEF Save, At
<1>4. QuietCalls
  BY <1>1, <1>2, <1>3 DEF QuietCalls, Quiet, Brings, Save
<1>5. QuietFiles /\ QuietFlags
  BY DEF QuietFiles, QuietFlags, Save, IInv, TypeOK
<1> QED
  BY <1>4, <1>5, QuietKeeps DEF QuietStep, Save, IInv, TypeOK

LEMMA RenameKeeps == ASSUME IInv, NEW f \in Calls, Rename(f) PROVE IInv'
<1>1. call \in [Calls -> Call] /\ "saved" \in Points
  BY DEF IInv, TypeOK, Points
<1>2. At(call[f], "saved") \in Call /\ At(call[f], "saved").at = "saved"
  BY <1>1, RecordsAreCalls
<1>3. call' = [call EXCEPT ![f] = At(call[f], "saved")]
  BY DEF Rename, At
<1>4. QuietCalls
  BY <1>1, <1>2, <1>3 DEF QuietCalls, Quiet, Brings, Rename
<1>5. QuietFiles /\ QuietFlags
  BY DEF QuietFiles, QuietFlags, Rename, IInv, TypeOK
<1> QED
  BY <1>4, <1>5, QuietKeeps DEF QuietStep, Rename, IInv, TypeOK

LEMMA SaveFailsKeeps == ASSUME IInv, NEW f \in Calls, SaveFails(f) PROVE IInv'
<1>1. "refused" \in Kinds /\ ~Terminal("refused") /\ ~Brings(f)
  BY DEF Kinds, Terminal, SaveFails, Brings
<1>2. QuietCalls /\ QuietFiles /\ QuietFlags
  BY <1>1, FailsIsQuiet DEF SaveFails
<1> QED
  BY <1>2, QuietKeeps DEF QuietStep, SaveFails, IInv, TypeOK

LEMMA SavedKeeps == ASSUME IInv, NEW f \in Calls, Saved(f) PROVE IInv'
<1>1. /\ TypeOK /\ call \in [Calls -> Call] /\ ~Brings(f)
      /\ {"heartbeat", "refresh", "redeem"} \subseteq Calls
      /\ "refused" \in Kinds /\ ~Terminal("refused")
  BY DEF IInv, TypeOK, Brings, Saved, Kinds, Terminal, Calls
<1>2. SignedIn => session.pair \in 0 .. MaxPairs
  BY <1>1 DEF SignedIn, TypeOK, Session, PairIds
<1> SUFFICES QuietCalls /\ QuietFiles /\ QuietFlags
  BY QuietKeeps DEF QuietStep, Saved, IInv, TypeOK
<1>3. CASE Fails(f, "refused")
  BY <1>1, <1>3, FailsIsQuiet
<1>4. ASSUME SignedIn, phase' = OnlinePhase(session), UNCHANGED <<session, disk, tmp>>
      PROVE  QuietFiles /\ phase' \in Phases
  BY <1>4 DEF QuietFiles, OnlinePhase, Phases
<1>5. ASSUME SignedIn, phase' = OnlinePhase(session), UNCHANGED <<session, disk, tmp>>,
             Settled(runtime), Schedule
      PROVE  QuietCalls /\ QuietFiles /\ QuietFlags
  BY <1>1, <1>4, <1>5, SettledIsQuiet DEF TypeOK, QuietFlags, Schedule, Authorized
<1>6. ASSUME SignedIn, phase' = OnlinePhase(session), UNCHANGED <<session, disk, tmp>>, f = "refresh",
             call' = [call EXCEPT !["refresh"] = Idle,
               !["heartbeat"] = IF @.at = "waiting" THEN Sent(session.pair, TRUE) ELSE @],
             UNCHANGED <<timer, runtime, relaunch>>
      PROVE  QuietCalls /\ QuietFiles /\ QuietFlags
  <2>1. call' \in [Calls -> Call] /\ \A g \in Calls : Quiet(g)
    BY <1>1, <1>2, <1>6, SentIsCall, IdleIsCall, IdleFields DEF Quiet
  <2> QED
    BY <1>1, <1>4, <1>6, <2>1 DEF QuietCalls, QuietFlags, TypeOK
<1>7. ASSUME SignedIn, phase' = OnlinePhase(session), UNCHANGED <<session, disk, tmp>>, f = "login",
             Return(f), relaunch' = (relaunch \/ phase' = "authorized"), UNCHANGED <<timer, runtime>>
      PROVE  QuietCalls /\ QuietFiles /\ QuietFlags
  <2>1. call' \in [Calls -> Call] /\ \A g \in Calls : Quiet(g)
    BY <1>1, <1>7, IdleIsCall, IdleFields DEF Quiet, Return
  <2>2. call'["refresh"] = call["refresh"]
    BY <1>1, <1>7 DEF Return
  <2> QED
    BY <1>1, <1>4, <1>7, <2>1, <2>2 DEF QuietCalls, QuietFlags, TypeOK
<1>8. ASSUME SignedIn, phase' = OnlinePhase(session), UNCHANGED <<session, disk, tmp>>, f = "redeem",
             call' = [call EXCEPT !["redeem"] = [Idle EXCEPT !.at = "waiting"],
               !["heartbeat"] = IF InFlight("heartbeat") THEN @ ELSE Sent(session.pair, FALSE)],
             UNCHANGED <<timer, runtime, relaunch>>
      PROVE  QuietCalls /\ QuietFiles /\ QuietFlags
  <2>1. Waiting \in Call /\ Waiting.at = "waiting"
    BY RecordsAreCalls
  <2>2. PICK c \in Call : /\ c = call["heartbeat"] \/ (c.at = "sent" /\ c.pair = session.pair)
                          /\ call' = [call EXCEPT !["redeem"] = Waiting, !["heartbeat"] = c]
    BY <1>1, <1>2, <1>8, SentIsCall DEF Waiting
  <2>3. call' \in [Calls -> Call] /\ \A g \in Calls : Quiet(g)
    BY <1>1, <1>8, <2>1, <2>2 DEF Quiet
  <2>4. call'["refresh"] = call["refresh"]
    BY <1>1, <2>2
  <2> QED
    BY <1>1, <1>4, <1>8, <2>3, <2>4 DEF QuietCalls, QuietFlags, TypeOK
<1> QED
  BY <1>3, <1>5, <1>6, <1>7, <1>8 DEF Saved

LEMMA ClearFailsKeeps == ASSUME IInv, NEW f \in Calls, ClearFails(f) PROVE IInv'
<1>1. TypeOK /\ call \in [Calls -> Call] /\ {"heartbeat", "refresh", "redeem"} \subseteq Calls
  BY DEF IInv, TypeOK, Calls
<1>2. ASSUME f = "refresh" PROVE QuietCalls
  <2>1. "refused" \in Kinds \ {"ok"} /\ ~Brings("refresh")
    BY <1>2 DEF Kinds, Brings, ClearFails
  <2> QED
    BY <1>1, <1>2, <2>1, RefreshFailsIsQuiet DEF ClearFails
<1>3. ASSUME f # "refresh" PROVE QuietCalls
  <2>1. call' = [call EXCEPT ![f] = Idle,
                   !["redeem"] = IF f = "heartbeat" /\ @.at = "waiting" THEN Idle ELSE @]
    BY <1>3 DEF ClearFails
  <2>2. call' \in [Calls -> Call] /\ \A g \in Calls : Quiet(g)
    BY <1>1, <2>1, IdleIsCall, IdleFields DEF Quiet
  <2>3. call'["refresh"] = call["refresh"]
    BY <1>1, <1>3, <2>1
  <2> QED
    BY <2>2, <2>3 DEF QuietCalls
<1>4. QuietFiles /\ QuietFlags
  BY <1>1 DEF QuietFiles, QuietFlags, ClearFails, TypeOK
<1>5. QuietCalls
  BY <1>2, <1>3
<1> QED
  BY <1>1, <1>4, <1>5, QuietKeeps DEF QuietStep, ClearFails, TypeOK

LEMMA ClearedKeeps == ASSUME IInv, NEW f \in Calls, Cleared(f) PROVE IInv'
<1>1. /\ TypeOK /\ call \in [Calls -> Call] /\ call[f].was \in BOOLEAN /\ call[f].ans.kind \in Kinds
      /\ session' = session
  BY DEF IInv, TypeOK, Call, Answer, Cleared
<1>2. QuietFiles /\ Notified(call[f].was) \in Runtimes
  BY <1>1, NotifiedIsRuntime DEF Cleared, QuietFiles
<1> SUFFICES QuietCalls /\ QuietFlags
  BY <1>1, <1>2, QuietKeeps DEF QuietStep, Cleared, TypeOK
<1>3. CASE f = "heartbeat" /\ phase' = "restricted" /\ Settled(Notified(call[f].was)) /\ Schedule
  <2>1. "restricted" \in Phases
    BY DEF Phases
  <2> QED
    BY <1>1, <1>2, <1>3, <2>1, SettledIsQuiet DEF QuietFlags, Schedule, Authorized
<1>4. CASE /\ f = "refresh" /\ phase' = "restricted" /\ RefreshFails(call[f].ans.kind)
           /\ runtime' = Notified(call[f].was) /\ UNCHANGED <<timer, relaunch>>
  <2>1. call[f].ans.kind # "ok" /\ ~Brings("refresh")
    BY <1>4 DEF Cleared, IInv, RefreshGivesUp, Brings
  <2>2. QuietCalls
    BY <1>1, <1>4, <2>1, RefreshFailsIsQuiet
  <2> QED
    BY <1>1, <1>2, <1>4, <2>2 DEF QuietFlags, TypeOK, Phases
<1>5. CASE /\ f = "logout" /\ phase' = "signed_out" /\ Return(f)
           /\ runtime' = Notified(call[f].was) /\ UNCHANGED <<timer, relaunch>>
  <2>1. call' \in [Calls -> Call] /\ \A g \in Calls : Quiet(g)
    BY <1>1, <1>5, IdleIsCall, IdleFields DEF Quiet, Return
  <2>2. "refresh" \in Calls => call'["refresh"] = call["refresh"]
    BY <1>1, <1>5 DEF Return
  <2> QED
    BY <1>1, <1>2, <1>5, <2>1, <2>2 DEF QuietCalls, QuietFlags, TypeOK, Phases, Calls
<1> QED
  BY <1>3, <1>4, <1>5 DEF Cleared

LEMMA BeginKeeps ==
  ASSUME IInv, NEW f \in Calls, NEW c \in Call, Begin(f, c),
         \/ c.at = "sent" /\ (f # "login" => SignedIn /\ c.pair = session.pair)
         \/ c.at = "clearing" /\ f # "refresh"
  PROVE  IInv'
<1>1. TypeOK /\ call \in [Calls -> Call]
  BY DEF IInv, TypeOK
<1>2. call' = [call EXCEPT ![f] = c] /\ call[f].at = "idle"
  BY DEF Begin, InFlight
<1>3. call' \in [Calls -> Call] /\ \A g \in Calls : Quiet(g)
  BY <1>1, <1>2 DEF Quiet
<1>4. Brings("refresh") => call'["refresh"] = call["refresh"]
  BY <1>1, <1>2 DEF Brings, Calls
<1>5. QuietFiles /\ QuietFlags
  BY <1>1 DEF QuietFiles, QuietFlags, Begin, TypeOK
<1> QED
  BY <1>1, <1>3, <1>4, <1>5, QuietKeeps DEF QuietCalls, QuietStep, Begin, TypeOK

LEMMA RequestsKeep == ASSUME IInv, Login \/ Redeem \/ CatalogRefresh \/ Logout PROVE IInv'
<1>1. SignedIn => session.pair \in 0 .. MaxPairs
  BY DEF SignedIn, IInv, TypeOK, Session, PairIds
<1>2. CASE Login
  <2>1. 0 \in 0 .. MaxPairs
    OBVIOUS
  <2>2. Sent(0, FALSE) \in Call /\ Sent(0, FALSE).at = "sent"
    BY <2>1, SentIsCall
  <2> QED
    BY <1>2, <2>2, BeginKeeps DEF Login, Calls
<1>3. CASE Redeem
  BY <1>1, <1>3, SentIsCall, BeginKeeps DEF Redeem, Calls
<1>4. CASE CatalogRefresh
  BY <1>1, <1>4, SentIsCall, BeginKeeps DEF CatalogRefresh, Calls
<1>5. CASE Logout /\ SignedIn
  BY <1>1, <1>5, SentIsCall, BeginKeeps DEF Logout, Calls
<1>6. CASE Logout /\ ~SignedIn
  <2>1. Idle.ans \in Answer /\ Authorized(phase) \in BOOLEAN
    BY IdleIsCall DEF Call, Authorized
  <2>2. Clearing(Idle.ans, Authorized(phase)) = [Idle EXCEPT !.at = "clearing", !.was = Authorized(phase)]
    BY IdleIsCall DEF Clearing, Call
  <2>3. /\ Clearing(Idle.ans, Authorized(phase)) \in Call
        /\ Clearing(Idle.ans, Authorized(phase)).at = "clearing"
    BY <2>1, RecordsAreCalls
  <2> QED
    BY <1>6, <2>2, <2>3, BeginKeeps DEF Logout, Calls
<1> QED
  BY <1>2, <1>3, <1>4, <1>5, <1>6

LEMMA TimerKeeps == ASSUME IInv, TimerFires PROVE IInv'
<1>1. TypeOK /\ call \in [Calls -> Call] /\ SignedIn /\ session.pair \in 0 .. MaxPairs
  BY DEF IInv, TypeOK, TimerHasSession, TimerFires, SignedIn, Session, PairIds
<1>2. QuietCalls
  <2>1. CASE InFlight("heartbeat")
    BY <1>1, <2>1 DEF QuietCalls, Quiet, TimerFires
  <2>2. CASE ~InFlight("heartbeat")
    <3>1. call' = [call EXCEPT !["heartbeat"] = Sent(session.pair, FALSE)]
      BY <2>2 DEF TimerFires
    <3>2. call' \in [Calls -> Call] /\ \A g \in Calls : Quiet(g)
      BY <1>1, <3>1, SentIsCall DEF Quiet
    <3>3. call'["refresh"] = call["refresh"]
      BY <1>1, <3>1 DEF Calls
    <3> QED
      BY <3>2, <3>3 DEF QuietCalls
  <2> QED
    BY <2>1, <2>2
<1>3. QuietFiles /\ QuietFlags
  BY <1>1 DEF QuietFiles, QuietFlags, TimerFires, TypeOK
<1> QED
  BY <1>1, <1>2, <1>3, QuietKeeps DEF QuietStep, TimerFires, TypeOK

LEMMA OthersKeep == ASSUME IInv, RuntimeStarted \/ Network PROVE IInv'
<1>1. TypeOK
  BY DEF IInv
<1>2. QuietCalls
  BY <1>1 DEF QuietCalls, Quiet, RuntimeStarted, Network, clientVars, TypeOK
<1>3. QuietFiles /\ QuietFlags
  BY <1>1 DEF QuietFiles, QuietFlags, RuntimeStarted, Network, clientVars, TypeOK, Runtimes
<1> QED
  BY <1>1, <1>2, <1>3, QuietKeeps DEF QuietStep, RuntimeStarted, Network, clientVars, TypeOK
-----------------------------------------------------------------------------
(* An answer that is applied, a new process, and what only the server does. *)

LEMMA AppliedIsSession ==
  ASSUME IInv, NEW f \in Calls, call[f].at = "answered", call[f].ans.kind = "ok", f # "logout",
         SignedIn \/ f = "login"
  PROVE  LET s == Applied(f, call[f].ans)
         IN  s \in Session /\ s # NoSession /\ s.pair \in Known
             /\ s.pair = IF f = "heartbeat" THEN session.pair ELSE call[f].ans.pair
<1> DEFINE a == call[f].ans
           s == Applied(f, a)
<1>1. a.until \in Nat /\ a.lease \in Nat
  BY DEF IInv, TypeOK, Call, Answer
<1>2. f # "login" => session.pair \in Known /\ session.until \in Nat /\ session.lease \in Nat
  BY DEF IInv, TypeOK, HeldIsKnown, SignedIn, Session, NoSession
<1>3. session.lease \in Nat
  BY DEF IInv, TypeOK, Session, NoSession
<1>4. f # "heartbeat" => a.pair \in Known
  BY DEF IInv, AnswersBring, Bringers, Calls
<1>5. Known \subseteq PairIds /\ 0 \notin Known
  BY DEF Known, PairIds, IInv, TypeOK
<1>6. s.pair = (IF f = "heartbeat" THEN session.pair ELSE a.pair) /\ s.pair \in Known
  BY <1>2, <1>4 DEF Applied
<1>7. s \in [pair : PairIds, until : Nat, lease : Nat]
  BY <1>1, <1>2, <1>3, <1>5, <1>6 DEF Applied
<1> QED
  BY <1>5, <1>6, <1>7 DEF Session, NoSession

LEMMA AppliedKeeps ==
  ASSUME IInv, NEW f \in Calls, call[f].at = "answered", call[f].ans.kind = "ok", f # "logout",
         SignedIn \/ f = "login",
         session' = Applied(f, call[f].ans),
         call' = [call EXCEPT ![f] = [Idle EXCEPT !.at = "saving", !.again = call[f].again,
                                                  !.rec = Applied(f, call[f].ans)]],
         UNCHANGED <<disk, tmp, phase, timer, runtime, relaunch>>,
         UNCHANGED <<serverVars, online, lost>>
  PROVE  IInv'
<1> DEFINE s == Applied(f, call[f].ans)
<1> HIDE DEF s
<1>1. /\ s \in Session /\ s # NoSession /\ s.pair \in Known
      /\ s.pair = IF f = "heartbeat" THEN session.pair ELSE call[f].ans.pair
  BY AppliedIsSession DEF s
<1>2. call \in [Calls -> Call] /\ call[f].again \in BOOLEAN
  BY DEF IInv, TypeOK, Call
<1>3. PICK c \in Call : c.at = "saving" /\ c.rec = s /\ call' = [call EXCEPT ![f] = c]
  <2>1. call' = [call EXCEPT ![f] = Saving(call[f].again, s)]
    BY DEF Saving, s
  <2>2. /\ Saving(call[f].again, s) \in Call
        /\ Saving(call[f].again, s).at = "saving" /\ Saving(call[f].again, s).rec = s
    BY <1>1, <1>2, RecordsAreCalls
  <2> QED
    BY <2>1, <2>2
<1>4. session' = s /\ Known' = Known
  BY DEF s, Known, serverVars
<1>5. TypeOK'
  BY <1>1, <1>2, <1>3, <1>4 DEF IInv, TypeOK, serverVars
<1>6. AnswersBring'
  BY <1>2, <1>3, <1>4 DEF IInv, AnswersBring, serverVars
<1>7. HeldIsKnown'
  BY <1>1, <1>2, <1>3, <1>4 DEF IInv, HeldIsKnown
<1>8. BroughtIsNew'
  <2>1. \A g \in Calls : Brings(g)' => g # f /\ Brings(g) /\ call'[g] = call[g]
    BY <1>2, <1>3 DEF Brings
  <2>2. f # "heartbeat" => Brings(f)
    BY <1>1 DEF Brings, Known, IInv, TypeOK
  <2>3. \A g \in Calls \ {f} : Brings(g) => s.pair # call[g].ans.pair
    BY <1>1, <2>2 DEF IInv, BroughtIsNew
  <2>4. call'["refresh"].at = "sent" => call'["refresh"] = call["refresh"]
    BY <1>2, <1>3 DEF Calls
  <2> QED
    BY <1>4, <2>1, <2>3, <2>4 DEF IInv, BroughtIsNew, serverVars
<1>9. MemoryKeepsUp'
  <2>1. CASE f = "heartbeat"
    <3>1. SignedIn /\ session'.pair = session.pair /\ call'["refresh"] = call["refresh"]
      BY <1>1, <1>2, <1>3, <1>4, <2>1 DEF Calls
    <3> QED
      BY <3>1 DEF IInv, MemoryKeepsUp, serverVars
  <2>2. CASE f # "heartbeat"
    <3>1. pairs[s.pair].refresh # "rotated"
      BY <1>1, <2>2 DEF IInv, BroughtIsNew, Brings, Known, TypeOK
    <3> QED
      BY <1>4, <3>1 DEF MemoryKeepsUp, serverVars
  <2> QED
    BY <2>1, <2>2
<1>10. RefreshGivesUp' /\ TimerHasSession'
  BY <1>1, <1>2, <1>3, <1>4 DEF IInv, RefreshGivesUp, TimerHasSession, SignedIn, Calls
<1> QED
  BY <1>5, <1>6, <1>7, <1>8, <1>9, <1>10 DEF IInv

LEMMA ReceiveKeeps == ASSUME IInv, NEW f \in Calls, Receive(f) PROVE IInv'
<1>1. call[f].at = "answered" /\ call[f].ans.kind \in Kinds /\ "refused" \in Kinds /\ ~Terminal("refused")
  BY DEF Receive, IInv, TypeOK, Call, Answer, Kinds, Terminal
<1>2. ASSUME NEW kind \in Kinds, Fails(f, kind), f # "logout" => kind # "ok",
             f = "refresh" /\ Brings(f) => ~SignedIn,
             f = "refresh" /\ Terminal(kind) => call[f].ans.kind # "ok"
      PROVE  IInv'
  BY <1>2, FailsIsQuiet, QuietKeeps DEF QuietStep, Receive, IInv, TypeOK
<1>3. CASE call[f].ans.kind # "ok" /\ Fails(f, call[f].ans.kind)
  <2>1. ~Brings(f)
    BY <1>1, <1>3 DEF Brings, IInv, AnswersBring
  <2> QED
    BY <1>1, <1>2, <1>3, <2>1
<1>4. CASE call[f].ans.kind = "ok" /\ f = "logout" /\ Fails(f, "ok")
  BY <1>1, <1>2, <1>4
<1>5. CASE call[f].ans.kind = "ok" /\ f # "logout" /\ ~SignedIn /\ f # "login" /\ Fails(f, "refused")
  BY <1>1, <1>2, <1>5 DEF Kinds
<1>6. CASE /\ call[f].ans.kind = "ok" /\ f # "logout" /\ (SignedIn \/ f = "login")
           /\ session' = Applied(f, call[f].ans)
           /\ call' = [call EXCEPT ![f] = [Idle EXCEPT !.at = "saving", !.again = call[f].again,
                                                       !.rec = Applied(f, call[f].ans)]]
           /\ UNCHANGED <<disk, tmp, phase, timer, runtime, relaunch>>
  BY <1>1, <1>6, AppliedKeeps DEF Receive
<1> QED
  BY <1>3, <1>4, <1>5, <1>6 DEF Receive

LEMMA RestartKeeps == ASSUME IInv, Restart PROVE IInv'
<1>1. call' \in [Calls -> Call] /\ \A f \in Calls :
        call'[f].at = "idle" \/ (f = "heartbeat" /\ disk # NoSession /\ call'[f].at = "sent" /\ call'[f].pair = disk.pair)
  <2>1. disk # NoSession => disk.pair \in 0 .. MaxPairs
    BY DEF IInv, TypeOK, Session, PairIds
  <2>2. CASE disk = NoSession
    <3>1. call' = [f \in Calls |-> Idle]
      BY <2>2 DEF Restart, Start
    <3> QED
      BY <3>1, IdleIsCall, IdleFields
  <2>3. CASE disk # NoSession
    <3>1. call' = [f \in Calls |-> IF f = "heartbeat" THEN Sent(disk.pair, FALSE) ELSE Idle]
      BY <2>3 DEF Restart, Start
    <3>2. /\ Sent(disk.pair, FALSE) \in Call
          /\ Sent(disk.pair, FALSE).at = "sent" /\ Sent(disk.pair, FALSE).pair = disk.pair
      BY <2>1, <2>3, SentIsCall
    <3> QED
      BY <2>3, <3>1, <3>2, IdleIsCall, IdleFields
  <2> QED
    BY <2>2, <2>3
<1>2. TypeOK'
  <2>1. phase' \in Phases /\ timer' \in BOOLEAN /\ runtime' \in Runtimes /\ relaunch' \in BOOLEAN
    BY DEF Restart, Start, Phases, Runtimes, OnlinePhase
  <2>2. lost' \in BOOLEAN
    BY DEF Restart, IInv, TypeOK
  <2> QED
    BY <1>1, <2>1, <2>2 DEF IInv, TypeOK, Restart, Start, serverVars
<1>3. AnswersBring' /\ BroughtIsNew' /\ RefreshGivesUp'
  BY <1>1 DEF AnswersBring, BroughtIsNew, Brings, RefreshGivesUp, Calls
<1>4. HeldIsKnown' /\ TimerHasSession'
  BY <1>1 DEF IInv, HeldIsKnown, Known, TimerHasSession, Restart, Start, serverVars
<1>5. MemoryKeepsUp'
  BY DEF MemoryKeepsUp, Restart, Start, SignedIn, serverVars
<1> QED
  BY <1>2, <1>3, <1>4, <1>5 DEF IInv

LEMMA EnvironmentKeeps == ASSUME IInv, Environment PROVE IInv'
<1>1. /\ pairs' \in [PairIds -> Pair] /\ clock' \in 0 .. MaxTime /\ until' \in 0 .. MaxTime
      /\ issued' = issued
      /\ \A p \in PairIds : pairs'[p].refresh = "rotated" => pairs[p].refresh = "rotated"
  <2>1. CASE Tick
    BY <2>1 DEF Tick, IInv, TypeOK
  <2>2. CASE AccessExpires
    <3>1. "stale" \in AccessStates
      BY DEF AccessStates
    <3> QED
      BY <2>2, <3>1 DEF AccessExpires, IInv, TypeOK, Pair
  <2>3. CASE AdminRevokes
    <3>1. "void" \in AccessStates /\ "revoked" \in RefreshStates
      BY DEF AccessStates, RefreshStates
    <3>2. issued' = issued /\ clock' = clock /\ until' \in {until, 0}
      BY <2>3 DEF AdminRevokes
    <3>3. until \in 0 .. MaxTime /\ 0 \in 0 .. MaxTime /\ clock \in 0 .. MaxTime
      BY DEF IInv, TypeOK
    <3> QED
      BY <2>3, <3>1, <3>2, <3>3 DEF AdminRevokes, IInv, TypeOK, Pair
  <2> QED
    BY <2>1, <2>2, <2>3 DEF Environment
<1>2. UNCHANGED <<clientVars, online, lost>>
  BY DEF Environment
<1>3. TypeOK'
  BY <1>1, <1>2 DEF IInv, TypeOK, clientVars
<1>4. AnswersBring' /\ HeldIsKnown' /\ RefreshGivesUp' /\ TimerHasSession'
  BY <1>1, <1>2
     DEF IInv, AnswersBring, HeldIsKnown, RefreshGivesUp, TimerHasSession, SignedIn, Known, clientVars
<1>5. BroughtIsNew'
  <2>1. \A f \in Calls : Brings(f) => call[f].ans.pair \in PairIds
    BY DEF IInv, AnswersBring, Brings, Known, PairIds, TypeOK
  <2> QED
    BY <1>1, <1>2, <2>1 DEF IInv, BroughtIsNew, Brings, SignedIn, clientVars
<1>6. MemoryKeepsUp'
  <2>1. SignedIn => session.pair \in PairIds
    BY DEF IInv, TypeOK, SignedIn, Session
  <2> QED
    BY <1>1, <1>2, <2>1 DEF IInv, MemoryKeepsUp, SignedIn, clientVars
<1> QED
  BY <1>3, <1>4, <1>5, <1>6 DEF IInv
-----------------------------------------------------------------------------
(* A request at the server.                                                 *)

\* A pair is brought where one is issued, and only the refresh replaces one.
GoodOutcome(f, o) ==
  /\ o.answer \in Answer /\ o.until \in 0 .. MaxTime /\ o.pairs \in [PairIds -> Pair]
  /\ \/ /\ f \in Bringers /\ o.answer.kind = "ok"
        /\ issued + 1 \in PairIds /\ o.answer.pair = issued + 1 /\ o.issued = issued + 1
        /\ o.pairs[issued + 1].refresh # "rotated"
     \/ /\ f \notin Bringers \/ o.answer.kind # "ok"
        /\ o.answer.pair = 0 /\ o.issued = issued
  /\ \A q \in Known : o.pairs[q].refresh = "rotated" =>
       \/ pairs[q].refresh = "rotated"
       \/ f = "refresh" /\ q = call[f].pair /\ o.answer.kind = "ok"

LEMMA RefusedIsGood ==
  ASSUME IInv, NEW f \in Calls, NEW kind \in Kinds, kind # "ok"
  PROVE  GoodOutcome(f, Refused(kind))
<1>1. Error(kind) \in Answer /\ Error(kind).kind = kind /\ Error(kind).pair = 0
  BY ErrorIsAnswer DEF Error
<1> QED
  BY <1>1 DEF GoodOutcome, Refused, IInv, TypeOK

LEMMA IssuedIsGood ==
  ASSUME IInv, NEW f \in Bringers, NEW gone, NEW device \in BOOLEAN, NEW end \in Nat,
         NEW answer \in Answer, answer.kind = "ok",
         \A q \in DOMAIN gone : gone[q] = "revoked" \/ (gone[q] = "rotated" /\ f = "refresh" /\ q = call[f].pair),
         end <= MaxTime, issued + 1 <= MaxPairs
  PROVE  GoodOutcome(f, IssueTokenPair(gone, device, end, answer))
<1> DEFINE o == IssueTokenPair(gone, device, end, answer)
<1>1. issued \in Nat /\ issued + 1 \in PairIds
  BY DEF IInv, TypeOK, PairIds
<1>2. o.answer = [answer EXCEPT !.pair = issued + 1] /\ o.until = end /\ o.issued = issued + 1
  BY DEF IssueTokenPair
<1>3. o.answer \in Answer /\ o.answer.kind = "ok" /\ o.answer.pair = issued + 1
  BY <1>1, <1>2 DEF Answer, PairIds
<1>4. {"live", "rotated", "revoked"} \subseteq RefreshStates /\ "fresh" \in AccessStates
  BY DEF RefreshStates, AccessStates
<1>5. o.pairs = [p \in PairIds |->
                   IF p = issued + 1 THEN [refresh |-> "live", access |-> "fresh", device |-> device]
                   ELSE IF p \in DOMAIN gone THEN [pairs[p] EXCEPT !.refresh = gone[p]]
                   ELSE pairs[p]]
  BY DEF IssueTokenPair
<1>6. o.pairs \in [PairIds -> Pair]
  BY <1>4, <1>5 DEF IInv, TypeOK, Pair
<1>7. o.pairs[issued + 1].refresh # "rotated"
  BY <1>1, <1>5
<1>8. \A q \in Known : o.pairs[q].refresh = "rotated" =>
        pairs[q].refresh = "rotated" \/ (f = "refresh" /\ q = call[f].pair)
  BY <1>1, <1>5 DEF Known, PairIds, IInv, TypeOK, Pair
<1> QED
  BY <1>1, <1>2, <1>3, <1>6, <1>7, <1>8 DEF GoodOutcome

LEMMA LeaseAnswer ==
  ASSUME NEW u \in Nat, NEW l \in Nat
  PROVE  LET answer == [Error("ok") EXCEPT !.until = u, !.lease = l]
         IN  answer \in Answer /\ answer.kind = "ok" /\ answer.pair = 0
<1>1. Error("ok") \in Answer /\ Error("ok").kind = "ok" /\ Error("ok").pair = 0
  BY ErrorIsAnswer DEF Error, Kinds
<1> QED
  BY <1>1 DEF Answer

LEMMA AccessIsGood ==
  ASSUME IInv, NEW f \in Calls, NEW p \in PairIds, NEW outcomes, NEW o \in Behind(p, outcomes)
  PROVE  o \in outcomes \/ GoodOutcome(f, o)
<1>1. AccessErrors(p) \subseteq Kinds \ {"ok"}
  BY DEF AccessErrors, IInv, TypeOK, Pair, AccessStates, Kinds
<1>2. CASE o \in {Refused(kind) : kind \in AccessErrors(p)}
  BY <1>1, <1>2, RefusedIsGood
<1> QED
  BY <1>2 DEF Behind

LEMMA LoginIsGood ==
  ASSUME IInv, NEW o \in LoginOutcomes, o.issued <= MaxPairs, o.until <= MaxTime
  PROVE  GoodOutcome("login", o)
<1>1. CASE o = Refused("refused")
  BY <1>1, RefusedIsGood DEF Kinds, Calls
<1> DEFINE answer == [Error("ok") EXCEPT !.until = until]
<1>2. CASE o = IssueTokenPair(<<>>, until # 0, until, answer)
  <2>1. until \in Nat /\ "ok" \in Kinds /\ "login" \in Bringers /\ DOMAIN << >> = {}
    BY DEF IInv, TypeOK, Kinds, Bringers
  <2>2. answer \in Answer /\ answer.kind = "ok"
    BY <2>1, ErrorIsAnswer DEF Answer, Error
  <2>3. issued + 1 <= MaxPairs /\ until <= MaxTime
    BY <1>2 DEF IssueTokenPair, IInv, TypeOK
  <2> QED
    BY <1>2, <2>1, <2>2, <2>3, IssuedIsGood DEF Bringers, Calls
<1> QED
  BY <1>1, <1>2 DEF LoginOutcomes

LEMMA RefreshIsGood ==
  ASSUME IInv, call["refresh"].pair \in PairIds, NEW o \in RefreshOutcomes(call["refresh"].pair),
         o.issued <= MaxPairs, o.until <= MaxTime
  PROVE  GoodOutcome("refresh", o)
<1> DEFINE p == call["refresh"].pair
           gone == [q \in {p} |-> "rotated"]
<1>1. CASE o = Refused("unauthorized")
  BY <1>1, RefusedIsGood DEF Kinds, Calls
<1>2. CASE o = IssueTokenPair(gone, pairs[p].device, until, Error("ok"))
  <2>1. until \in Nat /\ "ok" \in Kinds /\ "refresh" \in Bringers /\ pairs[p].device \in BOOLEAN
    BY DEF IInv, TypeOK, Kinds, Bringers, Pair
  <2>2. Error("ok") \in Answer /\ Error("ok").kind = "ok"
    BY <2>1, ErrorIsAnswer DEF Error
  <2>3. issued + 1 <= MaxPairs /\ until <= MaxTime
    BY <1>2 DEF IssueTokenPair, IInv, TypeOK
  <2>4. \A q \in DOMAIN gone : gone[q] = "rotated" /\ q = p
    OBVIOUS
  <2> QED
    BY <1>2, <2>1, <2>2, <2>3, <2>4, IssuedIsGood
<1> QED
  BY <1>1, <1>2 DEF RefreshOutcomes

LEMMA HeartbeatIsGood ==
  ASSUME IInv, call["heartbeat"].pair \in PairIds, NEW o \in HeartbeatOutcomes(call["heartbeat"].pair)
  PROVE  GoodOutcome("heartbeat", o)
<1> DEFINE good == [Refused("ok") EXCEPT !.answer.until = until, !.answer.lease = OfflineUntil(until)]
<1>1. GoodOutcome("heartbeat", good)
  <2>1. until \in Nat /\ OfflineUntil(until) \in Nat
    BY DEF IInv, TypeOK, OfflineUntil, Earlier
  <2>2. /\ good.answer = [Error("ok") EXCEPT !.until = until, !.lease = OfflineUntil(until)]
        /\ good.until = until /\ good.issued = issued /\ good.pairs = pairs
    BY DEF Refused
  <2>3. good.answer \in Answer /\ good.answer.pair = 0
    BY <2>1, <2>2, LeaseAnswer
  <2> QED
    BY <2>2, <2>3 DEF GoodOutcome, Bringers, IInv, TypeOK
<1>2. GoodOutcome("heartbeat", Refused("forbidden"))
  BY RefusedIsGood DEF Kinds, Calls
<1>3. o \in Behind(call["heartbeat"].pair, {Refused("forbidden")}) \/ o \in Behind(call["heartbeat"].pair, {good})
  BY DEF HeartbeatOutcomes
<1>4. "heartbeat" \in Calls
  BY DEF Calls
<1> QED
  BY <1>1, <1>2, <1>3, <1>4, AccessIsGood

LEMMA RedeemIsGood ==
  ASSUME IInv, call["redeem"].pair \in PairIds, NEW o \in RedeemOutcomes(call["redeem"].pair),
         o.issued <= MaxPairs, o.until <= MaxTime
  PROVE  GoodOutcome("redeem", o)
<1> DEFINE end == Later(until, clock) + Term
           unbound == {q \in PairIds : pairs[q].refresh = "live" /\ ~pairs[q].device}
           gone == [q \in unbound |-> "revoked"]
           answer == [Error("ok") EXCEPT !.until = end, !.lease = OfflineUntil(end)]
           good == IssueTokenPair(gone, TRUE, end, answer)
<1>1. o \in {Refused("refused"), good} \/ GoodOutcome("redeem", o)
  BY AccessIsGood DEF RedeemOutcomes, Calls
<1>2. CASE o = Refused("refused")
  BY <1>2, RefusedIsGood DEF Kinds, Calls
<1>3. CASE o = good
  <2>1. end \in Nat /\ OfflineUntil(end) \in Nat
    BY DEF IInv, TypeOK, OfflineUntil, Earlier, Later
  <2>2. answer \in Answer /\ answer.kind = "ok"
    BY <2>1, LeaseAnswer
  <2>3. issued + 1 <= MaxPairs /\ end <= MaxTime
    BY <1>3 DEF IssueTokenPair
  <2>4. \A q \in DOMAIN gone : gone[q] = "revoked"
    OBVIOUS
  <2>5. "redeem" \in Bringers
    BY DEF Bringers
  <2> HIDE DEF end, gone, answer
  <2> QED
    BY <1>3, <2>1, <2>2, <2>3, <2>4, <2>5, IssuedIsGood
<1> QED
  BY <1>1, <1>2, <1>3

LEMMA LogoutIsGood ==
  ASSUME IInv, call["logout"].pair \in PairIds, NEW o \in LogoutOutcomes(call["logout"].pair)
  PROVE  GoodOutcome("logout", o)
<1> DEFINE p == call["logout"].pair
           good == [Refused("ok") EXCEPT !.pairs[p].refresh = IF @ = "live" THEN "revoked" ELSE @]
<1>1. GoodOutcome("logout", good)
  <2>1. /\ good.answer = Error("ok") /\ good.until = until /\ good.issued = issued
        /\ good.pairs = [pairs EXCEPT ![p].refresh = IF @ = "live" THEN "revoked" ELSE @]
    BY DEF Refused
  <2>2. good.answer \in Answer /\ good.answer.pair = 0
    BY <2>1, ErrorIsAnswer DEF Error, Kinds
  <2> DEFINE r == [pairs[p] EXCEPT !.refresh = IF pairs[p].refresh = "live" THEN "revoked" ELSE pairs[p].refresh]
  <2>5. pairs \in [PairIds -> Pair] /\ pairs[p] \in Pair
    BY DEF IInv, TypeOK
  <2>6. r \in Pair /\ (r.refresh = "rotated" => pairs[p].refresh = "rotated")
    BY <2>5 DEF Pair, RefreshStates
  <2>7. good.pairs = [pairs EXCEPT ![p] = r]
    BY <2>1
  <2> HIDE DEF r, good
  <2>3. good.pairs \in [PairIds -> Pair]
    BY <2>5, <2>6, <2>7
  <2>4. \A q \in PairIds : good.pairs[q].refresh = "rotated" => pairs[q].refresh = "rotated"
    BY <2>5, <2>6, <2>7
  <2> QED
    BY <2>1, <2>2, <2>3, <2>4 DEF GoodOutcome, Bringers, Known, PairIds, IInv, TypeOK
<1>2. "logout" \in Calls
  BY DEF Calls
<1> QED
  BY <1>1, <1>2, AccessIsGood DEF LogoutOutcomes

LEMMA ServeKeeps == ASSUME IInv, NEW f \in Calls, Serve(f) PROVE IInv'
<1>1. PICK o \in Bounded(Outcomes(f)) :
        /\ Commit(o)
        /\ \/ Answered(f, o.answer) /\ UNCHANGED lost
           \/ /\ o.answer.kind = "ok" /\ Answered(f, Error("offline"))
              /\ lost' = (lost \/ o.answer.pair # 0)
  BY DEF Serve
<1>2. f # "login" => call[f].pair \in Known /\ call[f].pair \in PairIds
  BY DEF Serve, IInv, HeldIsKnown, Known, PairIds, TypeOK
<1>3. GoodOutcome(f, o)
  BY <1>1, <1>2, LoginIsGood, RefreshIsGood, HeartbeatIsGood, RedeemIsGood, LogoutIsGood
     DEF Bounded, Outcomes, Calls
<1>4. /\ call \in [Calls -> Call] /\ call[f].at = "sent"
      /\ UNCHANGED <<session, disk, tmp, phase, timer, runtime, relaunch, online, clock>>
      /\ pairs' = o.pairs /\ issued' = o.issued /\ until' = o.until
  BY <1>1 DEF Serve, IInv, TypeOK, Commit
<1>5. PICK a \in Answer : /\ call' = [call EXCEPT ![f].at = "answered", ![f].ans = a]
                          /\ \/ a = o.answer /\ lost' = lost
                             \/ a = Error("offline") /\ lost' = (lost \/ o.answer.pair # 0) /\ o.answer.kind = "ok"
  <2>1. Error("offline") \in Answer /\ o.answer \in Answer
    BY <1>3, ErrorIsAnswer DEF GoodOutcome, Kinds
  <2> QED
    BY <1>1, <2>1 DEF Answered
<1>6. PICK c \in Call : c.at = "answered" /\ c.ans = a /\ call' = [call EXCEPT ![f] = c]
  <2> DEFINE c == [call[f] EXCEPT !.at = "answered", !.ans = a]
  <2>1. "answered" \in Points /\ call[f] \in Call
    BY <1>4 DEF Points
  <2>2. c \in Call /\ c.at = "answered" /\ c.ans = a
    BY <2>1 DEF Call
  <2>3. call' = [call EXCEPT ![f] = c]
    BY <1>4, <1>5
  <2> QED
    BY <2>2, <2>3
<1>7. Error("offline").pair = 0 /\ Error("offline").kind # "ok"
  BY DEF Error
<1>8. issued \in Nat /\ issued' \in issued .. MaxPairs /\ Known \subseteq Known' /\ Known \subseteq PairIds
  BY <1>3, <1>4 DEF GoodOutcome, Known, PairIds, IInv, TypeOK
<1>9. TypeOK'
  <2>0. lost \in BOOLEAN /\ issued \in Nat
    BY DEF IInv, TypeOK
  <2>1. call' \in [Calls -> Call] /\ lost' \in BOOLEAN /\ issued' \in 0 .. MaxPairs
    <3>1. call' \in [Calls -> Call]
      BY <1>4, <1>6
    <3>2. lost' \in BOOLEAN
      BY <1>5, <2>0
    <3>3. issued' \in 0 .. MaxPairs
      BY <1>8
    <3> QED
      BY <3>1, <3>2, <3>3
  <2>2. until' \in 0 .. MaxTime /\ pairs' \in [PairIds -> Pair]
    BY <1>3, <1>4 DEF GoodOutcome
  <2> QED
    BY <1>4, <2>1, <2>2 DEF IInv, TypeOK
<1>10. AnswersBring'
  <2>1. IF f \in Bringers /\ a.kind = "ok" THEN a.pair \in Known' ELSE a.pair = 0
    BY <1>3, <1>4, <1>5, <1>7, <1>8 DEF GoodOutcome, Known
  <2> QED
    BY <1>4, <1>6, <1>8, <2>1 DEF IInv, AnswersBring
<1>11. HeldIsKnown'
  BY <1>4, <1>6, <1>8 DEF IInv, HeldIsKnown
<1>12. \A g \in Calls \ {f} : call'[g] = call[g] /\ (Brings(g)' <=> Brings(g))
  BY <1>4, <1>6 DEF Brings
<1>13. \A q \in Known : pairs'[q].refresh = "rotated" =>
         pairs[q].refresh = "rotated" \/ (f = "refresh" /\ q = call["refresh"].pair)
  BY <1>3, <1>4 DEF GoodOutcome
<1>14. BroughtIsNew'
  <2>1. \A g \in Calls : Brings(g) => call[g].ans.pair \in Known
    BY DEF IInv, AnswersBring, Brings
  <2>2. Brings(f)' => a.pair = issued + 1 /\ a.pair \notin Known /\ pairs'[a.pair].refresh # "rotated"
    BY <1>3, <1>4, <1>5, <1>6, <1>7, <1>8 DEF GoodOutcome, Brings, Known
  <2>3. \A g \in Calls \ {f} : Brings(g) => pairs'[call[g].ans.pair].refresh # "rotated"
    BY <1>4, <1>13, <2>1 DEF IInv, BroughtIsNew
  <2>4. SignedIn => session.pair \in Known
    BY DEF IInv, HeldIsKnown, SignedIn
  <2>5. call'["refresh"].at = "sent" => call'["refresh"] = call["refresh"] /\ call["refresh"].pair \in Known
    BY <1>4, <1>6 DEF IInv, HeldIsKnown, Calls
  <2>6. ASSUME NEW g \in Calls, Brings(g)'
        PROVE  /\ pairs'[call'[g].ans.pair].refresh # "rotated"
               /\ SignedIn' => session'.pair # call'[g].ans.pair
               /\ call'["refresh"].at = "sent" => call'["refresh"].pair # call'[g].ans.pair
               /\ \A h \in Calls \ {g} : Brings(h)' => call'[h].ans.pair # call'[g].ans.pair
    <3>1. CASE g = f
      BY <1>4, <1>6, <1>12, <2>1, <2>2, <2>4, <2>5, <2>6, <3>1 DEF SignedIn
    <3>2. CASE g # f
      BY <1>4, <1>6, <1>12, <2>1, <2>2, <2>3, <2>5, <2>6, <3>2 DEF SignedIn, IInv, BroughtIsNew
    <3> QED
      BY <3>1, <3>2
  <2> QED
    BY <2>6 DEF BroughtIsNew
<1>15. MemoryKeepsUp'
  <2>1. SUFFICES ASSUME SignedIn, pairs'[session.pair].refresh = "rotated"
                 PROVE  lost' \/ (call'["refresh"].at = "answered" /\ call'["refresh"].ans.pair # 0)
    BY <1>4 DEF MemoryKeepsUp, SignedIn
  <2>2. session.pair \in Known
    BY <2>1 DEF IInv, HeldIsKnown, SignedIn
  <2>3. CASE pairs[session.pair].refresh = "rotated"
    BY <1>4, <1>5, <1>12, <2>1, <2>3 DEF IInv, MemoryKeepsUp, Calls
  <2>4. CASE pairs[session.pair].refresh # "rotated"
    <3>1. f = "refresh" /\ o.answer.kind = "ok"
      BY <1>3, <1>4, <2>1, <2>2, <2>4 DEF GoodOutcome
    <3>2. o.answer.pair # 0
      BY <1>3, <1>8, <3>1 DEF GoodOutcome, Bringers
    <3> QED
      BY <1>4, <1>5, <1>6, <3>1, <3>2
  <2> QED
    BY <2>3, <2>4
<1>16. RefreshGivesUp' /\ TimerHasSession'
  BY <1>4, <1>6 DEF IInv, RefreshGivesUp, TimerHasSession, SignedIn, Calls
<1> QED
  BY <1>9, <1>10, <1>11, <1>14, <1>15, <1>16 DEF IInv
-----------------------------------------------------------------------------
(* The invariant of the specification, and what follows from it. *)

LEMMA InitHolds == Init => IInv
<1> SUFFICES ASSUME Init PROVE IInv
  OBVIOUS
<1>1. 1 \in PairIds /\ 1 \in 0 .. MaxPairs /\ 0 \in 0 .. MaxPairs
  BY DEF PairIds
<1>2. /\ clock \in 0 .. MaxTime /\ until \in 0 .. MaxTime /\ issued \in 0 .. MaxPairs
      /\ pairs \in [PairIds -> Pair]
  <2>1. NoPair \in Pair
    BY DEF NoPair, Pair, RefreshStates, AccessStates
  <2>2. [refresh |-> "live", access |-> "fresh", device |-> TRUE] \in Pair
    BY DEF Pair, RefreshStates, AccessStates
  <2>3. 0 \in 0 .. MaxTime /\ Term \in 0 .. MaxTime
    OBVIOUS
  <2> QED
    BY <1>1, <2>1, <2>2, <2>3 DEF Init
<1>3. disk \in Session /\ (disk # NoSession => disk.pair \in Known)
  <2>1. Term \in Nat /\ OfflineUntil(Term) \in Nat
    BY <1>2 DEF OfflineUntil, Earlier
  <2>2. issued = 1 => 1 \in Known
    BY DEF Known
  <2>3. disk = NoSession \/ (issued = 1 /\ disk = [pair |-> 1, until |-> Term, lease |-> OfflineUntil(Term)])
    BY DEF Init
  <2> QED
    BY <1>1, <2>1, <2>2, <2>3, NoSessionIsSession DEF Session
<1>4. /\ call \in [Calls -> Call]
      /\ \A f \in Calls : call[f].at = "idle" \/ (f = "heartbeat" /\ call[f].at = "sent" /\ call[f].pair \in Known)
  <2>1. CASE call = [f \in Calls |-> Idle]
    BY <2>1, IdleIsCall, IdleFields
  <2>2. CASE issued = 1 /\ call = [f \in Calls |-> IF f = "heartbeat" THEN Sent(1, FALSE) ELSE Idle]
    <3>1. Sent(1, FALSE) \in Call /\ Sent(1, FALSE).at = "sent" /\ Sent(1, FALSE).pair = 1
      BY <1>1, SentIsCall
    <3>2. 1 \in Known
      BY <2>2 DEF Known
    <3> QED
      BY <2>2, <3>1, <3>2, IdleIsCall, IdleFields
  <2> QED
    BY <2>1, <2>2 DEF Init
<1>5. TypeOK
  BY <1>2, <1>3, <1>4, NoSessionIsSession DEF Init, TypeOK, Phases, Runtimes
<1>6. AnswersBring /\ BroughtIsNew /\ RefreshGivesUp
  BY <1>4 DEF AnswersBring, BroughtIsNew, Brings, RefreshGivesUp, Calls
<1>7. HeldIsKnown /\ TimerHasSession
  BY <1>3, <1>4 DEF Init, HeldIsKnown, TimerHasSession
<1>8. MemoryKeepsUp
  <2>1. CASE disk = NoSession
    BY <2>1 DEF Init, MemoryKeepsUp, SignedIn
  <2>2. CASE disk # NoSession
    <3>1. /\ session = [pair |-> 1, until |-> Term, lease |-> OfflineUntil(Term)]
          /\ pairs = [p \in PairIds |->
               IF p = 1 THEN [refresh |-> "live", access |-> "fresh", device |-> TRUE] ELSE NoPair]
      BY <2>2 DEF Init
    <3>2. session.pair = 1 /\ pairs[1].refresh = "live"
      BY <1>1, <3>1
    <3> QED
      BY <3>2 DEF MemoryKeepsUp
  <2> QED
    BY <2>1, <2>2
<1> QED
  BY <1>5, <1>6, <1>7, <1>8 DEF IInv

LEMMA StepKeeps == IInv /\ [Next]_vars => IInv'
<1> SUFFICES ASSUME IInv, [Next]_vars PROVE IInv'
  OBVIOUS
<1>1. ASSUME NEW f \in Calls, Step(f) PROVE IInv'
  BY <1>1, ServeKeeps, TimesOutKeeps, ReceiveKeeps, SaveKeeps, RenameKeeps, SaveFailsKeeps, SavedKeeps,
     ClearedKeeps, ClearFailsKeeps DEF Step
<1>2. ASSUME Login \/ Redeem \/ CatalogRefresh \/ Logout PROVE IInv'
  BY <1>2, RequestsKeep
<1>3. ASSUME TimerFires \/ RuntimeStarted \/ Restart \/ Network \/ Environment PROVE IInv'
  BY <1>3, TimerKeeps, OthersKeep, RestartKeeps, EnvironmentKeeps
<1>4. CASE UNCHANGED vars
  BY <1>4 DEF vars, serverVars, clientVars, IInv, TypeOK, AnswersBring, HeldIsKnown, BroughtIsNew, Brings,
     RefreshGivesUp, TimerHasSession, MemoryKeepsUp, SignedIn, Known
<1> QED
  BY <1>1, <1>2, <1>3, <1>4 DEF Next

LEMMA LicenceInvariant == Spec => []IInv
<1>1. Init => IInv
  BY InitHolds
<1>2. IInv /\ [Next]_vars => IInv'
  BY StepKeeps
<1> QED
  BY <1>1, <1>2, PTL DEF Spec

\* The fields of LicenseController and of its calls keep their types; a record that
\* is kept always has its tokens, as LicenseSessionRecord demands.
THEOREM LicenceTypes == Spec => []TypeOK
<1>1. IInv => TypeOK
  BY DEF IInv
<1> QED
  BY <1>1, LicenceInvariant, PTL

\* The refresh token in memory is never one that performRefresh has had replaced,
\* unless the replacement is still on its way or an answer was lost, however many
\* calls are in flight and in whatever order applyOnlinePayload takes their answers.
THEOREM LicenceMemoryKeepsUp == Spec => []MemoryKeepsUp
<1>1. IInv => MemoryKeepsUp
  BY DEF IInv
<1> QED
  BY <1>1, LicenceInvariant, PTL
-----------------------------------------------------------------------------
(* The watch of the licence and the report of its loss, for any number of    *)
(* calls in flight.  While the file is being removed a new session may come, *)
(* and the removal goes on; that is what the invariant Unreported is about.  *)

Clears(f) == call[f].at = "clearing"
Reports(f) == Clears(f) /\ call[f].was

\* A removal that began without a licence will report nothing: in an authorized
\* application there is then a new session, or another removal that reports.
Unreported ==
  \A f \in Calls : Clears(f) /\ ~call[f].was /\ Authorized(phase) =>
    SignedIn \/ \E g \in Calls : Reports(g)

SameRemovals(F) == \A f \in F : Clears(f) \/ Clears(f)' => call'[f] = call[f]

\* What a step comes to.  It goes on under the licence it finds, and what watches
\* the licence stays or is scheduled anew;
GoesOn ==
  /\ SameRemovals(Calls)
  /\ SignedIn' \/ UNCHANGED <<session, phase>>
  /\ phase' = phase \/ phase' \in {"authorized", "offline_grace", "activation_required"}
  /\ \/ Authorized(phase') /\ SignedIn' => timer'
     \/ /\ timer => timer' \/ InFlight("heartbeat")'
        /\ relaunch => relaunch'
        /\ InFlight("heartbeat") => InFlight("heartbeat")'

\* or the session is given up, by a call that knows whether it was authorized;
GivesUp ==
  /\ ~SignedIn' /\ phase' = phase
  /\ \E f \in Calls : /\ Clears(f)' /\ call'[f].was = Authorized(phase)
                      /\ SameRemovals(Calls \ {f})

\* or the licence is lost, and reported if nothing else is to come;
Ends ==
  /\ ~Authorized(phase') /\ session' = session
  /\ \A f \in Calls : Clears(f)' => call'[f] = call[f]
  /\ Authorized(phase) /\ runtime' = "on" =>
       /\ \E f \in Calls : Clears(f) /\ ~call[f].was
       /\ SignedIn' \/ \E g \in Calls : Reports(g)'

\* or the process starts anew.
Starts ==
  /\ \A f \in Calls : ~Clears(f)'
  /\ Authorized(phase') => InFlight("heartbeat")'
  /\ phase' \in {"restricted", "signed_out"} => runtime' # "on"

Sorted == GoesOn \/ GivesUp \/ Ends \/ Starts

\* The end of a heartbeat disturbs no removal, and starts no services at once.
LEMMA SettledSame ==
  ASSUME TypeOK, NEW after, Settled(after), ~Clears("heartbeat")
  PROVE  SameRemovals(Calls) /\ (after # "on" => runtime' # "on")
<1>1. call \in [Calls -> Call]
  BY DEF TypeOK
<1>2. SameRemovals(Calls)
  BY <1>1, IdleFields DEF Settled, SameRemovals, Clears, Calls
<1>3. after # "on" => runtime' # "on"
  BY DEF Settled
<1> QED
  BY <1>2, <1>3

LEMMA NotifiedIsOff == Notified(TRUE) # "on"
  BY DEF Notified

LEMMA OfflineSorted ==
  ASSUME TypeOK, OfflineOrRestrict, ~Clears("heartbeat")
  PROVE  Sorted
<1>1. CASE SignedIn /\ phase' = "offline_grace" /\ Settled(runtime)
  <2>1. SameRemovals(Calls) /\ session' = session
    BY <1>1, SettledSame DEF OfflineOrRestrict
  <2>2. Authorized(phase') /\ SignedIn' => timer'
    BY DEF OfflineOrRestrict, Schedule, SignedIn
  <2> QED
    BY <1>1, <2>1, <2>2 DEF Sorted, GoesOn, SignedIn
<1>2. CASE phase' = "restricted" /\ Settled(Notified(Authorized(phase)))
  <2>1. Authorized(phase) => runtime' # "on"
    <3>1. Authorized(phase) => Notified(Authorized(phase)) # "on"
      BY NotifiedIsOff DEF Authorized
    <3> QED
      BY <1>2, <3>1, SettledSame
  <2>2. session' = session /\ SameRemovals(Calls)
    BY <1>2, SettledSame DEF OfflineOrRestrict
  <2> QED
    BY <1>2, <2>1, <2>2 DEF Sorted, Ends, Authorized, SameRemovals
<1> QED
  BY <1>1, <1>2 DEF OfflineOrRestrict

LEMMA InvalidateSorted ==
  ASSUME TypeOK, NEW f \in Calls, Invalidate(f)
  PROVE  Sorted
<1>1. call \in [Calls -> Call] /\ call[f].ans \in Answer /\ Authorized(phase) \in BOOLEAN
  BY DEF TypeOK, Call, Authorized
<1>2. call' = [call EXCEPT ![f] = Clearing(call[f].ans, Authorized(phase))]
  BY DEF Invalidate, Clearing
<1>3. /\ Clearing(call[f].ans, Authorized(phase)).at = "clearing"
      /\ Clearing(call[f].ans, Authorized(phase)).was = Authorized(phase)
  BY <1>1, IdleIsCall DEF Clearing, Call
<1>4. Clears(f)' /\ call'[f].was = Authorized(phase) /\ SameRemovals(Calls \ {f})
  BY <1>1, <1>2, <1>3 DEF Clears, SameRemovals
<1> QED
  BY <1>4 DEF Sorted, GivesUp, Invalidate, SignedIn

\* A step that leaves session, phase and relaunch alone and disturbs no removal.
LEMMA CallsSorted ==
  ASSUME SameRemovals(Calls), UNCHANGED <<session, phase, relaunch>>,
         timer => timer' \/ InFlight("heartbeat")',
         InFlight("heartbeat") => InFlight("heartbeat")'
  PROVE  Sorted
  BY DEF Sorted, GoesOn

LEMMA RefreshFailsSame ==
  ASSUME TypeOK, NEW kind \in Kinds, RefreshFails(kind)
  PROVE  /\ SameRemovals(Calls \ {"refresh"}) /\ (~Clears("refresh") => SameRemovals(Calls))
         /\ InFlight("heartbeat") => InFlight("heartbeat")'
<1>1. call \in [Calls -> Call] /\ {"heartbeat", "refresh"} \subseteq Calls
  BY DEF TypeOK, Calls
<1>2. /\ call'["refresh"] = Idle
      /\ call'["heartbeat"] = call["heartbeat"]
         \/ (call["heartbeat"].at = "waiting" /\ call'["heartbeat"].at = "answered")
      /\ \A g \in Calls \ {"refresh", "heartbeat"} : call'[g] = call[g]
  <2> DEFINE m == Meets(call["heartbeat"], kind)
  <2>1. m.at = "answered"
    BY <1>1, RecordsAreCalls
  <2>2. call' = [call EXCEPT !["refresh"] = Idle,
                             !["heartbeat"] = IF call["heartbeat"].at = "waiting" THEN m ELSE call["heartbeat"]]
    BY <1>1 DEF RefreshFails, Meets
  <2> HIDE DEF m
  <2> QED
    BY <1>1, <2>1, <2>2
<1> QED
  BY <1>1, <1>2, IdleFields DEF SameRemovals, Clears, InFlight

LEMMA HeartbeatFailsSorted ==
  ASSUME TypeOK, NEW kind \in Kinds, HeartbeatFails(kind), ~Clears("heartbeat")
  PROVE  Sorted
<1>1. call \in [Calls -> Call] /\ {"heartbeat", "refresh"} \subseteq Calls
  BY DEF TypeOK, Calls
<1>2. CASE /\ SignedIn \/ InFlight("refresh")
           /\ call' = [call EXCEPT
                         !["heartbeat"] = [Idle EXCEPT !.at = "waiting"],
                         !["refresh"] = IF InFlight("refresh") THEN @ ELSE Sent(session.pair, FALSE)]
           /\ UNCHANGED <<session, disk, tmp, phase, timer, runtime, relaunch>>
  <2>1. Waiting.at = "waiting"
    BY RecordsAreCalls
  <2>2. SignedIn => session.pair \in 0 .. MaxPairs
    BY DEF SignedIn, TypeOK, Session, PairIds
  <2>3. PICK c : /\ c = call["refresh"] \/ (~InFlight("refresh") /\ c.at = "sent")
                 /\ call' = [call EXCEPT !["heartbeat"] = Waiting, !["refresh"] = c]
    BY <1>1, <1>2, <2>2, SentIsCall DEF Waiting
  <2>4. SameRemovals(Calls) /\ InFlight("heartbeat")'
    BY <1>1, <2>1, <2>3 DEF SameRemovals, Clears, InFlight
  <2> QED
    BY <1>2, <2>4, CallsSorted
<1>3. CASE OfflineOrRestrict
  BY <1>3, OfflineSorted
<1>4. CASE Invalidate("heartbeat")
  BY <1>1, <1>4, InvalidateSorted
<1>5. CASE UNCHANGED <<session, disk, tmp, phase>> /\ Settled(runtime) /\ Schedule
  <2>1. SameRemovals(Calls)
    BY <1>5, SettledSame
  <2>2. Authorized(phase') /\ SignedIn' => timer'
    BY <1>5 DEF Schedule, SignedIn
  <2> QED
    BY <1>5, <2>1, <2>2 DEF Sorted, GoesOn
<1> QED
  BY <1>2, <1>3, <1>4, <1>5 DEF HeartbeatFails

LEMMA FailsSorted ==
  ASSUME TypeOK, NEW f \in Calls, NEW kind \in Kinds, Fails(f, kind), ~Clears(f)
  PROVE  Sorted
<1>1. CASE f = "heartbeat"
  BY <1>1, HeartbeatFailsSorted DEF Fails
<1>2. CASE f = "refresh"
  <2>1. CASE Invalidate(f)
    BY <2>1, InvalidateSorted
  <2>2. CASE RefreshFails(kind) /\ UNCHANGED <<session, disk, tmp, phase, timer, runtime, relaunch>>
    BY <1>2, <2>2, RefreshFailsSame, CallsSorted
  <2> QED
    BY <1>2, <2>1, <2>2 DEF Fails
<1>3. CASE f \in {"redeem", "login"}
  <2>1. call' = [call EXCEPT ![f] = Idle] /\ UNCHANGED <<session, disk, tmp, phase, timer, runtime, relaunch>>
    BY <1>3 DEF Fails, Return
  <2>2. SameRemovals(Calls) /\ (InFlight("heartbeat") => InFlight("heartbeat")')
    BY <1>3, <2>1, IdleFields DEF TypeOK, SameRemovals, Clears, InFlight, Calls
  <2> QED
    BY <2>1, <2>2, CallsSorted
<1>4. CASE f = "logout"
  BY <1>4, InvalidateSorted DEF Fails
<1> QED
  BY <1>1, <1>2, <1>3, <1>4 DEF Calls

\* One call moves on and gives nothing up.
LEMMA MoveSorted ==
  ASSUME TypeOK, NEW f \in Calls, ~Clears(f), NEW c, call' = [call EXCEPT ![f] = c],
         c.at # "clearing", c.at # "idle", UNCHANGED <<session, phase, timer, relaunch>>
  PROVE  Sorted
<1>1. SameRemovals(Calls) /\ (InFlight("heartbeat") => InFlight("heartbeat")')
  BY DEF TypeOK, SameRemovals, Clears, InFlight, Calls
<1> QED
  BY <1>1, CallsSorted

LEMMA ServeSorted == ASSUME TypeOK, NEW f \in Calls, Serve(f) PROVE Sorted
<1>1. PICK a : call' = [call EXCEPT ![f].at = "answered", ![f].ans = a]
  BY DEF Serve, Answered
<1> DEFINE c == [call[f] EXCEPT !.at = "answered", !.ans = a]
<1>2. call' = [call EXCEPT ![f] = c] /\ c.at = "answered"
  BY <1>1 DEF TypeOK, Call
<1> HIDE DEF c
<1> QED
  BY <1>2, MoveSorted DEF Serve, Clears

LEMMA TimesOutSorted == ASSUME TypeOK, NEW f \in Calls, TimesOut(f) PROVE Sorted
  BY FailsSorted DEF TimesOut, Clears, Kinds

LEMMA ReceiveSorted == ASSUME IInv, NEW f \in Calls, Receive(f) PROVE Sorted
<1> DEFINE a == call[f].ans
           s == Applied(f, a)
<1>1. TypeOK /\ a \in Answer /\ ~Clears(f) /\ call[f].again \in BOOLEAN
  BY DEF IInv, TypeOK, Call, Receive, Clears
<1>2. ASSUME NEW kind \in Kinds, Fails(f, kind) PROVE Sorted
  BY <1>1, <1>2, FailsSorted
<1>3. a.kind \in Kinds /\ "ok" \in Kinds /\ "refused" \in Kinds
  BY <1>1 DEF Answer, Kinds
<1>4. CASE /\ a.kind = "ok" /\ f # "logout" /\ (SignedIn \/ f = "login")
           /\ session' = s
           /\ call' = [call EXCEPT ![f] = [Idle EXCEPT !.at = "saving", !.again = call[f].again, !.rec = s]]
           /\ UNCHANGED <<disk, tmp, phase, timer, runtime, relaunch>>
  <2>1. s \in Session /\ s # NoSession
    BY <1>4, AppliedIsSession DEF Receive
  <2>2. call' = [call EXCEPT ![f] = Saving(call[f].again, s)]
    BY <1>4 DEF Saving
  <2>3. Saving(call[f].again, s).at = "saving"
    BY <1>1, <2>1, RecordsAreCalls
  <2>4. SameRemovals(Calls) /\ (InFlight("heartbeat") => InFlight("heartbeat")')
    BY <1>1, <2>2, <2>3 DEF TypeOK, SameRemovals, Clears, InFlight, Calls
  <2> QED
    BY <1>4, <2>1, <2>4 DEF Sorted, GoesOn, SignedIn
<1> QED
  BY <1>2, <1>3, <1>4 DEF Receive

LEMMA SaveSorted == ASSUME TypeOK, NEW f \in Calls, Save(f) \/ Rename(f) PROVE Sorted
<1>1. PICK p \in {"renaming", "saved"} : call' = [call EXCEPT ![f].at = p]
  BY DEF Save, Rename
<1>2. call' = [call EXCEPT ![f] = At(call[f], p)] /\ At(call[f], p).at = p
  <2>1. call' = [call EXCEPT ![f] = At(call[f], p)]
    BY <1>1 DEF At
  <2>2. p \in Points /\ call[f] \in Call
    BY DEF Points, TypeOK
  <2> QED
    BY <2>1, <2>2, RecordsAreCalls
<1> QED
  BY <1>2, MoveSorted DEF Save, Rename, Clears

LEMMA SaveFailsSorted == ASSUME TypeOK, NEW f \in Calls, SaveFails(f) PROVE Sorted
  BY FailsSorted DEF SaveFails, Clears, Kinds

LEMMA SavedSorted == ASSUME TypeOK, NEW f \in Calls, Saved(f) PROVE Sorted
<1>1. call \in [Calls -> Call] /\ ~Clears(f) /\ {"heartbeat", "refresh", "redeem"} \subseteq Calls
  BY DEF TypeOK, Saved, Clears, Calls
<1>2. CASE Fails(f, "refused")
  BY <1>1, <1>2, FailsSorted DEF Kinds
<1>3. CASE SignedIn /\ phase' = OnlinePhase(session) /\ UNCHANGED <<session, disk, tmp>>
  <2>1. phase' \in {"authorized", "activation_required"} /\ SignedIn'
    BY <1>3 DEF OnlinePhase, SignedIn
  <2> SUFFICES /\ SameRemovals(Calls)
               /\ \/ Authorized(phase') /\ SignedIn' => timer'
                  \/ /\ timer => timer' \/ InFlight("heartbeat")'
                     /\ relaunch => relaunch'
                     /\ InFlight("heartbeat") => InFlight("heartbeat")'
    BY <2>1 DEF Sorted, GoesOn
  <2>2. CASE f = "heartbeat" /\ Settled(runtime) /\ Schedule
    <3>1. Authorized(phase') /\ SignedIn' => timer'
      BY <2>2 DEF Schedule, SignedIn
    <3> QED
      BY <1>1, <2>2, <3>1, SettledSame
  <2>3. session.pair \in 0 .. MaxPairs
    BY <1>3 DEF SignedIn, TypeOK, Session, PairIds
  <2>4. CASE /\ f = "refresh"
             /\ call' = [call EXCEPT !["refresh"] = Idle,
                  !["heartbeat"] = IF @.at = "waiting" THEN Sent(session.pair, TRUE) ELSE @]
             /\ UNCHANGED <<timer, runtime, relaunch>>
    <3>1. Sent(session.pair, TRUE).at = "sent"
      BY <2>3, SentIsCall
    <3>2. SameRemovals(Calls) /\ (InFlight("heartbeat") => InFlight("heartbeat")')
      BY <1>1, <2>4, <3>1, IdleFields DEF SameRemovals, Clears, InFlight
    <3> QED
      BY <2>4, <3>2
  <2>5. CASE f = "login" /\ Return(f) /\ relaunch' = (relaunch \/ phase' = "authorized")
             /\ UNCHANGED <<timer, runtime>>
    <3>1. SameRemovals(Calls) /\ (InFlight("heartbeat") => InFlight("heartbeat")')
      BY <1>1, <2>5, IdleFields DEF Return, SameRemovals, Clears, InFlight
    <3> QED
      BY <2>5, <3>1
  <2>6. CASE /\ f = "redeem"
             /\ call' = [call EXCEPT !["redeem"] = [Idle EXCEPT !.at = "waiting"],
                  !["heartbeat"] = IF InFlight("heartbeat") THEN @ ELSE Sent(session.pair, FALSE)]
             /\ UNCHANGED <<timer, runtime, relaunch>>
    <3>1. Sent(session.pair, FALSE).at = "sent" /\ Waiting.at = "waiting"
      BY <2>3, SentIsCall, RecordsAreCalls
    <3>2. call' = [call EXCEPT !["redeem"] = Waiting,
            !["heartbeat"] = IF InFlight("heartbeat") THEN call["heartbeat"] ELSE Sent(session.pair, FALSE)]
      BY <1>1, <2>6 DEF Waiting
    <3>3. SameRemovals(Calls) /\ InFlight("heartbeat")'
      BY <1>1, <2>6, <3>1, <3>2, IdleFields DEF SameRemovals, Clears, InFlight
    <3> QED
      BY <2>6, <3>3
  <2> QED
    BY <1>3, <2>2, <2>4, <2>5, <2>6, <1>2 DEF Saved
<1> QED
  BY <1>2, <1>3 DEF Saved

\* A removal that began in an authorized application reports the loss; one that
\* did not leaves it to another or to the new session.
LEMMA ClearedSorted == ASSUME IInv, Unreported, NEW f \in Calls, Cleared(f) PROVE Sorted
<1>1. /\ TypeOK /\ call \in [Calls -> Call] /\ call[f].was \in BOOLEAN /\ call[f].ans.kind \in Kinds
      /\ Clears(f) /\ session' = session
  BY DEF IInv, TypeOK, Call, Answer, Cleared, Clears
<1>2. /\ phase' \in {"restricted", "signed_out"} /\ SameRemovals(Calls \ {f})
      /\ ~Clears(f)'
      /\ call[f].was => runtime' # "on"
  <2>1. CASE f = "heartbeat" /\ phase' = "restricted" /\ Settled(Notified(call[f].was))
    <3>1. SameRemovals(Calls \ {f}) /\ ~Clears(f)'
      BY <1>1, <2>1, IdleFields DEF Settled, SameRemovals, Clears, Calls
    <3>2. call[f].was => runtime' # "on"
      BY <1>1, <2>1, NotifiedIsOff DEF Settled
    <3> QED
      BY <2>1, <3>1, <3>2
  <2>2. CASE /\ f = "refresh" /\ phase' = "restricted" /\ RefreshFails(call[f].ans.kind)
             /\ runtime' = Notified(call[f].was)
    <3>1. ~Clears(f)'
      BY <1>1, <2>2, IdleFields DEF RefreshFails, Clears, Calls
    <3> QED
      BY <1>1, <2>2, <3>1, RefreshFailsSame, NotifiedIsOff
  <2>3. CASE f = "logout" /\ phase' = "signed_out" /\ Return(f) /\ runtime' = Notified(call[f].was)
    <3>1. SameRemovals(Calls \ {f}) /\ ~Clears(f)'
      BY <1>1, <2>3, IdleFields DEF Return, SameRemovals, Clears
    <3> QED
      BY <1>1, <2>3, <3>1, NotifiedIsOff
  <2> QED
    BY <2>1, <2>2, <2>3 DEF Cleared
<1>3. ASSUME Authorized(phase), runtime' = "on"
      PROVE  SignedIn' \/ \E g \in Calls : Reports(g)'
  <2>1. SignedIn \/ \E g \in Calls : Reports(g)
    BY <1>1, <1>2, <1>3 DEF Unreported
  <2>2. CASE SignedIn
    BY <1>1, <2>2 DEF SignedIn
  <2>3. ASSUME NEW g \in Calls, Reports(g) PROVE Reports(g)'
    <3>1. g # f
      BY <1>2, <1>3, <2>3 DEF Reports
    <3> QED
      BY <1>2, <2>3, <3>1 DEF SameRemovals, Reports, Clears
  <2> QED
    BY <2>1, <2>2, <2>3
<1>4. Authorized(phase) /\ runtime' = "on" => Clears(f) /\ ~call[f].was
  BY <1>1, <1>2
<1>5. \A g \in Calls : Clears(g)' => call'[g] = call[g]
  BY <1>2 DEF SameRemovals
<1> QED
  BY <1>1, <1>2, <1>3, <1>4, <1>5 DEF Sorted, Ends, Authorized

\* What begins a call presents the session, or has a logout remove the file.
LEMMA BeginSorted ==
  ASSUME TypeOK, NEW f \in Calls, NEW c, Begin(f, c),
         c.at = "sent" \/ (~SignedIn /\ c.at = "clearing" /\ c.was = Authorized(phase))
  PROVE  Sorted
<1>1. call' = [call EXCEPT ![f] = c] /\ ~Clears(f) /\ UNCHANGED <<session, phase, timer, relaunch>>
  BY DEF Begin, InFlight, Clears
<1>2. CASE c.at = "sent"
  BY <1>1, <1>2, MoveSorted
<1>3. CASE ~SignedIn /\ c.at = "clearing" /\ c.was = Authorized(phase)
  <2>1. Clears(f)' /\ call'[f].was = Authorized(phase) /\ SameRemovals(Calls \ {f})
    BY <1>1, <1>3 DEF TypeOK, Clears, SameRemovals
  <2> QED
    BY <1>1, <1>3, <2>1 DEF Sorted, GivesUp, SignedIn
<1> QED
  BY <1>2, <1>3

LEMMA RequestsSorted == ASSUME TypeOK, Login \/ Redeem \/ CatalogRefresh \/ Logout PROVE Sorted
<1>1. SignedIn => session.pair \in 0 .. MaxPairs
  BY DEF SignedIn, TypeOK, Session, PairIds
<1>2. 0 \in 0 .. MaxPairs /\ {"login", "redeem", "refresh", "logout"} \subseteq Calls
  BY DEF Calls
<1>3. CASE Login
  BY <1>2, <1>3, SentIsCall, BeginSorted DEF Login
<1>4. CASE Redeem
  BY <1>1, <1>2, <1>4, SentIsCall, BeginSorted DEF Redeem
<1>5. CASE CatalogRefresh
  BY <1>1, <1>2, <1>5, SentIsCall, BeginSorted DEF CatalogRefresh
<1>6. CASE Logout
  <2> DEFINE c == [Idle EXCEPT !.at = "clearing", !.was = Authorized(phase)]
  <2>1. c.at = "clearing" /\ c.was = Authorized(phase)
    BY IdleIsCall DEF Call
  <2> HIDE DEF c
  <2>2. CASE SignedIn /\ Begin("logout", Sent(session.pair, FALSE))
    BY <1>1, <1>2, <2>2, SentIsCall, BeginSorted
  <2>3. CASE ~SignedIn /\ Begin("logout", c)
    BY <1>2, <2>1, <2>3, BeginSorted
  <2> QED
    BY <1>6, <2>2, <2>3 DEF Logout, c
<1> QED
  BY <1>3, <1>4, <1>5, <1>6

LEMMA TimerSorted == ASSUME IInv, TimerFires PROVE Sorted
<1>1. call \in [Calls -> Call] /\ session.pair \in 0 .. MaxPairs /\ "heartbeat" \in Calls
  BY DEF IInv, TypeOK, TimerHasSession, TimerFires, SignedIn, Session, PairIds, Calls
<1>2. Sent(session.pair, FALSE).at = "sent"
  BY <1>1, SentIsCall
<1>3. SameRemovals(Calls) /\ InFlight("heartbeat")'
  BY <1>1, <1>2 DEF TimerFires, SameRemovals, Clears, InFlight
<1> QED
  BY <1>3, CallsSorted DEF TimerFires

LEMMA RestartSorted == ASSUME TypeOK, Restart PROVE Sorted
<1>1. CASE disk = NoSession /\ phase' = "signed_out" /\ runtime' = "held" /\ call' = [f \in Calls |-> Idle]
  BY <1>1, IdleFields DEF Sorted, Starts, Authorized, Clears
<1>2. CASE /\ disk # NoSession /\ phase' = OnlinePhase(disk) /\ runtime' = "booting"
           /\ call' = [f \in Calls |-> IF f = "heartbeat" THEN Sent(disk.pair, FALSE) ELSE Idle]
  <2>1. disk.pair \in 0 .. MaxPairs /\ "heartbeat" \in Calls
    BY <1>2 DEF TypeOK, Session, PairIds, Calls
  <2>2. Sent(disk.pair, FALSE).at = "sent"
    BY <2>1, SentIsCall
  <2> QED
    BY <1>2, <2>1, <2>2, IdleFields DEF Sorted, Starts, Clears, InFlight
<1> QED
  BY <1>1, <1>2 DEF Restart, Start

LEMMA OthersSorted ==
  ASSUME RuntimeStarted \/ Network \/ Environment \/ UNCHANGED vars
  PROVE  Sorted
<1>1. UNCHANGED <<call, session, phase, timer, relaunch>>
  BY DEF RuntimeStarted, Network, Environment, vars, clientVars
<1>2. SameRemovals(Calls) /\ (InFlight("heartbeat") <=> InFlight("heartbeat")')
  BY <1>1 DEF SameRemovals, InFlight
<1> QED
  BY <1>1, <1>2, CallsSorted

\* Every step but a removal that fails.
LEMMA NextSorted ==
  ASSUME IInv, Unreported, [Next]_vars, \A f \in Calls : ~ClearFails(f)
  PROVE  Sorted
<1>1. TypeOK
  BY DEF IInv
<1>2. ASSUME NEW f \in Calls, Step(f) PROVE Sorted
  BY <1>1, <1>2, ServeSorted, TimesOutSorted, ReceiveSorted, SaveSorted, SaveFailsSorted,
     SavedSorted, ClearedSorted DEF Step
<1>3. CASE Login \/ Redeem \/ CatalogRefresh \/ Logout
  BY <1>1, <1>3, RequestsSorted
<1>4. CASE TimerFires \/ Restart
  BY <1>1, <1>4, TimerSorted, RestartSorted
<1>5. CASE RuntimeStarted \/ Network \/ Environment \/ UNCHANGED vars
  BY <1>5, OthersSorted
<1> QED
  BY <1>2, <1>3, <1>4, <1>5 DEF Next

LEMMA UnreportedNext ==
  ASSUME Unreported, Sorted
  PROVE  Unreported'
<1> SUFFICES ASSUME NEW f \in Calls, Clears(f)', ~call'[f].was, Authorized(phase'), ~SignedIn'
             PROVE  \E g \in Calls : Reports(g)'
  BY DEF Unreported
<1>1. CASE GoesOn
  <2>1. Clears(f) /\ ~call[f].was /\ Authorized(phase) /\ ~SignedIn
    BY <1>1 DEF GoesOn, SameRemovals, Clears, SignedIn
  <2>2. PICK g \in Calls : Reports(g)
    BY <2>1 DEF Unreported
  <2> QED
    BY <1>1, <2>2 DEF GoesOn, SameRemovals, Reports, Clears
<1>2. CASE GivesUp
  BY <1>2 DEF GivesUp, Reports
<1>3. CASE Ends \/ Starts
  BY <1>3 DEF Ends, Starts
<1> QED
  BY <1>1, <1>2, <1>3 DEF Sorted

LEMMA LicenceReports ==
  ASSUME "clear" \notin Faults
  PROVE  Spec => []Unreported
<1>1. Init => Unreported
  <2> SUFFICES ASSUME Init, NEW f \in Calls, Clears(f) PROVE FALSE
    BY DEF Unreported
  <2>1. 1 \in 0 .. MaxPairs
    OBVIOUS
  <2>2. Sent(1, FALSE).at = "sent"
    BY <2>1, SentIsCall
  <2>3. \/ call = [g \in Calls |-> Idle]
        \/ call = [g \in Calls |-> IF g = "heartbeat" THEN Sent(1, FALSE) ELSE Idle]
    BY DEF Init
  <2> QED
    BY <2>2, <2>3, IdleFields DEF Clears
<1>2. \A f \in Calls : ~ClearFails(f)
  BY DEF ClearFails
<1>3. IInv /\ Unreported /\ [Next]_vars => Unreported'
  BY <1>2, NextSorted, UnreportedNext
<1> QED
  BY <1>1, <1>3, LicenceInvariant, PTL DEF Spec

\* A step that goes on under the licence keeps what watches it.
LEMMA SortedWatches ==
  ASSUME Sorted, Authorized(phase'), SignedIn', Watched
  PROVE  Watched'
<1>1. CASE GoesOn
  BY <1>1 DEF GoesOn, Watched, SameRemovals, Clears
<1>2. CASE GivesUp \/ Ends
  BY <1>2 DEF GivesUp, Ends
<1>3. CASE Starts
  BY <1>3 DEF Starts, Watched
<1> QED
  BY <1>1, <1>2, <1>3 DEF Sorted

\* The watch of the licence never ends while the application is authorized and has
\* a session, whatever overlaps with it (scheduleHeartbeat after every heartbeat,
\* the timer that invalidateSession clears), unless session.bin cannot be removed.
THEOREM LicenceWatched ==
  ASSUME "clear" \notin Faults
  PROVE  Spec => WatchIsKept
<1>1. \A f \in Calls : ~ClearFails(f)
  BY DEF ClearFails
<1>2. IInv /\ Unreported /\ [Next]_vars =>
        (Authorized(phase) /\ Authorized(phase') /\ SignedIn' /\ Watched => Watched')
  BY <1>1, NextSorted, SortedWatches
<1> QED
  BY <1>1, <1>2, LicenceInvariant, LicenceReports, PTL DEF Spec, WatchIsKept

\* What LossIsReported comes to when calls overlap: main.ts is told of a loss, or
\* another invalidateSession is about to tell it, or a new session has come while
\* the old one was being removed.
LossIsTold ==
  [][Authorized(phase) /\ phase' \in {"restricted", "signed_out"} =>
       runtime' # "on" \/ SignedIn' \/ \E g \in Calls : Reports(g)']_vars

\* No loss of the licence goes unnoticed by the services that run under it
\* (setRestricted, invalidateSession's wasAuthorized and onAuthorizationLost), for
\* any number of calls in flight, unless session.bin cannot be removed.
THEOREM LicenceLossIsTold ==
  ASSUME "clear" \notin Faults
  PROVE  Spec => LossIsTold
<1>1. \A f \in Calls : ~ClearFails(f)
  BY DEF ClearFails
<1>2. IInv /\ Unreported /\ [Next]_vars =>
        (Authorized(phase) /\ phase' \in {"restricted", "signed_out"} =>
           runtime' # "on" \/ SignedIn' \/ \E g \in Calls : Reports(g)')
  <2> SUFFICES ASSUME IInv, Unreported, [Next]_vars,
                      Authorized(phase), phase' \in {"restricted", "signed_out"}, runtime' = "on"
               PROVE  SignedIn' \/ \E g \in Calls : Reports(g)'
    OBVIOUS
  <2>1. Sorted
    BY <1>1, NextSorted
  <2>2. ~GoesOn /\ ~GivesUp /\ ~Starts
    BY DEF GoesOn, GivesUp, Starts, Authorized
  <2> QED
    BY <2>1, <2>2 DEF Sorted, Ends
<1> QED
  BY <1>1, <1>2, LicenceInvariant, LicenceReports, PTL DEF Spec, LossIsTold
=============================================================================
