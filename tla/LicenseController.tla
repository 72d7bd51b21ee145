------------------------- MODULE LicenseController -------------------------
(***************************************************************************)
(* The desktop's LicenseController against the licence server: the session *)
(* in memory and on disk, the phase the application shows, the heartbeat   *)
(* timer, and the runtime that main.ts starts and stops with the licence.  *)
(*                                                                         *)
(* Every method that awaits is a call that goes through the points at      *)
(* which it awaits; what runs between two awaits is one step, since the    *)
(* main process is single-threaded.  The methods are single flights, by a  *)
(* promise the controller keeps (heartbeat, refresh, redeem) or by the     *)
(* busy flag of the page that calls them (login, logout).                  *)
(***************************************************************************)
EXTENDS SessionTokens, FiniteSets

CONSTANTS
  MaxInFlight,    \* bound: calls in flight at once
  Faults          \* which of FaultKinds happen

\* An answer is lost after the server has acted on it, the server is out of
\* reach, an administrator steps in, the process ends at any moment, a session
\* cannot be written, or cannot be removed.
FaultKinds == {"lost", "network", "admin", "restart", "save", "clear"}
ASSUME FaultAssumption == Faults \subseteq FaultKinds /\ MaxInFlight \in Nat

\* A desktop may start with the pair and the membership of an activation.
ASSUME RoomAssumption == MaxPairs >= 1 /\ Term <= MaxTime

VARIABLES
  session,   \* this.session
  disk,      \* session.bin
  tmp,       \* session.bin.tmp
  phase,     \* this.state.phase
  timer,     \* this.timer is set
  call,      \* each method in flight: where it awaits and what it holds
  runtime,   \* the services that main.ts starts behind the licence
  relaunch,  \* the page is about to relaunch the application
  online,    \* the server can be reached
  lost       \* history: an answer with a pair was lost, or the file was behind

clientVars == <<session, disk, tmp, phase, timer, call, runtime, relaunch>>
vars == <<serverVars, clientVars, online, lost>>
-----------------------------------------------------------------------------
Calls == {"heartbeat", "refresh", "redeem", "login", "logout"}

\* Where a call awaits: the server, the file written, the file renamed, the
\* continuation of either, another call, or the file removed.
Points == {"idle", "sent", "answered", "saving", "renaming", "saved",
           "waiting", "clearing"}

Phases == {"signed_out", "activation_required", "authorized", "offline_grace", "restricted"}

\* Held back without a licence, waiting for the first heartbeat, waiting for the
\* engine, running, and suspended for good.
Runtimes == {"held", "booting", "starting", "on", "suspended"}

\* LicenseSessionRecord: the tokens, the membership's end and the signed lease's;
\* a record always has its tokens, and lease 0 is none.
NoSession == [pair |-> 0, until |-> 0, lease |-> 0]
Session == [pair : PairIds, until : Nat, lease : Nat] \cup {NoSession}
SignedIn == session # NoSession

\* again: the heartbeat has refreshed; was: the phase was authorized when the
\* session was given up; rec: the record to be written.
Call == [at : Points, pair : 0 .. MaxPairs, again : BOOLEAN, ans : Answer,
         rec : Session, was : BOOLEAN]
Idle == [at |-> "idle", pair |-> 0, again |-> FALSE, ans |-> Error("ok"),
         rec |-> NoSession, was |-> FALSE]
InFlight(f) == call[f].at # "idle"

Authorized(ph) == ph \in {"authorized", "offline_grace"}

Sent(pair, again) == [Idle EXCEPT !.at = "sent", !.pair = pair, !.again = again]

\* resolveOnlinePhase, for what this server answers: a membership that has not
\* ended is on an active device.
OnlinePhase(s) == IF s.until > clock THEN "authorized" ELSE "activation_required"

\* onAuthorizationLost: suspendAuthorizedRuntime does nothing unless it runs.
Notified(lostNow) == IF lostNow /\ runtime = "on" THEN "suspended" ELSE runtime

\* mutant: no heartbeat is scheduled in the offline grace.
ScheduleOnline == timer' = (session' # NoSession /\ phase' = "authorized")

\* scheduleHeartbeat, from the session and the phase the call leaves behind.
Schedule == timer' = (session' # NoSession /\ Authorized(phase'))

\* Whoever awaits the heartbeat goes on when it settles: initialize hands over
\* to initApp, redeem returns and its page relaunches an authorized application.
Settled(after) ==
  /\ call' = [call EXCEPT !["heartbeat"] = Idle,
                          !["redeem"] = IF @.at = "waiting" THEN Idle ELSE @]
  /\ runtime' = IF after = "booting"
                  THEN IF Authorized(phase') THEN "starting" ELSE "held"
                  ELSE after
  /\ relaunch' = (relaunch \/ (call["redeem"].at = "waiting" /\ phase' = "authorized"))

\* mutant: a lease is good once it was signed.
OfflineWhateverTheClock ==
  /\ IF SignedIn /\ session.lease > 0
       THEN phase' = "offline_grace" /\ Settled(runtime)
       ELSE phase' = "restricted" /\ Settled(Notified(Authorized(phase)))
  /\ UNCHANGED <<session, disk, tmp>>
  /\ Schedule

\* applyOfflineOrRestrict, at the end of a heartbeat.
OfflineOrRestrict ==
  /\ IF SignedIn /\ session.lease > clock
       THEN phase' = "offline_grace" /\ Settled(runtime)
       ELSE phase' = "restricted" /\ Settled(Notified(Authorized(phase)))
  /\ UNCHANGED <<session, disk, tmp>>
  /\ Schedule

\* mutant: the offline grace does not count as authorized.
InvalidateOnlineOnly(f) ==
  /\ session' = NoSession
  /\ timer' = FALSE
  /\ call' = [call EXCEPT ![f] = [Idle EXCEPT !.at = "clearing", !.ans = call[f].ans,
                                              !.was = (phase = "authorized")]]
  /\ UNCHANGED <<disk, tmp, phase, runtime, relaunch>>

\* invalidateSession up to its await.
Invalidate(f) ==
  /\ session' = NoSession
  /\ timer' = FALSE
  /\ call' = [call EXCEPT ![f] = [Idle EXCEPT !.at = "clearing", !.ans = call[f].ans,
                                              !.was = Authorized(phase)]]
  /\ UNCHANGED <<disk, tmp, phase, runtime, relaunch>>

\* refresh settles with an error: the heartbeat that awaits it meets the error.
RefreshFails(kind) ==
  call' = [call EXCEPT !["refresh"] = Idle,
                       !["heartbeat"] = IF @.at = "waiting"
                         THEN [@ EXCEPT !.at = "answered", !.again = TRUE, !.ans = Error(kind)]
                         ELSE @]

Return(f) == call' = [call EXCEPT ![f] = Idle]
-----------------------------------------------------------------------------
(* The catch blocks.                                                        *)

Terminal(kind) == kind \in {"unauthorized", "forbidden"}

\* A 401 of the first heartbeat is answered by a refresh, a new one or the one in
\* flight; without a session the refresh does nothing and the retry throws.
HeartbeatFails(kind) ==
  \/ /\ kind = "unauthorized" /\ ~call["heartbeat"].again
     /\ SignedIn \/ InFlight("refresh")
     /\ call' = [call EXCEPT
                   !["heartbeat"] = [Idle EXCEPT !.at = "waiting"],
                   !["refresh"] = IF InFlight("refresh") THEN @ ELSE Sent(session.pair, FALSE)]
     /\ UNCHANGED <<session, disk, tmp, phase, timer, runtime, relaunch>>
  \/ /\ kind = "unauthorized" /\ ~call["heartbeat"].again
     /\ ~SignedIn /\ ~InFlight("refresh")
     /\ OfflineOrRestrict
  \/ /\ kind = "forbidden" \/ (kind = "unauthorized" /\ call["heartbeat"].again)
     /\ IF SignedIn \/ phase # "restricted"
          THEN Invalidate("heartbeat")
          ELSE /\ UNCHANGED <<session, disk, tmp, phase>>
               /\ Settled(runtime)
               /\ Schedule
  \/ ~Terminal(kind) /\ OfflineOrRestrict

Fails(f, kind) ==
  \/ f = "heartbeat" /\ HeartbeatFails(kind)
  \/ f = "refresh" /\ Terminal(kind) /\ Invalidate(f)
  \/ /\ f = "refresh" /\ ~Terminal(kind) /\ RefreshFails(kind)
     /\ UNCHANGED <<session, disk, tmp, phase, timer, runtime, relaunch>>
  \/ /\ f \in {"redeem", "login"} /\ Return(f)
     /\ UNCHANGED <<session, disk, tmp, phase, timer, runtime, relaunch>>
  \/ f = "logout" /\ Invalidate(f)
-----------------------------------------------------------------------------
(* The request: 12 seconds are all it gets, whatever the server has done.    *)

Outcomes(f) ==
  CASE f = "login"     -> LoginOutcomes
    [] f = "refresh"   -> RefreshOutcomes(call[f].pair)
    [] f = "heartbeat" -> HeartbeatOutcomes(call[f].pair)
    [] f = "redeem"    -> RedeemOutcomes(call[f].pair)
    [] f = "logout"    -> LogoutOutcomes(call[f].pair)

Answered(f, answer) ==
  call' = [call EXCEPT ![f].at = "answered", ![f].ans = answer]

Serve(f) ==
  /\ online /\ call[f].at = "sent"
  /\ \E o \in Bounded(Outcomes(f)) :
       /\ Commit(o)
       /\ \/ Answered(f, o.answer) /\ UNCHANGED lost
          \/ /\ "lost" \in Faults /\ o.answer.kind = "ok"
             /\ Answered(f, Error("offline"))
             /\ lost' = (lost \/ o.answer.pair # 0)
  /\ UNCHANGED <<session, disk, tmp, phase, timer, runtime, relaunch, online>>

TimesOut(f) ==
  /\ call[f].at = "sent"
  /\ Fails(f, "offline")
  /\ UNCHANGED <<serverVars, online, lost>>

\* mutant: the tokens are taken from the answer, whether it has any.
AppliedBare(f, a) ==
  [pair  |-> a.pair,
   until |-> IF f = "refresh" THEN session.until ELSE a.until,
   lease |-> IF f \in {"heartbeat", "redeem"} THEN a.lease ELSE session.lease]

\* The session applyOnlinePayload makes of an answer and the current session.
Applied(f, a) ==
  [pair  |-> IF f = "heartbeat" THEN session.pair ELSE a.pair,
   until |-> IF f = "refresh" THEN session.until ELSE a.until,
   lease |-> IF f \in {"heartbeat", "redeem"} THEN a.lease ELSE session.lease]

\* The answer arrives.  Only a login may bring a session where there is none; the
\* session in memory is replaced before it is written.
Receive(f) ==
  /\ call[f].at = "answered"
  /\ LET a == call[f].ans IN
     \/ a.kind # "ok" /\ Fails(f, a.kind)
     \/ a.kind = "ok" /\ f = "logout" /\ Fails(f, "ok")
     \/ a.kind = "ok" /\ f # "logout" /\ ~SignedIn /\ f # "login" /\ Fails(f, "refused")
     \/ /\ a.kind = "ok" /\ f # "logout" /\ (SignedIn \/ f = "login")
        /\ session' = Applied(f, a)
        /\ call' = [call EXCEPT ![f] = [Idle EXCEPT !.at = "saving", !.again = call[f].again,
                                                    !.rec = Applied(f, a)]]
        /\ UNCHANGED <<disk, tmp, phase, timer, runtime, relaunch>>
  /\ UNCHANGED <<serverVars, online, lost>>
-----------------------------------------------------------------------------
(* ElectronSecureSessionStore: one temporary file for every save.           *)

Save(f) ==
  /\ call[f].at = "saving"
  /\ tmp' = call[f].rec
  /\ call' = [call EXCEPT ![f].at = "renaming"]
  /\ UNCHANGED <<serverVars, session, disk, phase, timer, runtime, relaunch, online, lost>>

Rename(f) ==
  /\ call[f].at = "renaming" /\ tmp # NoSession
  /\ disk' = tmp
  /\ tmp' = NoSession
  /\ call' = [call EXCEPT ![f].at = "saved"]
  /\ UNCHANGED <<serverVars, session, phase, timer, runtime, relaunch, online, lost>>

\* mutant: a session that could not be written is taken back.
SaveTakenBack(f) ==
  /\ \/ "save" \in Faults /\ call[f].at \in {"saving", "renaming"}
     \/ call[f].at = "renaming" /\ tmp = NoSession
  /\ session' = disk
  /\ Return(f)
  /\ UNCHANGED <<serverVars, disk, tmp, phase, timer, runtime, relaunch, online, lost>>

\* The write is refused, or another save has renamed the temporary file away.
SaveFails(f) ==
  /\ \/ "save" \in Faults /\ call[f].at \in {"saving", "renaming"}
     \/ call[f].at = "renaming" /\ tmp = NoSession
  /\ Fails(f, "refused")
  /\ UNCHANGED <<serverVars, online, lost>>

\* The rest of applyOnlinePayload and of the method that called it; the session
\* may be gone by now, and reading it throws.
Saved(f) ==
  /\ call[f].at = "saved"
  /\ \/ ~SignedIn /\ Fails(f, "refused")
     \/ /\ SignedIn
        /\ phase' = OnlinePhase(session)
        /\ UNCHANGED <<session, disk, tmp>>
        /\ \/ f = "heartbeat" /\ Settled(runtime) /\ Schedule
           \/ /\ f = "refresh"
              /\ call' = [call EXCEPT !["refresh"] = Idle,
                   !["heartbeat"] = IF @.at = "waiting" THEN Sent(session.pair, TRUE) ELSE @]
              /\ UNCHANGED <<timer, runtime, relaunch>>
           \/ /\ f = "login" /\ Return(f)
              /\ relaunch' = (relaunch \/ phase' = "authorized")
              /\ UNCHANGED <<timer, runtime>>
           \/ /\ f = "redeem"
              /\ call' = [call EXCEPT !["redeem"] = [Idle EXCEPT !.at = "waiting"],
                   !["heartbeat"] = IF InFlight("heartbeat") THEN @ ELSE Sent(session.pair, FALSE)]
              /\ UNCHANGED <<timer, runtime, relaunch>>
  /\ UNCHANGED <<serverVars, online, lost>>

\* unlink throws, and so does the method: neither the notification nor the new
\* phase comes to pass.
ClearFails(f) ==
  /\ "clear" \in Faults /\ call[f].at = "clearing"
  /\ IF f = "refresh" THEN RefreshFails("refused")
     ELSE call' = [call EXCEPT ![f] = Idle,
                     !["redeem"] = IF f = "heartbeat" /\ @.at = "waiting" THEN Idle ELSE @]
  /\ UNCHANGED <<serverVars, session, disk, tmp, phase, timer, runtime, relaunch, online, lost>>

\* The file is unlinked, and the rest of invalidateSession and of the method that
\* called it follows: no other step tells the two apart.
Cleared(f) ==
  /\ call[f].at = "clearing"
  /\ disk' = NoSession
  /\ UNCHANGED <<session, tmp>>
  /\ \/ /\ f = "heartbeat" /\ phase' = "restricted"
        /\ Settled(Notified(call[f].was)) /\ Schedule
     \/ /\ f = "refresh" /\ phase' = "restricted"
        /\ RefreshFails(call[f].ans.kind)
        /\ runtime' = Notified(call[f].was)
        /\ UNCHANGED <<timer, relaunch>>
     \/ /\ f = "logout" /\ phase' = "signed_out"
        /\ Return(f)
        /\ runtime' = Notified(call[f].was)
        /\ UNCHANGED <<timer, relaunch>>
  /\ UNCHANGED <<serverVars, online, lost>>
-----------------------------------------------------------------------------
(* What begins a call.  The page is there once the first heartbeat is over,  *)
(* and offers what the phase calls for.                                      *)

Begin(f, record) ==
  /\ runtime # "booting" /\ ~InFlight(f)
  /\ Cardinality({g \in Calls : InFlight(g)}) < MaxInFlight
  /\ call' = [call EXCEPT ![f] = record]
  /\ UNCHANGED <<serverVars, session, disk, tmp, phase, timer, runtime, relaunch, online, lost>>

Login == phase = "signed_out" /\ Begin("login", Sent(0, FALSE))

Redeem == phase = "activation_required" /\ SignedIn /\ Begin("redeem", Sent(session.pair, FALSE))

\* withAuthorizedToken finds the access token about to end, or refused.
CatalogRefresh == Authorized(phase) /\ SignedIn /\ Begin("refresh", Sent(session.pair, FALSE))

Logout ==
  /\ phase # "signed_out"
  /\ \/ SignedIn /\ Begin("logout", Sent(session.pair, FALSE))
     \/ /\ ~SignedIn
        /\ Begin("logout", [Idle EXCEPT !.at = "clearing", !.was = Authorized(phase)])

\* The timer finds a heartbeat in flight or begins one.
TimerFires ==
  /\ timer
  /\ timer' = FALSE
  /\ call' = IF InFlight("heartbeat") THEN call
             ELSE [call EXCEPT !["heartbeat"] = Sent(session.pair, FALSE)]
  /\ UNCHANGED <<serverVars, session, disk, tmp, phase, runtime, relaunch, online, lost>>

\* ensureOpenClawRunningForCowork settles, whatever has become of the licence.
RuntimeStarted ==
  /\ runtime = "starting"
  /\ runtime' = "on"
  /\ UNCHANGED <<serverVars, session, disk, tmp, phase, timer, call, relaunch, online, lost>>

\* A new process, from the file it finds.
Start ==
  /\ session' = disk
  /\ timer' = FALSE
  /\ relaunch' = FALSE
  /\ \/ /\ disk = NoSession
        /\ phase' = "signed_out" /\ runtime' = "held"
        /\ call' = [f \in Calls |-> Idle]
     \/ /\ disk # NoSession
        /\ phase' = OnlinePhase(disk) /\ runtime' = "booting"
        /\ call' = [f \in Calls |-> IF f = "heartbeat" THEN Sent(disk.pair, FALSE) ELSE Idle]

Restart ==
  /\ relaunch \/ "restart" \in Faults
  /\ Start
  /\ lost' = (lost \/ (disk # NoSession /\ pairs[disk.pair].refresh = "rotated"))
  /\ UNCHANGED <<serverVars, disk, tmp, online>>

\* From here on the server is out of reach.
Network ==
  /\ "network" \in Faults /\ online
  /\ online' = FALSE
  /\ UNCHANGED <<serverVars, clientVars, lost>>

Environment ==
  /\ Tick \/ AccessExpires \/ ("admin" \in Faults /\ AdminRevokes)
  /\ UNCHANGED <<clientVars, online, lost>>
-----------------------------------------------------------------------------
\* A first start without a session, or the start of a desktop that was activated
\* earlier and whose access token may be over.
Init ==
  /\ clock = 0 /\ tmp = NoSession /\ timer = FALSE /\ relaunch = FALSE
  /\ online = TRUE /\ lost = FALSE
  /\ \/ /\ until = 0 /\ issued = 0 /\ pairs = [p \in PairIds |-> NoPair]
        /\ disk = NoSession /\ phase = "signed_out" /\ runtime = "held"
        /\ call = [f \in Calls |-> Idle]
     \/ /\ until = Term /\ issued = 1
        /\ pairs = [p \in PairIds |->
             IF p = 1 THEN [refresh |-> "live", access |-> "fresh", device |-> TRUE] ELSE NoPair]
        /\ disk = [pair |-> 1, until |-> Term, lease |-> OfflineUntil(Term)]
        /\ phase = "authorized" /\ runtime = "booting"
        /\ call = [f \in Calls |-> IF f = "heartbeat" THEN Sent(1, FALSE) ELSE Idle]
  /\ session = disk

Step(f) ==
  \/ Serve(f) \/ TimesOut(f) \/ Receive(f)
  \/ Save(f) \/ Rename(f) \/ SaveFails(f) \/ Saved(f)
  \/ Cleared(f) \/ ClearFails(f)

Next ==
  \/ \E f \in Calls : Step(f)
  \/ Login \/ Redeem \/ CatalogRefresh \/ Logout
  \/ TimerFires \/ RuntimeStarted \/ Restart \/ Network \/ Environment

Spec == Init /\ [][Next]_vars

\* Requests time out, file operations and timers come to an end, time passes.
FairSpec ==
  /\ Spec
  /\ \A f \in Calls : WF_vars(Step(f))
  /\ WF_vars(TimerFires) /\ WF_vars(relaunch /\ Restart)
  /\ WF_vars(Tick /\ UNCHANGED <<clientVars, online, lost>>)
-----------------------------------------------------------------------------
(* Properties.                                                              *)

TypeOK ==
  /\ clock \in 0 .. MaxTime /\ until \in 0 .. MaxTime /\ issued \in 0 .. MaxPairs
  /\ pairs \in [PairIds -> Pair]
  /\ session \in Session /\ disk \in Session /\ tmp \in Session
  /\ phase \in Phases /\ timer \in BOOLEAN
  /\ call \in [Calls -> Call]
  /\ runtime \in Runtimes /\ relaunch \in BOOLEAN /\ online \in BOOLEAN /\ lost \in BOOLEAN

\* The refresh token in memory is one the server has already replaced only while
\* the replacement is on its way, unless an answer was lost: concurrent
\* heartbeats, refreshes and redemptions and failing writes never lose it.
MemoryKeepsUp ==
  SignedIn /\ pairs[session.pair].refresh = "rotated" =>
    lost \/ (call["refresh"].at = "answered" /\ call["refresh"].ans.pair # 0)

\* A heartbeat is due or in flight, or the licence is being given up, or the
\* application relaunches.
Watched ==
  \/ timer \/ relaunch \/ InFlight("heartbeat")
  \/ \E f \in Calls : call[f].at = "clearing"

\* While the application stays authorized, the check of the licence that is under
\* way or due is always followed by the next: no failure, refresh, redemption or
\* session that vanishes in between ends the chain.
WatchIsKept ==
  [][Authorized(phase) /\ Authorized(phase') /\ SignedIn' /\ Watched => Watched']_vars

\* With the server out of reach for good, the lease runs out and the runtime is
\* stopped, whatever calls are in flight.
OfflineAuthorizationEnds ==
  ~online /\ Authorized(phase) /\ Watched ~> ~Authorized(phase) \/ ~SignedIn

\* When the licence of an authorized application is lost, main.ts is told of it
\* and its services do not go on, whatever settled while the session was removed.
LossIsReported ==
  [][Authorized(phase) /\ phase' \in {"restricted", "signed_out"} => runtime' # "on"]_vars

\* Services that run under a licence are stopped in the end when it is lost.
LossStopsRuntime ==
  [](runtime = "on" /\ Authorized(phase) =>
       [](~Authorized(phase) => <>(Authorized(phase) \/ runtime # "on")))

\* Once a logout is over, no session is left on the disk to start from.
LogoutLasts ==
  phase = "signed_out" /\ (\A f \in Calls : ~InFlight(f)) => disk = NoSession
=============================================================================
