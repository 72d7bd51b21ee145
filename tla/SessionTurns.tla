------------------------------ MODULE SessionTurns ------------------------------
(***************************************************************************)
(* One managed session of the OpenClaw runtime adapter                     *)
(* (src/main/libs/agentEngine/openclawRuntimeAdapter.ts): the calls of     *)
(* runTurn, each a chain of awaits that ends with chat.send and the promise *)
(* in pendingTurns; the one ActiveTurn that gateway events, timers and the *)
(* continuations of earlier events read and replace; the user's stop; and  *)
(* the gateway client, which may close, be stopped and be opened again.    *)
(*                                                                         *)
(* A call of runTurn is named by the run id it draws.  A promise is only   *)
(* open or settled: whether it was resolved or rejected is left out, like  *)
(* the texts and the messages.  The seven flags by which a turn waits for  *)
(* a follow-up (isWaitingForRecoverableFollowup) are one.  A gateway event *)
(* may come at any time about any run the gateway has been asked for or    *)
(* has begun by itself.  Left out are the status the session shows, plan   *)
(* mode, channel sessions, goals and their continuation, subagent runs,    *)
(* the diagnostic stream "error", and the deletion of the session.         *)
(***************************************************************************)
EXTENDS Integers, FiniteSets

CONSTANTS
  Runs,      \* run ids
  Calls,     \* the run ids drawn by runTurn; the others are runs the gateway
             \*   begins in the session by itself (announcements, follow-ups)
  NoRun,     \* no run, no call
  NoTurn,    \* the session is not in activeTurns
  MaxTurns,    \* bound: turn tokens given out
  MaxAwaiting, \* bound: event handlers awaiting the history at once
  MaxFailed    \* bound: runs whose error phase the gateway reports

Turn == [token : 1..MaxTurns, known : SUBSET Runs, final : {"none", "soon", "wait"},
         ending : Runs \cup {NoRun}, waiting : BOOLEAN]

ASSUME RunsAssumption ==
  /\ Calls \subseteq Runs /\ NoRun \notin Runs
  /\ NoTurn \notin Turn

ASSUME BoundAssumption ==
  MaxTurns \in Nat /\ MaxAwaiting \in Nat /\ MaxFailed \in Nat

VARIABLES
  point,       \* where each call of runTurn is
  done,        \* the calls whose promise has been settled
  pending,     \* pendingTurns: the call whose promise would be settled
  turn,        \* activeTurns: the active turn
  turns,       \* turn tokens given out
  bound,       \* sessionIdByRunId: the runs mapped to the session
  closed,      \* recentlyClosedRunIds
  reopenable,  \* ... those closed with allowRetryReopen
  stopped,     \* stoppedSessions: no mark, a fresh one, one past the cooldown
  manual,      \* manuallyStoppedSessions
  conts,       \* event handlers awaiting the gateway's history
  errors,      \* runs whose lifecycle-error timer is set
  terminated,  \* terminatedRunIds
  link,        \* the gateway client
  sent,        \* runs the gateway knows of
  halted       \* the user stopped a turn, and has not called runTurn since

vars == <<point, done, pending, turn, turns, bound, closed, reopenable, stopped, manual,
          conts, errors, terminated, link, sent, halted>>

Points == {"idle", "safety", "client", "model", "prompt", "sending", "awaiting", "over"}
Startup == {"safety", "client", "model", "prompt"}
Starting == {c \in Calls : point[c] \in Startup}
Kinds == {"silent", "length", "answer", "hint", "fallback"}

TypeOK ==
  /\ point \in [Calls -> Points]
  /\ done \subseteq Calls
  /\ pending \in Calls \cup {NoRun}
  /\ turn \in Turn \cup {NoTurn}
  /\ turns \in 0..MaxTurns
  /\ bound \subseteq Runs
  /\ closed \subseteq Runs
  /\ reopenable \subseteq closed
  /\ stopped \in {"no", "cool", "old"}
  /\ manual \in BOOLEAN
  /\ conts \subseteq [kind : Kinds, token : 1..MaxTurns]
  /\ errors \subseteq Runs
  /\ terminated \subseteq Runs
  /\ link \in {"down", "opening", "up"}
  /\ sent \subseteq Runs
  /\ halted \in BOOLEAN

Init ==
  /\ point = [c \in Calls |-> "idle"]
  /\ done = {}
  /\ pending = NoRun
  /\ turn = NoTurn
  /\ turns = 0
  /\ bound = {} /\ closed = {} /\ reopenable = {}
  /\ stopped = "no" /\ manual = FALSE
  /\ conts = {} /\ errors = {} /\ terminated = {}
  /\ link = "down"
  /\ sent = Runs \ Calls
  /\ halted = FALSE

-----------------------------------------------------------------------------
\* How a turn begins and ends.

NewTurn(r) == [token |-> turns + 1, known |-> {r}, final |-> "none", ending |-> NoRun,
               waiting |-> FALSE]

\* isWaitingForRecoverableFollowup.
Waits(t) == t.waiting \/ t.final = "wait"

KnownOf(t) == IF t = NoTurn THEN {} ELSE t.known

\* cleanupSessionTurn on turn t: its runs are closed, and may be reopened if `again`.
Cleanup(t, again) ==
  /\ turn' = NoTurn
  /\ bound' = bound \ KnownOf(t)
  /\ closed' = closed \cup KnownOf(t)
  /\ reopenable' = IF again THEN reopenable \cup KnownOf(t) ELSE reopenable \ KnownOf(t)

\* resolveTurn and rejectTurn: the promise in pendingTurns, whoever's it is.
Settle ==
  /\ pending' = NoRun
  /\ done' = IF pending = NoRun THEN done ELSE done \cup {pending}

Close(t, again) == Cleanup(t, again) /\ Settle

\* The turn stays, or becomes t: nothing is closed and no promise is settled.
Keep(t, b) == turn' = t /\ bound' = b /\ UNCHANGED <<pending, done, closed, reopenable>>

\* A handler on turn t awaits the gateway's history.
Await(kind, t) ==
  /\ Cardinality(conts) < MaxAwaiting
  /\ conts' = conts \cup {[kind |-> kind, token |-> t.token]}

\* completeDeferredChatFinalNow: at once, or, for a turn that waits and has said
\* nothing yet, after a look into the history.
CompleteDeferred(t, b) ==
  \/ Close(t, t.final = "wait") /\ UNCHANGED conts
  \/ /\ Waits(t)
     /\ Keep([t EXCEPT !.final = "none", !.waiting = TRUE], b)
     /\ Await("hint", t)

-----------------------------------------------------------------------------
\* runTurn.

begun == <<turns, bound, closed, reopenable, turn, pending, done>>
gateway == <<link, sent, terminated, errors, conts>>

\* A token is kept for every call on its way, whatever turns events make.
Spare == turns + Cardinality(Starting) < MaxTurns

\* Up to the first await. A call made while a turn is active throws.
RunTurn(c) ==
  /\ point[c] = "idle" /\ (turn = NoTurn => Spare)
  /\ stopped' = "no" /\ manual' = FALSE /\ halted' = FALSE
  /\ point' = [point EXCEPT ![c] = IF turn = NoTurn THEN "safety" ELSE "over"]
  /\ UNCHANGED <<begun, gateway>>

\* cancelTurnStartupIfStopped, and the step of the startup it guards.
Checkpoint(c, next) ==
  IF stopped = "no"
    THEN /\ point' = [point EXCEPT ![c] = next]
         /\ UNCHANGED <<stopped, manual, halted, begun>>
    ELSE /\ point' = [point EXCEPT ![c] = "over"]
         /\ stopped' = "no" /\ manual' = FALSE
         /\ Close(turn, FALSE)
         /\ UNCHANGED <<turns, halted>>

Fail(c) ==
  /\ point' = [point EXCEPT ![c] = "over"]
  /\ UNCHANGED <<stopped, manual, halted, begun, gateway>>

SafetyChecked(c) ==
  /\ point[c] = "safety"
  /\ \/ Fail(c)
     \/ /\ point' = [point EXCEPT ![c] = "client"]
        /\ UNCHANGED <<stopped, manual, halted, begun, gateway>>

\* ensureGatewayClientReady has returned, or has thrown: nothing catches that.
ClientReady(c) ==
  /\ point[c] = "client"
  /\ \/ Fail(c)
     \/ link = "up" /\ Checkpoint(c, "model") /\ UNCHANGED gateway

ModelSynced(c) ==
  /\ point[c] = "model"
  /\ Fail(c) \/ (Checkpoint(c, "prompt") /\ UNCHANGED gateway)

\* The turn replaces the one that is active, if any. Without a client
\* requireGatewayClient throws, and turn and promise stay.
PromptBuilt(c) ==
  /\ point[c] = "prompt"
  /\ \/ stopped # "no" /\ Checkpoint(c, "sending") /\ UNCHANGED gateway
     \/ /\ stopped = "no"
        /\ pending' = c
        /\ turn' = NewTurn(c)
        /\ turns' = turns + 1
        /\ bound' = bound \cup {c}
        /\ point' = [point EXCEPT ![c] = IF link = "up" THEN "sending" ELSE "over"]
        /\ sent' = IF link = "up" THEN sent \cup {c} ELSE sent
        /\ UNCHANGED <<done, closed, reopenable, stopped, manual, halted, link,
                       terminated, errors, conts>>

\* bindRunIdToTurn binds the acknowledged run to the turn that is active now.
SendAcked(c) ==
  /\ point[c] = "sending"
  /\ point' = [point EXCEPT ![c] = "awaiting"]
  /\ IF turn # NoTurn /\ c \notin closed
       THEN Keep([turn EXCEPT !.known = @ \cup {c}], bound \cup {c})
       ELSE Keep(turn, bound)
  /\ UNCHANGED <<turns, stopped, manual, halted, gateway>>

\* mutant: the promise is kept.
SendFailsKeeping(c) ==
  /\ point[c] = "sending"
  /\ point' = [point EXCEPT ![c] = "over"]
  /\ Cleanup(turn, FALSE)
  /\ UNCHANGED <<pending, done, turns, stopped, manual, halted, gateway>>

\* The catch of chat.send ends the active turn and drops its promise.
SendFails(c) ==
  /\ point[c] = "sending"
  /\ point' = [point EXCEPT ![c] = "over"]
  /\ Cleanup(turn, FALSE)
  /\ pending' = NoRun
  /\ UNCHANGED <<done, turns, stopped, manual, halted, gateway>>

StopSession ==
  /\ manual' = (manual \/ turn # NoTurn)
  /\ stopped' = "cool"
  /\ Close(turn, FALSE)
  /\ halted' = (halted \/ (turn # NoTurn /\ Starting = {}))
  /\ UNCHANGED <<point, turns, link, sent, terminated, errors, conts>>

\* mutant: the run may still be reopened.
ClosedExpiresHalf(r) ==
  /\ r \in closed
  /\ closed' = closed \ {r}
  /\ UNCHANGED <<point, done, pending, turn, turns, bound, reopenable, stopped, manual,
                 halted, gateway>>

\* Ten seconds after the stop, and two minutes after a run was closed.
CooldownEnds ==
  /\ stopped = "cool"
  /\ stopped' = "old"
  /\ UNCHANGED <<point, manual, halted, begun, gateway>>

ClosedExpires(r) ==
  /\ r \in closed
  /\ closed' = closed \ {r} /\ reopenable' = reopenable \ {r}
  /\ UNCHANGED <<point, done, pending, turn, turns, bound, stopped, manual, halted,
                 gateway>>

-----------------------------------------------------------------------------
\* Gateway events. An event's run is resolved to the session, a turn is created
\* for it unless one is active, the session was stopped or the run is closed, and
\* the run is bound to the turn.

Speaks(r) == link = "up" /\ r \in sent /\ r \notin closed

\* mutant: only the set of manually stopped sessions is looked for.
HeardWithinCooldown(r) ==
  CASE turn # NoTurn -> [turn EXCEPT !.known = @ \cup {r}]
    [] turn = NoTurn /\ manual -> NoTurn
    [] OTHER -> NewTurn(r)

\* mutant: only the stop mark is looked for, and the cooldown is its end.
HeardAfterCooldown(r) ==
  CASE turn # NoTurn -> [turn EXCEPT !.known = @ \cup {r}]
    [] turn = NoTurn /\ stopped = "cool" -> NoTurn
    [] OTHER -> NewTurn(r)

\* ensureActiveTurn and bindRunIdToTurn.
Heard(r) ==
  CASE turn # NoTurn -> [turn EXCEPT !.known = @ \cup {r}]
    [] turn = NoTurn /\ (stopped = "cool" \/ manual) -> NoTurn
    [] OTHER -> NewTurn(r)

\* A run that is bound is not bound again by a chat event, which makes no turn for
\* it either; an agent event binds always, and makes no turn for a failed run.
ChatTurn(r) == IF r \in bound THEN turn ELSE Heard(r)
AgentTurn(r) == IF turn = NoTurn /\ r \in terminated THEN NoTurn ELSE Heard(r)

\* What the resolution itself changes: t is the turn it ends with.
Resolved(r, t) ==
  /\ t # NoTurn
  /\ turn = NoTurn => Spare
  /\ turns' = IF turn = NoTurn THEN turns + 1 ELSE turns
  /\ stopped' = IF turn = NoTurn THEN "no" ELSE stopped
  /\ UNCHANGED <<point, manual, halted, link, sent>>

Leaves(r, t) == Keep(t, bound \cup {r})

\* Text: the fallback timer is cancelled and a final answer postponed. A silent text
\* postpones nothing, and in a chat event leaves the fallback timer alone too.
Text(r, t, kept) ==
  /\ Resolved(r, t)
  /\ \/ Leaves(r, [t EXCEPT !.ending = IF kept THEN @ ELSE NoRun])
     \/ \E w \in {FALSE, t.waiting /\ t.final = "none"} :
          Leaves(r, [t EXCEPT !.ending = NoRun, !.waiting = w,
                              !.final = IF @ = "soon" THEN "soon" ELSE "none"])
  /\ UNCHANGED <<terminated, errors, conts>>

ChatDelta(r) == Speaks(r) /\ Text(r, ChatTurn(r), TRUE)
AgentText(r) ==
  Speaks(r) /\ Text(r, IF r \in bound THEN AgentTurn(r) ELSE Heard(r), FALSE)

\* handleChatFinal: a heartbeat or a failure text ends the turn; any other final
\* awaits the history.
ChatFinal(r) ==
  LET t == ChatTurn(r) IN
  /\ Speaks(r)
  /\ Resolved(r, t)
  /\ UNCHANGED <<terminated, errors>>
  /\ \/ Close(t, FALSE) /\ UNCHANGED conts
     \/ /\ Leaves(r, [t EXCEPT !.ending = NoRun])
        /\ \E k \in {"silent", "length", "answer"} : Await(k, t)

\* handleChatAborted.
ChatAborted(r) ==
  /\ Speaks(r)
  /\ Resolved(r, ChatTurn(r))
  /\ Close(ChatTurn(r), FALSE)
  /\ UNCHANGED <<terminated, errors, conts>>

\* completeDeferredFinalOnStaleChatError, else handleChatError.
ChatError(r) ==
  LET t == ChatTurn(r) IN
  /\ Speaks(r)
  /\ Resolved(r, t)
  /\ UNCHANGED <<terminated, errors>>
  /\ IF t.final = "soon" /\ r \in t.known /\ t.known \cap terminated = {}
       THEN CompleteDeferred(t, bound \cup {r})
       ELSE Close(t, FALSE) /\ UNCHANGED conts

\* isSessionInStopCooldown: a look at the mark of a stopped session drops one that is
\* past its cooldown, even if no turn comes of it.
LateEvent(r) ==
  /\ link = "up" /\ r \in sent /\ manual /\ stopped = "old"
  /\ \/ r \notin closed \cup bound /\ turn = NoTurn
     \/ r \in reopenable \ terminated
  /\ stopped' = "no"
  /\ UNCHANGED <<point, manual, halted, begun, gateway>>

\* Tools, thinking, compaction and a lifecycle start: both timers are cancelled.
\* Maintenance makes the turn wait, its end may stop that, and a compaction that
\* will retry defers the completion.
AgentGoesOn(r) ==
  LET t == AgentTurn(r) IN
  /\ Speaks(r)
  /\ Resolved(r, t)
  /\ \E w \in BOOLEAN, f \in {"none", "wait"} :
       /\ f = "wait" => w
       /\ Leaves(r, [t EXCEPT !.ending = NoRun, !.final = f, !.waiting = w])
  /\ UNCHANGED <<terminated, errors, conts>>

\* mutant: the reopened run stays in recentlyClosedRunIds.
ReopenClosed(r) ==
  /\ link = "up" /\ r \in sent
  /\ r \in closed \cap reopenable /\ r \notin terminated
  /\ stopped # "cool" /\ ~manual
  /\ turn = NoTurn => Spare
  /\ turn' = [Heard(r) EXCEPT !.ending = NoRun, !.final = "none", !.waiting = Heard(r).final = "none"]
  /\ bound' = bound \cup {r}
  /\ turns' = IF turn = NoTurn THEN turns + 1 ELSE turns
  /\ stopped' = "no"
  /\ UNCHANGED <<point, done, pending, manual, halted, closed, reopenable, gateway>>

\* A lifecycle start of a closed run that may be retried.
Reopen(r) ==
  /\ link = "up" /\ r \in sent
  /\ r \in closed \cap reopenable /\ r \notin terminated
  /\ stopped # "cool" /\ ~manual
  /\ turn = NoTurn => Spare
  /\ closed' = closed \ {r} /\ reopenable' = reopenable \ {r}
  /\ turn' = [Heard(r) EXCEPT !.ending = NoRun, !.final = "none", !.waiting = Heard(r).final = "none"]
  /\ bound' = bound \cup {r}
  /\ turns' = IF turn = NoTurn THEN turns + 1 ELSE turns
  /\ stopped' = "no"
  /\ UNCHANGED <<point, done, pending, manual, halted, gateway>>

\* handleAgentLifecycleEvent, phase end.
LifecycleEnd(r) ==
  LET t == AgentTurn(r) IN
  /\ Speaks(r)
  /\ Resolved(r, t)
  /\ UNCHANGED <<terminated, errors>>
  /\ IF ~Waits(t) /\ t.final = "soon"
       THEN CompleteDeferred(t, bound \cup {r})
       ELSE /\ Leaves(r, [t EXCEPT !.ending = r])
            /\ UNCHANGED conts

\* ... phase error: the timers are cancelled and the error's own is set.
LifecycleError(r) ==
  LET t == AgentTurn(r) IN
  /\ Speaks(r)
  /\ Resolved(r, t)
  /\ Leaves(r, [t EXCEPT !.ending = NoRun, !.final = "none",
                         !.waiting = t.waiting /\ t.final = "none"])
  /\ terminated' = terminated \cup {r} /\ Cardinality(terminated') <= MaxFailed
  /\ errors' = errors \cup {r}
  /\ UNCHANGED conts

-----------------------------------------------------------------------------
\* Timers. A timer is cleared with its turn, or finds another turn token.

FinalTimer ==
  /\ turn # NoTurn /\ turn.final # "none"
  /\ CompleteDeferred(turn, bound)
  /\ UNCHANGED <<point, turns, stopped, manual, halted, link, sent, terminated, errors>>

\* scheduleLifecycleEndFallback.
EndingTimer ==
  /\ turn # NoTurn /\ turn.ending # NoRun
  /\ Keep([turn EXCEPT !.ending = NoRun], bound)
  /\ IF turn.ending \in turn.known /\ ~Waits(turn) /\ turn.final = "none"
       THEN Await("fallback", turn)
       ELSE UNCHANGED conts
  /\ UNCHANGED <<point, turns, stopped, manual, halted, link, sent, terminated, errors>>

ErrorTimer(r) ==
  /\ r \in errors
  /\ errors' = errors \ {r}
  /\ IF turn # NoTurn /\ r \in KnownOf(turn)
       THEN Close(turn, FALSE)
       ELSE Keep(turn, bound)
  /\ UNCHANGED <<point, turns, stopped, manual, halted, link, sent, terminated, conts>>

\* mutant: a turn that waits for a follow-up has no limit.
WatchdogPatient ==
  /\ turn # NoTurn /\ ~Waits(turn)
  /\ Close(turn, FALSE)
  /\ UNCHANGED <<point, turns, stopped, manual, halted, gateway>>

\* startTurnTimeoutWatchdog.
Watchdog ==
  /\ turn # NoTurn
  /\ Close(turn, FALSE)
  /\ UNCHANGED <<point, turns, stopped, manual, halted, gateway>>

-----------------------------------------------------------------------------
\* What handlers do once the history has come, with or without an answer.

Current(k) == turn # NoTurn /\ turn.token = k.token

\* waitForRecoverableOpenClawRetry and deferChatFinalCompletion: on the handler's
\* own turn, so on a turn that has gone they do nothing.
Defer(k, f) ==
  IF Current(k)
    THEN Keep([turn EXCEPT !.final = f, !.waiting = @ \/ f = "wait"], bound)
    ELSE Keep(turn, bound)

Nothing == Keep(turn, bound)

\* A silent final: completed, whichever turn is active by now, or kept open for
\* the maintenance the history tells of.
ResumeSilent(k) ==
  \/ Close(turn, FALSE)
  \/ IF Current(k) THEN Keep([turn EXCEPT !.final = "wait"], bound) ELSE Nothing

\* A final cut off at the output limit, and a thinking-only hint, end the turn they
\* began with only.
ResumeLength(k) == IF Current(k) THEN Close(turn, FALSE) ELSE Nothing

ResumeHint(k) ==
  IF Current(k) THEN \E again \in BOOLEAN : Close(turn, again) ELSE Nothing

\* A final that asks for tools, that is an error, or that may be the answer.
ResumeAnswer(k) ==
  \/ IF Current(k) /\ turn.final # "none"
       THEN Keep([turn EXCEPT !.final = "none", !.waiting = FALSE], bound)
       ELSE Nothing
  \/ Close(turn, FALSE)
  \/ \E f \in {"soon", "wait"} : Defer(k, f)

\* completeChannelTurnFallback: it looks for an active turn, not for its own.
ResumeFallback(k) ==
  CASE turn = NoTurn -> Nothing
    [] Current(k) /\ (Waits(turn) \/ turn.final # "none") -> Nothing
    [] OTHER -> \/ Defer(k, "wait")
                \/ \E again \in BOOLEAN : (again => Current(k)) /\ Close(turn, again)

Resume(k) ==
  /\ k \in conts
  /\ conts' = conts \ {k}
  /\ CASE k.kind = "silent" -> ResumeSilent(k)
       [] k.kind = "length" -> ResumeLength(k)
       [] k.kind = "hint" -> ResumeHint(k)
       [] k.kind = "answer" -> ResumeAnswer(k)
       [] k.kind = "fallback" -> ResumeFallback(k)
  /\ UNCHANGED <<point, turns, stopped, manual, halted, link, sent, terminated, errors>>

-----------------------------------------------------------------------------
\* The gateway client.

\* stopGatewayClient forgets the stop marks and the closed runs.
Forget == stopped' = "no" /\ closed' = {} /\ reopenable' = {}

\* _ensureGatewayClientReadyImpl without a client: whatever client there was is
\* stopped, and one is created.
OpenClient ==
  /\ link = "down"
  /\ link' = "opening"
  /\ Forget
  /\ UNCHANGED <<point, done, pending, turn, turns, bound, manual, conts, errors,
                 terminated, sent, halted>>

ClientOpens ==
  /\ link = "opening"
  /\ link' = "up"
  /\ UNCHANGED <<point, stopped, manual, halted, begun, conts, errors, terminated, sent>>

\* onClose: the connection is lost, and every active turn with it.
ClientCloses ==
  /\ link = "up"
  /\ link' = "down"
  /\ Forget
  /\ turn' = NoTurn /\ bound' = bound \ KnownOf(turn)
  /\ IF turn = NoTurn THEN UNCHANGED <<pending, done>> ELSE Settle
  /\ UNCHANGED <<point, turns, manual, halted, conts, errors, terminated, sent>>

\* The tick watchdog, and a reconnect or a disconnect on purpose: turns stay.
ClientStops ==
  /\ link # "down"
  /\ link' = "down"
  /\ Forget
  /\ UNCHANGED <<point, done, pending, turn, turns, bound, manual, conts, errors,
                 terminated, sent, halted>>

-----------------------------------------------------------------------------

Event(r) ==
  \/ ChatDelta(r) \/ ChatFinal(r) \/ ChatAborted(r) \/ ChatError(r) \/ LateEvent(r)
  \/ AgentText(r) \/ AgentGoesOn(r) \/ LifecycleEnd(r) \/ LifecycleError(r) \/ Reopen(r)

Step(c) ==
  \/ SafetyChecked(c) \/ ClientReady(c) \/ ModelSynced(c) \/ PromptBuilt(c)
  \/ SendAcked(c) \/ SendFails(c)

Next ==
  \/ \E c \in Calls : RunTurn(c) \/ Step(c)
  \/ StopSession \/ CooldownEnds
  \/ \E r \in Runs : ClosedExpires(r) \/ Event(r) \/ ErrorTimer(r)
  \/ FinalTimer \/ EndingTimer \/ Watchdog
  \/ \E k \in conts : Resume(k)
  \/ OpenClient \/ ClientOpens \/ ClientCloses \/ ClientStops

Spec == Init /\ [][Next]_vars

\* Every await of runTurn has a timeout, and every turn its watchdog.
Fairness ==
  /\ \A c \in Calls : WF_vars(Step(c))
  /\ WF_vars(Watchdog)

FairSpec == Spec /\ Fairness

-----------------------------------------------------------------------------
(* Properties *)

\* A promise that is waiting in pendingTurns has an active turn, so that something
\* is left that will settle it: a turn never goes without settling or dropping the
\* promise, whichever of its many ends it meets.
PendingHasTurn == pending # NoRun => turn # NoTurn

\* No run of the active turn is in recentlyClosedRunIds: the events of a run that is
\* being answered are never dropped as late ones, and a run that was closed comes
\* back to a turn only by way of a retry.
KnownIsOpen == turn # NoTurn => turn.known \cap closed = {}

\* Once the user has stopped a turn, with no call of runTurn on its way, the session
\* gets no turn until the next call: not from late events, nor past the cooldown, nor
\* when the client reconnects and has forgotten the mark and the closed runs.
StopHolds == halted => turn = NoTurn

\* Within its cooldown the mark of the user's stop is taken away only by a call of
\* runTurn that obeys it, or by a newer call, as long as the gateway client stays: no
\* late event of an earlier run hides the stop from a call still on its way.
StopReachesStartup ==
  [][stopped = "cool" /\ stopped' = "no" /\ link' = link /\ Starting' \subseteq Starting
     => \E c \in Starting : point'[c] = "over"]_vars

\* What a comment of runTurn takes for granted, and the code does not keep: while a
\* call is on its way to the gateway, the mark the user's stop has left is
\* taken away by nobody but a call that obeys it, or by a newer call.
StartupObeysStop ==
  [][stopped # "no" /\ stopped' = "no" /\ Starting' \subseteq Starting
     => \A c \in Starting : point'[c] = "over"]_vars

\* A call of runTurn ends, for better or worse, unless another call has taken or
\* dropped its promise.
EveryCallSettles ==
  \A c \in Calls : point[c] = "safety" ~>
    (point[c] = "over" \/ c \in done \/ (point[c] \in {"sending", "awaiting"} /\ pending # c))

=============================================================================
