# LogicNest WorkHub: verification development

TLA+ specifications of the parts of LogicNest WorkHub (an Electron desktop
application with a licence server) whose correctness depends on the order of
events, the TLC configurations that check them on small instances, and theorems
about them that TLAPS proves for every instance. Paths are relative to the
repository's root; `coordinator.ts` and `store.ts` are those of
`src/main/meetingRoom/`, `openclawRuntimeAdapter.ts` is that of
`src/main/libs/agentEngine/`.

| Module | Models | Proofs |
|---|---|---|
| `Discussion` | what meetings promise: an agenda held once and in order | |
| `MeetingRoom` | store, coordinator and the wiring of the meetings; implements `Discussion` | `MeetingRoomProofs`, `MeetingRoomAgendaProofs`, `MeetingRoomDiscussionProofs` |
| `LicenceLedger` | what paid time is: a card gives its term once | |
| `LicenseServer` | keys, entitlements, devices and leases on the server; implements `LicenceLedger` | `LicenseServerProofs` |
| `SessionTokens` | token pairs and membership of one account, on the server | |
| `LicenseController` | the desktop's licence controller, extends `SessionTokens` | `LicenseControllerProofs` |
| `EngineManager` | the gateway process: start, stop, crash, restart | `EngineManagerProofs` |
| `GatewayConfig` | how a change of the settings reaches the gateway | `GatewayConfigProofs` |
| `SessionTurns` | one session of the runtime adapter: calls, turns, events, stops | `SessionTurnsProofs` |

`MC*` modules instantiate them for TLC. `PROJECT.json` maps every definition to
its lines.

## 1. Inventory

| Component | State | Operations | Hard behaviour | Correct when | Module |
|---|---|---|---|---|---|
| Meeting rooms (`store.ts`, `coordinator.ts`, `stateMachine.ts`) | rows of a meeting, its turns and attempts; one loop per running meeting; the run it awaits | create, start, pause, resume, retryHost, stop, appendRound, delete; settle, time out, stream; restart recovery | late answers of older runs, timer against answer, lost wake-ups, crash in the middle of a delete, partial retries | one meeting runs; the agenda is held once and in order; nothing a late run does reaches the rows; a running meeting moves on | `MeetingRoom` |
| Main-process wiring of the meetings (`main.ts`) | `authorizedRuntimeStarted`, the engine's phase | licence gate, suspension, status forwarder, restart recovery | the licence or the engine goes while a meeting runs | no meeting runs on an engine that is down | `MeetingRoom` |
| Prompts, validation, export | none | text building, file output | none | limits respected | not modelled |
| Licence server, client API (`services/license-server/src/services/clientService.ts`) | keys, entitlements, devices, refresh sessions in MySQL | login, redeem, refresh, heartbeat, logout | concurrent redemptions, rolled-back updates, rotation of refresh tokens | a key is spent once; an active entitlement is on a device bound to its account; versions order the leases; a rotated token is never used again | `LicenseServer`, `SessionTokens` |
| Licence server, admin API (`adminService.ts`) | the same rows, plans, users | generate, revoke, unbind, suspend, restore | an administrator's change against a client's transaction; several statements without a transaction | a revoked key leaves no live entitlement | `LicenseServer`, `SessionTokens` |
| Licence server, catalog and releases | catalog rows, release files | CRUD | little | — | not modelled |
| Desktop licence controller (`src/main/license/`) | session in memory and on disk, offline lease, phase, heartbeat timer, calls in flight | login, redeem, refresh, heartbeat, logout, restart | single flights that wait for one another, answers in any order, failing writes, a lost answer | the memory never falls behind the server; the licence is always watched; a loss stops the runtime | `LicenseController` |
| OpenClaw runtime adapter (`openclawRuntimeAdapter.ts`) | per session: the active turn, its promise, stop marks, closed runs, timers; the gateway client | runTurn, stopSession, gateway events, timers, continuations after reading the history, reconnect | a stop between two awaits of a startup, late events of closed runs, thirty ends of a turn, a client that is replaced | every promise has a turn and every call settles; a stop holds; a closed run stays closed | `SessionTurns`; used by `MeetingRoom` |
| OpenClaw engine manager (`src/main/libs/openclawEngineManager.ts`) | phase, gateway process, start in flight, stops that wait, restart timer | start, stop, restart, probe, exit | overlapping stops, a stop during a start, a crash during a boot | one gateway; a stop holds; a restart after a crash starts a gateway | `EngineManager` |
| OpenClaw configuration (`main.ts`, `src/main/libs/openclawConfigDelivery.ts`) | the file, the queue, the deferred restart | sync, deliver, fall back, restart | a change during a boot or a delivery; a session that hangs | the last change reaches the gateway | `GatewayConfig` |
| Application update (`src/main/libs/appUpdateCoordinator.ts`) | update state, download | check, download, install | cancel against completion | nothing unverified is installed | not modelled |
| Cowork storage, backup, migration | SQLite tables, files | CRUD, copy | crash in the middle of a copy | — | not modelled |
| Scheduled tasks, IM gateways, MCP, skills, skins, sharing, account sessions, enterprise configuration, shell, renderer, packaging | see `PROJECT.json` | | mostly I/O and data | — | not modelled |

How they interact. The renderer calls the main process over IPC. `main.ts`
registers the product's commands only once the licence controller reports an
authorized state; it then starts the engine and what depends on it, and stops
all of it when the controller calls `onAuthorizationLost`
(`suspendAuthorizedRuntime`). The engine manager forks the gateway; its phases
reach the meetings through `bindOpenClawStatusForwarder`, and config sync, which
may stop and start the gateway, through its status. The runtime adapter talks to
the gateway over a socket; its promises and events are what meetings and cowork
sessions see of a run. Each of these borders is an environment action in the
modules on either side: the engine's phase in `MeetingRoom`, the process in
`GatewayConfig`, the client in `SessionTurns`, the runtime in
`LicenseController`, a run that settles, streams or never answers in
`MeetingRoom`. `LicenseController` and `SessionTokens` are composed for real.

The hazards of this code, each at its line and with the properties that cover
it, are listed in `PROJECT.json`.

## 2. Plan and what became of it

1. `MeetingRoom`, `Discussion`: done, every invariant, action property and the
   refinement proved.
2. `LicenseServer`, `LicenceLedger`: done, everything proved.
3. `SessionTokens` and `LicenseController`, server and desktop with answers that
   are lost: done, the invariants and the chain of heartbeats proved.
4. `EngineManager`: done, every invariant proved.
5. `GatewayConfig`: done, invariant and action property proved.
6. `SessionTurns`: done, every invariant and the action property proved.
7. `AppUpdate`, share deployment, database backup: open.

Every hazard involves at most two actors and one event between two of their
steps, so two rooms (keys, devices, calls) and two or three participants or
processes are enough for it to happen.

## 3. The meeting room model

### Correspondence

A room is one record `rooms[m]`: `status`, `reason`, `total`, `epoch`, `turn`
and `attempt` are columns of `meeting_rooms` (`pause_reason`, `total_rounds`,
`run_epoch`, `current_turn_id`, `current_attempt_id`); `kind` and `state` are
the kinds and statuses of `meeting_turns`, keyed by (round, order), the sort key
of `getNextTurn`; `attempts` are the rows of `meeting_attempts` by age, with the
origin of their text in place of the text; `session` is what the hidden session
of each speaker holds; `loop` and `run` are the coordinator's: whether
`scheduledMeetings` has the meeting and which attempt its `runTurn` awaits.

Each function of the store is an operator on the record (`PauseRow` is
`MeetingRoomStore.pause`, and so on); each IPC command, settled run, timer,
stream event, licence or engine change and restart is an action. `map` in
`PROJECT.json` gives the lines of every definition.

### What is one step

The main process has one thread. A command arrives as one event; `enqueue` only
chains promises, every body in it is synchronous up to the store, and
better-sqlite3 is synchronous too, so the body, the `schedule` after it and the
loop's way to `await Promise.race` run before the next event. The same holds for
the continuation of a settled run. An action therefore covers all of that:
`Settle` is `runTurn` after its await, `runMeeting` around its loop and
`runTurn` again up to its next await. `stopSession` merely asks the run to end;
its promise settles later, in a step of its own, after any other event.

Two things are not atomic and are modelled so: `retryHost` has two transactions,
the second of which may throw; `delete` removes the sessions one by one, and the
process may end between them (`TornDelete`).

### What is left out

Prompt text, names, token counts, versions for the user interface, attachments
other than whether the first prompt can read them, and `bindAttemptRun` (the
run's gateway id, which always accompanies the attempt's identity). A run's text is
`"own"` or `"other"`: whose it is, not what it says. `version` is left out
because only the renderer reads it. Creating more than one draft per identity is
left out: identities are fresh.

### Bounds

`MaxEpoch` stops commands that set a room running (so pauses, stops and deletes
are never cut off), `MaxAttempts` stops the loop from beginning attempts. Both
appear in guards only. `Events` chooses which kinds of event a run includes, so
that each run can go deeper in the ones it is about. Two participants are the
product's minimum, and every rule that mentions participants distinguishes only
first, next and last.

### Fairness

`FairSpec` assumes that the turn timer of an awaited run fires
(`WF_vars(Timeout(m))`): `setTimeout` in the main process depends on nothing
else. No answer of a run, no user command and no return of the engine is assumed.

## 4. The licence server model

### Correspondence

`key`, `dev`, `ent`, `user` and `plan` are the rows of `license_keys`, `devices`,
`entitlements`, `users` and `plans` in
`services/license-server/prisma/schema.prisma`, with the columns that the
services of `services/license-server/src/services/` decide by. A device is
identified by its fingerprint and an entitlement by its user: both columns are
unique. `entitlements.device_id` is unique too, which is the guard `DeviceFree`.
`leases` are the offline leases signed so far (`offlineToken`): account, entitlement
version, device and end of the membership. `req` holds, for each request in
flight, what it has read and not yet used.

### What is one step

`redeem` is one serializable transaction that locks the key first, and
`unbindDevice` one transaction that updates the device's row first, which
`redeem` reads under a lock: each is one action. So is every single statement.
The other requests read in one statement and write in a later one, so any
request may run in between: `heartbeat` (device, then entitlement), `login`
(entitlement, then the mark EXPIRED), `revokeKey` (key, entitlement, key; the
failure of the middle one is swallowed). `now` is taken before the first
statement and kept.

A transaction that is refused, that loses against another (`REDEEM_RETRY`), or
whose connection or process goes, changes nothing: all of these are `Lose`. The
mark EXPIRED that `redeem` writes to a late key before it throws is rolled back
with the rest. A repeated redemption (`RedeemAgain`) answers with the entitlement
as it stands, and with a lease for the device that asked, wherever the
entitlement has gone since; that is why `LeasesInOrder` speaks of versions and
ends, and not of devices.

### What is left out

Accounts, passwords, access and refresh tokens, and the token versions: they only
refuse requests, and the model lets every request of an active account begin
(`SessionTokens` has the tokens).
For the same reason `login`'s look at the device, which applies only when the
client names one, is left out. `startsAt`, the grace period of a lease, audit
entries and `lastSeenAt` change nothing the properties mention. One plan stands
for all: keys of two plans differ only in the days they give, and `UpdatePlan`
varies those.

### Bounds

`MaxTime` is the last day of the clock and `Never` the day after it, on which no
key expires. `Workers` is the number of requests in flight: two, because every
hazard is one request between two statements of another. `MaxVersion` stops
revocations, the only steps that could repeat for ever. `Requests` chooses the
kinds of request of a run. Accounts, devices, keys and workers are symmetric. No
fairness is assumed, and no liveness claimed: nothing obliges a client to ask.
`CHECK_DEADLOCK FALSE`, because the clock and the keys run out.

### The ledger

`LicenceLedger` knows accounts, cards, the clock and nothing else: a card gives
its term to one account, once, added to what the account still has or counted
from some moment up to now; nothing else moves the end of a licence. The
refinement maps a key to spent when it is REDEEMED or REVOKED, and an account to
the end of its entitlement, whatever its status: `revokeKey` and `unbindDevice`
end an entitlement but do not take its days away, and a later key adds to them.

## 5. The licence controller model

### Correspondence

`SessionTokens` is what the server keeps of one account on this device: the
refresh-token rows in the order they were issued (`pairs`), what the access token
given out with each is still worth, and the day the membership ends (`until`,
which `LicenseServer` models in full). A request is an operator whose value is
the set of its outcomes, each an answer and the rows it leaves.

`LicenseController` adds the desktop: `session` (memory), `disk` and `tmp`
(`session.bin`, `session.bin.tmp`), `phase`, `timer`, `runtime` (the services of
`main.ts` behind the licence), and `call`: for each of heartbeat, refresh,
redeem, login and logout the await it stands at and what it holds there. These
are single flights, by the promise the controller keeps or by the busy flag of
the page. What waits for a call (the heartbeat for a refresh, a redemption for a
heartbeat, `initApp` for the first heartbeat) goes on in the step in which that
call settles, as its continuation does in the same turn of the event loop.

### What is one step

What runs between two awaits. A request is two steps, the server's and the
arrival of the answer; a save is three, the write to the temporary file, the
rename and the continuation; all saves share one temporary file, so that a rename
may take what another save has written, or find nothing.

### What is left out

A build without an API address, a clock that is set back, the catalog cache, the
texts of errors. One clock stands for the server's and the desktop's.

### Bounds and fairness

`MaxPairs` bounds the pairs issued (requests that would issue more are not
answered), `MaxTime` the days, `MaxInFlight` the calls users begin while others
are under way; the timer, and calls that one call begins for another, are not
bounded by it. The runs use one; the theorems are for any number. Calls of
different pages may overlap all the same, as each page has a busy flag of its
own; section 9 says what breaks then, and section 10 what is proved then.
`Faults` chooses among lost answers, a server out of reach for
good, an administrator, a restart at any moment, writes and removals that fail.

`FairSpec`: requests time out, file operations end, the timer fires, time passes
and a relaunch that was begun comes about.

## 6. The engine manager model

`proc` is `gatewayProcess`; `alive` the processes that run; `told` those that were
killed; `start` the one flight of `startGateway`, by the await of `doStartGateway`
or `waitForGatewayReady` it stands at, with the process it holds; `stopping` what
each caller of `stopGateway` awaits: a restart (the page's, the settings', that of
config sync) and a stop for good. `timer` and `attempt` are the restart after a
crash. Each await ends a step; the promises that wait for a process to exit go on
in the step of its exit, since no other callback runs in between. `threw` is
history: the only way a start ends without saying so.

One statement about time is an assumption of the model, `Booted`: a gateway takes
tens of seconds to answer for the first time and a stop gives up after 3.2
seconds, so that by the first good answer the stops of an earlier process are
over. The delays of the restart timer are left out: `TimerFires` may come at any
moment after the crash. For the crash that set the timer that is too soon by the
first delay, 3 seconds; but the timer may be that of an earlier crash, since
`startGateway` does not clear it and `scheduleGatewayRestart` does not renew it.
`CrashRecovers` therefore speaks of restarts that are scheduled while no start is
under way. About the others see section 9.

Left out: the files a start prepares, the repair of the state directory, port
selection, logs and progress texts. Bounds: three process objects (one that runs,
one that is being killed, one that is forked; an object is used again when its
process is gone), one restart attempt, one poll per boot. Fairness: every await
of a start and of a stop has a time limit, timers fire, a killed process ends.
Nothing obliges a gateway to answer.

## 7. The configuration model

A configuration is two version numbers, of what a running gateway can take up
(`hot`) and of what only a new process reads (`cold`): `want` in the stores,
`file` in `openclaw.json`, `live` in the gateway. `queue` is
`openClawConfigApplyQueue`, `sync` the sync under way by its await, `deferred` the
restart that was put off, `recent` the ten minutes after a fallback restart,
`busy` what `hasActiveGatewayWorkloads` finds. A fork fixes the environment
(`cold`), reading the file while booting fixes `hot` (`Load`), and the gateway's
own watcher may take a change up or miss it (`Watch` has no fairness).

`dropped` is history: a sync that could not write, found no gateway to deliver to
although one was there, or failed a second time within ten minutes and scheduled
nothing. `NothingForgotten` and `Converges` say that there is no other way.

Bounds: three changes (one that is being delivered, one that comes meanwhile, one
after), two workloads. `Hangs` makes a workload that never ends. Fairness: every
await of a sync has its limit, a gateway that was forked for the sync boots,
timers fire, a workload that does not hang ends.

## 8. The session model

### Correspondence

One managed session. `point` is where each call of `runTurn` stands, from its
first await to the promise of `pendingTurns`; a call is named by the run id it
draws. `turn` is the session's entry in `activeTurns`, with its token, the runs
known to belong to it, whether a final answer is held back (`final`: not, for a
moment, or until a follow-up), whose lifecycle-end timer is set (`ending`), and
whether the turn waits for a follow-up of the gateway (`waiting`, which stands for
the seven flags of `isWaitingForRecoverableFollowup`). `bound`, `closed`,
`reopenable`, `stopped`, `manual`, `terminated` are `sessionIdByRunId`,
`recentlyClosedRunIds` and its flag, `stoppedSessions`, `manuallyStoppedSessions`
and `terminatedRunIds`; `conts` are the handlers that await the gateway's history,
each with the token of the turn it began with; `link` is the gateway client.
`halted` is history: the user has stopped a turn and not called `runTurn` since.

An event is one step: the run is resolved to the session, a turn is made for it
or not (`Heard`, that is `ensureActiveTurn`), and the handler does what it does to
the turn up to its await, if it has one. What the handler does with the history
is a step of its own (`Resume`), with all that has happened in between. What an
event says is a choice; which event may come is not restricted, beyond that the
gateway knows the run. `Close` is the pair of `cleanupSessionTurn` and
`resolveTurn` or `rejectTurn`, which every end of a turn but one runs together;
the catch of `chat.send` (`SendFails`) drops the promise instead.

### What is left out

Whether a promise is resolved or rejected, texts, messages and the reconciliation
with the history, the status the session shows, plan mode, channel sessions,
goals and their continuation, subagent runs and announcements, approvals, model
patches, the diagnostic stream "error", and the deletion of the session.

### Bounds and fairness

Two calls, `MaxTurns` two turn tokens (one is put by for each call on its way, so
that events never use up the token of a call), one handler that awaits the
history, one run whose failure the gateway reports, and no run that the gateway
begins by itself (the proofs are for any number of each). Two calls are what it
takes for one startup to overtake another. `FairSpec`: every await of `runTurn`
has a timeout (`WF` on the steps of a call), and every turn has its watchdog
(`startTurnTimeoutWatchdog`). Nothing else is assumed: the gateway may be silent
and the client may come and go for ever.

## 9. Runs

| Run | Instance | Question |
|---|---|---|
| `meeting_one_room` | 1 room, up to 2 rounds, 7 attempts, restarts | does a late answer, failure or timeout ever touch a row it should not; is a wake-up of the loop ever lost; is a stale run always told to stop; are participants skipped after exactly two failures; is the agenda held whole and in order, with and without an appended round; does the room implement `Discussion` |
| `meeting_failures` | 2 rooms (symmetric), licence and engine come and go, vanishing image, torn delete, restarts | does one meeting run at a time, and never on an engine that is down; what do the rows still promise when `runTurn` throws before its `try` |
| `meeting_ends` | 1 room, 12 attempts, stream events, `FairSpec` | does every running meeting end though no run ever answers; does a stream event ever change a closed attempt |
| `licence_redeem` | 2 accounts, 2 devices, 2 keys, 2 requests in flight, unbind, plan changes | is an active entitlement always on a device of its account; does a key give its term once |
| `licence_requests` | 1 account, 1 device, 2 keys, 2 requests in flight, heartbeat, login, revoke, unbind, suspend and restore | do versions order the leases; does a heartbeat overtaken by an unbind sign nothing |
| `licensing` | desktop and server, 2 pairs, every fault but the lost network | does the memory fall behind the server; does the chain of heartbeats break; does a loss go unreported |
| `licensing_offline` | the same, the network goes for good, `FairSpec` | does the offline grace end |
| `licensing_loss` | the same, no faults | violated: see below |
| `engine` | 3 processes, 1 restart attempt, `FairSpec` | is there ever a second gateway; does a stop hold; is the phase true; does every start and stop settle; does a restart scheduled after a crash start a gateway |
| `gateway_config` | 3 changes, 2 workloads, `FairSpec` | is a change forgotten; is an acknowledgement of old content taken for success; does the gateway converge |
| `config_hung_session` | 2 changes, 1 workload that hangs, `FairSpec` | violated: see below |
| `session_turns` | 2 calls, 2 turns, `FairSpec` | does a promise lose its turn; does a closed run come back; does a stop fail to hold or to reach a startup; does a call never settle |

Every property of a passing run has a mutant of the code's operators that breaks it (marked
`mutant:` in the modules): the guard of `updateAttemptStream` dropped, the
order of `getNextTurn` dropped, an interrupted attempt counted as a failure, a
promise kept by a failed `chat.send`, and so on.

`NoOrphanAttempt` and `RunningHasLoop` are stated for runs without the events
`"vanish"` and `"torn"`: there a `runTurn` that throws before its `try` block
leaves a running meeting with no loop, until the user pauses it or the
application restarts. `meeting_failures` checks what remains true.

`CHECK_DEADLOCK FALSE` is set in `meeting_one_room` and `meeting_ends`, where a
room that is deleted, or has reached the bounds, has nothing more to do, and in
the two runs of the licence server, where the clock and the keys run out.

What the bounds leave to the theorems: with 7 attempts `meeting_one_room` holds
an appended round but does not complete it (8 are needed), so that completion
after an appended round rests on `CompletedHeld` and `DiscussionImplemented`; in
`meeting_failures` each room is set running once and holds one round, so that
resumes, retries and appended rounds next to another meeting rest on `OneRuns`
and `HeldInOrder`. `meeting_ends` follows one start of a meeting, `engine` one caller
each of a restart and of a stop for good, and takes the end of the migrations of
a start for granted.

### What the violated runs show

* `LossStopsRuntime` (`licensing_loss`). A membership that has ended by the time a
  session is saved makes the phase `activation_required` with no call of
  `onAuthorizationLost`; the refusal of the next heartbeat then finds the phase
  not authorized and does not call it either; and no timer is set. The services
  behind the licence go on, although `main.ts:11530` says that every
  product-owned runtime is stopped.
* `RestartHappens` (`config_hung_session`). The hard timeout of the deferred
  restart goes through `syncOpenClawConfig`, which asks for active workloads again
  and puts the restart off anew, although `main.ts:2435` says "Hard timeout:
  restart anyway".

### Other disagreements, stated but not among the runs

These are definitions of the modules. Each is violated by the code; putting its
name into the configuration named, changed as said, shows the counterexample.

| Definition | Configuration | What the code does |
|---|---|---|
| `MeetingRoom!HostFailureCanBeRetried` | `MeetingRoomFailures.cfg`, `Events = {}` | `retryHost` resets the failed host turn and then calls `store.resume`, which throws when another meeting runs: the meeting stays paused for a host failure, but no host turn is failed any more. `resume` still works. |
| `MeetingRoom!CompletedTextIsOwn` | `MeetingRoomOne.cfg` | `resolveFinalAssistantContent` takes the newest assistant message of the hidden session: a run that ends without a message completes its turn with the speaker's previous answer. |
| `LicenseServer!ExpiredIsOver` | `LicenseRequests.cfg`, `Requests = {"login"}`, `MaxVersion = 4` | `getEntitlement` marks the entitlement it has read as EXPIRED in a second statement, by id alone; a redemption in between has extended it. |
| `LicenseServer!OneBoundDevice` | `LicenseRedeem.cfg`, one user, three keys, `MaxTime = 2`, `Requests = {"unbind"}` | `redeem` tests the device limit only for a device the server has no row for: one that was unbound is bound again. |
| `LicenseServer!RevocationReaches` | `LicenseRequests.cfg`, one key, `Requests = {"revoke"}` | `revokeKey` reads a key as UNUSED, the key is redeemed, the key alone is revoked. |
| `LicenseController!LogoutLasts` | `Licensing.cfg`, `MaxInFlight = 2`, `MaxPairs = 3`, `Faults = {}` | a logout removes `session.bin` while the refresh of a catalogue request is between its write and its rename: the file comes back. |
| `LicenseController!WatchIsKept` | `Licensing.cfg`, `MaxInFlight = 2`, `MaxPairs = 3`, `Term = 1`, `Faults = {"clear", "admin"}` | a refused heartbeat removes the session; meanwhile the user logs out, logs in and redeems, and the redemption joins that heartbeat; the removal throws: authorized, signed in, and no heartbeat to come. |
| `LicenseController!LossIsReported` | the same | a logout begins to remove a session that is not authorized, and ends after a login has made the application authorized: signed out, with services that were never told. |
| `SessionTurns!StartupObeysStop` | `SessionTurns.cfg` | `stopGatewayClient` clears the stop marks, late events past the cooldown delete them, and so does a newer call: a call between two awaits then sends its prompt, although the comment at `openclawRuntimeAdapter.ts:5224` takes the mark for granted. |

Also in the engine manager, and not stated as a definition because it takes the
time between two crashes into account: a crash sets the restart timer; before it
fires a session asks for a start, whose gateway crashes during its boot;
`scheduleGatewayRestart` finds a timer and sets none; that timer fires before the
start has looked again, `startGateway` joins the start, and the start fails. The
gateway stays down until someone asks for it. `EngineManager` has these steps;
`CrashRecovers` without `~Starting` would exclude them.

More of the adapter's behaviour that the model has and no property excludes: a
handler that awaited the history for a silent final, an error or the lifecycle
fallback ends the turn that is active by then, whosever it is; two calls that
start at once overwrite each other's turn and promise, and the failure of the
first one's `chat.send` takes those of the second (which is why
`EveryCallSettles` excuses a call whose promise another has taken or dropped); a
client that is gone when the prompt is ready makes `requireGatewayClient` throw
after turn and promise are set, which then stay until the watchdog.

## 10. Proofs

TLC checks the instances above; TLAPS proves the theorems below for every value
of the constants that the named assumptions allow. The assumptions (`ASSUME` in
the modules) only say that bounds are numbers, that null values are no members of
the sets they complete, and what the code enforces (at least two participants, at
least one round). TLC evaluates them on every run. A theorem with a hypothesis of
its own says so below.

Each proof has the same shape: an inductive invariant that TLC has agreed to, one
lemma per action (or per kind of action) that keeps it, and the properties as
consequences. Every invariant, action property and refinement that a passing run
checks is stated by a theorem, but for `LossIsReported`. The liveness properties
are not.

### Meeting rooms

`MeetingRoomProofs` proves, for any set of rooms, any number of participants from
two, any number of rounds from one, any bounds and any kinds of event:

| Theorem | Property | Says |
|---|---|---|
| `TypeCorrect` | `TypeOK` | no step writes a value outside the schema |
| `CurrentIsLive` | `CurrentAttemptLive` | the attempt a room points at is running, in the room's epoch, and so is its turn |
| `StaleIsStopped` | `StaleRunStopped` | a run no longer waited for has been told to stop |
| `LoopAwaits` | `NeverSpins` | the loop always reaches an await |
| `OneRuns` | `SingleRunningMeeting` | two meetings never run at once |
| `ServedRuns` | `RunningIsServed` | no meeting runs on an engine that is down |
| `RoomsInvariant` | | the invariant `RoomsInv` the others follow from |

The argument is one inductive invariant, `RoomsInv`, which says of each room
(`RoomInv`) that its record is typed, `CurrentLive`, that supplements are held,
that a loop that awaits awaits a real attempt, and `StaleStopped`.
`CurrentLive` alone is not inductive: `runMeeting` would reset an open
supplement although it is the current turn; so is not `StaleStopped`:
`stopSession` reaches only the run of the room's attempt, so that a pause leaves
no unstopped run only if the loop awaits an attempt at all. Most transactions
end in a room without a current attempt (`Quiet`), for which the invariant
reduces to what is said of the run. The lemmas follow the code: one per store
operator, one for the loop (`RunMeetingKeeps`), one for `schedule`, one for all
commands, one for the restart. A delete that is cut short advances the epoch
past that of the current attempt, so the restart lemma starts from a weaker
predicate, `Interruptible`. `OneRuns` adds that a step sets a room running only
if it was or no other is; `ServedRuns` that it then finds the engine available,
and that the engine's end pauses what runs.

`MeetingRoomAgendaProofs` has what is said of all turns and attempts of a room:

| Theorem | Property | Says |
|---|---|---|
| `HeldInOrder` | `AgendaInOrder` | a turn that was taken up finds every earlier one completed or skipped |
| `CompletedHeld` | `CompletedAgendaHeld` | a completed meeting has concluded its agenda, final summary included |
| `SkippedAfterTwo` | `SkippedAfterTwoFailures` | a participant is skipped if and only if it has failed twice, a host never |
| `NoneOrphaned` | `NoOrphanAttempt` | no attempt is running but the one the room points at; assumes `SetupSafe` |
| `RunningIsAttended` | `RunningHasLoop` | a running meeting has its loop, waiting for a run; assumes `SetupSafe` |
| `ClosedIsFrozen` | `ClosedAttemptsFrozen` | an attempt that is over never changes, whatever answers, streams or failures come late |
| `OnlyLiveComplete` | `OnlyLiveAttemptsComplete` | only the live attempt of a running meeting is ever completed |
| `AgendaInvariant` | | the invariant `AgendaInv` the others follow from |

`SetupSafe` is that no first prompt loses its image and no delete is cut short
(the events `"vanish"` and `"torn"` do not happen). Without it the two properties
are false, as said in section 9.

`AgendaInv` stands on `RoomsInv`. Of a room it says `Book`, the bookkeeping of
turns and attempts: that a participant is skipped only after two failures is
inductive only with what makes every attempt belong to a turn of the agenda and
lets only interrupted ones be aborted. It says `Stage`, what the status of the
room means for the agenda: an appended round comes after all that was held only
because a completed meeting ends with its final summary. `Unstopped`, that the
run of the current attempt has not been told to stop, is what makes a settled
run's answer count at all. Every action is shown to set one room to a room that is
sound again and to say how (`Advances`: status and turns; `Kept`: attempts), or to
be a restart (`AllWake`). The theorems follow from these alone.

`MeetingRoomDiscussionProofs` proves `DiscussionImplemented`: `Spec` implements
`Discussion`, whose meetings have a phase, an agenda and the turns already held.
`Advances` is read as actions of `Discussion`: a change of status
(`PhaseMoves`), a turn held (`TurnHeld`), a meeting that begins with its agenda
(`Begins`), one that is extended (`Extends`) or deleted (`Deletes`). A restart
pauses whatever was running, which is one step of `Discussion` because of
`SingleRunningMeeting`.

### Licence server

`LicenseServerProofs` proves, for any sets of accounts, devices, keys and requests
in flight, any terms, any bounds and any kinds of request:

| Theorem | Property | Says |
|---|---|---|
| `RowsTyped` | `TypeOK` | no entitlement without a device and a version, whatever login writes |
| `ActiveIsBound` | `ActiveOnBoundDevice` | an active entitlement is on a device bound to its account |
| `LeasesOrdered` | `LeasesInOrder` | the version of a lease settles its end, and a newer one ends no earlier |
| `HeartbeatReadsAgree` | `NoLeaseAfterUnbind` | a heartbeat overtaken by an unbind signs nothing |
| `LedgerKept` | `ImplementsLedger` | every step is a step of `LicenceLedger` or leaves it alone |
| `RowsInvariant` | | the invariant `RowsInv` the others follow from |

`RowsInv` strengthens the properties by what requests in flight have read
(`RequestInv`: a request's `now` is past, the entitlement that login is about to
mark exists, the key that is being revoked has an owner), by what a key says of
entitlements (`KeyInv`: a redeemed key's account has one), and by where the leases
stand against the present entitlement (`LeaseInv`). `LeasesInOrder` alone is not
inductive: a new lease must be compared with all older ones, and `LeaseInv` says
that none of them is ahead of the entitlement. Every change of an entitlement is
shown to satisfy `Follows` (version and end never go back, and the same version
keeps its end), from which one lemma, `RowsMove`, draws the rest. `LedgerKept`
shows that all steps but `Redeem`, `RevokeKey`, `UpdatePlan` and `Tick` leave the
ledger's variables alone (`LedgerStutters`), and matches these four.

### Licence controller

`LicenseControllerProofs` proves, for any number of token pairs and days, and any
lengths of term and grace:

| Theorem | Property | For |
|---|---|---|
| `LicenceTypes` | `TypeOK` | any calls in flight, any faults |
| `LicenceMemoryKeepsUp` | `MemoryKeepsUp` | any calls in flight, any faults |
| `LicenceWatched` | `WatchIsKept` | any calls in flight, any faults but a removal of `session.bin` that fails |
| `LicenceLossIsTold` | | any calls in flight, any faults but that one |

`MemoryKeepsUp` is not inductive: that the refresh token in memory is the newest
depends on the answers still under way. The invariant adds that each good answer
of a call that brings a pair has one that was issued (`AnswersBring`), that what
is held or presented was issued (`HeldIsKnown`), and `BroughtIsNew`: while an
answer is on its way nothing holds its pair, no two answers bring the same, and
no refresh presents it. `RefreshGivesUp` and `TimerHasSession` are what two catch
blocks take for granted. Most steps bring nothing (`QuietStep`) and are treated
by one lemma; the request, the answer, the restart and the environment are the
others.

The other two are about the removal of the session, which takes time and
during which anything may settle. Each step is shown to go on under the licence
(`GoesOn`), to give the session up (`GivesUp`), to end the licence (`Ends`) or
to start the process anew (`Starts`); `WatchIsKept` follows at once. A loss could
only be missed where a removal began without a licence and ends under a new one.
`Unreported` says that the application has then a new session, or that another
removal will report: that is `LossIsTold`, which is what `LossIsReported` comes
to when calls overlap. `LossIsReported` itself, and `WatchIsKept` with removals
that fail, hold only while users begin one call at a time, which nothing in the
code enforces (section 9): there the runs are all that is claimed.

### Engine manager

`EngineManagerProofs` proves, for any set of process objects and any limits on
restarts and polls: `GatewayTypes` (`TypeOK`), `GatewayIsOne` (`OneGateway`),
`GatewayStopHolds` (`StopHolds`) and `GatewayStarting` (`StartingIsUnderWay`), all
from `GatewayInvariant`. The difficulty is a start and several stops that hold
process objects over their awaits. The invariant says that the manager's process
and those whose end a stop awaits are alive, the latter killed (`ProcRuns`,
`AwaitedRun`); that a stop under way or in force leaves nothing to be killed but
the child of a start (`StopTells`); that a stop for good leaves no restart timer,
and no child that the manager still holds (`ShutdownSeen`); and that a good
answer counts only while nobody has given its process up (`AnswerCounts`). Its
centre is `UntoldByPoint`: the await at which the start stands decides which
processes that were not killed may run at all.

### Configuration

`GatewayConfigProofs` proves, for any number of changes and workloads and for
workloads that hang as well: `ConfigTypes`, `ConfigNotForgotten`
(`NothingForgotten`) and `ConfigAckIsTrue` (`AckIsTrue`). `NothingForgotten` is
not inductive, since a sync under way is no excuse by itself: it may have written
an older content. `ColdIsDue` and `HotIsDue` say, for what needs a restart and
what does not, what is still to come at each point of a sync; `RawIsFile` says
that the content a sync delivers is that of the file, which only the sync itself
writes.

### Sessions

`SessionTurnsProofs` proves, for any calls and runs and any number of turns and
handlers that await the history: `TurnTypes` (`TypeOK`), `TurnPromise`
(`PendingHasTurn`), `TurnRunsAreOpen` (`KnownIsOpen`), `TurnStopHolds`
(`StopHolds`) and `TurnStopReaches` (`StopReachesStartup`). The invariant adds
that a call which has not sent its prompt has no run the gateway or a turn knows
(`UnsentIsUnknown`), that a turn token is put by for each call on its way
(`TokensLast`), and what a stop leaves behind: no turn and no call on its way
until the next one (`HaltedIsQuiet`), no turn within the cooldown
(`CoolHasNoTurn`). Every gateway event, timer and continuation is `Moves`, a step
that touches its part of the state and leaves calls and marks alone; one lemma
keeps the invariant over all of them. The steps of calls, the stop and the client
are treated one by one. `TurnStopReaches` is an action property: within the
cooldown no event, timer or continuation takes the stop mark away (`MovesReach`),
and a call that does so obeys it.

### Only model-checked

The liveness properties `RunningMeetingEnds`, `OfflineAuthorizationEnds`,
`EveryCallSettles` (twice), `CrashRecovers` and `Converges`: proofs under
fairness need `ENABLED`, which the prover does not handle. `LossIsReported`, and
`WatchIsKept` when `session.bin` may fail to be removed, for one user call at a
time. The two
violated properties are refuted by TLC, and nothing is proved about them.

## 11. Not modelled

* Left out of modelled parts: named in sections 3 to 8 and in the notes of
  `PROJECT.json`. The largest are the history reconciliation, channel sessions,
  approvals and subagents of the runtime adapter, the accounts of the licence
  server, and all of `main.ts` that wires other components.
* Prompts, validation and export of meetings, licence catalog, desktop releases,
  server bootstrap, licence configuration, skins, enterprise configuration:
  text, rows and files, with no order of events to get wrong.
* Cowork storage, SQLite backup and data migration: rows, and files copied around
  a crash. The backup is a candidate for a module of its own.
* Application update, share and deployment, account sessions: state machines of
  their own, left for later.
* Scheduled tasks: a client that polls the gateway, where the jobs run.
* IM gateways, MCP servers and bridge, skills: routing, process launching and
  file installation against services outside the repository.
* Desktop shell, renderer, admin web, packaging: presentation and build.
