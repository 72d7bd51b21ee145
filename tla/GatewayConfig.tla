--------------------------- MODULE GatewayConfig ---------------------------
(***************************************************************************)
(* How a change of the settings reaches the OpenClaw gateway: the queue of *)
(* syncOpenClawConfig, the delivery of openclaw.json to a gateway that     *)
(* runs, and the restart that is put off while the gateway works.          *)
(*                                                                         *)
(* A configuration is two version numbers: of what the gateway can apply   *)
(* while it runs (hot) and of what only a new process takes up (cold:      *)
(* secrets in its environment, bindings, mcp).  The gateway's process is   *)
(* EngineManager's; here it is what it has read of the configuration.      *)
(***************************************************************************)
EXTENDS Naturals, Sequences

CONSTANTS
  MaxEdits,    \* bound: changes of the settings
  MaxWork,     \* bound: workloads, one after another
  Hangs        \* a workload may never end

ASSUME BoundAssumption == MaxEdits \in Nat /\ MaxWork \in Nat /\ Hangs \in BOOLEAN

VARIABLES
  want,       \* what the stores call for
  file,       \* openclaw.json, and the secrets kept for the next fork
  live,       \* what the gateway works with
  gateway,    \* the process: none, not yet past reading the file, or past it
  phase,      \* the manager's status
  queue,      \* openClawConfigApplyQueue: for each sync, restartGatewayIfRunning
  sync,       \* the sync under way
  deferred,   \* deferredRestartTimer, deferredRestartTimeout, deferredRestartReason
  recent,     \* a fallback restart was scheduled within the last 10 minutes
  busy,       \* hasActiveGatewayWorkloads
  work,       \* how many workloads there have been
  dropped     \* history: a sync failed, or gave a change up

vars == <<want, file, live, gateway, phase, queue, sync, deferred, recent, busy, work, dropped>>
-----------------------------------------------------------------------------
Config == [hot : Nat, cold : Nat]
Edits(c) == c.hot + c.cold

Gateways == {"none", "loading", "booting", "up"}
Phases == {"down", "starting", "running"}

\* The awaits of a sync: the MCP servers, then the gateway client and config.set,
\* or the stop and the start of the gateway.
Points == {"idle", "resolving", "client", "setting", "stopping", "starting"}

\* forced: restartGatewayIfRunning; raw: the hot part of the file that was read;
\* again: the base hash was refused once.
Sync == [at : Points, forced : BOOLEAN, raw : Nat, again : BOOLEAN]
Idle == [at |-> "idle", forced |-> FALSE, raw |-> 0, again |-> FALSE]

\* What the process has read of the file is out of date.
Behind(g, l, f) ==
  \/ g # "none" /\ l.cold # f.cold
  \/ g \in {"booting", "up"} /\ l.hot # f.hot
-----------------------------------------------------------------------------
(* syncOpenClawConfig                                                       *)

\* A setting is changed and a sync asked for; some callers force a restart.
Edit ==
  /\ Edits(want) < MaxEdits
  /\ \/ want' = [want EXCEPT !.hot = @ + 1]
     \/ want' = [want EXCEPT !.cold = @ + 1]
  /\ \E forced \in BOOLEAN : queue' = Append(queue, forced)
  /\ UNCHANGED <<file, live, gateway, phase, sync, deferred, recent, busy, work, dropped>>

Begin ==
  /\ sync.at = "idle" /\ queue # <<>>
  /\ sync' = [Idle EXCEPT !.at = "resolving", !.forced = Head(queue)]
  /\ queue' = Tail(queue)
  /\ UNCHANGED <<want, file, live, gateway, phase, deferred, recent, busy, work, dropped>>

\* sync() could not write: the status becomes an error, whatever the gateway does.
WriteFails ==
  /\ sync.at = "resolving"
  /\ sync' = Idle
  /\ phase' = "down"
  /\ dropped' = TRUE
  /\ UNCHANGED <<want, file, live, gateway, queue, deferred, recent, busy, work>>

\* Nothing is done, by the phase.
Skip ==
  /\ sync' = Idle
  /\ dropped' = (dropped \/ Behind(gateway, live, file'))
  /\ UNCHANGED deferred

\* mutant: a gateway that is starting is left to read the file.
DeliverToRunning ==
  IF phase # "running" THEN sync' = Idle /\ UNCHANGED <<deferred, dropped>>
  ELSE /\ sync' = [sync EXCEPT !.at = "client", !.raw = file'.hot]
       /\ UNCHANGED <<deferred, dropped>>

\* mutant: the content is the one the sync has found.
DeliverFound ==
  IF phase = "down" THEN Skip
  ELSE /\ sync' = [sync EXCEPT !.at = "client", !.raw = file.hot]
       /\ UNCHANGED <<deferred, dropped>>

\* deliverOpenClawConfigToGateway, up to its first await
Deliver ==
  IF phase = "down" THEN Skip
  ELSE /\ sync' = [sync EXCEPT !.at = "client", !.raw = file'.hot]
       /\ UNCHANGED <<deferred, dropped>>

\* scheduleDeferredGatewayRestart keeps what is scheduled.
Defer == deferred' = TRUE

HardRestart ==
  \/ phase # "running" /\ Skip
  \/ phase = "running" /\ busy /\ Defer /\ sync' = Idle /\ UNCHANGED dropped
  \/ /\ phase = "running" /\ ~busy
     /\ sync' = [sync EXCEPT !.at = "stopping"]
     /\ UNCHANGED <<deferred, dropped>>

Write ==
  /\ sync.at = "resolving"
  /\ file' = want
  /\ IF want.cold # file.cold \/ sync.forced
       THEN HardRestart
       ELSE IF want = file
         THEN sync' = Idle /\ UNCHANGED <<deferred, dropped>>
         ELSE Deliver
  /\ UNCHANGED <<want, live, gateway, phase, queue, recent, busy, work>>
-----------------------------------------------------------------------------
(* openclawConfigDelivery.ts                                                *)

\* At most one restart in ten minutes.
Fallback ==
  /\ sync' = Idle
  /\ IF recent THEN dropped' = TRUE /\ UNCHANGED <<recent, deferred>>
     ELSE recent' = TRUE /\ Defer /\ UNCHANGED dropped

\* ensureRpcClient: connected to a gateway that answers, which the manager then
\* calls running, or null.
Client ==
  /\ sync.at = "client"
  /\ \/ /\ gateway = "up"
        /\ phase' = "running"
        /\ sync' = [sync EXCEPT !.at = "setting"]
        /\ UNCHANGED <<deferred, recent, dropped>>
     \/ Fallback /\ UNCHANGED phase
  /\ UNCHANGED <<want, file, live, gateway, queue, busy, work>>

\* config.get and config.set, acknowledged.
Acked ==
  /\ sync.at = "setting" /\ gateway = "up"
  /\ live' = [live EXCEPT !.hot = sync.raw]
  /\ sync' = Idle
  /\ UNCHANGED <<want, file, gateway, phase, queue, deferred, recent, busy, work, dropped>>

\* The base hash is refused once more, or the request fails, perhaps after the
\* gateway has applied it.
SetFails ==
  /\ sync.at = "setting"
  /\ \/ /\ ~sync.again
        /\ sync' = [sync EXCEPT !.again = TRUE]
        /\ UNCHANGED <<live, deferred, recent, dropped>>
     \/ /\ Fallback
        /\ \/ UNCHANGED live
           \/ gateway = "up" /\ live' = [live EXCEPT !.hot = sync.raw]
  /\ UNCHANGED <<want, file, gateway, phase, queue, busy, work>>
-----------------------------------------------------------------------------
(* The hard restart, and the one put off.                                   *)

Stopped ==
  /\ sync.at = "stopping"
  /\ gateway' = "none" /\ phase' = "down"
  /\ sync' = [sync EXCEPT !.at = "starting"]
  /\ UNCHANGED <<want, file, live, queue, deferred, recent, busy, work, dropped>>

\* startGateway has settled, with a gateway or without one.
Started ==
  /\ sync.at = "starting" /\ phase # "starting"
  /\ sync' = Idle
  /\ UNCHANGED <<want, file, live, gateway, phase, queue, deferred, recent, busy, work, dropped>>

\* mutant: the flag that forces the restart is not passed on.
ExecuteUnforced ==
  /\ deferred' = FALSE
  /\ queue' = Append(queue, FALSE)
  /\ UNCHANGED <<want, file, live, gateway, phase, sync, recent, busy, work, dropped>>

\* executeDeferredGatewayRestart
Execute ==
  /\ deferred' = FALSE
  /\ queue' = Append(queue, TRUE)
  /\ UNCHANGED <<want, file, live, gateway, phase, sync, recent, busy, work, dropped>>

PollDeferred == deferred /\ ~busy /\ Execute
DeferredTimesOut == deferred /\ Execute
-----------------------------------------------------------------------------
(* The gateway, its watcher, its work and the ten minutes.                  *)

\* A start, of the sync or of anybody; the environment is fixed at the fork.
Fork ==
  /\ gateway = "none"
  /\ gateway' = "loading" /\ phase' = "starting"
  /\ live' = [live EXCEPT !.cold = file.cold]
  /\ UNCHANGED <<want, file, queue, sync, deferred, recent, busy, work, dropped>>

Load ==
  /\ gateway = "loading"
  /\ gateway' = "booting"
  /\ live' = [live EXCEPT !.hot = file.hot]
  /\ UNCHANGED <<want, file, phase, queue, sync, deferred, recent, busy, work, dropped>>

Up ==
  /\ gateway = "booting"
  /\ gateway' = "up" /\ phase' = "running"
  /\ UNCHANGED <<want, file, live, queue, sync, deferred, recent, busy, work, dropped>>

Dies ==
  /\ gateway # "none"
  /\ gateway' = "none" /\ phase' = "down"
  /\ UNCHANGED <<want, file, live, queue, sync, deferred, recent, busy, work, dropped>>

\* startGateway finds a gateway that answers, behind a status that says error.
Probe ==
  /\ gateway = "up" /\ phase = "down"
  /\ phase' = "running"
  /\ UNCHANGED <<want, file, live, gateway, queue, sync, deferred, recent, busy, work, dropped>>

\* The gateway's own watcher, which may miss a change.
Watch ==
  /\ gateway = "up" /\ live.hot # file.hot
  /\ live' = [live EXCEPT !.hot = file.hot]
  /\ UNCHANGED <<want, file, gateway, phase, queue, sync, deferred, recent, busy, work, dropped>>

WorkBegins ==
  /\ ~busy /\ gateway = "up" /\ work < MaxWork
  /\ busy' = TRUE /\ work' = work + 1
  /\ UNCHANGED <<want, file, live, gateway, phase, queue, sync, deferred, recent, dropped>>

WorkEnds ==
  /\ busy /\ ~Hangs
  /\ busy' = FALSE
  /\ UNCHANGED <<want, file, live, gateway, phase, queue, sync, deferred, recent, work, dropped>>

TenMinutesPass ==
  /\ recent
  /\ recent' = FALSE
  /\ UNCHANGED <<want, file, live, gateway, phase, queue, sync, deferred, busy, work, dropped>>
-----------------------------------------------------------------------------
Init ==
  /\ want = [hot |-> 0, cold |-> 0] /\ file = want /\ live = want
  /\ gateway = "none" /\ phase = "down"
  /\ queue = <<>> /\ sync = Idle
  /\ deferred = FALSE /\ recent = FALSE /\ busy = FALSE /\ work = 0 /\ dropped = FALSE

SyncStep == Begin \/ Write \/ WriteFails \/ Client \/ Acked \/ SetFails \/ Stopped \/ Started

Next ==
  \/ Edit \/ SyncStep \/ PollDeferred \/ DeferredTimesOut
  \/ Fork \/ Load \/ Up \/ Dies \/ Probe \/ Watch
  \/ WorkBegins \/ WorkEnds \/ TenMinutesPass

Spec == Init /\ [][Next]_vars

\* Every await of a sync has its limit, a start comes to an end, timers fire, and
\* a workload that does not hang ends.
FairSpec ==
  /\ Spec
  /\ WF_vars(SyncStep) /\ WF_vars(Load) /\ WF_vars(Up)
  /\ WF_vars(sync.at = "starting" /\ Fork)
  /\ WF_vars(PollDeferred) /\ WF_vars(DeferredTimesOut)
  /\ WF_vars(WorkEnds)
-----------------------------------------------------------------------------
(* Properties.                                                              *)

TypeOK ==
  /\ want \in Config /\ file \in Config /\ live \in Config
  /\ gateway \in Gateways /\ phase \in Phases
  /\ queue \in Seq(BOOLEAN) /\ sync \in Sync
  /\ deferred \in BOOLEAN /\ recent \in BOOLEAN /\ busy \in BOOLEAN
  /\ work \in 0 .. MaxWork /\ dropped \in BOOLEAN

\* A gateway that works with less than the file is not forgotten: unless a change
\* was given up, a sync is under way, a restart is scheduled or it is in the queue.
NothingForgotten ==
  Behind(gateway, live, file) =>
    dropped \/ deferred \/ sync.at # "idle" \/ \E i \in DOMAIN queue : queue[i]

\* When config.set is acknowledged, the gateway works with what the file holds by
\* then, although the file was read before the client was there.
AckIsTrue == [][Acked => live'.hot = file'.hot]_vars

\* A gateway that is up comes to work with what the settings call for, through
\* missed changes, failing requests, restarts put off and crashes, unless a
\* change was given up.
Converges ==
  gateway = "up" /\ live # want ~> gateway # "up" \/ live = want \/ dropped

\* A restart that was put off happens in the end, even if a workload hangs, unless
\* it is no longer needed or a change was given up.
RestartHappens ==
  deferred ~> gateway # "up" \/ ~Behind(gateway, live, file) \/ dropped
=============================================================================
