------------------------ MODULE GatewayConfigProofs ------------------------
(***************************************************************************)
(* No change is forgotten on its way to the gateway, and an acknowledged   *)
(* configuration is the one in the file, for any number of changes and     *)
(* workloads.                                                              *)
(*                                                                         *)
(* A sync under way is no excuse by itself: an unforced one that finds the *)
(* file as it should be does nothing.  So the invariant says, of each half *)
(* of the configuration, who is going to bring it to the gateway.          *)
(***************************************************************************)
EXTENDS GatewayConfig, SequenceTheorems, TLAPS

Queued == \E i \in DOMAIN queue : queue[i]

\* A restart is to come, or a change was given up.
RestartIsDue ==
  \/ dropped \/ deferred \/ Queued
  \/ sync.at = "resolving" /\ sync.forced
  \/ sync.at = "stopping"

Delivers == sync.at \in {"client", "setting"}

ColdIsDue == gateway # "none" /\ live.cold # file.cold => RestartIsDue
HotIsDue == gateway \in {"booting", "up"} /\ live.hot # file.hot => RestartIsDue \/ Delivers

\* What is delivered is the file: only the sync itself writes it.
RawIsFile == Delivers => sync.raw = file.hot

IInv == TypeOK /\ ColdIsDue /\ HotIsDue /\ RawIsFile

USE BoundAssumption
-----------------------------------------------------------------------------
(* The queue. *)

Holds(q) == \E i \in DOMAIN q : q[i]

LEMMA AppendHolds ==
  ASSUME NEW q \in Seq(BOOLEAN), NEW b \in BOOLEAN
  PROVE  /\ Append(q, b) \in Seq(BOOLEAN)
         /\ Holds(q) \/ b => Holds(Append(q, b))
<1>1. Append(q, b) \in Seq(BOOLEAN) /\ Len(Append(q, b)) = Len(q) + 1
  OBVIOUS
<1>2. ASSUME NEW i \in DOMAIN q, q[i] PROVE Holds(Append(q, b))
  <2>1. i \in DOMAIN Append(q, b) /\ Append(q, b)[i] = q[i]
    BY <1>1
  <2> QED
    BY <2>1, <1>2 DEF Holds
<1>3. ASSUME b PROVE Holds(Append(q, b))
  <2>1. Len(q) + 1 \in DOMAIN Append(q, b) /\ Append(q, b)[Len(q) + 1] = b
    BY <1>1
  <2> QED
    BY <2>1, <1>3 DEF Holds
<1> QED
  BY <1>1, <1>2, <1>3 DEF Holds

LEMMA TailHolds ==
  ASSUME NEW q \in Seq(BOOLEAN), q # <<>>
  PROVE  /\ Head(q) \in BOOLEAN /\ Tail(q) \in Seq(BOOLEAN)
         /\ Holds(q) => Head(q) \/ Holds(Tail(q))
<1>1. Head(q) \in BOOLEAN /\ Tail(q) \in Seq(BOOLEAN) /\ Len(Tail(q)) = Len(q) - 1 /\ Len(q) \in Nat \ {0}
  OBVIOUS
<1>2. ASSUME NEW i \in DOMAIN q, q[i], i # 1 PROVE Holds(Tail(q))
  <2>1. i \in 2 .. Len(q)
    BY <1>1, <1>2
  <2>2. \A j \in 1 .. Len(q) - 1 : j \in DOMAIN Tail(q) /\ Tail(q)[j] = q[j + 1]
    OBVIOUS
  <2>3. i - 1 \in DOMAIN Tail(q) /\ Tail(q)[i - 1] = q[i]
    BY <1>1, <2>1, <2>2
  <2> QED
    BY <2>3, <1>2 DEF Holds
<1>3. q[1] = Head(q)
  OBVIOUS
<1> QED
  BY <1>1, <1>2, <1>3 DEF Holds
-----------------------------------------------------------------------------
(* The first state. *)

LEMMA IdleIsSync == Idle \in Sync
  BY DEF Idle, Sync, Points

LEMMA InitHolds == Init => IInv
<1> SUFFICES ASSUME Init PROVE IInv
  OBVIOUS
<1>1. TypeOK
  <2>1. [hot |-> 0, cold |-> 0] \in Config /\ 0 \in 0 .. MaxWork
    BY DEF Config
  <2>2. << >> \in Seq(BOOLEAN)
    OBVIOUS
  <2> QED
    BY <2>1, <2>2, IdleIsSync DEF Init, TypeOK, Gateways, Phases
<1>2. ColdIsDue /\ HotIsDue /\ RawIsFile
  BY DEF Init, Idle, ColdIsDue, HotIsDue, Delivers, RawIsFile
<1> QED
  BY <1>1, <1>2 DEF IInv
-----------------------------------------------------------------------------
(* One lemma per action. *)

LEMMA EditKeeps == ASSUME IInv, Edit PROVE IInv'
<1> USE DEF IInv, TypeOK, Edit
<1>1. want' \in Config
  <2>1. want.hot + 1 \in Nat /\ want.cold + 1 \in Nat
    BY DEF Config
  <2> QED
    BY <2>1 DEF Config
<1>2. queue' \in Seq(BOOLEAN) /\ (Queued => Queued')
  BY AppendHolds DEF Holds, Queued
<1>3. TypeOK'
  BY <1>1, <1>2
<1>4. ColdIsDue' /\ HotIsDue' /\ RawIsFile'
  BY <1>2 DEF ColdIsDue, HotIsDue, RawIsFile, RestartIsDue, Delivers
<1> QED
  BY <1>3, <1>4

LEMMA BeginKeeps == ASSUME IInv, Begin PROVE IInv'
<1> USE DEF IInv, TypeOK, Begin
<1>1. queue' \in Seq(BOOLEAN) /\ Head(queue) \in BOOLEAN /\ (Queued => Head(queue) \/ Queued')
  BY TailHolds DEF Holds, Queued
<1>2. sync' \in Sync /\ sync'.at = "resolving" /\ sync'.forced = Head(queue)
  BY <1>1 DEF Idle, Sync, Points
<1>3. TypeOK'
  BY <1>1, <1>2
<1>4. RestartIsDue => RestartIsDue'
  BY <1>1, <1>2 DEF RestartIsDue
<1>5. ColdIsDue' /\ HotIsDue' /\ RawIsFile'
  BY <1>2, <1>4 DEF ColdIsDue, HotIsDue, RawIsFile, Delivers
<1> QED
  BY <1>3, <1>5

LEMMA WriteKeeps == ASSUME IInv, Write PROVE IInv'
<1> USE DEF IInv, TypeOK, Write, HardRestart, Skip, Deliver, Defer, Behind
<1>1. sync' \in Sync
  BY IdleIsSync DEF Sync, Points, Config
<1>2. TypeOK'
  BY <1>1 DEF Config, Sync, Gateways, Phases
<1>3. ColdIsDue'
  BY DEF ColdIsDue, RestartIsDue, Queued, Config, Sync, Idle
<1>4. HotIsDue'
  BY DEF ColdIsDue, HotIsDue, RawIsFile, RestartIsDue, Delivers, Queued, Config, Sync, Idle
<1>5. RawIsFile'
  <2>1. sync'.at \in {"idle", "stopping"} \/ sync' = [sync EXCEPT !.at = "client", !.raw = file'.hot]
    BY DEF Idle, Sync
  <2>2. sync' = [sync EXCEPT !.at = "client", !.raw = file'.hot] => sync'.raw = file'.hot
    BY DEF Sync
  <2> QED
    BY <2>1, <2>2 DEF RawIsFile, Delivers
<1> QED
  BY <1>2, <1>3, <1>4, <1>5

LEMMA WriteFailsKeeps == ASSUME IInv, WriteFails PROVE IInv'
<1> USE DEF IInv, TypeOK, WriteFails
<1>1. sync' \in Sync
  BY IdleIsSync DEF Sync, Points, Config
<1>2. TypeOK'
  BY <1>1 DEF Config, Sync, Gateways, Phases
<1>3. ColdIsDue'
  BY DEF ColdIsDue, RestartIsDue, Queued, Config, Sync, Idle
<1>4. HotIsDue'
  BY DEF ColdIsDue, HotIsDue, RawIsFile, RestartIsDue, Delivers, Queued, Config, Sync, Idle
<1>5. RawIsFile'
  BY DEF RawIsFile, Delivers, Config, Sync, Idle
<1> QED
  BY <1>2, <1>3, <1>4, <1>5

LEMMA ClientKeeps == ASSUME IInv, Client PROVE IInv'
<1> USE DEF IInv, TypeOK, Client, Fallback, Defer
<1>1. sync' \in Sync
  BY IdleIsSync DEF Sync, Points, Config
<1>2. TypeOK'
  BY <1>1 DEF Config, Sync, Gateways, Phases
<1>3. ColdIsDue'
  BY DEF ColdIsDue, RestartIsDue, Queued, Config, Sync, Idle
<1>4. HotIsDue'
  BY DEF ColdIsDue, HotIsDue, RawIsFile, RestartIsDue, Delivers, Queued, Config, Sync, Idle
<1>5. RawIsFile'
  BY DEF RawIsFile, Delivers, Config, Sync, Idle
<1> QED
  BY <1>2, <1>3, <1>4, <1>5

LEMMA AckedKeeps == ASSUME IInv, Acked PROVE IInv'
<1> USE DEF IInv, TypeOK, Acked
<1>1. sync' \in Sync
  BY IdleIsSync DEF Sync, Points, Config
<1>2. TypeOK'
  BY <1>1 DEF Config, Sync, Gateways, Phases
<1>3. ColdIsDue'
  BY DEF ColdIsDue, RestartIsDue, Queued, Config, Sync, Idle
<1>4. HotIsDue'
  BY DEF ColdIsDue, HotIsDue, RawIsFile, RestartIsDue, Delivers, Queued, Config, Sync, Idle
<1>5. RawIsFile'
  BY DEF RawIsFile, Delivers, Config, Sync, Idle
<1> QED
  BY <1>2, <1>3, <1>4, <1>5

LEMMA SetFailsKeeps == ASSUME IInv, SetFails PROVE IInv'
<1> USE DEF IInv, TypeOK, SetFails, Fallback, Defer
<1>1. sync' \in Sync
  BY IdleIsSync DEF Sync, Points, Config
<1>2. TypeOK'
  BY <1>1 DEF Config, Sync, Gateways, Phases
<1>3. ColdIsDue'
  BY DEF ColdIsDue, RestartIsDue, Queued, Config, Sync, Idle
<1>4. HotIsDue'
  BY DEF ColdIsDue, HotIsDue, RawIsFile, RestartIsDue, Delivers, Queued, Config, Sync, Idle
<1>5. RawIsFile'
  BY DEF RawIsFile, Delivers, Config, Sync, Idle
<1> QED
  BY <1>2, <1>3, <1>4, <1>5

LEMMA StoppedKeeps == ASSUME IInv, Stopped PROVE IInv'
<1> USE DEF IInv, TypeOK, Stopped
<1>1. sync' \in Sync
  BY IdleIsSync DEF Sync, Points, Config
<1>2. TypeOK'
  BY <1>1 DEF Config, Sync, Gateways, Phases
<1>3. ColdIsDue'
  BY DEF ColdIsDue, RestartIsDue, Queued, Config, Sync, Idle
<1>4. HotIsDue'
  BY DEF ColdIsDue, HotIsDue, RawIsFile, RestartIsDue, Delivers, Queued, Config, Sync, Idle
<1>5. RawIsFile'
  BY DEF RawIsFile, Delivers, Config, Sync, Idle
<1> QED
  BY <1>2, <1>3, <1>4, <1>5

LEMMA StartedKeeps == ASSUME IInv, Started PROVE IInv'
<1> USE DEF IInv, TypeOK, Started
<1>1. sync' \in Sync
  BY IdleIsSync DEF Sync, Points, Config
<1>2. TypeOK'
  BY <1>1 DEF Config, Sync, Gateways, Phases
<1>3. ColdIsDue'
  BY DEF ColdIsDue, RestartIsDue, Queued, Config, Sync, Idle
<1>4. HotIsDue'
  BY DEF ColdIsDue, HotIsDue, RawIsFile, RestartIsDue, Delivers, Queued, Config, Sync, Idle
<1>5. RawIsFile'
  BY DEF RawIsFile, Delivers, Config, Sync, Idle
<1> QED
  BY <1>2, <1>3, <1>4, <1>5

LEMMA ExecuteKeeps == ASSUME IInv, Execute PROVE IInv'
<1> USE DEF IInv, TypeOK, Execute
<1>1. queue' \in Seq(BOOLEAN) /\ Queued'
  BY AppendHolds DEF Holds, Queued
<1>2. TypeOK'
  BY <1>1
<1>3. ColdIsDue' /\ HotIsDue' /\ RawIsFile'
  BY <1>1 DEF ColdIsDue, HotIsDue, RawIsFile, RestartIsDue, Delivers
<1> QED
  BY <1>2, <1>3

LEMMA ForkKeeps == ASSUME IInv, Fork PROVE IInv'
<1> USE DEF IInv, TypeOK, Fork
<1>1. sync' \in Sync
  BY IdleIsSync DEF Sync, Points, Config
<1>2. TypeOK'
  BY <1>1 DEF Config, Sync, Gateways, Phases
<1>3. ColdIsDue'
  BY DEF ColdIsDue, RestartIsDue, Queued, Config, Sync, Idle
<1>4. HotIsDue'
  BY DEF ColdIsDue, HotIsDue, RawIsFile, RestartIsDue, Delivers, Queued, Config, Sync, Idle
<1>5. RawIsFile'
  BY DEF RawIsFile, Delivers, Config, Sync, Idle
<1> QED
  BY <1>2, <1>3, <1>4, <1>5

LEMMA LoadKeeps == ASSUME IInv, Load PROVE IInv'
<1> USE DEF IInv, TypeOK, Load
<1>1. sync' \in Sync
  BY IdleIsSync DEF Sync, Points, Config
<1>2. TypeOK'
  BY <1>1 DEF Config, Sync, Gateways, Phases
<1>3. ColdIsDue'
  BY DEF ColdIsDue, RestartIsDue, Queued, Config, Sync, Idle
<1>4. HotIsDue'
  BY DEF ColdIsDue, HotIsDue, RawIsFile, RestartIsDue, Delivers, Queued, Config, Sync, Idle
<1>5. RawIsFile'
  BY DEF RawIsFile, Delivers, Config, Sync, Idle
<1> QED
  BY <1>2, <1>3, <1>4, <1>5

LEMMA UpKeeps == ASSUME IInv, Up PROVE IInv'
<1> USE DEF IInv, TypeOK, Up
<1>1. sync' \in Sync
  BY IdleIsSync DEF Sync, Points, Config
<1>2. TypeOK'
  BY <1>1 DEF Config, Sync, Gateways, Phases
<1>3. ColdIsDue'
  BY DEF ColdIsDue, RestartIsDue, Queued, Config, Sync, Idle
<1>4. HotIsDue'
  BY DEF ColdIsDue, HotIsDue, RawIsFile, RestartIsDue, Delivers, Queued, Config, Sync, Idle
<1>5. RawIsFile'
  BY DEF RawIsFile, Delivers, Config, Sync, Idle
<1> QED
  BY <1>2, <1>3, <1>4, <1>5

LEMMA DiesKeeps == ASSUME IInv, Dies PROVE IInv'
<1> USE DEF IInv, TypeOK, Dies
<1>1. sync' \in Sync
  BY IdleIsSync DEF Sync, Points, Config
<1>2. TypeOK'
  BY <1>1 DEF Config, Sync, Gateways, Phases
<1>3. ColdIsDue'
  BY DEF ColdIsDue, RestartIsDue, Queued, Config, Sync, Idle
<1>4. HotIsDue'
  BY DEF ColdIsDue, HotIsDue, RawIsFile, RestartIsDue, Delivers, Queued, Config, Sync, Idle
<1>5. RawIsFile'
  BY DEF RawIsFile, Delivers, Config, Sync, Idle
<1> QED
  BY <1>2, <1>3, <1>4, <1>5

LEMMA ProbeKeeps == ASSUME IInv, Probe PROVE IInv'
<1> USE DEF IInv, TypeOK, Probe
<1>1. sync' \in Sync
  BY IdleIsSync DEF Sync, Points, Config
<1>2. TypeOK'
  BY <1>1 DEF Config, Sync, Gateways, Phases
<1>3. ColdIsDue'
  BY DEF ColdIsDue, RestartIsDue, Queued, Config, Sync, Idle
<1>4. HotIsDue'
  BY DEF ColdIsDue, HotIsDue, RawIsFile, RestartIsDue, Delivers, Queued, Config, Sync, Idle
<1>5. RawIsFile'
  BY DEF RawIsFile, Delivers, Config, Sync, Idle
<1> QED
  BY <1>2, <1>3, <1>4, <1>5

LEMMA WatchKeeps == ASSUME IInv, Watch PROVE IInv'
<1> USE DEF IInv, TypeOK, Watch
<1>1. sync' \in Sync
  BY IdleIsSync DEF Sync, Points, Config
<1>2. TypeOK'
  BY <1>1 DEF Config, Sync, Gateways, Phases
<1>3. ColdIsDue'
  BY DEF ColdIsDue, RestartIsDue, Queued, Config, Sync, Idle
<1>4. HotIsDue'
  BY DEF ColdIsDue, HotIsDue, RawIsFile, RestartIsDue, Delivers, Queued, Config, Sync, Idle
<1>5. RawIsFile'
  BY DEF RawIsFile, Delivers, Config, Sync, Idle
<1> QED
  BY <1>2, <1>3, <1>4, <1>5

LEMMA WorkBeginsKeeps == ASSUME IInv, WorkBegins PROVE IInv'
<1> USE DEF IInv, TypeOK, WorkBegins
<1>1. sync' \in Sync
  BY IdleIsSync DEF Sync, Points, Config
<1>2. TypeOK'
  BY <1>1 DEF Config, Sync, Gateways, Phases
<1>3. ColdIsDue'
  BY DEF ColdIsDue, RestartIsDue, Queued, Config, Sync, Idle
<1>4. HotIsDue'
  BY DEF ColdIsDue, HotIsDue, RawIsFile, RestartIsDue, Delivers, Queued, Config, Sync, Idle
<1>5. RawIsFile'
  BY DEF RawIsFile, Delivers, Config, Sync, Idle
<1> QED
  BY <1>2, <1>3, <1>4, <1>5

LEMMA WorkEndsKeeps == ASSUME IInv, WorkEnds PROVE IInv'
<1> USE DEF IInv, TypeOK, WorkEnds
<1>1. sync' \in Sync
  BY IdleIsSync DEF Sync, Points, Config
<1>2. TypeOK'
  BY <1>1 DEF Config, Sync, Gateways, Phases
<1>3. ColdIsDue'
  BY DEF ColdIsDue, RestartIsDue, Queued, Config, Sync, Idle
<1>4. HotIsDue'
  BY DEF ColdIsDue, HotIsDue, RawIsFile, RestartIsDue, Delivers, Queued, Config, Sync, Idle
<1>5. RawIsFile'
  BY DEF RawIsFile, Delivers, Config, Sync, Idle
<1> QED
  BY <1>2, <1>3, <1>4, <1>5

LEMMA TenMinutesPassKeeps == ASSUME IInv, TenMinutesPass PROVE IInv'
<1> USE DEF IInv, TypeOK, TenMinutesPass
<1>1. sync' \in Sync
  BY IdleIsSync DEF Sync, Points, Config
<1>2. TypeOK'
  BY <1>1 DEF Config, Sync, Gateways, Phases
<1>3. ColdIsDue'
  BY DEF ColdIsDue, RestartIsDue, Queued, Config, Sync, Idle
<1>4. HotIsDue'
  BY DEF ColdIsDue, HotIsDue, RawIsFile, RestartIsDue, Delivers, Queued, Config, Sync, Idle
<1>5. RawIsFile'
  BY DEF RawIsFile, Delivers, Config, Sync, Idle
<1> QED
  BY <1>2, <1>3, <1>4, <1>5
-----------------------------------------------------------------------------
(* The invariant of the specification, and what follows from it. *)

LEMMA StepKeeps == IInv /\ [Next]_vars => IInv'
<1> SUFFICES ASSUME IInv, [Next]_vars PROVE IInv'
  OBVIOUS
<1>1. ASSUME Edit \/ PollDeferred \/ DeferredTimesOut PROVE IInv'
  BY <1>1, EditKeeps, ExecuteKeeps DEF PollDeferred, DeferredTimesOut
<1>2. ASSUME SyncStep PROVE IInv'
  BY <1>2, BeginKeeps, WriteKeeps, WriteFailsKeeps, ClientKeeps, AckedKeeps, SetFailsKeeps,
     StoppedKeeps, StartedKeeps DEF SyncStep
<1>3. ASSUME Fork \/ Load \/ Up \/ Dies \/ Probe \/ Watch PROVE IInv'
  BY <1>3, ForkKeeps, LoadKeeps, UpKeeps, DiesKeeps, ProbeKeeps, WatchKeeps
<1>4. ASSUME WorkBegins \/ WorkEnds \/ TenMinutesPass PROVE IInv'
  BY <1>4, WorkBeginsKeeps, WorkEndsKeeps, TenMinutesPassKeeps
<1>5. CASE UNCHANGED vars
  BY <1>5 DEF vars, IInv, TypeOK, ColdIsDue, HotIsDue, RawIsFile, RestartIsDue, Delivers, Queued
<1> QED
  BY <1>1, <1>2, <1>3, <1>4, <1>5 DEF Next

LEMMA ConfigInvariant == Spec => []IInv
  BY InitHolds, StepKeeps, PTL DEF Spec

\* The queue holds flags, the versions are numbers, and a sync is where its awaits are.
THEOREM ConfigTypes == Spec => []TypeOK
<1>1. IInv => TypeOK
  BY DEF IInv
<1> QED
  BY <1>1, ConfigInvariant, PTL

\* Whatever is skipped, put off, delivered late or lost with its process: a gateway
\* that has read less than openclaw.json has a restart or a delivery coming, unless
\* the code reported that it gave the change up.
THEOREM ConfigNotForgotten == Spec => []NothingForgotten
<1>1. IInv => NothingForgotten
  BY DEF IInv, ColdIsDue, HotIsDue, RestartIsDue, Delivers, Queued, Behind, NothingForgotten
<1> QED
  BY <1>1, ConfigInvariant, PTL

\* deliverOpenClawConfigToGateway returns success only for what the file holds then.
THEOREM ConfigAckIsTrue == Spec => AckIsTrue
<1>1. IInv /\ [Next]_vars => [Acked => live'.hot = file'.hot]_vars
  BY DEF IInv, TypeOK, Config, RawIsFile, Delivers, Acked
<1> QED
  BY <1>1, ConfigInvariant, PTL DEF Spec, AckIsTrue
=============================================================================
