------------------------ MODULE SessionTurnsProofs ------------------------
(***************************************************************************)
(* Promises that have their turn, closed runs that stay closed and stops   *)
(* that hold, for any runs, calls and bounds.                              *)
(*                                                                         *)
(* Events, timers and continuations touch the turn in one of two ways:     *)
(* they end it, or they leave a turn whose runs are those of the turn that *)
(* was active and runs the gateway knows, none of them closed.  What both  *)
(* have in common is Moves, and Moves keeps the invariant; the calls of    *)
(* runTurn, the stop and the gateway client are looked at one by one.      *)
(***************************************************************************)
EXTENDS SessionTurns, FiniteSetTheorems, TLAPS

\* A call that has not got as far as chat.send is unknown to everybody else.
UnsentIsUnknown ==
  \A c \in Calls : point[c] \in Startup \cup {"idle"} =>
    c \notin sent /\ c \notin closed /\ c \notin KnownOf(turn)

\* Every call on its way has a turn token put by.
TokensLast == IsFiniteSet(Starting) /\ turns + Cardinality(Starting) <= MaxTurns

HaltedIsQuiet == halted => manual /\ turn = NoTurn /\ Starting = {}

CoolHasNoTurn == stopped = "cool" => turn = NoTurn

IInv ==
  /\ TypeOK /\ PendingHasTurn /\ KnownIsOpen
  /\ UnsentIsUnknown /\ TokensLast /\ HaltedIsQuiet /\ CoolHasNoTurn

USE RunsAssumption, BoundAssumption
-----------------------------------------------------------------------------
(* Turns. *)

Finals == {"none", "soon", "wait"}

LEMMA TurnParts ==
  ASSUME NEW t \in Turn
  PROVE  /\ t.token \in 1..MaxTurns /\ t.known \subseteq Runs /\ t.final \in Finals
         /\ t.ending \in Runs \cup {NoRun} /\ t.waiting \in BOOLEAN /\ t # NoTurn
  BY DEF Turn, Finals

LEMMA TurnKnownSet ==
  ASSUME NEW t \in Turn, NEW k \in SUBSET Runs
  PROVE  /\ [t EXCEPT !.known = k] \in Turn
         /\ [t EXCEPT !.known = k].known = k
  BY DEF Turn

\* Fields other than the runs.
LEMMA TurnFieldsSet ==
  ASSUME NEW t \in Turn, NEW f \in Finals, NEW e \in Runs \cup {NoRun}, NEW w \in BOOLEAN
  PROVE  /\ [t EXCEPT !.ending = e, !.final = f, !.waiting = w] \in Turn
         /\ [t EXCEPT !.ending = e, !.final = f, !.waiting = w].known = t.known
  BY DEF Turn, Finals

LEMMA NewTurnIsTurn ==
  ASSUME NEW r \in Runs, turns + 1 \in 1..MaxTurns
  PROVE  NewTurn(r) \in Turn /\ NewTurn(r).known = {r}
  BY DEF NewTurn, Turn

LEMMA KnownOfTurn ==
  ASSUME NEW t \in Turn
  PROVE  KnownOf(t) = t.known /\ KnownOf(t) \subseteq Runs
  BY TurnParts DEF KnownOf

LEMMA KnownOfNone == KnownOf(NoTurn) = {}
  BY DEF KnownOf

LEMMA ActiveKnown ==
  ASSUME TypeOK
  PROVE  KnownOf(turn) \subseteq Runs
  BY KnownOfTurn, KnownOfNone DEF TypeOK
-----------------------------------------------------------------------------
(* What events, timers and continuations may do. *)

\* The part of the turn, its runs and the promise.
Part ==
  /\ bound' \subseteq Runs /\ closed' \subseteq Runs /\ reopenable' \subseteq closed'
  /\ turn' \in Turn \cup {NoTurn}
  /\ closed' \subseteq closed \cup KnownOf(turn) \cup sent
  /\ KnownOf(turn') \subseteq KnownOf(turn) \cup sent
  /\ KnownOf(turn') \cap closed' = {}
  /\ pending' \in {pending, NoRun} /\ done' \subseteq done \cup (Calls \cap {pending})
  /\ pending' # NoRun => turn' # NoTurn
  /\ turn = NoTurn /\ (stopped = "cool" \/ manual) => turn' = NoTurn

\* The rest.
Rest ==
  /\ point' = point /\ manual' = manual /\ halted' = halted
  /\ sent' = sent /\ link' = link
  /\ conts' \subseteq [kind : Kinds, token : 1..MaxTurns]
  /\ errors' \subseteq Runs /\ terminated' \subseteq Runs
  /\ \/ turns' = turns
     \/ turns' = turns + 1 /\ turn = NoTurn /\ Spare
  /\ stopped' = stopped \/ (stopped' = "no" /\ (stopped = "cool" => turn # NoTurn))

Moves == Part /\ Rest

LEMMA MovesKeep ==
  ASSUME IInv, Moves
  PROVE  IInv'
<1>1. Starting' = Starting
  BY DEF Moves, Rest, Starting
<1>2. turns' \in 0..MaxTurns /\ TokensLast'
  <2>1. Cardinality(Starting) \in Nat
    BY FS_CardinalityType DEF IInv, TokensLast
  <2> QED
    BY <1>1, <2>1 DEF IInv, TokensLast, TypeOK, Moves, Rest, Spare
<1>3. TypeOK'
  BY <1>2 DEF IInv, TypeOK, Moves, Part, Rest
<1>4. PendingHasTurn'
  BY DEF IInv, PendingHasTurn, Moves, Part
<1>5. KnownIsOpen'
  BY <1>3, KnownOfTurn DEF Moves, Part, KnownIsOpen
<1>6. UnsentIsUnknown'
  BY DEF IInv, UnsentIsUnknown, Moves, Part, Rest
<1>7. HaltedIsQuiet' /\ CoolHasNoTurn'
  BY <1>1 DEF IInv, HaltedIsQuiet, CoolHasNoTurn, Moves, Part, Rest
<1> QED
  BY <1>2, <1>3, <1>4, <1>5, <1>6, <1>7 DEF IInv

LEMMA MovesReach ==
  ASSUME IInv, Moves, stopped = "cool"
  PROVE  stopped' # "no"
  BY DEF IInv, CoolHasNoTurn, Moves, Rest

\* A turn an event may leave behind, or end.
Good(t) ==
  /\ t \in Turn
  /\ t.known \subseteq KnownOf(turn) \cup sent
  /\ t.known \cap closed = {}
  /\ ~(turn = NoTurn /\ (stopped = "cool" \/ manual))

LEMMA ActiveIsGood ==
  ASSUME IInv, turn # NoTurn
  PROVE  Good(turn)
  BY KnownOfTurn DEF IInv, TypeOK, KnownIsOpen, Good

LEMMA GoodSet ==
  ASSUME NEW t, Good(t), NEW f \in Finals, NEW e \in Runs \cup {NoRun}, NEW w \in BOOLEAN
  PROVE  Good([t EXCEPT !.ending = e, !.final = f, !.waiting = w])
  BY TurnFieldsSet DEF Good

LEMMA KeepGood ==
  ASSUME IInv, NEW t, Good(t), NEW b \in SUBSET Runs, Keep(t, b)
  PROVE  Part
  BY KnownOfTurn, TurnParts DEF IInv, TypeOK, Good, Keep, Part

LEMMA KeepActive ==
  ASSUME IInv, NEW b \in SUBSET Runs, Keep(turn, b)
  PROVE  Part
<1>1. CASE turn # NoTurn
  BY <1>1, ActiveIsGood, KeepGood
<1>2. CASE turn = NoTurn
  BY <1>2, KnownOfNone DEF IInv, TypeOK, PendingHasTurn, Keep, Part
<1> QED BY <1>1, <1>2

LEMMA CloseGood ==
  ASSUME IInv, NEW t, Good(t), NEW again \in BOOLEAN, Close(t, again)
  PROVE  Part
  BY KnownOfTurn, KnownOfNone DEF IInv, TypeOK, Good, Close, Cleanup, Settle, Part

LEMMA CloseActive ==
  ASSUME IInv, NEW again \in BOOLEAN, Close(turn, again)
  PROVE  Part
<1>1. CASE turn # NoTurn
  BY <1>1, ActiveIsGood, CloseGood
<1>2. CASE turn = NoTurn
  BY <1>2, KnownOfNone DEF IInv, TypeOK, Close, Cleanup, Settle, Part
<1> QED BY <1>1, <1>2

LEMMA AwaitsGood ==
  ASSUME IInv, NEW t, Good(t), NEW kind \in Kinds, Await(kind, t)
  PROVE  conts' \subseteq [kind : Kinds, token : 1..MaxTurns]
  BY TurnParts DEF IInv, TypeOK, Good, Await
-----------------------------------------------------------------------------
(* Gateway events. *)

LEMMA HeardIsGood ==
  ASSUME IInv, NEW r \in Runs, Speaks(r), turn = NoTurn => Spare, Heard(r) # NoTurn
  PROVE  Good(Heard(r))
<1>1. CASE turn # NoTurn
  <2>1. Heard(r) = [turn EXCEPT !.known = @ \cup {r}]
    BY <1>1 DEF Heard
  <2>2. Good(turn) /\ turn.known \cup {r} \in SUBSET Runs
    BY <1>1, ActiveIsGood, TurnParts DEF Good
  <2> QED
    BY <2>1, <2>2, TurnKnownSet DEF Good, Speaks
<1>2. CASE turn = NoTurn
  <2>1. ~(stopped = "cool" \/ manual) /\ Heard(r) = NewTurn(r)
    BY <1>2 DEF Heard
  <2>2. turns + 1 \in 1..MaxTurns
    BY <1>2, FS_CardinalityType DEF Spare, IInv, TokensLast, TypeOK
  <2> QED
    BY <2>1, <2>2, NewTurnIsTurn DEF Good, Speaks
<1> QED BY <1>1, <1>2

LEMMA ResolvedIsGood ==
  ASSUME IInv, NEW r \in Runs, Speaks(r), NEW t \in {turn, Heard(r)}, Resolved(r, t)
  PROVE  Good(t)
  BY ActiveIsGood, HeardIsGood DEF Resolved

LEMMA ChatTurnIs ==
  ASSUME NEW r
  PROVE  ChatTurn(r) \in {turn, Heard(r)}
  BY DEF ChatTurn

LEMMA AgentTurnIs ==
  ASSUME NEW r
  PROVE  AgentTurn(r) \in {turn, Heard(r)}
  BY DEF AgentTurn

\* What the resolution of an event adds to its own effects.
LEMMA ResolvedRest ==
  ASSUME IInv, NEW r \in Runs, NEW t, Good(t), Resolved(r, t),
         conts' \subseteq [kind : Kinds, token : 1..MaxTurns],
         errors' \subseteq Runs, terminated' \subseteq Runs
  PROVE  Rest
  BY DEF Resolved, Rest, Good

LEMMA TextMoves ==
  ASSUME IInv, NEW r \in Runs, Speaks(r), NEW t \in {turn, Heard(r)}, NEW kept \in BOOLEAN,
         Text(r, t, kept)
  PROVE  Moves
<1>1. Resolved(r, t) /\ Good(t)
  BY ResolvedIsGood DEF Text
<1>2. Rest
  BY <1>1, ResolvedRest DEF Text, IInv, TypeOK
<1>3. bound \cup {r} \in SUBSET Runs
  BY DEF IInv, TypeOK
<1>4. CASE Leaves(r, [t EXCEPT !.ending = IF kept THEN @ ELSE NoRun])
  <2>1. Good([t EXCEPT !.ending = IF kept THEN @ ELSE NoRun])
    BY <1>1, TurnParts DEF Good, Turn
  <2> QED BY <1>3, <1>4, <2>1, KeepGood, <1>2 DEF Leaves, Moves
<1>5. ASSUME NEW w \in {FALSE, t.waiting /\ t.final = "none"},
             Leaves(r, [t EXCEPT !.ending = NoRun, !.waiting = w,
                                 !.final = IF @ = "soon" THEN "soon" ELSE "none"])
      PROVE  Moves
  <2>1. Good([t EXCEPT !.ending = NoRun, !.waiting = w,
                       !.final = IF @ = "soon" THEN "soon" ELSE "none"])
    BY <1>1, TurnParts DEF Good, Turn
  <2> QED BY <1>3, <1>5, <2>1, KeepGood, <1>2 DEF Leaves, Moves
<1> QED BY <1>4, <1>5 DEF Text

LEMMA CompleteDeferredPart ==
  ASSUME IInv, NEW t, Good(t), NEW b \in SUBSET Runs, CompleteDeferred(t, b)
  PROVE  Part /\ conts' \subseteq [kind : Kinds, token : 1..MaxTurns]
<1>1. CASE Close(t, t.final = "wait") /\ UNCHANGED conts
  BY <1>1, CloseGood DEF IInv, TypeOK
<1>2. CASE /\ Keep([t EXCEPT !.final = "none", !.waiting = TRUE], b)
           /\ Await("hint", t)
  <2>1. Good([t EXCEPT !.final = "none", !.waiting = TRUE])
    BY DEF Good, Turn
  <2>2. "hint" \in Kinds
    BY DEF Kinds
  <2> QED BY <1>2, <2>1, <2>2, KeepGood, AwaitsGood
<1> QED BY <1>1, <1>2 DEF CompleteDeferred

LEMMA EventMoves ==
  ASSUME IInv, NEW r \in Runs, Event(r), ~LateEvent(r), ~Reopen(r)
  PROVE  Moves
<1>0. ChatTurn(r) \in {turn, Heard(r)} /\ AgentTurn(r) \in {turn, Heard(r)}
  BY ChatTurnIs, AgentTurnIs
<1>b. bound \cup {r} \in SUBSET Runs /\ errors \subseteq Runs /\ terminated \subseteq Runs
      /\ conts \subseteq [kind : Kinds, token : 1..MaxTurns]
  BY DEF IInv, TypeOK
<1>1. CASE ChatDelta(r)
  BY <1>0, <1>1, TextMoves DEF ChatDelta
<1>2. CASE AgentText(r)
  BY <1>0, <1>2, TextMoves DEF AgentText
<1>3. CASE ChatFinal(r)
  <2> DEFINE t == ChatTurn(r)
  <2>1. Speaks(r) /\ Resolved(r, t) /\ UNCHANGED <<terminated, errors>>
    BY <1>3 DEF ChatFinal
  <2>2. Good(t)
    BY <1>0, <2>1, ResolvedIsGood
  <2>3. CASE Close(t, FALSE) /\ UNCHANGED conts
    BY <1>b, <2>1, <2>2, <2>3, CloseGood, ResolvedRest DEF Moves
  <2>4. CASE /\ Leaves(r, [t EXCEPT !.ending = NoRun])
             /\ \E k \in {"silent", "length", "answer"} : Await(k, t)
    <3>1. Good([t EXCEPT !.ending = NoRun])
      BY <2>2 DEF Good, Turn
    <3>2. {"silent", "length", "answer"} \subseteq Kinds
      BY DEF Kinds
    <3>3. conts' \subseteq [kind : Kinds, token : 1..MaxTurns]
      BY <2>2, <2>4, <3>2, AwaitsGood
    <3> QED BY <1>b, <2>1, <2>2, <2>4, <3>1, <3>3, KeepGood, ResolvedRest DEF Leaves, Moves
  <2> QED BY <1>3, <2>3, <2>4 DEF ChatFinal
<1>4. CASE ChatAborted(r)
  <2>1. Good(ChatTurn(r)) /\ Resolved(r, ChatTurn(r)) /\ Close(ChatTurn(r), FALSE)
    BY <1>0, <1>4, ResolvedIsGood DEF ChatAborted
  <2> QED BY <1>b, <1>4, <2>1, CloseGood, ResolvedRest DEF ChatAborted, Moves
<1>5. CASE ChatError(r)
  <2> DEFINE t == ChatTurn(r)
  <2>1. Resolved(r, t) /\ UNCHANGED <<terminated, errors>>
    BY <1>5 DEF ChatError
  <2>2. Good(t)
    BY <1>0, <1>5, ResolvedIsGood DEF ChatError
  <2>3. CASE CompleteDeferred(t, bound \cup {r})
    BY <1>b, <2>1, <2>2, <2>3, CompleteDeferredPart, ResolvedRest DEF Moves
  <2>4. CASE Close(t, FALSE) /\ UNCHANGED conts
    BY <1>b, <2>1, <2>2, <2>4, CloseGood, ResolvedRest DEF Moves
  <2> QED BY <1>5, <2>3, <2>4 DEF ChatError
<1>6. CASE AgentGoesOn(r)
  <2> DEFINE t == AgentTurn(r)
  <2>1. Resolved(r, t) /\ UNCHANGED <<terminated, errors, conts>>
    BY <1>6 DEF AgentGoesOn
  <2>2. Good(t)
    BY <1>0, <1>6, ResolvedIsGood DEF AgentGoesOn
  <2>3. PICK w \in BOOLEAN, f \in {"none", "wait"} :
          Leaves(r, [t EXCEPT !.ending = NoRun, !.final = f, !.waiting = w])
    BY <1>6 DEF AgentGoesOn
  <2>4. f \in Finals
    BY DEF Finals
  <2>5. Good([t EXCEPT !.ending = NoRun, !.final = f, !.waiting = w])
    BY <2>2, <2>4, GoodSet
  <2> QED BY <1>b, <2>1, <2>2, <2>3, <2>5, KeepGood, ResolvedRest DEF Leaves, Moves
<1>7. CASE LifecycleEnd(r)
  <2> DEFINE t == AgentTurn(r)
  <2>1. Resolved(r, t) /\ UNCHANGED <<terminated, errors>>
    BY <1>7 DEF LifecycleEnd
  <2>2. Good(t)
    BY <1>0, <1>7, ResolvedIsGood DEF LifecycleEnd
  <2>3. CASE CompleteDeferred(t, bound \cup {r})
    BY <1>b, <2>1, <2>2, <2>3, CompleteDeferredPart, ResolvedRest DEF Moves
  <2>4. CASE Leaves(r, [t EXCEPT !.ending = r]) /\ UNCHANGED conts
    <3>1. Good([t EXCEPT !.ending = r])
      BY <2>2 DEF Good, Turn
    <3> QED BY <1>b, <2>1, <2>2, <2>4, <3>1, KeepGood, ResolvedRest DEF Leaves, Moves
  <2> QED BY <1>7, <2>3, <2>4 DEF LifecycleEnd
<1>8. CASE LifecycleError(r)
  <2> DEFINE t == AgentTurn(r)
             u == [t EXCEPT !.ending = NoRun, !.final = "none",
                            !.waiting = t.waiting /\ t.final = "none"]
  <2>1. Resolved(r, t) /\ Leaves(r, u) /\ terminated' \subseteq Runs /\ errors' \subseteq Runs
        /\ conts' = conts
    BY <1>8, <1>b DEF LifecycleError
  <2>2. Good(t)
    BY <1>0, <1>8, ResolvedIsGood DEF LifecycleError
  <2>3. Good(u)
    BY <2>2 DEF Good, Turn
  <2> QED BY <1>b, <2>1, <2>2, <2>3, KeepGood, ResolvedRest DEF Leaves, Moves
<1> QED
  BY <1>1, <1>2, <1>3, <1>4, <1>5, <1>6, <1>7, <1>8 DEF Event

\* What Heard gives for a run that need not be open.
LEMMA HeardTurn ==
  ASSUME IInv, NEW r \in Runs, turn = NoTurn => Spare, stopped # "cool", ~manual
  PROVE  Heard(r) \in Turn /\ Heard(r).known = KnownOf(turn) \cup {r}
<1>1. CASE turn # NoTurn
  <2>1. turn \in Turn /\ KnownOf(turn) = turn.known
    BY <1>1, KnownOfTurn DEF IInv, TypeOK
  <2>2. Heard(r) = [turn EXCEPT !.known = @ \cup {r}] /\ turn.known \cup {r} \in SUBSET Runs
    BY <1>1, <2>1, TurnParts DEF Heard
  <2> QED BY <2>1, <2>2, TurnKnownSet
<1>2. CASE turn = NoTurn
  <2>1. Heard(r) = NewTurn(r) /\ KnownOf(turn) = {}
    BY <1>2, KnownOfNone DEF Heard
  <2>2. turns + 1 \in 1..MaxTurns
    BY <1>2, FS_CardinalityType DEF Spare, IInv, TokensLast, TypeOK
  <2> QED BY <2>1, <2>2, NewTurnIsTurn
<1> QED BY <1>1, <1>2

LEMMA ReopenMoves ==
  ASSUME IInv, NEW r \in Runs, Reopen(r)
  PROVE  Moves
<1> DEFINE h == Heard(r)
           u == [h EXCEPT !.ending = NoRun, !.final = "none", !.waiting = h.final = "none"]
<1>1. h \in Turn /\ h.known = KnownOf(turn) \cup {r}
  BY HeardTurn DEF Reopen
<1>2. u \in Turn /\ u.known = h.known
  <2>1. ASSUME NEW t \in Turn
        PROVE  LET v == [t EXCEPT !.ending = NoRun, !.final = "none", !.waiting = t.final = "none"]
               IN  v \in Turn /\ v.known = t.known
    BY DEF Turn
  <2> QED BY <1>1, <2>1
<1>3. KnownOf(turn) \cap closed = {}
  BY KnownOfTurn, KnownOfNone DEF IInv, TypeOK, KnownIsOpen
<1>4. turn' = u
  BY DEF Reopen
<1>5. KnownOf(turn') = KnownOf(turn) \cup {r} /\ turn' # NoTurn
  BY <1>1, <1>2, <1>4, KnownOfTurn, TurnParts
<1>6. Part
  BY <1>2, <1>3, <1>4, <1>5 DEF Part, Reopen, IInv, TypeOK
<1>7. Rest
  BY DEF Rest, Reopen, IInv, TypeOK, gateway
<1> QED BY <1>6, <1>7 DEF Moves

LEMMA LateMoves ==
  ASSUME IInv, NEW r \in Runs, LateEvent(r)
  PROVE  Moves
<1>1. Keep(turn, bound)
  BY DEF LateEvent, begun, Keep
<1>2. Part
  BY <1>1, KeepActive DEF IInv, TypeOK
<1>3. Rest
  BY DEF Rest, LateEvent, IInv, TypeOK, begun, gateway
<1> QED BY <1>2, <1>3 DEF Moves
-----------------------------------------------------------------------------
(* Timers and continuations. *)

Still == UNCHANGED <<point, turns, stopped, manual, halted, link, sent>>

LEMMA StillRest ==
  ASSUME IInv, Still, conts' \subseteq [kind : Kinds, token : 1..MaxTurns],
         errors' \subseteq Runs, terminated' \subseteq Runs
  PROVE  Rest
  BY DEF Still, Rest

LEMMA TimerMoves ==
  ASSUME IInv, FinalTimer \/ EndingTimer \/ Watchdog \/ \E r \in Runs : ErrorTimer(r)
  PROVE  Moves
<1>b. /\ bound \in SUBSET Runs /\ errors \subseteq Runs /\ terminated \subseteq Runs
      /\ conts \subseteq [kind : Kinds, token : 1..MaxTurns]
  BY DEF IInv, TypeOK
<1>1. CASE FinalTimer
  <2>1. Good(turn) /\ CompleteDeferred(turn, bound)
    BY <1>1, ActiveIsGood DEF FinalTimer
  <2> QED BY <1>b, <1>1, <2>1, CompleteDeferredPart, StillRest DEF FinalTimer, Still, Moves
<1>2. CASE EndingTimer
  <2>1. Good(turn)
    BY <1>2, ActiveIsGood DEF EndingTimer
  <2>2. Good([turn EXCEPT !.ending = NoRun])
    BY <2>1 DEF Good, Turn
  <2>3. "fallback" \in Kinds
    BY DEF Kinds
  <2>4. conts' \subseteq [kind : Kinds, token : 1..MaxTurns]
    BY <1>b, <1>2, <2>1, <2>3, AwaitsGood DEF EndingTimer
  <2>5. Part
    BY <1>b, <1>2, <2>2, KeepGood DEF EndingTimer
  <2> QED BY <1>b, <1>2, <2>4, <2>5, StillRest DEF EndingTimer, Still, Moves
<1>3. CASE Watchdog
  <2>1. Part
    BY <1>3, CloseActive DEF Watchdog
  <2> QED BY <1>b, <1>3, <2>1, StillRest DEF Watchdog, Still, Moves, gateway
<1>4. ASSUME NEW r \in Runs, ErrorTimer(r)
      PROVE  Moves
  <2>1. Part
    BY <1>b, <1>4, CloseActive, KeepActive DEF ErrorTimer
  <2>2. errors' \subseteq Runs
    BY <1>b, <1>4 DEF ErrorTimer
  <2> QED BY <1>b, <1>4, <2>1, <2>2, StillRest DEF ErrorTimer, Still, Moves
<1> QED BY <1>1, <1>2, <1>3, <1>4

LEMMA DeferPart ==
  ASSUME IInv, NEW k, NEW f \in Finals, Defer(k, f)
  PROVE  Part
<1>b. bound \in SUBSET Runs
  BY DEF IInv, TypeOK
<1>1. CASE Current(k)
  <2>1. Good(turn)
    BY <1>1, ActiveIsGood DEF Current
  <2>2. Good([turn EXCEPT !.final = f, !.waiting = @ \/ f = "wait"])
    BY <2>1 DEF Good, Turn, Finals
  <2> QED BY <1>b, <1>1, <2>2, KeepGood DEF Defer
<1>2. CASE ~Current(k)
  BY <1>b, <1>2, KeepActive DEF Defer
<1> QED BY <1>1, <1>2

LEMMA ResumeMoves ==
  ASSUME IInv, NEW k \in conts, Resume(k)
  PROVE  Moves
<1>b. /\ bound \in SUBSET Runs /\ errors \subseteq Runs /\ terminated \subseteq Runs
      /\ conts' \subseteq [kind : Kinds, token : 1..MaxTurns]
      /\ k.kind \in Kinds
  BY DEF IInv, TypeOK, Resume
<1>n. Nothing => Part
  BY <1>b, KeepActive DEF Nothing
<1>c. ASSUME NEW again \in BOOLEAN, Close(turn, again)
      PROVE  Part
  BY <1>c, CloseActive
<1>f. {"none", "soon", "wait"} \subseteq Finals
  BY DEF Finals
<1>1. ResumeSilent(k) => Part
  <2>1. ASSUME Current(k), Keep([turn EXCEPT !.final = "wait"], bound)
        PROVE  Part
    <3>1. Good(turn)
      BY <2>1, ActiveIsGood DEF Current
    <3>2. Good([turn EXCEPT !.final = "wait"])
      BY <3>1 DEF Good, Turn
    <3> QED BY <1>b, <2>1, <3>2, KeepGood
  <2> QED BY <1>n, <1>c, <2>1 DEF ResumeSilent
<1>2. ResumeLength(k) => Part
  BY <1>n, <1>c DEF ResumeLength
<1>3. ResumeHint(k) => Part
  BY <1>n, <1>c DEF ResumeHint
<1>4. ResumeAnswer(k) => Part
  <2>1. ASSUME Current(k), Keep([turn EXCEPT !.final = "none", !.waiting = FALSE], bound)
        PROVE  Part
    <3>1. Good(turn)
      BY <2>1, ActiveIsGood DEF Current
    <3>2. Good([turn EXCEPT !.final = "none", !.waiting = FALSE])
      BY <3>1 DEF Good, Turn
    <3> QED BY <1>b, <2>1, <3>2, KeepGood
  <2>2. ASSUME NEW f \in {"soon", "wait"}, Defer(k, f)
        PROVE  Part
    BY <1>f, <2>2, DeferPart
  <2> QED BY <1>n, <1>c, <2>1, <2>2 DEF ResumeAnswer
<1>5. ResumeFallback(k) => Part
  <2>1. Defer(k, "wait") => Part
    BY <1>f, DeferPart
  <2>2. CASE turn = NoTurn \/ (Current(k) /\ (Waits(turn) \/ turn.final # "none"))
    BY <1>n, <2>2 DEF ResumeFallback
  <2>3. CASE ~(turn = NoTurn \/ (Current(k) /\ (Waits(turn) \/ turn.final # "none")))
    BY <1>c, <2>1, <2>3 DEF ResumeFallback
  <2> QED BY <2>2, <2>3
<1>6. Part
  BY <1>b, <1>1, <1>2, <1>3, <1>4, <1>5 DEF Resume, Kinds
<1>7. Rest
  BY <1>b, StillRest DEF Resume, Still
<1> QED BY <1>6, <1>7 DEF Moves
-----------------------------------------------------------------------------
(* The calls of runTurn. *)

LEMMA StartingAfter ==
  ASSUME IInv, NEW c \in Calls, NEW p \in Points, point' = [point EXCEPT ![c] = p]
  PROVE  /\ point' \in [Calls -> Points] /\ point'[c] = p
         /\ \A d \in Calls \ {c} : point'[d] = point[d]
         /\ Starting' = IF p \in Startup THEN Starting \cup {c} ELSE Starting \ {c}
  BY DEF IInv, TypeOK, Starting

LEMMA StartingLeft ==
  ASSUME IInv, NEW c \in Starting
  PROVE  /\ IsFiniteSet(Starting \ {c})
         /\ Cardinality(Starting \ {c}) = Cardinality(Starting) - 1
         /\ Cardinality(Starting) \in Nat /\ Cardinality(Starting) >= 1
<1>1. IsFiniteSet(Starting)
  BY DEF IInv, TokensLast
<1>2. /\ IsFiniteSet(Starting \ {c})
      /\ Cardinality(Starting \ {c}) = Cardinality(Starting) - 1
  BY <1>1, FS_RemoveElement
<1>3. Cardinality(Starting) \in Nat /\ Cardinality(Starting \ {c}) \in Nat
  BY <1>1, <1>2, FS_CardinalityType
<1> QED BY <1>2, <1>3

\* A step of a call that does not begin a turn keeps the tokens put by.
LEMMA TokensKept ==
  ASSUME IInv, NEW c \in Calls, NEW p \in Points, point' = [point EXCEPT ![c] = p],
         p \in Startup => c \in Starting, turns' = turns
  PROVE  TokensLast'
<1>0. Starting' = IF p \in Startup THEN Starting \cup {c} ELSE Starting \ {c}
  BY StartingAfter
<1>1. CASE c \in Starting /\ p \notin Startup
  <2>1. Starting' = Starting \ {c}
    BY <1>0, <1>1
  <2>2. /\ IsFiniteSet(Starting \ {c}) /\ Cardinality(Starting \ {c}) \in Nat
        /\ Cardinality(Starting \ {c}) = Cardinality(Starting) - 1
        /\ Cardinality(Starting) \in Nat
    BY <1>1, StartingLeft
  <2>3. turns \in Nat /\ turns + Cardinality(Starting) <= MaxTurns
    BY DEF IInv, TokensLast, TypeOK
  <2>4. Cardinality(Starting') = Cardinality(Starting \ {c}) /\ IsFiniteSet(Starting')
    BY <2>1, <2>2
  <2> QED BY <2>2, <2>3, <2>4 DEF TokensLast
<1>2. CASE ~(c \in Starting /\ p \notin Startup)
  <2>1. Starting' = Starting
    BY <1>0, <1>2
  <2> QED BY <2>1 DEF IInv, TokensLast
<1> QED BY <1>1, <1>2

LEMMA RunTurnKeeps ==
  ASSUME IInv, NEW c \in Calls, RunTurn(c)
  PROVE  IInv'
<1> DEFINE p == IF turn = NoTurn THEN "safety" ELSE "over"
<1>1. p \in Points /\ point' = [point EXCEPT ![c] = p]
  BY DEF Points, RunTurn
<1> HIDE DEF p
<1>2. /\ point' \in [Calls -> Points] /\ point'[c] = p
      /\ \A d \in Calls \ {c} : point'[d] = point[d]
      /\ Starting' = IF p \in Startup THEN Starting \cup {c} ELSE Starting \ {c}
  BY <1>1, StartingAfter
<1>3. c \notin Starting
  BY DEF RunTurn, Starting, Startup
<1>4. TokensLast'
  <2>1. CASE p \in Startup
    <3>1. turn = NoTurn
      BY <2>1 DEF p, Startup
    <3>2. IsFiniteSet(Starting) /\ Cardinality(Starting) \in Nat
      BY FS_CardinalityType DEF IInv, TokensLast
    <3>3. IsFiniteSet(Starting') /\ Cardinality(Starting') = Cardinality(Starting) + 1
      BY <1>2, <1>3, <2>1, <3>2, FS_AddElement
    <3>4. turns' = turns /\ turns + Cardinality(Starting) < MaxTurns
      BY <3>1 DEF RunTurn, begun, Spare
    <3> QED BY <3>2, <3>3, <3>4 DEF TokensLast, IInv, TypeOK
  <2>2. CASE p \notin Startup
    BY <1>1, <2>2, TokensKept DEF RunTurn, begun
  <2> QED BY <2>1, <2>2
<1>5. TypeOK'
  BY <1>2 DEF IInv, TypeOK, RunTurn, begun, gateway
<1>6. PendingHasTurn' /\ KnownIsOpen' /\ HaltedIsQuiet' /\ CoolHasNoTurn'
  BY DEF IInv, PendingHasTurn, KnownIsOpen, HaltedIsQuiet, CoolHasNoTurn, RunTurn, begun
<1>7. UnsentIsUnknown'
  <2>1. point[c] = "idle"
    BY DEF RunTurn
  <2> QED
    BY <1>2, <2>1 DEF IInv, UnsentIsUnknown, RunTurn, begun, gateway
<1> QED
  BY <1>4, <1>5, <1>6, <1>7 DEF IInv

\* A call that goes on, or ends, with turn and promise as they were or ended.
LEMMA CallKeeps ==
  ASSUME IInv, NEW c \in Calls, NEW p \in Points, point' = [point EXCEPT ![c] = p],
         p \in Startup => c \in Starting, p # "idle",
         Part, UNCHANGED <<turns, halted, gateway>>,
         \/ stopped' = stopped /\ manual' = manual
         \/ stopped' = "no" /\ manual' = FALSE /\ c \in Starting
  PROVE  IInv'
<1>1. TokensLast'
  BY TokensKept
<1>2. /\ point' \in [Calls -> Points] /\ point'[c] = p
      /\ \A d \in Calls \ {c} : point'[d] = point[d]
      /\ Starting' = IF p \in Startup THEN Starting \cup {c} ELSE Starting \ {c}
  BY StartingAfter
<1>3. TypeOK'
  BY <1>2 DEF IInv, TypeOK, Part, gateway
<1>4. PendingHasTurn'
  BY DEF PendingHasTurn, Part
<1>5. KnownIsOpen'
  BY <1>3, KnownOfTurn DEF Part, KnownIsOpen
<1>6. UnsentIsUnknown'
  BY <1>2 DEF IInv, UnsentIsUnknown, Part, gateway, Starting, Startup
<1>7. HaltedIsQuiet'
  <2>1. Starting' \subseteq Starting
    BY <1>2
  <2> QED BY <2>1 DEF IInv, HaltedIsQuiet, Part
<1>8. CoolHasNoTurn'
  BY DEF IInv, CoolHasNoTurn, Part
<1> QED
  BY <1>1, <1>3, <1>4, <1>5, <1>6, <1>7, <1>8 DEF IInv

LEMMA FailKeeps ==
  ASSUME IInv, NEW c \in Calls, Fail(c)
  PROVE  IInv'
<1>1. Keep(turn, bound)
  BY DEF Fail, begun, Keep
<1>2. Part
  BY <1>1, KeepActive DEF IInv, TypeOK
<1>3. "over" \in Points /\ "over" \notin Startup
  BY DEF Points, Startup
<1> QED BY <1>2, <1>3, CallKeeps DEF Fail, begun

LEMMA CheckpointKeeps ==
  ASSUME IInv, NEW c \in Starting, NEW p \in {"model", "prompt"}, Checkpoint(c, p),
         UNCHANGED gateway
  PROVE  IInv'
<1>0. c \in Calls /\ p \in Points /\ p # "idle" /\ "over" \in Points /\ "over" \notin Startup
  BY DEF Starting, Points, Startup
<1>1. CASE stopped = "no"
  <2>1. Keep(turn, bound)
    BY <1>1 DEF Checkpoint, begun, Keep
  <2>2. Part
    BY <2>1, KeepActive DEF IInv, TypeOK
  <2> QED BY <1>0, <1>1, <2>2, CallKeeps DEF Checkpoint, begun
<1>2. CASE stopped # "no"
  <2>1. Part
    BY <1>2, CloseActive DEF Checkpoint
  <2> QED BY <1>0, <1>2, <2>1, CallKeeps DEF Checkpoint
<1> QED BY <1>1, <1>2

LEMMA BeginsKeeps ==
  ASSUME IInv, NEW c \in Calls, PromptBuilt(c)
  PROVE  IInv'
<1>0. point[c] = "prompt" /\ c \in Starting /\ c \in Runs
  BY DEF PromptBuilt, Starting, Startup
<1>1. CASE stopped # "no"
  <2>0. "over" \in Points /\ "over" \notin Startup
    BY DEF Points, Startup
  <2>1. Close(turn, FALSE) /\ point' = [point EXCEPT ![c] = "over"] /\ stopped' = "no"
        /\ manual' = FALSE /\ UNCHANGED <<turns, halted, gateway>>
    BY <1>1 DEF PromptBuilt, Checkpoint
  <2>2. Part
    BY <2>1, CloseActive
  <2> QED BY <1>0, <2>0, <2>1, <2>2, CallKeeps
<1>2. CASE stopped = "no"
  <2> DEFINE p == IF link = "up" THEN "sending" ELSE "over"
  <2>0. p \in Points /\ p \notin Startup /\ p # "idle" /\ point' = [point EXCEPT ![c] = p]
    BY <1>2 DEF Points, Startup, PromptBuilt
  <2> HIDE DEF p
  <2>1. /\ point' \in [Calls -> Points] /\ point'[c] = p
        /\ \A d \in Calls \ {c} : point'[d] = point[d]
        /\ Starting' = Starting \ {c}
    BY <2>0, StartingAfter
  <2>2. /\ pending' = c /\ turn' = NewTurn(c) /\ turns' = turns + 1
        /\ bound' = bound \cup {c} /\ sent' \in {sent, sent \cup {c}}
        /\ UNCHANGED <<done, closed, reopenable, stopped, manual, halted, link,
                       terminated, errors, conts>>
    BY <1>2 DEF PromptBuilt
  <2>3. /\ IsFiniteSet(Starting \ {c}) /\ Cardinality(Starting) >= 1
        /\ Cardinality(Starting \ {c}) = Cardinality(Starting) - 1
        /\ Cardinality(Starting) \in Nat
    BY <1>0, StartingLeft
  <2>4. turns \in Nat /\ turns + 1 \in 1..MaxTurns
    BY <2>3 DEF IInv, TokensLast, TypeOK
  <2>5. TokensLast'
    BY <2>1, <2>2, <2>3, <2>4 DEF IInv, TokensLast
  <2>6. turn' \in Turn /\ turn'.known = {c}
    BY <1>0, <2>2, <2>4, NewTurnIsTurn
  <2>7. KnownOf(turn') = {c} /\ turn' # NoTurn
    BY <2>6, KnownOfTurn, TurnParts
  <2>8. TypeOK'
    BY <1>0, <2>1, <2>2, <2>4, <2>6 DEF IInv, TypeOK
  <2>9. c \notin closed
    BY <1>0 DEF IInv, UnsentIsUnknown, Startup
  <2>10. PendingHasTurn' /\ KnownIsOpen'
    BY <2>2, <2>6, <2>7, <2>9 DEF PendingHasTurn, KnownIsOpen
  <2>11. UnsentIsUnknown'
    BY <2>0, <2>1, <2>2, <2>7 DEF IInv, UnsentIsUnknown
  <2>12. HaltedIsQuiet' /\ CoolHasNoTurn'
    BY <1>0, <1>2, <2>2 DEF IInv, HaltedIsQuiet, CoolHasNoTurn
  <2> QED
    BY <2>5, <2>8, <2>10, <2>11, <2>12 DEF IInv
<1> QED BY <1>1, <1>2

LEMMA AckedKeeps ==
  ASSUME IInv, NEW c \in Calls, SendAcked(c)
  PROVE  IInv'
<1>0. point[c] = "sending" /\ point' = [point EXCEPT ![c] = "awaiting"]
      /\ UNCHANGED <<turns, stopped, manual, halted, gateway>> /\ c \in Runs
  BY DEF SendAcked
<1>1. CASE ~(turn # NoTurn /\ c \notin closed)
  <2>0. "awaiting" \in Points /\ "awaiting" \notin Startup
    BY DEF Points, Startup
  <2>1. Part
    BY <1>1, KeepActive DEF SendAcked, IInv, TypeOK
  <2> QED BY <1>0, <2>0, <2>1, CallKeeps
<1>2. CASE turn # NoTurn /\ c \notin closed
  <2>0. "awaiting" \in Points /\ "awaiting" \notin Startup /\ "awaiting" # "idle"
    BY DEF Points, Startup
  <2>1. /\ point' \in [Calls -> Points] /\ point'[c] = "awaiting"
        /\ \A d \in Calls \ {c} : point'[d] = point[d]
    BY <1>0, <2>0, StartingAfter
  <2>2. Keep([turn EXCEPT !.known = @ \cup {c}], bound \cup {c})
    BY <1>2 DEF SendAcked
  <2>3. turn \in Turn /\ turn.known \cup {c} \in SUBSET Runs /\ KnownOf(turn) = turn.known
    BY <1>0, <1>2, TurnParts, KnownOfTurn DEF IInv, TypeOK
  <2>4. turn' \in Turn /\ turn'.known = turn.known \cup {c}
    BY <2>2, <2>3, TurnKnownSet DEF Keep
  <2>5. turn' # NoTurn /\ KnownOf(turn') = KnownOf(turn) \cup {c}
    BY <2>3, <2>4, TurnParts, KnownOfTurn
  <2>6. TokensLast'
    BY <1>0, <2>0, TokensKept
  <2>7. TypeOK'
    BY <1>0, <2>1, <2>2, <2>4 DEF IInv, TypeOK, Keep, gateway
  <2>8. PendingHasTurn' /\ KnownIsOpen'
    BY <1>2, <2>2, <2>4, <2>5 DEF IInv, PendingHasTurn, KnownIsOpen, Keep
  <2>9. UnsentIsUnknown'
    BY <1>0, <2>0, <2>1, <2>2, <2>5 DEF IInv, UnsentIsUnknown, Keep, gateway
  <2>10. HaltedIsQuiet' /\ CoolHasNoTurn'
    BY <1>0, <1>2 DEF IInv, HaltedIsQuiet, CoolHasNoTurn
  <2> QED
    BY <2>6, <2>7, <2>8, <2>9, <2>10 DEF IInv
<1> QED BY <1>1, <1>2

LEMMA SendFailsKeeps ==
  ASSUME IInv, NEW c \in Calls, SendFails(c)
  PROVE  IInv'
<1>1. "over" \in Points /\ "over" \notin Startup
  BY DEF Points, Startup
<1>2. KnownOf(turn) \subseteq Runs /\ KnownOf(NoTurn) = {}
  BY ActiveKnown, KnownOfNone DEF IInv
<1>3. Part
  BY <1>2 DEF SendFails, Cleanup, Part, IInv, TypeOK
<1> QED BY <1>1, <1>3, CallKeeps DEF SendFails

LEMMA StepKeeps ==
  ASSUME IInv, NEW c \in Calls, Step(c)
  PROVE  IInv'
<1>1. CASE SafetyChecked(c)
  <2>1. CASE Fail(c)
    BY <2>1, FailKeeps
  <2>2. CASE point' = [point EXCEPT ![c] = "client"]
             /\ UNCHANGED <<stopped, manual, halted, begun, gateway>>
    <3>1. c \in Starting /\ "client" \in Points /\ "client" # "idle"
      BY <1>1 DEF SafetyChecked, Starting, Startup, Points
    <3>2. Part
      BY <2>2, KeepActive DEF begun, Keep, IInv, TypeOK
    <3> QED BY <2>2, <3>1, <3>2, CallKeeps DEF begun
  <2> QED BY <1>1, <2>1, <2>2 DEF SafetyChecked
<1>2. CASE ClientReady(c)
  <2>1. c \in Starting
    BY <1>2 DEF ClientReady, Starting, Startup
  <2> QED BY <1>2, <2>1, FailKeeps, CheckpointKeeps DEF ClientReady
<1>3. CASE ModelSynced(c)
  <2>1. c \in Starting
    BY <1>3 DEF ModelSynced, Starting, Startup
  <2> QED BY <1>3, <2>1, FailKeeps, CheckpointKeeps DEF ModelSynced
<1>4. CASE PromptBuilt(c)
  BY <1>4, BeginsKeeps
<1>5. CASE SendAcked(c)
  BY <1>5, AckedKeeps
<1>6. CASE SendFails(c)
  BY <1>6, SendFailsKeeps
<1> QED BY <1>1, <1>2, <1>3, <1>4, <1>5, <1>6 DEF Step
-----------------------------------------------------------------------------
(* The stop, the cooldown and the gateway client. *)

\* Steps with no call in them.
LEMMA QuietKeeps ==
  ASSUME IInv, Part, UNCHANGED <<point, turns, sent, terminated, errors, conts>>,
         link' \in {"down", "opening", "up"}, stopped' \in {"no", "cool", "old"},
         manual' \in BOOLEAN, halted' \in BOOLEAN,
         stopped' = "cool" => turn' = NoTurn,
         halted' => manual' /\ turn' = NoTurn /\ Starting = {}
  PROVE  IInv'
<1>1. Starting' = Starting
  BY DEF Starting
<1>2. TokensLast'
  BY <1>1 DEF IInv, TokensLast
<1>3. TypeOK'
  BY DEF IInv, TypeOK, Part
<1>4. PendingHasTurn' /\ CoolHasNoTurn'
  BY DEF PendingHasTurn, CoolHasNoTurn, Part
<1>5. KnownIsOpen'
  BY <1>3, KnownOfTurn DEF Part, KnownIsOpen
<1>6. UnsentIsUnknown'
  BY DEF IInv, UnsentIsUnknown, Part
<1>7. HaltedIsQuiet'
  BY <1>1 DEF HaltedIsQuiet
<1> QED
  BY <1>2, <1>3, <1>4, <1>5, <1>6, <1>7 DEF IInv

LEMMA StopKeeps ==
  ASSUME IInv, StopSession
  PROVE  IInv'
<1>1. Part /\ turn' = NoTurn
  BY CloseActive DEF StopSession, Close, Cleanup
<1>2. manual' \in BOOLEAN /\ halted' \in BOOLEAN /\ link' \in {"down", "opening", "up"}
  BY DEF IInv, TypeOK, StopSession
<1>3. halted' => manual' /\ Starting = {}
  BY DEF IInv, HaltedIsQuiet, StopSession
<1> QED
  BY <1>1, <1>2, <1>3, QuietKeeps DEF StopSession

LEMMA CooldownKeeps ==
  ASSUME IInv, CooldownEnds
  PROVE  IInv'
<1>1. Part
  BY KeepActive DEF CooldownEnds, begun, Keep, IInv, TypeOK
<1> QED
  BY <1>1, QuietKeeps DEF CooldownEnds, begun, gateway, IInv, TypeOK, HaltedIsQuiet

LEMMA ExpiresKeeps ==
  ASSUME IInv, NEW r \in Runs, ClosedExpires(r)
  PROVE  Moves
<1>1. KnownOf(turn) \cap closed = {} /\ KnownOf(turn') = KnownOf(turn)
  BY KnownOfTurn, KnownOfNone DEF IInv, TypeOK, KnownIsOpen, ClosedExpires
<1>2. Part
  BY <1>1 DEF ClosedExpires, Part, IInv, TypeOK, PendingHasTurn
<1>3. Rest
  BY DEF ClosedExpires, Rest, IInv, TypeOK, gateway
<1> QED BY <1>2, <1>3 DEF Moves

LEMMA ClientKeeps ==
  ASSUME IInv, OpenClient \/ ClientOpens \/ ClientCloses \/ ClientStops
  PROVE  IInv'
<1>1. KnownOf(turn) \cap closed = {} /\ KnownOf(NoTurn) = {}
  BY KnownOfTurn, KnownOfNone DEF IInv, TypeOK, KnownIsOpen
<1>2. CASE OpenClient \/ ClientStops
  <2>1. Part
    BY <1>1, <1>2 DEF OpenClient, ClientStops, Forget, Part, IInv, TypeOK, PendingHasTurn
  <2> QED
    BY <1>2, <2>1, QuietKeeps DEF OpenClient, ClientStops, Forget, IInv, TypeOK, HaltedIsQuiet
<1>3. CASE ClientOpens
  <2>1. Part
    BY <1>3, KeepActive DEF ClientOpens, begun, Keep, IInv, TypeOK
  <2> QED
    BY <1>3, <2>1, QuietKeeps DEF ClientOpens, begun, IInv, TypeOK, HaltedIsQuiet, CoolHasNoTurn
<1>4. CASE ClientCloses
  <2>1. pending' = NoRun /\ done' \subseteq done \cup (Calls \cap {pending})
    BY <1>4 DEF ClientCloses, Settle, IInv, TypeOK, PendingHasTurn
  <2>2. Part
    BY <1>1, <1>4, <2>1 DEF ClientCloses, Forget, Part, IInv, TypeOK
  <2> QED
    BY <1>4, <2>2, QuietKeeps DEF ClientCloses, Forget, IInv, TypeOK, HaltedIsQuiet
<1> QED BY <1>2, <1>3, <1>4
-----------------------------------------------------------------------------
(* The specification. *)

LEMMA InitHolds == Init => IInv
<1> SUFFICES ASSUME Init PROVE IInv
  OBVIOUS
<1>1. Starting = {}
  BY DEF Init, Starting, Startup
<1>2. TokensLast
  BY <1>1, FS_EmptySet DEF Init, TokensLast
<1>3. TypeOK
  <2>1. point \in [Calls -> Points] /\ turns \in 0..MaxTurns
    BY DEF Init, Points
  <2>2. manual \in BOOLEAN /\ halted \in BOOLEAN
    BY DEF Init
  <2>3. sent \subseteq Runs /\ conts \subseteq [kind : Kinds, token : 1..MaxTurns]
    BY DEF Init
  <2>4. /\ done \subseteq Calls /\ pending \in Calls \cup {NoRun}
        /\ turn \in Turn \cup {NoTurn} /\ bound \subseteq Runs
        /\ closed \subseteq Runs /\ reopenable \subseteq closed
        /\ errors \subseteq Runs /\ terminated \subseteq Runs
    BY DEF Init
  <2>5. stopped \in {"no", "cool", "old"} /\ link \in {"down", "opening", "up"}
    BY DEF Init
  <2> QED BY <2>1, <2>2, <2>3, <2>4, <2>5 DEF TypeOK
<1>4. UnsentIsUnknown
  BY KnownOfNone DEF Init, UnsentIsUnknown
<1> QED
  BY <1>2, <1>3, <1>4 DEF Init, IInv, PendingHasTurn, KnownIsOpen, HaltedIsQuiet, CoolHasNoTurn

\* What is neither a call nor a stop, a cooldown that ends or a change of the client.
Handler ==
  \/ \E r \in Runs : ClosedExpires(r) \/ Event(r) \/ ErrorTimer(r)
  \/ FinalTimer \/ EndingTimer \/ Watchdog
  \/ \E k \in conts : Resume(k)

LEMMA HandlerMoves ==
  ASSUME IInv, Handler
  PROVE  Moves
  BY ExpiresKeeps, EventMoves, LateMoves, ReopenMoves, TimerMoves, ResumeMoves DEF Handler

LEMMA NextKeeps == IInv /\ [Next]_vars => IInv'
<1> SUFFICES ASSUME IInv, [Next]_vars PROVE IInv'
  OBVIOUS
<1>1. CASE UNCHANGED vars
  BY <1>1 DEF vars, IInv, TypeOK, PendingHasTurn, KnownIsOpen, UnsentIsUnknown, TokensLast,
              HaltedIsQuiet, CoolHasNoTurn, Starting
<1>2. CASE \E c \in Calls : RunTurn(c) \/ Step(c)
  BY <1>2, RunTurnKeeps, StepKeeps
<1>3. CASE StopSession \/ CooldownEnds
  BY <1>3, StopKeeps, CooldownKeeps
<1>4. CASE Handler
  BY <1>4, HandlerMoves, MovesKeep
<1>5. CASE OpenClient \/ ClientOpens \/ ClientCloses \/ ClientStops
  BY <1>5, ClientKeeps
<1> QED BY <1>1, <1>2, <1>3, <1>4, <1>5 DEF Next, Handler

\* The inductive invariant: the four invariants below follow from it.
THEOREM TurnInvariant == Spec => []IInv
  BY InitHolds, NextKeeps, PTL DEF Spec

\* Turn, promise, marks and runs keep their types, whatever calls, events, timers
\* and continuations come in whatever order.
THEOREM TurnTypes == Spec => []TypeOK
<1>1. IInv => TypeOK
  BY DEF IInv
<1> QED BY <1>1, TurnInvariant, PTL

\* A promise in pendingTurns has an active turn.
THEOREM TurnPromise == Spec => []PendingHasTurn
<1>1. IInv => PendingHasTurn
  BY DEF IInv
<1> QED BY <1>1, TurnInvariant, PTL

\* No run of the active turn is in recentlyClosedRunIds.
THEOREM TurnRunsAreOpen == Spec => []KnownIsOpen
<1>1. IInv => KnownIsOpen
  BY DEF IInv
<1> QED BY <1>1, TurnInvariant, PTL

\* After the stop of a turn, with no call of runTurn on its way, the session gets no
\* turn until runTurn is called again.
THEOREM TurnStopHolds == Spec => []StopHolds
<1>1. IInv => StopHolds
  BY DEF IInv, HaltedIsQuiet, StopHolds
<1> QED BY <1>1, TurnInvariant, PTL

\* A mark within its cooldown goes only with a call that obeys it.
LEMMA MarkGoes ==
  ASSUME IInv, Next, stopped = "cool", stopped' = "no", link' = link,
         Starting' \subseteq Starting
  PROVE  \E c \in Starting : point'[c] = "over"
<1>0. turn = NoTurn /\ point \in [Calls -> Points]
  BY DEF IInv, CoolHasNoTurn, TypeOK
<1>1. ASSUME NEW c \in Calls, RunTurn(c)
      PROVE  FALSE
  <2>1. c \in Starting'
    BY <1>0, <1>1 DEF RunTurn, Starting, Startup
  <2> QED BY <1>1, <2>1 DEF RunTurn, Starting, Startup
<1>2. ASSUME NEW c \in Calls, Step(c)
      PROVE  \E d \in Starting : point'[d] = "over"
  <2>1. point[c] \in {"client", "model", "prompt"} /\ \E p \in Points : Checkpoint(c, p)
    BY <1>2 DEF Step, SafetyChecked, ClientReady, ModelSynced, PromptBuilt, SendAcked,
                SendFails, Fail, Points
  <2>2. point'[c] = "over" /\ c \in Starting
    BY <1>0, <2>1 DEF Checkpoint, Starting, Startup
  <2> QED BY <2>2
<1>3. ~(StopSession \/ CooldownEnds)
  BY DEF StopSession, CooldownEnds
<1>4. ~Handler
  BY HandlerMoves, MovesReach
<1>5. ~(OpenClient \/ ClientOpens \/ ClientCloses \/ ClientStops)
  BY DEF OpenClient, ClientOpens, ClientCloses, ClientStops
<1> QED BY <1>1, <1>2, <1>3, <1>4, <1>5 DEF Next, Handler

\* Within its cooldown the mark of a stop is taken away only by a call of runTurn that
\* obeys it, by a newer call, or with the gateway client.
THEOREM TurnStopReaches == Spec => StopReachesStartup
<1>1. IInv /\ [Next]_vars =>
        [stopped = "cool" /\ stopped' = "no" /\ link' = link /\ Starting' \subseteq Starting
           => \E c \in Starting : point'[c] = "over"]_vars
  BY MarkGoes
<1> QED BY <1>1, TurnInvariant, PTL DEF Spec, StopReachesStartup
=============================================================================
