--------------------------- MODULE SessionTokens ---------------------------
(***************************************************************************)
(* What the licence server keeps of one account's desktop sessions:        *)
(* the token pairs it has issued and the end of the membership.            *)
(*                                                                         *)
(* A pair is a refresh token and the access token given out with it; pairs *)
(* are numbered in the order they are issued.  Each request is one         *)
(* transaction or one statement that matters, so it is one operator here:  *)
(* what it does to the rows, and the answer it gives.  Keys, devices and   *)
(* entitlements are modelled in LicenseServer; here they come down to the  *)
(* day the membership on this device ends.                                 *)
(***************************************************************************)
EXTENDS Naturals

CONSTANTS
  MaxPairs,    \* bound: token pairs issued
  MaxTime,     \* bound: the last day of the clock
  Term,        \* the days a key gives
  Grace        \* offlineGraceHours, in days

ASSUME BoundAssumption == MaxPairs \in Nat /\ MaxTime \in Nat
ASSUME TermAssumption == Term \in Nat \ {0} /\ Grace \in Nat \ {0}

VARIABLES
  clock,    \* the present day, the same for the server and the desktop
  until,    \* the end of the entitlement on this device; 0: none
  issued,   \* how many pairs have been issued
  pairs     \* refresh_tokens, and what the access token of each is still worth

serverVars == <<clock, until, issued, pairs>>
-----------------------------------------------------------------------------
PairIds == 1 .. MaxPairs

\* revokedAt and replacedBy; a pair not issued yet is "none".
RefreshStates == {"none", "live", "rotated", "revoked"}

\* An access token is good for minutes ("stale" after them), and void once the
\* version of its user or of its device has moved on.
AccessStates == {"fresh", "stale", "void"}

Pair == [refresh : RefreshStates, access : AccessStates, device : BOOLEAN]
NoPair == [refresh |-> "none", access |-> "void", device |-> FALSE]

\* What a request is answered with: 200, 401, 403, another refusal, or nothing.
Kinds == {"ok", "unauthorized", "forbidden", "refused", "offline"}
Answer == [kind : Kinds, pair : 0 .. MaxPairs, until : Nat, lease : Nat]
Error(kind) == [kind |-> kind, pair |-> 0, until |-> 0, lease |-> 0]

Later(a, b) == IF a > b THEN a ELSE b
Earlier(a, b) == IF a < b THEN a ELSE b

\* offlineUntil of a lease signed now for a membership that ends on day end.
OfflineUntil(end) == Earlier(end, clock + Grace)
-----------------------------------------------------------------------------
(* What a request may come to: its answer and the rows it leaves.           *)

Refused(kind) ==
  [answer |-> Error(kind), until |-> until, issued |-> issued, pairs |-> pairs]

\* issueTokenPair, after the pairs in DOMAIN gone have been marked.
IssueTokenPair(gone, device, end, answer) ==
  [answer |-> [answer EXCEPT !.pair = issued + 1],
   until  |-> end,
   issued |-> issued + 1,
   pairs  |-> [p \in PairIds |->
                 IF p = issued + 1
                   THEN [refresh |-> "live", access |-> "fresh", device |-> device]
                 ELSE IF p \in DOMAIN gone
                   THEN [pairs[p] EXCEPT !.refresh = gone[p]]
                 ELSE pairs[p]]]

\* requireUser: how the access token of pair p is refused, if it is.
AccessErrors(p) ==
  CASE pairs[p].access = "fresh" -> {}
    [] pairs[p].access = "stale" -> {"unauthorized"}
    [] pairs[p].access = "void"  -> {"unauthorized", "forbidden"}

\* A request behind requireUser: what it may come to when it is let through.
Behind(p, outcomes) ==
  IF AccessErrors(p) = {} THEN outcomes ELSE {Refused(kind) : kind \in AccessErrors(p)}

LoginOutcomes ==
  {Refused("refused"),
   IssueTokenPair(<<>>, until # 0, until, [Error("ok") EXCEPT !.until = until])}

\* refresh: a live token is replaced by the next of its family.  The family of a
\* token that is seen twice is revoked, but in a transaction that then throws.
RefreshOutcomes(p) ==
  IF pairs[p].refresh = "live"
    THEN {IssueTokenPair([q \in {p} |-> "rotated"], pairs[p].device, until, Error("ok"))}
    ELSE {Refused("unauthorized")}

HeartbeatOutcomes(p) ==
  Behind(p, IF until <= clock THEN {Refused("forbidden")}
            ELSE {[Refused("ok") EXCEPT !.answer.until = until,
                                        !.answer.lease = OfflineUntil(until)]})

\* redeem: the term is added, the account's pairs without a device are revoked
\* and a pair for the device is issued.
RedeemOutcomes(p) ==
  LET end == Later(until, clock) + Term
      unbound == {q \in PairIds : pairs[q].refresh = "live" /\ ~pairs[q].device}
  IN Behind(p, {Refused("refused"),
                IssueTokenPair([q \in unbound |-> "revoked"], TRUE, end,
                  [Error("ok") EXCEPT !.until = end, !.lease = OfflineUntil(end)])})

\* logout: the token presented is revoked if it is live.
LogoutOutcomes(p) ==
  Behind(p, {[Refused("ok") EXCEPT !.pairs[p].refresh = IF @ = "live" THEN "revoked" ELSE @]})

\* What is left of the outcomes within the bounds.
Bounded(outcomes) == {o \in outcomes : o.issued <= MaxPairs /\ o.until <= MaxTime}

\* The transaction of one of the outcomes.
Commit(o) == until' = o.until /\ issued' = o.issued /\ pairs' = o.pairs /\ UNCHANGED clock
-----------------------------------------------------------------------------
(* What happens at the server without the desktop.                          *)

Tick ==
  /\ clock < MaxTime
  /\ clock' = clock + 1
  /\ UNCHANGED <<until, issued, pairs>>

AccessExpires ==
  /\ \E p \in PairIds :
       /\ pairs[p].access = "fresh"
       /\ pairs' = [pairs EXCEPT ![p].access = "stale"]
  /\ UNCHANGED <<clock, until, issued>>

\* An administrator suspends, unbinds, resets a password or ends the sessions of
\* a device; unbinding also revokes the entitlement.
AdminRevokes ==
  /\ \E p \in PairIds : pairs[p].refresh = "live"
  /\ pairs' = [p \in PairIds |->
                 IF pairs[p].refresh = "none" THEN pairs[p]
                 ELSE [pairs[p] EXCEPT
                         !.access = "void",
                         !.refresh = IF @ = "live" THEN "revoked" ELSE @]]
  /\ until' \in {until, 0}
  /\ UNCHANGED <<clock, issued>>
=============================================================================
