--------------------------- MODULE LicenceLedger ---------------------------
(***************************************************************************)
(* What the licence server promises about paid time: a key gives its term  *)
(* to one account, once; the term is added to what the account still has,  *)
(* or counts from the moment the key was presented; nothing else moves the *)
(* end of an account's licence.  No devices, requests or statuses.         *)
(***************************************************************************)
EXTENDS Integers

CONSTANTS Accounts, Cards

VARIABLES
  clock,   \* the present day
  term,    \* the days a key is worth
  spent,   \* the keys that give nothing any more
  until    \* the day each account's licence ends

vars == <<clock, term, spent, until>>

Later(a, b) == IF a > b THEN a ELSE b

Init ==
  /\ clock = 0
  /\ term \in Nat \ {0}
  /\ spent = {}
  /\ until = [u \in Accounts |-> 0]

Elapse ==
  /\ clock' = clock + 1
  /\ UNCHANGED <<term, spent, until>>

Reprice ==
  /\ term' \in Nat \ {0}
  /\ UNCHANGED <<clock, spent, until>>

\* u presents the key k on some day up to now; the answer may take a while.
Spend(u, k) ==
  /\ k \notin spent
  /\ spent' = spent \cup {k}
  /\ \E presented \in 0 .. clock :
       until' = [until EXCEPT ![u] = Later(@, presented) + term]
  /\ UNCHANGED <<clock, term>>

\* A key is withdrawn before anyone has spent it.
Void(k) ==
  /\ k \notin spent
  /\ spent' = spent \cup {k}
  /\ UNCHANGED <<clock, term, until>>

Next ==
  \/ Elapse
  \/ Reprice
  \/ \E k \in Cards : Void(k)
  \/ \E u \in Accounts, k \in Cards : Spend(u, k)

Spec == Init /\ [][Next]_vars
=============================================================================
