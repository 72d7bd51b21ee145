------------------------ MODULE LicenseServerProofs ------------------------
(***************************************************************************)
(* Proofs about LicenseServer, for any sets of users, devices, keys and    *)
(* workers, any terms and any bounds.  One inductive invariant, RowsInv;   *)
(* one lemma per kind of request.                                          *)
(***************************************************************************)
EXTENDS LicenseServer, TLAPS

\* What a request has read still holds as far as its later statements need it.
RequestInv(w) ==
  /\ req[w].op \in {"redeem", "heartbeat", "entitlement", "login"} => req[w].now <= clock
  /\ req[w].op = "expire" => ent[req[w].user] # NoEnt
  /\ req[w].op = "revoke" => key[req[w].key].user # NoUser
  /\ req[w].op = "withdraw" => key[req[w].key].status # "none"

\* A key belongs to an account exactly when it has been redeemed, and that account
\* has an entitlement from then on.
KeyInv(k) ==
  /\ key[k].status = "REDEEMED" => key[k].user # NoUser
  /\ key[k].user # NoUser =>
       key[k].status \in {"REDEEMED", "REVOKED"} /\ ent[key[k].user] # NoEnt

\* A lease is of the present version of the entitlement and ends with it, or of an
\* earlier one and ends no later.
LeaseInv(l) ==
  /\ l.version <= ent[l.user].version /\ l.until <= ent[l.user].until
  /\ l.version = ent[l.user].version => l.until = ent[l.user].until

RowsInv ==
  /\ TypeOK
  /\ ActiveOnBoundDevice
  /\ LeasesInOrder
  /\ \A w \in Workers : RequestInv(w)
  /\ \A k \in Keys : KeyInv(k)
  /\ \A l \in leases : LeaseInv(l)

USE NullAssumption
-----------------------------------------------------------------------------
(* A request in flight is of the shape its op says. *)

LEMMA RequestShape ==
  ASSUME NEW q \in Request
  PROVE  /\ q.op = "redeem" =>
              q.user \in Users /\ q.key \in Keys /\ q.device \in Devices /\ q.now \in Nat
         /\ q.op \in {"heartbeat", "entitlement"} =>
              q.user \in Users /\ q.device \in Devices /\ q.now \in Nat
         /\ q.op = "login" => q.user \in Users /\ q.now \in Nat
         /\ q.op = "expire" => q.user \in Users
         /\ q.op \in {"revoke", "withdraw"} => q.key \in Keys
  BY DEF Request, Idle

LEMMA InitHolds == Init => RowsInv
<1> SUFFICES ASSUME Init PROVE RowsInv OBVIOUS
<1> USE DEF Init, NoKey, NoDev, NoEnt, Idle
<1>1. TypeOK
  <2>1. key \in [Keys -> [status: KeyStatuses, expires: Nat,
                 user: Users \cup {NoUser}, device: Devices \cup {NoDevice}]]
    BY BoundAssumption DEF KeyStatuses, Never
  <2>2. req \in [Workers -> Request]
    BY DEF Request
  <2>3. plan \in [status: PlanStatuses, days: Terms]
    BY DEF PlanStatuses
  <2> QED BY <2>1, <2>2, <2>3 DEF TypeOK, UserStatuses, DeviceStatuses
<1>2. ActiveOnBoundDevice
  BY DEF ActiveOnBoundDevice
<1>3. LeasesInOrder
  BY DEF LeasesInOrder
<1>4. ASSUME NEW w \in Workers PROVE RequestInv(w)
  BY DEF RequestInv
<1>5. ASSUME NEW k \in Keys PROVE KeyInv(k)
  BY DEF KeyInv
<1>6. ASSUME NEW l \in leases PROVE LeaseInv(l)
  OBVIOUS
<1> QED BY <1>1, <1>2, <1>3, <1>4, <1>5, <1>6 DEF RowsInv
-----------------------------------------------------------------------------
(* Steps that only move a request on. *)

LEMMA RequestsMove ==
  ASSUME RowsInv, UNCHANGED <<rows, leases>>,
         clock' \in Nat, clock <= clock',
         req' \in [Workers -> Request],
         \A w \in Workers : req'[w] # req[w] => RequestInv(w)'
  PROVE  RowsInv'
<1> USE DEF RowsInv, rows
<1>1. TypeOK'
  BY DEF TypeOK
<1>2. ActiveOnBoundDevice' /\ LeasesInOrder'
  BY DEF ActiveOnBoundDevice, LeasesInOrder, Bound
<1>3. ASSUME NEW w \in Workers PROVE RequestInv(w)'
  <2>1. CASE req'[w] = req[w]
    <3>1. RequestInv(w) OBVIOUS
    <3>2. clock \in Nat /\ req[w] \in Request BY DEF TypeOK
    <3> QED BY <2>1, <3>1, <3>2, RequestShape DEF RequestInv
  <2> QED BY <2>1
<1>4. ASSUME NEW k \in Keys PROVE KeyInv(k)'
  BY DEF KeyInv
<1>5. ASSUME NEW l \in leases' PROVE LeaseInv(l)'
  BY DEF LeaseInv, LeaseFor
<1> QED BY <1>1, <1>2, <1>3, <1>4, <1>5

\* One worker's request is replaced by another that its reads allow.
LEMMA RequestReplaced ==
  ASSUME RowsInv, UNCHANGED <<clock, rows, leases>>,
         NEW w \in Workers, NEW q \in Request, GoesOn(w, q),
         q.op \in {"redeem", "heartbeat", "entitlement", "login"} => q.now <= clock,
         q.op = "expire" => ent[q.user] # NoEnt,
         q.op = "revoke" => key[q.key].user # NoUser,
         q.op = "withdraw" => key[q.key].status # "none"
  PROVE  RowsInv'
<1> TypeOK BY DEF RowsInv
<1>1. clock \in Nat /\ req \in [Workers -> Request]
  BY DEF TypeOK
<1>2. req' \in [Workers -> Request]
  BY <1>1 DEF GoesOn
<1>3. ASSUME NEW v \in Workers, req'[v] # req[v] PROVE RequestInv(v)'
  <2>1. req'[v] = q
    BY <1>1, <1>3 DEF GoesOn
  <2> QED BY <2>1 DEF RequestInv, rows
<1> QED BY <1>1, <1>2, <1>3, RequestsMove

LEMMA AnswerReplaces ==
  ASSUME RowsInv, UNCHANGED <<clock, rows, leases>>, NEW w \in Workers, Answers(w)
  PROVE  RowsInv'
<1>1. Idle \in Request
  BY DEF Request
<1>2. Idle.op = "idle"
  BY DEF Idle
<1> QED BY <1>1, <1>2, RequestReplaced DEF Answers, GoesOn

LEMMA TickKeeps == RowsInv /\ Tick => RowsInv'
<1> SUFFICES ASSUME RowsInv, Tick PROVE RowsInv' OBVIOUS
<1>1. clock \in Nat /\ req \in [Workers -> Request]
  BY DEF RowsInv, TypeOK
<1> QED BY <1>1, RequestsMove DEF Tick

LEMMA ReadsKeep ==
  ASSUME RowsInv, NEW w \in Workers,
         \/ Lose(w)
         \/ \E u \in Users, k \in Keys, d \in Devices : BeginRedeem(w, u, k, d)
         \/ \E u \in Users, d \in Devices : BeginHeartbeat(w, u, d)
         \/ HeartbeatDevice(w)
         \/ \E u \in Users : BeginLogin(w, u)
         \/ GetEntitlement(w)
         \/ \E k \in Keys : ReadKey(w, k)
  PROVE  RowsInv'
<1> TypeOK BY DEF RowsInv
<1>0. clock \in Nat /\ req[w] \in Request
  BY DEF TypeOK
<1>1. CASE Lose(w)
  BY <1>1, AnswerReplaces DEF Lose
<1>2. ASSUME NEW u \in Users, NEW k \in Keys, NEW d \in Devices, BeginRedeem(w, u, k, d)
      PROVE  RowsInv'
  <2> DEFINE q == [op |-> "redeem", user |-> u, key |-> k, device |-> d, now |-> clock]
  <2>1. q \in Request
    BY <1>0 DEF Request
  <2>2. GoesOn(w, q) /\ UNCHANGED <<clock, rows, leases>>
    BY <1>2 DEF BeginRedeem, Receives, GoesOn
  <2>3. q.op = "redeem" /\ q.now <= clock
    BY <1>0
  <2> HIDE DEF q
  <2> QED BY <2>1, <2>2, <2>3, RequestReplaced
<1>3. ASSUME NEW u \in Users, NEW d \in Devices, BeginHeartbeat(w, u, d)
      PROVE  RowsInv'
  <2> DEFINE q == [op |-> "heartbeat", user |-> u, device |-> d, now |-> clock]
  <2>1. q \in Request
    BY <1>0 DEF Request
  <2>2. GoesOn(w, q) /\ UNCHANGED <<clock, rows, leases>>
    BY <1>3 DEF BeginHeartbeat, Receives, GoesOn
  <2>3. q.op = "heartbeat" /\ q.now <= clock
    BY <1>0
  <2> HIDE DEF q
  <2> QED BY <2>1, <2>2, <2>3, RequestReplaced
<1>4. CASE HeartbeatDevice(w)
  <2> DEFINE q == [req[w] EXCEPT !.op = "entitlement"]
  <2>1. req[w].op = "heartbeat" /\ RequestInv(w)
    BY <1>4 DEF HeartbeatDevice, RowsInv
  <2>2. req[w] \in [op: {"heartbeat", "entitlement"}, user: Users, device: Devices, now: Nat]
    BY <1>0, <2>1 DEF Request, Idle
  <2>3. q \in Request /\ q.op = "entitlement" /\ q.now = req[w].now
    BY <2>2 DEF Request
  <2>4. GoesOn(w, q) /\ UNCHANGED <<clock, rows, leases>>
    BY <1>4 DEF HeartbeatDevice
  <2>5. req[w].now <= clock
    BY <2>1 DEF RequestInv
  <2> HIDE DEF q
  <2> QED BY <2>3, <2>4, <2>5, RequestReplaced
<1>5. ASSUME NEW u \in Users, BeginLogin(w, u)
      PROVE  RowsInv'
  <2> DEFINE q == [op |-> "login", user |-> u, now |-> clock]
  <2>1. q \in Request
    BY <1>0 DEF Request
  <2>2. GoesOn(w, q) /\ UNCHANGED <<clock, rows, leases>>
    BY <1>5 DEF BeginLogin, Receives, GoesOn
  <2>3. q.op = "login" /\ q.now <= clock
    BY <1>0
  <2> HIDE DEF q
  <2> QED BY <2>1, <2>2, <2>3, RequestReplaced
<1>6. CASE GetEntitlement(w)
  <2>1. req[w].op = "login" /\ UNCHANGED <<clock, rows, leases>>
    BY <1>6 DEF GetEntitlement
  <2>2. CASE IsOver(ent[req[w].user], req[w].now)
    <3> DEFINE q == [op |-> "expire", user |-> req[w].user]
    <3>1. q \in Request
      BY <1>0, <2>1, RequestShape DEF Request
    <3>2. GoesOn(w, q)
      BY <1>6, <2>2 DEF GetEntitlement
    <3>3. q.op = "expire" /\ ent[q.user] # NoEnt
      BY <2>2 DEF IsOver, NoEnt
    <3> HIDE DEF q
    <3> QED BY <2>1, <3>1, <3>2, <3>3, RequestReplaced
  <2>3. CASE ~IsOver(ent[req[w].user], req[w].now)
    BY <1>6, <2>1, <2>3, AnswerReplaces DEF GetEntitlement
  <2> QED BY <2>2, <2>3
<1>7. ASSUME NEW k \in Keys, ReadKey(w, k)
      PROVE  RowsInv'
  <2> DEFINE q == [op |-> IF key[k].status = "REDEEMED" THEN "revoke" ELSE "withdraw",
                   key |-> k]
  <2>1. q \in Request
    BY DEF Request
  <2>2. GoesOn(w, q) /\ UNCHANGED <<clock, rows, leases>> /\ key[k].status # "none"
    BY <1>7 DEF ReadKey, Receives, GoesOn
  <2>3. /\ q.op \in {"revoke", "withdraw"} /\ q.key = k
        /\ q.op = "revoke" => key[k].status = "REDEEMED"
    OBVIOUS
  <2>4. KeyInv(k)
    BY DEF RowsInv
  <2> HIDE DEF q
  <2> QED BY <2>1, <2>2, <2>3, <2>4, RequestReplaced DEF KeyInv
<1> QED BY <1>1, <1>2, <1>3, <1>4, <1>5, <1>6, <1>7
-----------------------------------------------------------------------------
(* Steps that change rows. *)

\* What a step may do to the entitlement of a user who has one.
Follows(e, f) ==
  /\ e # NoEnt => f # NoEnt
  /\ \/ f.version > e.version /\ f.until >= e.until
     \/ f.version = e.version /\ f.until = e.until

\* Leases signed before the step stay what LeaseInv says, and the requests and
\* keys that rely on an entitlement keep it.
LEMMA FollowsKeepsLeases ==
  ASSUME RowsInv, TypeOK', \A u \in Users : Follows(ent[u], ent'[u]),
         NEW l \in leases
  PROVE  LeaseInv(l)'
<1>1. l \in Lease /\ LeaseInv(l)
  BY DEF RowsInv, TypeOK
<1>2. PICK u \in Users : u = l.user
  BY <1>1 DEF Lease
<1>3. ent[u] \in Entitlement \cup {NoEnt} /\ ent'[u] \in Entitlement \cup {NoEnt}
  BY DEF RowsInv, TypeOK
<1>4. /\ ent[u].version \in Nat /\ ent'[u].version \in Nat /\ l.version \in Nat
      /\ ent[u].until \in Nat /\ ent'[u].until \in Nat /\ l.until \in Nat
  BY <1>1, <1>3 DEF Entitlement, NoEnt, Lease
<1>5. Follows(ent[u], ent'[u])
  OBVIOUS
<1> QED BY <1>1, <1>2, <1>4, <1>5 DEF Follows, LeaseInv

\* A step that keeps the leases and the clock, and moves the entitlements on.
LEMMA RowsMove ==
  ASSUME RowsInv, TypeOK', ActiveOnBoundDevice', clock' = clock, leases' = leases,
         \A u \in Users : Follows(ent[u], ent'[u]),
         \A k \in Keys : KeyInv(k)',
         \A k \in Keys : key[k].user # NoUser => key'[k].user = key[k].user,
         \A k \in Keys : key[k].status # "none" => key'[k].status # "none",
         \A w \in Workers : req'[w] = req[w] \/ RequestInv(w)'
  PROVE  RowsInv'
<1>1. LeasesInOrder'
  BY DEF RowsInv, LeasesInOrder
<1>2. ASSUME NEW l \in leases' PROVE LeaseInv(l)'
  BY <1>2, FollowsKeepsLeases
<1>3. ASSUME NEW w \in Workers, req'[w] = req[w] PROVE RequestInv(w)'
  <2>1. RequestInv(w) /\ req[w] \in Request
    BY DEF RowsInv, TypeOK
  <2>2. req[w].op = "expire" => req[w].user \in Users
    BY <2>1, RequestShape
  <2>3. req[w].op \in {"revoke", "withdraw"} => req[w].key \in Keys
    BY <2>1, RequestShape
  <2> QED BY <1>3, <2>1, <2>2, <2>3 DEF RequestInv, Follows
<1> QED BY <1>1, <1>2, <1>3 DEF RowsInv

LEMMA SameFollows == \A e : Follows(e, e)
  BY DEF Follows

LEMMA LeaseSigned ==
  ASSUME RowsInv, NEW w \in Workers, Answers(w), UNCHANGED <<clock, rows>>,
         NEW u \in Users, NEW d \in Devices, ent[u] # NoEnt,
         leases' = leases \cup {LeaseFor(u, ent[u], d)}
  PROVE  RowsInv'
<1> DEFINE new == LeaseFor(u, ent[u], d)
<1> USE DEF RowsInv, rows
<1>1. ent[u] \in Entitlement
  BY DEF TypeOK
<1>2. new \in Lease
  BY <1>1 DEF Lease, LeaseFor, Entitlement
<1>3. TypeOK'
  <2>1. req' \in [Workers -> Request]
    BY DEF TypeOK, Answers, Request
  <2>2. leases' \in SUBSET Lease
    BY <1>2 DEF TypeOK
  <2>3. /\ clock' \in Nat /\ user' \in [Users -> UserStatuses]
        /\ plan' \in [status: PlanStatuses, days: Terms]
        /\ dev' \in [Devices -> [status: DeviceStatuses, user: Users \cup {NoUser}]]
        /\ ent' \in [Users -> Entitlement \cup {NoEnt}]
    BY DEF TypeOK
  <2> QED BY <2>1, <2>2, <2>3 DEF TypeOK
<1>4. ActiveOnBoundDevice'
  BY DEF ActiveOnBoundDevice, Bound
<1>5. ASSUME NEW l \in leases' PROVE LeaseInv(l)'
  <2>1. CASE l \in leases
    BY <2>1 DEF LeaseInv, LeaseFor
  <2>2. CASE l = new
    BY <1>1, <2>2 DEF LeaseInv, LeaseFor, Entitlement
  <2> QED BY <2>1, <2>2
<1>6. LeasesInOrder'
  <2> SUFFICES ASSUME NEW l \in leases', NEW m \in leases',
                      l.user = m.user, l.version <= m.version
               PROVE  l.until <= m.until /\ (l.version = m.version => l.until = m.until)
    BY DEF LeasesInOrder
  <2>1. new.user = u /\ new.version = ent[u].version /\ new.until = ent[u].until
    BY DEF LeaseFor
  <2>5. /\ new.until \in Nat /\ new.version \in Nat
        /\ \A n \in leases : n.until \in Nat /\ n.version \in Nat
    BY <1>2 DEF TypeOK, Lease
  <2>2. CASE l \in leases /\ m \in leases
    BY <2>2 DEF LeasesInOrder
  <2>3. CASE l = new /\ m \in leases
    BY <2>1, <2>3, <2>5 DEF LeaseInv
  <2>4. CASE l \in leases /\ m = new
    BY <2>1, <2>4, <2>5 DEF LeaseInv
  <2>6. CASE l = new /\ m = new
    BY <2>5, <2>6
  <2> QED BY <2>2, <2>3, <2>4, <2>6
<1>7. ASSUME NEW k \in Keys PROVE KeyInv(k)'
  BY DEF KeyInv
<1>8. ASSUME NEW v \in Workers PROVE RequestInv(v)'
  <2>1. CASE v = w
    BY <2>1 DEF RequestInv, Answers, Idle, TypeOK
  <2>2. CASE v # w
    <3>1. req'[v] = req[v]
      BY <2>2 DEF Answers, TypeOK
    <3> QED BY <3>1 DEF RequestInv
  <2> QED BY <2>1, <2>2
<1> QED BY <1>3, <1>4, <1>5, <1>6, <1>7, <1>8

LEMMA RedeemAgainKeeps ==
  ASSUME RowsInv, NEW w \in Workers, RedeemAgain(w)
  PROVE  RowsInv'
<1>1. req[w] \in Request
  BY DEF RowsInv, TypeOK
<1>2. req[w].user \in Users /\ req[w].key \in Keys /\ req[w].device \in Devices
  BY <1>1, RequestShape DEF RedeemAgain
<1>3. ent[req[w].user] # NoEnt
  BY <1>2 DEF RedeemAgain, RowsInv, KeyInv
<1> QED BY <1>2, <1>3, LeaseSigned DEF RedeemAgain

LEMMA HeartbeatEntitlementKeeps ==
  ASSUME RowsInv, NEW w \in Workers, HeartbeatEntitlement(w)
  PROVE  RowsInv'
<1>1. req[w] \in Request
  BY DEF RowsInv, TypeOK
<1>2. req[w].user \in Users /\ req[w].device \in Devices
  BY <1>1, RequestShape DEF HeartbeatEntitlement
<1>3. ent[req[w].user] # NoEnt
  BY DEF HeartbeatEntitlement, NoEnt
<1> QED BY <1>2, <1>3, LeaseSigned DEF HeartbeatEntitlement

LEMMA ExpireEntitlementKeeps ==
  ASSUME RowsInv, NEW w \in Workers, ExpireEntitlement(w)
  PROVE  RowsInv'
<1> DEFINE u == req[w].user
<1> USE DEF ExpireEntitlement
<1> TypeOK BY DEF RowsInv
<1>1. u \in Users /\ ent[u] # NoEnt
  <2>1. req[w] \in Request /\ RequestInv(w)
    BY DEF RowsInv, TypeOK
  <2> QED BY <2>1, RequestShape DEF RequestInv
<1>2. ent[u] \in Entitlement
  BY <1>1 DEF TypeOK
<1>3. ent'[u] \in Entitlement /\ ent'[u] = [ent[u] EXCEPT !.status = "EXPIRED"]
  BY <1>1, <1>2 DEF TypeOK, Entitlement
<1>4. \A v \in Users \ {u} : ent'[v] = ent[v]
  BY DEF TypeOK
<1>5. TypeOK'
  BY <1>3, <1>4 DEF TypeOK, Answers, Request
<1>6. ActiveOnBoundDevice'
  <2>1. ent'[u].status = "EXPIRED"
    BY <1>2, <1>3 DEF Entitlement
  <2> QED BY <1>4, <2>1 DEF RowsInv, ActiveOnBoundDevice, Bound
<1>7. ASSUME NEW v \in Users PROVE Follows(ent[v], ent'[v])
  <2>1. CASE v = u
    BY <1>2, <1>3, <2>1 DEF Follows, Entitlement, NoEnt
  <2> QED BY <1>4, <2>1, SameFollows
<1>8. ASSUME NEW k \in Keys PROVE KeyInv(k)'
  BY <1>7 DEF RowsInv, KeyInv, Follows, TypeOK
<1>9. ASSUME NEW v \in Workers PROVE req'[v] = req[v] \/ RequestInv(v)'
  BY DEF Answers, TypeOK, RequestInv, Idle
<1> QED BY <1>5, <1>6, <1>7, <1>8, <1>9, RowsMove

LEMMA RevokedEntitlement ==
  ASSUME NEW e \in Entitlement
  PROVE  /\ Revoked(e) \in Entitlement /\ Revoked(e).status = "REVOKED"
         /\ Revoked(e).version > e.version /\ Revoked(e).until = e.until
         /\ e.until \in Nat
<1>1. e \in [status: {"ACTIVE", "REVOKED", "EXPIRED"}, device: Devices,
            until: Nat, version: Nat \ {0}]
  BY DEF Entitlement
<1>2. e.version + 1 \in Nat \ {0} /\ e.version + 1 > e.version
  BY <1>1
<1>3. Revoked(e) = [e EXCEPT !.status = "REVOKED", !.version = e.version + 1]
  BY <1>1 DEF Revoked
<1> QED BY <1>1, <1>2, <1>3 DEF Entitlement

LEMMA RevokeEntitlementKeeps ==
  ASSUME RowsInv, NEW w \in Workers, RevokeEntitlement(w)
  PROVE  RowsInv'
<1> DEFINE k == req[w].key
           u == key[k].user
           q == [req[w] EXCEPT !.op = "withdraw"]
<1> USE DEF RevokeEntitlement
<1> TypeOK BY DEF RowsInv
<1>1. k \in Keys /\ req[w] \in [op: {"revoke", "withdraw"}, key: Keys]
  BY DEF TypeOK, Request, Idle
<1>2. /\ key[k] \in [status: KeyStatuses, expires: Nat, user: Users \cup {NoUser},
                     device: Devices \cup {NoDevice}]
      /\ RequestInv(w) /\ KeyInv(k)
  BY <1>1 DEF RowsInv, TypeOK
<1>3. u \in Users /\ ent[u] \in Entitlement /\ key[k].status # "none"
  BY <1>2 DEF RequestInv, KeyInv, TypeOK
<1>4. q \in Request /\ q.op = "withdraw" /\ q.key = k
  BY <1>1 DEF Request
<1>5. /\ req' = [req EXCEPT ![w] = q]
      /\ UNCHANGED <<clock, user, plan, key, dev, leases>>
  BY DEF GoesOn
<1>6. ASSUME NEW v \in Workers PROVE req'[v] = req[v] \/ RequestInv(v)'
  <2>1. CASE v = w
    <3>1. req'[v] = q
      BY <1>5, <2>1 DEF TypeOK
    <3> HIDE DEF q
    <3> QED BY <1>3, <1>4, <1>5, <3>1 DEF RequestInv
  <2>2. CASE v # w
    BY <1>5, <2>2 DEF TypeOK
  <2> QED BY <2>1, <2>2
<1>7. req' \in [Workers -> Request]
  BY <1>4, <1>5 DEF TypeOK
<1>8. CASE UNCHANGED ent
  <2>1. TypeOK'
    BY <1>5, <1>7, <1>8 DEF TypeOK
  <2>2. ActiveOnBoundDevice'
    BY <1>5, <1>8 DEF RowsInv, ActiveOnBoundDevice, Bound
  <2>3. \A v \in Users : Follows(ent[v], ent'[v])
    BY <1>8, SameFollows
  <2>4. \A j \in Keys : KeyInv(j)'
    BY <1>5, <1>8 DEF RowsInv, KeyInv
  <2> HIDE DEF q
  <2> QED BY <1>5, <1>6, <2>1, <2>2, <2>3, <2>4, RowsMove
<1>9. CASE ent' = [ent EXCEPT ![u] = Revoked(@)]
  <2>1. ent'[u] = Revoked(ent[u]) /\ \A v \in Users \ {u} : ent'[v] = ent[v]
    BY <1>3, <1>9 DEF TypeOK
  <2>2. /\ ent'[u] \in Entitlement /\ ent'[u].status = "REVOKED"
        /\ ent'[u].version > ent[u].version
        /\ ent'[u].until >= ent[u].until
    BY <1>3, <2>1, RevokedEntitlement
  <2>3. ent' \in [Users -> Entitlement \cup {NoEnt}]
    BY <1>9, <2>1, <2>2 DEF TypeOK
  <2>4. TypeOK'
    BY <1>5, <1>7, <2>3 DEF TypeOK
  <2>5. ActiveOnBoundDevice'
    BY <1>5, <2>1, <2>2 DEF RowsInv, ActiveOnBoundDevice, Bound
  <2>6. ASSUME NEW v \in Users PROVE Follows(ent[v], ent'[v])
    <3>1. CASE v = u
      BY <2>2, <3>1 DEF Follows, NoEnt, Entitlement
    <3> QED BY <2>1, <3>1, SameFollows
  <2>7. ASSUME NEW j \in Keys PROVE KeyInv(j)'
    BY <1>5, <2>6 DEF RowsInv, KeyInv, Follows, TypeOK
  <2> HIDE DEF q
  <2> QED BY <1>5, <1>6, <2>4, <2>5, <2>6, <2>7, RowsMove
<1> QED BY <1>8, <1>9

LEMMA RevokeKeyKeeps ==
  ASSUME RowsInv, NEW w \in Workers, RevokeKey(w)
  PROVE  RowsInv'
<1> DEFINE k == req[w].key
<1> USE DEF RevokeKey
<1> TypeOK BY DEF RowsInv
<1>1. k \in Keys
  BY RequestShape DEF TypeOK
<1>2. /\ key'[k] = [key[k] EXCEPT !.status = "REVOKED"]
      /\ \A j \in Keys \ {k} : key'[j] = key[j]
  BY <1>1 DEF TypeOK
<1>3. TypeOK'
  <2>1. key'[k] \in [status: KeyStatuses, expires: Nat,
                    user: Users \cup {NoUser}, device: Devices \cup {NoDevice}]
    BY <1>1, <1>2 DEF TypeOK, KeyStatuses
  <2>2. key' \in [Keys -> [status: KeyStatuses, expires: Nat,
                    user: Users \cup {NoUser}, device: Devices \cup {NoDevice}]]
    BY <1>2, <2>1 DEF TypeOK
  <2> QED BY <2>2 DEF TypeOK, Answers, Request
<1>4. key'[k].status = "REVOKED" /\ key'[k].user = key[k].user
  BY <1>1, <1>2 DEF TypeOK
<1>5. ActiveOnBoundDevice'
  BY DEF RowsInv, ActiveOnBoundDevice, Bound
<1>6. ASSUME NEW j \in Keys PROVE KeyInv(j)'
  BY <1>2, <1>4 DEF RowsInv, KeyInv
<1>7. ASSUME NEW v \in Workers PROVE req'[v] = req[v] \/ RequestInv(v)'
  BY DEF Answers, TypeOK, RequestInv, Idle
<1> QED BY <1>2, <1>3, <1>4, <1>5, <1>6, <1>7, SameFollows, RowsMove

LEMMA GenerateKeyKeeps ==
  ASSUME RowsInv, NEW k \in Keys, NEW expires \in 1 .. Never, GenerateKey(k, expires)
  PROVE  RowsInv'
<1> USE DEF GenerateKey
<1> TypeOK BY DEF RowsInv
<1>1. expires \in Nat
  BY BoundAssumption DEF Never
<1>2. /\ key'[k] = [key[k] EXCEPT !.status = "UNUSED", !.expires = expires]
      /\ \A j \in Keys \ {k} : key'[j] = key[j]
  BY DEF TypeOK
<1>3. key'[k].status = "UNUSED" /\ key'[k].user = key[k].user /\ key[k].user = NoUser
  BY <1>2 DEF TypeOK, RowsInv, KeyInv
<1>4. TypeOK'
  <2> DEFINE Row == [status: KeyStatuses, expires: Nat,
                     user: Users \cup {NoUser}, device: Devices \cup {NoDevice}]
  <2>1. key \in [Keys -> Row] /\ "UNUSED" \in KeyStatuses
    BY DEF TypeOK, KeyStatuses
  <2>2. [key[k] EXCEPT !.status = "UNUSED", !.expires = expires] \in Row
    BY <1>1, <2>1
  <2>3. key' \in [Keys -> Row]
    <3> HIDE DEF Row
    <3>1. key' = [key EXCEPT ![k] = [key[k] EXCEPT !.status = "UNUSED", !.expires = expires]]
      BY <2>1
    <3> QED BY <2>1, <2>2, <3>1
  <2> QED BY <2>3 DEF TypeOK
<1>5. ActiveOnBoundDevice'
  BY DEF RowsInv, ActiveOnBoundDevice, Bound
<1>6. ASSUME NEW j \in Keys PROVE KeyInv(j)'
  BY <1>2, <1>3 DEF RowsInv, KeyInv
<1> QED BY <1>2, <1>3, <1>4, <1>5, <1>6, SameFollows, RowsMove

LEMMA UnbindDeviceKeeps ==
  ASSUME RowsInv, NEW d \in Devices, UnbindDevice(d)
  PROVE  RowsInv'
<1> USE DEF UnbindDevice
<1> TypeOK BY DEF RowsInv
<1>1. ASSUME NEW u \in Users
      PROVE  /\ ent'[u] \in Entitlement \cup {NoEnt} /\ Follows(ent[u], ent'[u])
             /\ ent'[u].status = "ACTIVE" => ent'[u] = ent[u] /\ ent[u].device # d
  <2>1. ent[u] \in Entitlement \cup {NoEnt}
    BY DEF TypeOK
  <2>2. CASE ent[u].status = "ACTIVE" /\ ent[u].device = d
    <3>1. ent'[u] = Revoked(ent[u]) /\ ent[u] \in Entitlement
      BY <2>1, <2>2 DEF NoEnt
    <3>2. /\ ent'[u] \in Entitlement /\ ent'[u].status = "REVOKED"
          /\ ent'[u].version > ent[u].version
          /\ ent'[u].until >= ent[u].until
      BY <3>1, RevokedEntitlement
    <3>3. ent'[u] # NoEnt
      BY <3>2 DEF NoEnt
    <3> QED BY <3>2, <3>3 DEF Follows
  <2>3. CASE ~(ent[u].status = "ACTIVE" /\ ent[u].device = d)
    BY <2>1, <2>3, SameFollows
  <2> QED BY <2>2, <2>3
<1>2. TypeOK'
  BY <1>1 DEF TypeOK, DeviceStatuses
<1>3. ASSUME NEW u \in Users, ent'[u].status = "ACTIVE" PROVE ent'[u].device \in Bound(u)'
  <2>1. ent[u].status = "ACTIVE" /\ ent'[u] = ent[u] /\ ent[u].device # d
    BY <1>1, <1>3
  <2>2. ent[u].device \in Bound(u)
    BY <2>1 DEF RowsInv, ActiveOnBoundDevice
  <2> QED BY <2>1, <2>2 DEF Bound, TypeOK
<1>4. ActiveOnBoundDevice'
  BY <1>3 DEF ActiveOnBoundDevice
<1>5. ASSUME NEW j \in Keys PROVE KeyInv(j)'
  BY <1>1 DEF RowsInv, KeyInv, Follows, TypeOK
<1> QED BY <1>1, <1>2, <1>4, <1>5, RowsMove

LEMMA StatusesKeep ==
  ASSUME RowsInv,
         \/ \E d \in Devices, s \in {"ACTIVE", "SUSPENDED"} : SetDeviceStatus(d, s)
         \/ \E u \in Users, s \in UserStatuses : SetUserStatus(u, s)
         \/ \E p \in [status: PlanStatuses, days: Terms] : UpdatePlan(p)
  PROVE  RowsInv'
<1> TypeOK BY DEF RowsInv
<1>1. UNCHANGED <<clock, key, ent, req, leases>>
  BY DEF SetDeviceStatus, SetUserStatus, UpdatePlan
<1>2. TypeOK'
  BY DEF TypeOK, SetDeviceStatus, SetUserStatus, UpdatePlan, DeviceStatuses
<1>3. \A e \in Devices : /\ dev'[e].user = dev[e].user
                         /\ dev'[e].status = dev[e].status
                              \/ dev'[e].status \in {"ACTIVE", "SUSPENDED"}
  BY DEF TypeOK, SetDeviceStatus, SetUserStatus, UpdatePlan
<1>4. ActiveOnBoundDevice'
  BY <1>1, <1>3 DEF RowsInv, ActiveOnBoundDevice, Bound
<1>5. \A k \in Keys : KeyInv(k)'
  BY <1>1 DEF RowsInv, KeyInv
<1> QED BY <1>1, <1>2, <1>4, <1>5, SameFollows, RowsMove
-----------------------------------------------------------------------------
(* Redemption changes the entitlement, the device and the key together. *)

LEMMA RedeemWrites ==
  ASSUME RowsInv, NEW w \in Workers, Redeem(w)
  PROVE  LET u == req[w].user
             d == req[w].device
             k == req[w].key
         IN  /\ u \in Users /\ d \in Devices /\ k \in Keys
             /\ req[w].now \in Nat /\ req[w].now <= clock
             /\ plan.days \in Nat \ {0}
             /\ ent[u].until \in Nat /\ ent[u].version \in Nat
             /\ ent'[u] \in Entitlement /\ ent'[u].status = "ACTIVE"
             /\ ent'[u].device = d /\ ent'[u].version = ent[u].version + 1
             /\ ent'[u].until = Later(ent[u].until, req[w].now) + plan.days
             /\ \A v \in Users \ {u} : ent'[v] = ent[v]
             /\ dev'[d] = [status |-> "ACTIVE", user |-> u]
             /\ \A e \in Devices \ {d} : dev'[e] = dev[e]
             /\ key'[k].status = "REDEEMED" /\ key'[k].user = u
             /\ \A j \in Keys \ {k} : key'[j] = key[j]
             /\ TypeOK'
<1> DEFINE u == req[w].user
           d == req[w].device
           k == req[w].key
           e == Granted(u, d, req[w].now)
           Row == [status: KeyStatuses, expires: Nat,
                   user: Users \cup {NoUser}, device: Devices \cup {NoDevice}]
           row == [key[k] EXCEPT !.status = "REDEEMED", !.user = u, !.device = d]
<1> TypeOK BY DEF RowsInv
<1>1. req[w] \in Request /\ req[w].op = "redeem" /\ RequestInv(w)
  BY DEF RowsInv, TypeOK, Redeem
<1>2. u \in Users /\ d \in Devices /\ k \in Keys /\ req[w].now \in Nat
  BY <1>1, RequestShape
<1>3. req[w].now <= clock
  BY <1>1 DEF RequestInv
<1>4. plan.days \in Nat \ {0}
  BY TermsAssumption DEF TypeOK
<1>5. ent[u].until \in Nat /\ ent[u].version \in Nat
  BY <1>2 DEF TypeOK, Entitlement, NoEnt
<1>6. /\ e \in Entitlement /\ e.status = "ACTIVE" /\ e.device = d
      /\ e.version = ent[u].version + 1
      /\ e.until = Later(ent[u].until, req[w].now) + plan.days
  BY <1>2, <1>4, <1>5 DEF Granted, Entitlement, Later
<1>7. /\ ent' = [ent EXCEPT ![u] = e]
      /\ dev' = [dev EXCEPT ![d] = [status |-> "ACTIVE", user |-> u]]
      /\ key' = [key EXCEPT ![k].status = "REDEEMED", ![k].user = u, ![k].device = d]
      /\ leases' = leases \cup {LeaseFor(u, ent'[u], d)}
      /\ req' = [req EXCEPT ![w] = Idle]
      /\ UNCHANGED <<clock, user, plan>>
  BY DEF Redeem, Answers
<1>8. /\ ent'[u] = e /\ \A v \in Users \ {u} : ent'[v] = ent[v]
      /\ ent' \in [Users -> Entitlement \cup {NoEnt}]
  <2> HIDE DEF e, u
  <2> QED BY <1>2, <1>6, <1>7 DEF TypeOK
<1>9. /\ dev'[d] = [status |-> "ACTIVE", user |-> u]
      /\ \A c \in Devices \ {d} : dev'[c] = dev[c]
      /\ dev' \in [Devices -> [status: DeviceStatuses, user: Users \cup {NoUser}]]
  <2> HIDE DEF u, d
  <2> QED BY <1>2, <1>7 DEF TypeOK, DeviceStatuses
<1>10. key \in [Keys -> Row] /\ "REDEEMED" \in KeyStatuses
  BY DEF TypeOK, KeyStatuses
<1>11. row \in Row /\ row.status = "REDEEMED" /\ row.user = u
  <2>1. key[k] \in Row
    BY <1>2, <1>10
  <2> HIDE DEF u, d, k
  <2> QED BY <1>2, <1>10, <2>1
<1>12. key' = [key EXCEPT ![k] = row]
  <2> HIDE DEF u, d, k
  <2> QED BY <1>2, <1>7, <1>10
<1>13. /\ key'[k] = row /\ \A j \in Keys \ {k} : key'[j] = key[j]
       /\ key' \in [Keys -> Row]
  <2> HIDE DEF row, k, Row
  <2> QED BY <1>2, <1>10, <1>11, <1>12
<1>14. LeaseFor(u, ent'[u], d) \in Lease
  <2> HIDE DEF e
  <2> QED BY <1>2, <1>6, <1>8 DEF LeaseFor, Lease, Entitlement
<1>15. TypeOK'
  <2>1. req' \in [Workers -> Request]
    BY <1>7 DEF TypeOK, Request
  <2>2. leases' \in SUBSET Lease
    BY <1>7, <1>14 DEF TypeOK
  <2> HIDE DEF e, u, d, k, row
  <2> QED BY <1>7, <1>8, <1>9, <1>13, <2>1, <2>2 DEF TypeOK
<1> QED BY <1>2, <1>3, <1>4, <1>5, <1>6, <1>8, <1>9, <1>11, <1>13, <1>15

LEMMA RedeemKeeps ==
  ASSUME RowsInv, NEW w \in Workers, Redeem(w)
  PROVE  RowsInv'
<1> DEFINE u == req[w].user
           d == req[w].device
           k == req[w].key
           new == LeaseFor(u, ent'[u], d)
<1> TypeOK BY DEF RowsInv
<1>1. /\ u \in Users /\ d \in Devices /\ k \in Keys
      /\ ent[u].version \in Nat /\ ent[u].until \in Nat
      /\ ent'[u] \in Entitlement /\ ent'[u].status = "ACTIVE"
      /\ ent'[u].device = d /\ ent'[u].version = ent[u].version + 1
      /\ ent'[u].until >= ent[u].until
      /\ \A v \in Users \ {u} : ent'[v] = ent[v]
      /\ dev'[d] = [status |-> "ACTIVE", user |-> u]
      /\ \A e \in Devices \ {d} : dev'[e] = dev[e]
      /\ key'[k].status = "REDEEMED" /\ key'[k].user = u
      /\ \A j \in Keys \ {k} : key'[j] = key[j]
      /\ TypeOK'
  BY RedeemWrites DEF Later
<1>2. /\ leases' = leases \cup {new} /\ req' = [req EXCEPT ![w] = Idle]
      /\ clock' = clock
      /\ key[k].status \notin {"REDEEMED", "REVOKED"}
      /\ \A v \in Users \ {u} : ent[v].device # d
  BY DEF Redeem, Answers, DeviceFree, KeyUsable
<1> HIDE DEF u, d, k
<1>3. ASSUME NEW v \in Users PROVE Follows(ent[v], ent'[v])
  <2>1. CASE v = u
    <3>1. ent'[u] # NoEnt
      BY <1>1 DEF NoEnt
    <3> QED BY <1>1, <2>1, <3>1 DEF Follows
  <2> QED BY <1>1, <2>1, SameFollows
<1>4. ActiveOnBoundDevice'
  <2> SUFFICES ASSUME NEW v \in Users, ent'[v].status = "ACTIVE"
               PROVE  ent'[v].device \in Bound(v)'
    BY DEF ActiveOnBoundDevice
  <2>1. CASE v = u
    BY <1>1, <2>1 DEF Bound
  <2>2. CASE v # u
    <3>1. ent[v].device \in Bound(v) /\ ent'[v] = ent[v] /\ ent[v].device # d
      BY <1>1, <1>2, <2>2 DEF RowsInv, ActiveOnBoundDevice
    <3> QED BY <1>1, <3>1 DEF Bound
  <2> QED BY <2>1, <2>2
<1>5. ASSUME NEW l \in leases
      PROVE  /\ LeaseInv(l)'
             /\ l.user = u => l.version < new.version /\ l.until <= new.until
  <2>1. LeaseInv(l)'
    BY <1>1, <1>3, FollowsKeepsLeases
  <2>2. l \in Lease /\ LeaseInv(l)
    BY DEF RowsInv, TypeOK
  <2>3. new.version = ent[u].version + 1 /\ new.until = ent'[u].until
    BY <1>1 DEF LeaseFor
  <2>5. ent'[u].until \in Nat
    BY <1>1 DEF Entitlement
  <2> HIDE DEF new
  <2>4. l.user = u => l.version < new.version /\ l.until <= new.until
    BY <1>1, <2>2, <2>3, <2>5 DEF LeaseInv, Lease
  <2> QED BY <2>1, <2>4
<1>6. new.user = u /\ new.version \in Nat /\ new.until \in Nat
  BY <1>1 DEF LeaseFor, Entitlement
<1>7. ASSUME NEW l, l = new PROVE LeaseInv(l)'
  <2>1. l.user = u /\ l.version = ent'[u].version /\ l.until = ent'[u].until
    BY <1>7 DEF LeaseFor
  <2>2. ent'[u].version \in Nat /\ ent'[u].until \in Nat
    BY <1>1 DEF Entitlement
  <2> HIDE DEF new
  <2> QED BY <2>1, <2>2 DEF LeaseInv
<1>8. LeasesInOrder'
  <2> SUFFICES ASSUME NEW l \in leases', NEW m \in leases',
                      l.user = m.user, l.version <= m.version
               PROVE  l.until <= m.until /\ (l.version = m.version => l.until = m.until)
    BY DEF LeasesInOrder
  <2>1. CASE l \in leases /\ m \in leases
    BY <2>1 DEF RowsInv, LeasesInOrder
  <2> HIDE DEF new
  <2>2. \A n \in leases : n.version \in Nat /\ n.until \in Nat
    BY DEF TypeOK, Lease
  <2>3. CASE l = new /\ m \in leases
    BY <1>5, <1>6, <2>2, <2>3
  <2>4. CASE l \in leases /\ m = new
    BY <1>5, <1>6, <2>2, <2>4
  <2>5. CASE l = new /\ m = new
    BY <1>6, <2>5
  <2> QED BY <1>2, <2>1, <2>3, <2>4, <2>5
<1>9. ASSUME NEW j \in Keys PROVE KeyInv(j)'
  <2>1. CASE j = k
    BY <1>1, <1>3, <2>1 DEF KeyInv, NoEnt
  <2>2. CASE j # k
    BY <1>1, <1>3, <2>2 DEF RowsInv, KeyInv, Follows, TypeOK
  <2> QED BY <2>1, <2>2
<1>10. ASSUME NEW v \in Workers PROVE RequestInv(v)'
  <2>1. CASE v = w
    BY <1>2, <2>1 DEF RequestInv, Idle, TypeOK
  <2>2. CASE v # w
    <3>1. req'[v] = req[v] /\ RequestInv(v) /\ req[v] \in Request
      BY <1>2, <2>2 DEF RowsInv, TypeOK
    <3>2. req[v].op = "expire" => ent'[req[v].user] # NoEnt
      BY <1>3, <3>1, RequestShape DEF RequestInv, Follows
    <3>3. req[v].op \in {"revoke", "withdraw"} =>
            \/ req[v].key = k
            \/ req[v].key \in Keys \ {k}
      BY <3>1, RequestShape
    <3>4. req[v].op = "revoke" => key'[req[v].key].user # NoUser
      BY <1>1, <3>1, <3>3 DEF RequestInv
    <3>5. req[v].op = "withdraw" => key'[req[v].key].status # "none"
      BY <1>1, <3>1, <3>3 DEF RequestInv
    <3> QED BY <1>2, <3>1, <3>2, <3>4, <3>5 DEF RequestInv
  <2> QED BY <2>1, <2>2
<1>11. ASSUME NEW l \in leases' PROVE LeaseInv(l)'
  <2> HIDE DEF new
  <2> QED BY <1>2, <1>5, <1>7
<1> QED BY <1>1, <1>4, <1>8, <1>9, <1>10, <1>11 DEF RowsInv
-----------------------------------------------------------------------------
(* The invariant *)

LEMMA NextKeeps == RowsInv /\ [Next]_vars => RowsInv'
<1> SUFFICES ASSUME RowsInv, [Next]_vars PROVE RowsInv' OBVIOUS
<1>1. CASE Tick
  BY <1>1, TickKeeps
<1>2. CASE Administer
  BY <1>2, GenerateKeyKeeps, UnbindDeviceKeeps, StatusesKeep DEF Administer
<1>3. ASSUME NEW w \in Workers, Work(w) PROVE RowsInv'
  <2>1. CASE Redeem(w)
    BY <2>1, RedeemKeeps
  <2>2. CASE RedeemAgain(w)
    BY <2>2, RedeemAgainKeeps
  <2>3. CASE HeartbeatEntitlement(w)
    BY <2>3, HeartbeatEntitlementKeeps
  <2>4. CASE ExpireEntitlement(w)
    BY <2>4, ExpireEntitlementKeeps
  <2>5. CASE RevokeEntitlement(w)
    BY <2>5, RevokeEntitlementKeeps
  <2>6. CASE RevokeKey(w)
    BY <2>6, RevokeKeyKeeps
  <2> QED BY <1>3, <2>1, <2>2, <2>3, <2>4, <2>5, <2>6, ReadsKeep DEF Work
<1>4. CASE UNCHANGED vars
  <2>1. UNCHANGED <<clock, rows, req, leases>>
    BY <1>4 DEF vars
  <2> QED BY <2>1, RequestsMove DEF RowsInv, TypeOK
<1> QED BY <1>1, <1>2, <1>3, <1>4 DEF Next

\* The inductive invariant holds of every behaviour of the server.
THEOREM RowsInvariant == Spec => []RowsInv
BY InitHolds, NextKeeps, PTL DEF Spec

\* Every row and every request keeps its type; no entitlement is ever without a
\* device or a version.
THEOREM RowsTyped == Spec => []TypeOK
<1>1. RowsInv => TypeOK
  BY DEF RowsInv
<1> QED BY <1>1, RowsInvariant, PTL

\* An active entitlement names a device bound to its account, whatever requests
\* of redeem, unbindDevice, login and revokeKey run in between one another.
THEOREM ActiveIsBound == Spec => []ActiveOnBoundDevice
<1>1. RowsInv => ActiveOnBoundDevice
  BY DEF RowsInv
<1> QED BY <1>1, RowsInvariant, PTL

\* The entitlementVersion of a lease settles how long the membership lasts, and a
\* higher one never shortens it.
THEOREM LeasesOrdered == Spec => []LeasesInOrder
<1>1. RowsInv => LeasesInOrder
  BY DEF RowsInv
<1> QED BY <1>1, RowsInvariant, PTL

\* heartbeat's two reads need no transaction: a lease is signed only while the
\* device is bound.
THEOREM HeartbeatReadsAgree == Spec => NoLeaseAfterUnbind
<1> DEFINE A == \A w \in Workers :
                  HeartbeatEntitlement(w) => dev[req[w].device].user = req[w].user
<1>1. ASSUME RowsInv PROVE A
  <2> SUFFICES ASSUME NEW w \in Workers, HeartbeatEntitlement(w)
               PROVE  dev[req[w].device].user = req[w].user
    OBVIOUS
  <2>1. req[w].user \in Users
    BY <1>1, RequestShape DEF RowsInv, TypeOK, HeartbeatEntitlement
  <2>2. ent[req[w].user].status = "ACTIVE" /\ ent[req[w].user].device = req[w].device
    BY DEF HeartbeatEntitlement
  <2> QED BY <1>1, <2>1, <2>2 DEF RowsInv, ActiveOnBoundDevice, Bound
<1>2. RowsInv => [A]_vars
  BY <1>1
<1> QED BY <1>2, RowsInvariant, PTL DEF Spec, NoLeaseAfterUnbind
-----------------------------------------------------------------------------
(* The server implements the ledger. *)

Spent == {k \in Keys : key[k].status \in {"REDEEMED", "REVOKED"}}
Until == [u \in Users |-> ent[u].until]

LEMMA LedgerStutters ==
  ASSUME UNCHANGED <<clock, plan>>,
         \A k \in Keys : key'[k].status \in {"REDEEMED", "REVOKED"}
                           <=> key[k].status \in {"REDEEMED", "REVOKED"},
         \A u \in Users : ent'[u].until = ent[u].until
  PROVE  UNCHANGED Ledger!vars
<1>1. Spent' = Spent /\ Until' = Until
  BY DEF Spent, Until
<1> QED BY <1>1 DEF Spent, Until, Ledger!vars

LEMMA LedgerStep ==
  ASSUME RowsInv, Next
  PROVE  Ledger!Next \/ UNCHANGED Ledger!vars
<1> TypeOK BY DEF RowsInv
<1>1. CASE Tick
  <2>1. clock' = clock + 1 /\ UNCHANGED <<plan, key, ent>>
    BY <1>1 DEF Tick, rows
  <2> QED BY <2>1 DEF Ledger!Next, Ledger!Elapse
<1>2. ASSUME NEW k \in Keys, NEW expires \in 1 .. Never, GenerateKey(k, expires)
      PROVE  UNCHANGED Ledger!vars
  <2>1. /\ key'[k].status = "UNUSED" /\ key[k].status = "none"
        /\ \A j \in Keys \ {k} : key'[j] = key[j]
        /\ UNCHANGED <<clock, plan, ent>>
    BY <1>2 DEF GenerateKey, TypeOK
  <2> QED BY <2>1, LedgerStutters
<1>3. ASSUME NEW d \in Devices, UnbindDevice(d)
      PROVE  UNCHANGED Ledger!vars
  <2>1. ASSUME NEW u \in Users PROVE ent'[u].until = ent[u].until
    <3>1. CASE ent[u].status = "ACTIVE" /\ ent[u].device = d
      <4>1. ent[u] \in Entitlement /\ ent'[u] = Revoked(ent[u])
        BY <1>3, <3>1 DEF UnbindDevice, TypeOK, NoEnt
      <4> QED BY <4>1 DEF Revoked, Entitlement
    <3> QED BY <1>3, <3>1 DEF UnbindDevice
  <2> QED BY <1>3, <2>1, LedgerStutters DEF UnbindDevice
<1>4. ASSUME NEW d \in Devices, NEW s \in {"ACTIVE", "SUSPENDED"}, SetDeviceStatus(d, s)
      PROVE  UNCHANGED Ledger!vars
  BY <1>4, LedgerStutters DEF SetDeviceStatus
<1>5. ASSUME NEW u \in Users, NEW s \in UserStatuses, SetUserStatus(u, s)
      PROVE  UNCHANGED Ledger!vars
  BY <1>5, LedgerStutters DEF SetUserStatus
<1>6. ASSUME NEW p \in [status: PlanStatuses, days: Terms], UpdatePlan(p)
      PROVE  Ledger!Next
  <2>1. plan'.days \in Nat \ {0} /\ UNCHANGED <<clock, key, ent>>
    BY <1>6, TermsAssumption DEF UpdatePlan
  <2> QED BY <2>1 DEF Ledger!Next, Ledger!Reprice
<1>7. ASSUME NEW w \in Workers, Redeem(w)
      PROVE  Ledger!Next
  <2>0. /\ req[w].user \in Users /\ req[w].key \in Keys
        /\ req[w].now \in Nat /\ req[w].now <= clock /\ clock \in Nat
    BY <1>7, RedeemWrites DEF TypeOK
  <2> PICK u \in Users, k \in Keys, now \in 0 .. clock :
        u = req[w].user /\ k = req[w].key /\ now = req[w].now
    BY <2>0
  <2>1. /\ ent'[u].until = Later(ent[u].until, now) + plan.days
        /\ \A v \in Users \ {u} : ent'[v] = ent[v]
        /\ key'[k].status = "REDEEMED"
        /\ \A j \in Keys \ {k} : key'[j] = key[j]
    BY <1>7, RedeemWrites
  <2>2. k \notin Spent /\ UNCHANGED <<clock, plan>>
    BY <1>7 DEF Redeem, KeyUsable, Spent
  <2>3. Spent' = Spent \cup {k}
    BY <2>1 DEF Spent
  <2>4. Until' = [Until EXCEPT ![u] = Ledger!Later(@, now) + plan.days]
    BY <2>1 DEF Until, Later, Ledger!Later
  <2>5. Ledger!Spend(u, k)
    BY <2>1, <2>2, <2>3, <2>4 DEF Ledger!Spend, Spent, Until
  <2> QED BY <2>5 DEF Ledger!Next
<1>8. ASSUME NEW w \in Workers, ExpireEntitlement(w)
      PROVE  UNCHANGED Ledger!vars
  <2>1. req[w].user \in Users
    BY <1>8, RequestShape DEF TypeOK, ExpireEntitlement
  <2>2. \A v \in Users : ent'[v].until = ent[v].until
    BY <1>8, <2>1 DEF ExpireEntitlement, TypeOK, Entitlement, NoEnt
  <2> QED BY <1>8, <2>2, LedgerStutters DEF ExpireEntitlement
<1>9. ASSUME NEW w \in Workers, RevokeEntitlement(w)
      PROVE  UNCHANGED Ledger!vars
  <2> DEFINE u == key[req[w].key].user
  <2>1. ASSUME NEW v \in Users PROVE ent'[v].until = ent[v].until
    <3>1. ent'[v] = ent[v] \/ ent'[v] = Revoked(ent[v])
      BY <1>9 DEF RevokeEntitlement, TypeOK
    <3>2. Revoked(ent[v]).until = ent[v].until
      BY DEF Revoked, TypeOK, Entitlement, NoEnt
    <3> QED BY <3>1, <3>2
  <2> QED BY <1>9, <2>1, LedgerStutters DEF RevokeEntitlement
<1>10. ASSUME NEW w \in Workers, RevokeKey(w)
       PROVE  Ledger!Next \/ UNCHANGED Ledger!vars
  <2>1. req[w].key \in Keys
    BY <1>10, RequestShape DEF TypeOK, RevokeKey
  <2> PICK k \in Keys : k = req[w].key
    BY <2>1
  <2>2. /\ key'[k].status = "REVOKED" /\ \A j \in Keys \ {k} : key'[j] = key[j]
        /\ UNCHANGED <<clock, plan, ent>>
    BY <1>10 DEF RevokeKey, TypeOK
  <2>3. CASE k \in Spent
    BY <2>1, <2>2, <2>3, LedgerStutters DEF Spent
  <2>4. CASE k \notin Spent
    <3>1. Spent' = Spent \cup {k}
      BY <2>1, <2>2 DEF Spent
    <3>2. Ledger!Void(k)
      BY <2>2, <2>4, <3>1 DEF Ledger!Void, Spent
    <3> QED BY <3>2 DEF Ledger!Next
  <2> QED BY <2>3, <2>4
<1>11. ASSUME UNCHANGED <<clock, rows>>
       PROVE  UNCHANGED Ledger!vars
  BY <1>11, LedgerStutters DEF rows
<1>12. ASSUME NEW w \in Workers, Work(w)
       PROVE  Ledger!Next \/ UNCHANGED Ledger!vars
  <2>1. CASE Redeem(w) \/ ExpireEntitlement(w) \/ RevokeEntitlement(w) \/ RevokeKey(w)
    BY <2>1, <1>7, <1>8, <1>9, <1>10
  <2>2. CASE ~(Redeem(w) \/ ExpireEntitlement(w) \/ RevokeEntitlement(w) \/ RevokeKey(w))
    <3>1. UNCHANGED <<clock, rows>>
      BY <1>12, <2>2 DEF Work, Lose, BeginRedeem, RedeemAgain, BeginHeartbeat,
           HeartbeatDevice, HeartbeatEntitlement, BeginLogin, GetEntitlement, ReadKey
    <3> QED BY <1>11, <3>1
  <2> QED BY <2>1, <2>2
<1> QED BY <1>1, <1>2, <1>3, <1>4, <1>5, <1>6, <1>12 DEF Next, Administer

\* Paid time follows the ledger in every behaviour of the server: each key gives
\* one term, once, to one account.
THEOREM LedgerKept == Spec => ImplementsLedger
<1>1. Init => Ledger!Init
  <2> SUFFICES ASSUME Init PROVE Ledger!Init OBVIOUS
  <2>1. plan.days \in Nat \ {0}
    BY TermsAssumption DEF Init
  <2>2. Spent = {}
    BY DEF Init, Spent, NoKey
  <2>3. Until = [u \in Users |-> 0]
    BY DEF Init, Until, NoEnt
  <2> QED BY <2>1, <2>2, <2>3 DEF Init, Ledger!Init, Spent, Until
<1>2. RowsInv /\ [Next]_vars => [Ledger!Next]_Ledger!vars
  <2>1. ASSUME UNCHANGED vars PROVE UNCHANGED Ledger!vars
    BY <2>1, LedgerStutters DEF vars, rows
  <2> QED BY <2>1, LedgerStep
<1> QED BY <1>1, <1>2, RowsInvariant, PTL DEF Spec, ImplementsLedger, Ledger!Spec
=============================================================================
