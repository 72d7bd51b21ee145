--------------------------- MODULE LicenseServer ---------------------------
(***************************************************************************)
(* The licence server's rows about keys, entitlements and devices, and the *)
(* requests ClientService and AdminService run over them.                  *)
(*                                                                         *)
(* A transaction that locks what it reads (redeem, unbindDevice) is one    *)
(* action, and so is a single statement.  A request that reads in one      *)
(* statement and writes in another keeps what it has read in req, and      *)
(* other requests run in between.  now is what the request has taken the   *)
(* time to be.                                                             *)
(***************************************************************************)
EXTENDS Integers, FiniteSets

CONSTANTS
  Users, Devices, Keys,
  NoUser, NoDevice,      \* a NULL user_id; no device at all
  Workers,               \* bound: requests in flight at a time
  Terms,                 \* the durationDays a plan may be given
  MaxTime,               \* bound: the last day of the clock
  MaxVersion,            \* bound: the version from which no key is revoked
  Requests               \* bound: the requests made (see RequestKinds)

RequestKinds == {"login", "heartbeat", "revoke", "unbind", "user", "device", "plan"}

ASSUME NullAssumption == NoUser \notin Users /\ NoDevice \notin Devices
ASSUME TermsAssumption == Terms # {} /\ Terms \subseteq Nat \ {0}
ASSUME BoundAssumption == MaxTime \in Nat /\ MaxVersion \in Nat
ASSUME RequestAssumption == Requests \subseteq RequestKinds

VARIABLES
  clock,    \* the present day
  user,     \* users.status
  plan,     \* the plans row every key is of
  key,      \* license_keys
  dev,      \* devices, by fingerprint
  ent,      \* entitlements, by user
  req,      \* what each worker is doing, and what it has read
  leases    \* the offline leases signed so far: what they say of an entitlement

rows == <<user, plan, key, dev, ent>>
vars == <<clock, rows, req, leases>>
-----------------------------------------------------------------------------
KeyStatuses == {"none", "UNUSED", "REDEEMED", "REVOKED", "EXPIRED"}
DeviceStatuses == {"none", "ACTIVE", "SUSPENDED", "UNBOUND"}
UserStatuses == {"ACTIVE", "SUSPENDED"}
PlanStatuses == {"ACTIVE", "DISABLED"}

\* The day after MaxTime stands for a key that never expires.
Never == MaxTime + 1

NoKey == [status |-> "none", expires |-> Never, user |-> NoUser, device |-> NoDevice]
NoDev == [status |-> "none", user |-> NoUser]
NoEnt == [status |-> "none", device |-> NoDevice, until |-> 0, version |-> 0]
Idle == [op |-> "idle"]

Entitlement == [status: {"ACTIVE", "REVOKED", "EXPIRED"}, device: Devices,
                until: Nat, version: Nat \ {0}]
Request ==
  {Idle}
  \cup [op: {"redeem"}, user: Users, key: Keys, device: Devices, now: Nat]
  \cup [op: {"heartbeat", "entitlement"}, user: Users, device: Devices, now: Nat]
  \cup [op: {"login"}, user: Users, now: Nat]
  \cup [op: {"expire"}, user: Users]
  \cup [op: {"revoke", "withdraw"}, key: Keys]
Lease == [user: Users, version: Nat \ {0}, device: Devices, until: Nat]

Init ==
  /\ clock = 0
  /\ user = [u \in Users |-> "ACTIVE"]
  /\ plan \in [status: {"ACTIVE"}, days: Terms]
  /\ key = [k \in Keys |-> NoKey]
  /\ dev = [d \in Devices |-> NoDev]
  /\ ent = [u \in Users |-> NoEnt]
  /\ req = [w \in Workers |-> Idle]
  /\ leases = {}

Later(a, b) == IF a > b THEN a ELSE b

Receives(w, q) == req[w] = Idle /\ req' = [req EXCEPT ![w] = q]
GoesOn(w, q) == req' = [req EXCEPT ![w] = q]
Answers(w) == req' = [req EXCEPT ![w] = Idle]

Tick ==
  /\ clock < MaxTime /\ clock' = clock + 1
  /\ UNCHANGED <<rows, req, leases>>

\* The process ends, or the connection to the database goes, between two
\* statements of a request.
Lose(w) ==
  /\ req[w] # Idle /\ Answers(w)
  /\ UNCHANGED <<clock, rows, leases>>
-----------------------------------------------------------------------------
(* Redemption *)

\* The devices that count against the account's limit.
Bound(u) == {d \in Devices : dev[d].user = u /\ dev[d].status \in {"ACTIVE", "SUSPENDED"}}

\* A row the transaction binds, creates, or finds already bound.
DeviceUsable(u, d) ==
  /\ dev[d].status # "SUSPENDED"
  /\ dev[d].status = "none" => Bound(u) = {}
  /\ \/ dev[d].status \in {"none", "UNBOUND"} /\ dev[d].user = NoUser
     \/ dev[d].user = u

\* mutant: a key that has been redeemed is taken once more.
KeyUsableTwice(k, now) ==
  /\ key[k].status \notin {"none", "REVOKED"}
  /\ key[k].expires > now
  /\ plan.status = "ACTIVE"

KeyUsable(k, now) ==
  /\ key[k].status \notin {"none", "REDEEMED", "REVOKED"}
  /\ key[k].expires > now
  /\ plan.status = "ACTIVE"

\* Another device still holds a live entitlement of the account.
HeldElsewhere(u, d, now) ==
  ent[u].status = "ACTIVE" /\ ent[u].device # d /\ ent[u].until > now

\* entitlements.device_id is unique.
DeviceFree(u, d) == \A v \in Users \ {u} : ent[v].device # d

\* mutant: the version is left as it is.
GrantedSameVersion(u, d, now) ==
  [status |-> "ACTIVE", device |-> d,
   until |-> Later(ent[u].until, now) + plan.days, version |-> ent[u].version]

Granted(u, d, now) ==
  [status |-> "ACTIVE", device |-> d,
   until |-> Later(ent[u].until, now) + plan.days, version |-> ent[u].version + 1]

\* The lease names the device that asks for it.
LeaseFor(u, e, d) == [user |-> u, version |-> e.version, device |-> d, until |-> e.until]

\* requireUser has admitted the user.
BeginRedeem(w, u, k, d) ==
  /\ user[u] = "ACTIVE"
  /\ Receives(w, [op |-> "redeem", user |-> u, key |-> k, device |-> d, now |-> clock])
  /\ UNCHANGED <<clock, rows, leases>>

\* The key is spent: the device is bound, the entitlement gains the plan's term.
Redeem(w) ==
  LET q == req[w] IN
  /\ q.op = "redeem"
  /\ KeyUsable(q.key, q.now) /\ user[q.user] = "ACTIVE"
  /\ DeviceUsable(q.user, q.device) /\ DeviceFree(q.user, q.device)
  /\ ~HeldElsewhere(q.user, q.device, q.now)
  /\ ent' = [ent EXCEPT ![q.user] = Granted(q.user, q.device, q.now)]
  /\ dev' = [dev EXCEPT ![q.device] = [status |-> "ACTIVE", user |-> q.user]]
  /\ key' = [key EXCEPT ![q.key].status = "REDEEMED", ![q.key].user = q.user,
                        ![q.key].device = q.device]
  /\ leases' = leases \cup {LeaseFor(q.user, ent'[q.user], q.device)}
  /\ Answers(w)
  /\ UNCHANGED <<clock, user, plan>>

\* The key was spent by this very account on this very device: the answer is the
\* entitlement as it stands.
RedeemAgain(w) ==
  LET q == req[w] IN
  /\ q.op = "redeem"
  /\ key[q.key].status = "REDEEMED"
  /\ key[q.key].user = q.user /\ key[q.key].device = q.device
  /\ leases' = leases \cup {LeaseFor(q.user, ent[q.user], q.device)}
  /\ Answers(w)
  /\ UNCHANGED <<clock, rows>>

\* Every other outcome, REDEEM_RETRY included, rolls the transaction back: Lose.
-----------------------------------------------------------------------------
(* Heartbeat: the device and the entitlement are read in two statements. *)

BeginHeartbeat(w, u, d) ==
  /\ "heartbeat" \in Requests /\ user[u] = "ACTIVE"
  /\ Receives(w, [op |-> "heartbeat", user |-> u, device |-> d, now |-> clock])
  /\ UNCHANGED <<clock, rows, leases>>

HeartbeatDevice(w) ==
  LET q == req[w] IN
  /\ q.op = "heartbeat"
  /\ dev[q.device] = [status |-> "ACTIVE", user |-> q.user]
  /\ GoesOn(w, [q EXCEPT !.op = "entitlement"])
  /\ UNCHANGED <<clock, rows, leases>>

HeartbeatEntitlement(w) ==
  LET q == req[w] IN
  /\ q.op = "entitlement"
  /\ ent[q.user].status = "ACTIVE" /\ ent[q.user].until > q.now
  /\ ent[q.user].device = q.device
  /\ leases' = leases \cup {LeaseFor(q.user, ent[q.user], q.device)}
  /\ Answers(w)
  /\ UNCHANGED <<clock, rows>>
-----------------------------------------------------------------------------
(* Login looks whether the entitlement is over, and then marks it. *)

BeginLogin(w, u) ==
  /\ "login" \in Requests /\ user[u] = "ACTIVE"
  /\ Receives(w, [op |-> "login", user |-> u, now |-> clock])
  /\ UNCHANGED <<clock, rows, leases>>

\* mutant: no look at whether there is an active entitlement.
IsOverWhateverStatus(e, now) == e.until <= now

IsOver(e, now) == e.status = "ACTIVE" /\ e.until <= now

GetEntitlement(w) ==
  LET q == req[w] IN
  /\ q.op = "login"
  /\ IF IsOver(ent[q.user], q.now)
     THEN GoesOn(w, [op |-> "expire", user |-> q.user])
     ELSE Answers(w)
  /\ UNCHANGED <<clock, rows, leases>>

ExpireEntitlement(w) ==
  LET q == req[w] IN
  /\ q.op = "expire"
  /\ ent' = [ent EXCEPT ![q.user].status = "EXPIRED"]
  /\ Answers(w)
  /\ UNCHANGED <<clock, user, plan, key, dev, leases>>
-----------------------------------------------------------------------------
(* Administration *)

GenerateKey(k, expires) ==
  /\ key[k].status = "none"
  /\ key' = [key EXCEPT ![k].status = "UNUSED", ![k].expires = expires]
  /\ UNCHANGED <<clock, user, plan, dev, ent, req, leases>>

\* revokeKey reads the key first; only a redeemed one has an entitlement to revoke.
ReadKey(w, k) ==
  /\ "revoke" \in Requests /\ key[k].status # "none"
  /\ \A u \in Users : ent[u].version < MaxVersion
  /\ Receives(w, [op |-> IF key[k].status = "REDEEMED" THEN "revoke" ELSE "withdraw",
                  key |-> k])
  /\ UNCHANGED <<clock, rows, leases>>

Revoked(e) == [e EXCEPT !.status = "REVOKED", !.version = @ + 1]

\* The failure of this statement is swallowed.
RevokeEntitlement(w) ==
  LET q == req[w] IN
  /\ q.op = "revoke"
  /\ \/ ent' = [ent EXCEPT ![key[q.key].user] = Revoked(@)]
     \/ UNCHANGED ent
  /\ GoesOn(w, [q EXCEPT !.op = "withdraw"])
  /\ UNCHANGED <<clock, user, plan, key, dev, leases>>

RevokeKey(w) ==
  LET q == req[w] IN
  /\ q.op = "withdraw"
  /\ key' = [key EXCEPT ![q.key].status = "REVOKED"]
  /\ Answers(w)
  /\ UNCHANGED <<clock, user, plan, dev, ent, leases>>

\* mutant: the entitlement keeps the device.
UnbindDeviceOnly(d) ==
  /\ "unbind" \in Requests /\ dev[d].status # "none"
  /\ dev' = [dev EXCEPT ![d] = [status |-> "UNBOUND", user |-> NoUser]]
  /\ UNCHANGED <<clock, user, plan, key, ent, req, leases>>

\* One transaction, whether the device or its user was named.
UnbindDevice(d) ==
  /\ "unbind" \in Requests /\ dev[d].status # "none"
  /\ dev' = [dev EXCEPT ![d] = [status |-> "UNBOUND", user |-> NoUser]]
  /\ ent' = [u \in Users |-> IF ent[u].status = "ACTIVE" /\ ent[u].device = d
                             THEN Revoked(ent[u]) ELSE ent[u]]
  /\ UNCHANGED <<clock, user, plan, key, req, leases>>

SetDeviceStatus(d, s) ==
  /\ "device" \in Requests /\ dev[d].status # "none"
  /\ dev' = [dev EXCEPT ![d].status = s]
  /\ UNCHANGED <<clock, user, plan, key, ent, req, leases>>

SetUserStatus(u, s) ==
  /\ "user" \in Requests
  /\ user' = [user EXCEPT ![u] = s]
  /\ UNCHANGED <<clock, plan, key, dev, ent, req, leases>>

UpdatePlan(p) ==
  /\ "plan" \in Requests
  /\ plan' = p
  /\ UNCHANGED <<clock, user, key, dev, ent, req, leases>>
-----------------------------------------------------------------------------
Work(w) ==
  \/ Lose(w)
  \/ \E u \in Users, k \in Keys, d \in Devices : BeginRedeem(w, u, k, d)
  \/ Redeem(w) \/ RedeemAgain(w)
  \/ \E u \in Users, d \in Devices : BeginHeartbeat(w, u, d)
  \/ HeartbeatDevice(w) \/ HeartbeatEntitlement(w)
  \/ \E u \in Users : BeginLogin(w, u)
  \/ GetEntitlement(w) \/ ExpireEntitlement(w)
  \/ \E k \in Keys : ReadKey(w, k)
  \/ RevokeEntitlement(w) \/ RevokeKey(w)

Administer ==
  \/ \E k \in Keys, expires \in 1 .. Never : GenerateKey(k, expires)
  \/ \E d \in Devices : UnbindDevice(d)
  \/ \E d \in Devices, s \in {"ACTIVE", "SUSPENDED"} : SetDeviceStatus(d, s)
  \/ \E u \in Users, s \in UserStatuses : SetUserStatus(u, s)
  \/ \E p \in [status: PlanStatuses, days: Terms] : UpdatePlan(p)

Next == Tick \/ Administer \/ \E w \in Workers : Work(w)

Spec == Init /\ [][Next]_vars
-----------------------------------------------------------------------------
(* Properties *)

\* Every row stays within its table's columns: in particular no entitlement
\* exists without a device and a version, whatever login does to it.
TypeOK ==
  /\ clock \in Nat
  /\ user \in [Users -> UserStatuses]
  /\ plan \in [status: PlanStatuses, days: Terms]
  /\ key \in [Keys -> [status: KeyStatuses, expires: Nat,
                       user: Users \cup {NoUser}, device: Devices \cup {NoDevice}]]
  /\ dev \in [Devices -> [status: DeviceStatuses, user: Users \cup {NoUser}]]
  /\ ent \in [Users -> Entitlement \cup {NoEnt}]
  /\ req \in [Workers -> Request]
  /\ leases \in SUBSET Lease

\* An entitlement that is active names a device that is bound to its account:
\* redeem and unbindDevice change the two rows together, and nothing else that
\* runs between them takes them apart.
ActiveOnBoundDevice ==
  \A u \in Users :
    ent[u].status = "ACTIVE" => ent[u].device \in Bound(u)

\* Of two leases of one account, the one with the higher entitlementVersion ends
\* the membership no earlier, and two of one version end it on the same day: what
\* a lease says is settled by its version, in whatever order the leases arrive.
LeasesInOrder ==
  \A l, m \in leases :
    l.user = m.user /\ l.version <= m.version
      => l.until <= m.until /\ (l.version = m.version => l.until = m.until)

\* heartbeat reads the device before the entitlement; should the device be
\* unbound in between, the heartbeat signs no lease.
NoLeaseAfterUnbind ==
  [][\A w \in Workers :
       HeartbeatEntitlement(w) => dev[req[w].device].user = req[w].user]_vars

\* login's EXPIRED is only ever written to an entitlement that is over: no
\* redemption that commits in the meantime loses what it granted.
ExpiredIsOver ==
  \A u \in Users : ent[u].status = "EXPIRED" => ent[u].until <= clock

\* An account has at most one device that is bound to it.
OneBoundDevice == \A u \in Users : Cardinality(Bound(u)) <= 1

\* When an administrator revokes a key that has been redeemed, the entitlement it
\* produced is not active any more (one key per account, so that no other keeps
\* it active).
RevocationReaches ==
  \A k \in Keys :
    key[k].status = "REVOKED" /\ key[k].user # NoUser
      => ent[key[k].user].status # "ACTIVE"

\* Paid time follows the ledger: a key gives one term to one account, once,
\* whatever requests run at the same time, are lost or are submitted again.
Ledger == INSTANCE LicenceLedger WITH
  Accounts <- Users, Cards <- Keys, term <- plan.days,
  spent <- {k \in Keys : key[k].status \in {"REDEEMED", "REVOKED"}},
  until <- [u \in Users |-> ent[u].until]
ImplementsLedger == Ledger!Spec
=============================================================================
