----------------------------- MODULE Discovery -----------------------------
(***************************************************************************)
(* Registration of Logic instances in etcd (apps/pkg/GrowRPC/registry/     *)
(* etcd.go, started from apps/logic/main.go) and their discovery by the    *)
(* gateways (apps/pkg/GrowRPC/xclient/discovery_etcd.go) with the          *)
(* consistent-hash ring that routes a user (consistent_hash.go).           *)
(*                                                                         *)
(* etcd is external: a key per instance attached to a lease, and a log of  *)
(* events numbered by revision.  An instance and a gateway take one step   *)
(* per request to etcd.  A request may fail, before or after it took       *)
(* effect where that makes a difference; a lease ends when nobody renews   *)
(* it, or although somebody does when the network is cut.  All of these    *)
(* spend the fault budget.  The hash is a parameter: Vnodes gives the      *)
(* points of an instance's virtual nodes, KeyPoint that of a routing key.  *)
(***************************************************************************)
EXTENDS Integers, Sequences, Functions, FiniteSets, FiniteSetsExt

CONSTANTS Servers,    \* Logic instances, numbered in the order of their keys
          Gateways,
          Keys,       \* routing keys (user ids)
          Vnodes,     \* Vnodes[s]: hashes of the virtual nodes of s
          KeyPoint,   \* KeyPoint[k]: hash of k
          NoServer,
          MaxFaults   \* bound on failed requests, cut leases and restarts

ASSUME ServersAreNumbers == Servers \subseteq Nat /\ IsFiniteSet(Servers)
ASSUME HashAssumption ==
  /\ \A s \in Servers : Vnodes[s] \subseteq Nat /\ Vnodes[s] # {}
  /\ \A s, t \in Servers : s # t => Vnodes[s] \cap Vnodes[t] = {}
  /\ \A k \in Keys : KeyPoint[k] \in Nat
ASSUME FaultBound == MaxFaults \in Nat

VARIABLES
  kv,        \* kv[s]: the lease the key of s is attached to, 0 when absent
  leases,    \* live leases
  log,       \* events of the prefix, by revision
  granted,   \* leases granted so far
  pc,        \* pc[s]: where instance s is
  lease,     \* lease[s]: r.leaseID
  view,      \* view[g]: d.servers
  ring,      \* ring[g]: d.hashMap, point -> instance
  rev,       \* rev[g]: revision of the last Get or event applied
  dpc,       \* dpc[g]: where the watch goroutine is
  faults

etcdVars == <<kv, leases, log, granted>>
srvVars == <<pc, lease>>
gwVars == <<view, ring, rev, dpc>>
vars == <<etcdVars, srvVars, gwVars, faults>>

Pcs == {"off", "boot", "keepalive", "renew", "revoke", "grant", "put", "sleep"}
TypeOK ==
  /\ kv \in [Servers -> 0 .. granted] /\ leases \subseteq 1 .. granted
  /\ log \in Seq([op : {"PUT", "DELETE"}, addr : Servers]) /\ granted \in Nat
  /\ pc \in [Servers -> Pcs] /\ lease \in [Servers -> 0 .. granted]
  /\ view \in [Gateways -> Seq(Servers)] /\ rev \in [Gateways -> Nat]
  /\ dpc \in [Gateways -> {"get", "watch", "sleep", "stopped"}]
  /\ faults \in 0 .. MaxFaults

Fault == faults < MaxFaults /\ faults' = faults + 1
Registered(s) == kv[s] # 0
Event(o, s) == [op |-> o, addr |-> s]

----------------------------------------------------------------------------
(* etcd.                                                                   *)

Grant(s) ==
  /\ granted' = granted + 1 /\ leases' = leases \cup {granted'}
  /\ lease' = [lease EXCEPT ![s] = granted']

(* A Put under a lease that ended is refused.                              *)
Put(s) ==
  /\ lease[s] \in leases
  /\ kv' = [kv EXCEPT ![s] = lease[s]] /\ log' = Append(log, Event("PUT", s))
  /\ UNCHANGED <<leases, granted, lease>>

(* An error reported by Put: refused, not sent, or applied all the same.   *)
PutFails(s) ==
  \/ lease[s] \notin leases /\ UNCHANGED <<etcdVars, lease, faults>>
  \/ lease[s] \in leases /\ Fault /\ UNCHANGED <<etcdVars, lease>>
  \/ Put(s) /\ Fault

(* The end of a lease deletes the key attached to it.                      *)
EndLease(l) ==
  /\ leases' = leases \ {l}
  /\ \/ \E s \in Servers :
          /\ kv[s] = l /\ l # 0
          /\ kv' = [kv EXCEPT ![s] = 0] /\ log' = Append(log, Event("DELETE", s))
     \/ (\A s \in Servers : kv[s] # l \/ l = 0) /\ UNCHANGED <<kv, log>>
  /\ UNCHANGED <<granted, lease>>

(* The TTL is longer than the pauses of the instance that holds the lease: *)
(* its expiry is a fault (a cut network), that of an abandoned one is not. *)
Held(l) == \E s \in Servers : pc[s] # "off" /\ lease[s] = l

LeaseExpires ==
  \E l \in leases : /\ IF Held(l) THEN Fault ELSE UNCHANGED faults
                    /\ EndLease(l) /\ UNCHANGED <<pc, gwVars>>

----------------------------------------------------------------------------
(* EtcdRegistry.  Register grants a lease and puts the key; an error ends  *)
(* the process.  KeepAlive then renews until its channel closes and        *)
(* registers again: revoke, grant, put.                                    *)

Goto(s, p) == pc' = [pc EXCEPT ![s] = p]

RegisterGrant(s) ==
  /\ pc[s] = "off" /\ Goto(s, "boot") /\ Grant(s)
  /\ faults' = IF lease[s] = 0 THEN faults ELSE faults + 1
  /\ faults' <= MaxFaults
  /\ UNCHANGED <<kv, log, gwVars>>

RegisterPut(s) ==
  /\ pc[s] = "boot"
  /\ \/ Put(s) /\ Goto(s, "keepalive") /\ UNCHANGED faults
     \/ PutFails(s) /\ Goto(s, "off")
  /\ UNCHANGED gwVars

KeepAlive(s) ==
  /\ pc[s] = "keepalive"
  /\ \/ Goto(s, "renew") /\ UNCHANGED faults
     \/ Goto(s, "revoke") /\ Fault
  /\ UNCHANGED <<etcdVars, lease, gwVars>>

(* The channel closes once the lease is gone, or when the client gives up. *)
ChannelCloses(s) ==
  /\ pc[s] = "renew"
  /\ IF lease[s] \in leases THEN Fault ELSE UNCHANGED faults
  /\ Goto(s, "revoke") /\ UNCHANGED <<etcdVars, lease, gwVars>>

(* reRegister ignores a failed Revoke.                                     *)
Revoke(s) ==
  /\ pc[s] = "revoke" /\ Goto(s, "grant")
  /\ \/ EndLease(lease[s]) /\ UNCHANGED faults
     \/ Fault /\ UNCHANGED <<etcdVars, lease>>
  /\ UNCHANGED gwVars

ReGrant(s) ==
  /\ pc[s] = "grant"
  /\ \/ Grant(s) /\ Goto(s, "put") /\ UNCHANGED <<kv, log, faults>>
     \/ Goto(s, "sleep") /\ Fault /\ UNCHANGED <<etcdVars, lease>>
  /\ UNCHANGED gwVars

RePut(s) ==
  /\ pc[s] = "put"
  /\ \/ Put(s) /\ Goto(s, "keepalive") /\ UNCHANGED faults
     \/ PutFails(s) /\ Goto(s, "sleep")
  /\ UNCHANGED gwVars

SleepOver(s) ==
  /\ pc[s] = "sleep" /\ Goto(s, "keepalive")
  /\ UNCHANGED <<etcdVars, lease, gwVars, faults>>

(* Deregister revokes the lease and leaves KeepAlive running.              *)
Deregister(s) ==
  /\ pc[s] = "renew" /\ Fault /\ EndLease(lease[s]) /\ UNCHANGED <<pc, gwVars>>

Crash(s) ==
  /\ pc[s] # "off" /\ Fault /\ Goto(s, "off")
  /\ UNCHANGED <<etcdVars, lease, gwVars>>

----------------------------------------------------------------------------
(* Map: the ring.  Add lets a later instance take a point over; Get goes   *)
(* clockwise from the key's point and starts again at the smallest.        *)

RingOf(v) ==
  [p \in UNION {Vnodes[v[i]] : i \in DOMAIN v} |->
     v[Max({i \in DOMAIN v : p \in Vnodes[v[i]]})]]

RingGet(r, k) ==
  LET after == {p \in DOMAIN r : p >= KeyPoint[k]}
  IN IF DOMAIN r = {} THEN NoServer
     ELSE r[Min(IF after = {} THEN DOMAIN r ELSE after)]

----------------------------------------------------------------------------
(* EtcdDiscovery.watch: Get the prefix, then apply the events after the    *)
(* revision of that Get, one batch at a time; start over when the watch    *)
(* ends.  Close is seen only before a Get and during a pause.              *)

SetView(g, v) ==
  /\ view' = [view EXCEPT ![g] = v] /\ ring' = [ring EXCEPT ![g] = RingOf(v)]

WatchGoto(g, p) == dpc' = [dpc EXCEPT ![g] = p]

contains(v, a) == \E i \in DOMAIN v : v[i] = a

(* remove moves the last element into the place of the first match.        *)
remove(v, a) ==
  IF ~contains(v, a) THEN v
  ELSE LET i == Min({j \in DOMAIN v : v[j] = a})
       IN SubSeq([v EXCEPT ![i] = v[Len(v)]], 1, Len(v) - 1)

(* As Apply, but a deleted instance stays in the list.                     *)
MutApply(v, e) ==
  IF e.op = "PUT" /\ ~contains(v, e.addr) THEN Append(v, e.addr) ELSE v

Apply(v, e) ==
  IF e.op = "DELETE" THEN remove(v, e.addr)
  ELSE IF contains(v, e.addr) THEN v ELSE Append(v, e.addr)

(* A Get of the prefix answers the instances in the order of their keys.   *)
InKeyOrder(S) ==
  [i \in 1 .. Cardinality(S) |-> CHOOSE s \in S : Cardinality({t \in S : t <= s}) = i]

WatchGet(g) ==
  /\ dpc[g] = "get"
  /\ \/ /\ SetView(g, InKeyOrder({s \in Servers : Registered(s)}))
        /\ rev' = [rev EXCEPT ![g] = Len(log)]
        /\ WatchGoto(g, "watch") /\ UNCHANGED faults
     \/ Fault /\ WatchGoto(g, "sleep") /\ UNCHANGED <<view, ring, rev>>
  /\ UNCHANGED <<etcdVars, srvVars>>

(* As handleEvent, but the ring is built again only for a new instance.    *)
MutHandleEvent(g) ==
  /\ dpc[g] = "watch" /\ rev[g] < Len(log)
  /\ rev' = [rev EXCEPT ![g] = @ + 1]
  /\ view' = [view EXCEPT ![g] = Apply(@, log[rev'[g]])]
  /\ ring' = IF log[rev'[g]].op = "PUT"
             THEN [ring EXCEPT ![g] = RingOf(view'[g])] ELSE ring
  /\ UNCHANGED <<etcdVars, srvVars, dpc, faults>>

handleEvent(g) ==
  /\ dpc[g] = "watch" /\ rev[g] < Len(log)
  /\ rev' = [rev EXCEPT ![g] = @ + 1]
  /\ SetView(g, Apply(view[g], log[rev'[g]]))
  /\ UNCHANGED <<etcdVars, srvVars, dpc, faults>>

(* The watch ends: connection lost, or the revision was compacted.         *)
WatchEnds(g) ==
  /\ dpc[g] = "watch" /\ Fault /\ WatchGoto(g, "sleep")
  /\ UNCHANGED <<etcdVars, srvVars, view, ring, rev>>

(* As WatchWakes, but the watch goes on from the newest revision without a *)
(* new Get.                                                                *)
MutWatchWakes(g) ==
  /\ dpc[g] = "sleep" /\ WatchGoto(g, "watch")
  /\ rev' = [rev EXCEPT ![g] = Len(log)]
  /\ UNCHANGED <<etcdVars, srvVars, view, ring, faults>>

WatchWakes(g) ==
  /\ dpc[g] = "sleep" /\ WatchGoto(g, "get")
  /\ UNCHANGED <<etcdVars, srvVars, view, ring, rev, faults>>

(* Close followed by the goroutine's next look at stopCh.                  *)
WatchStops(g) ==
  /\ dpc[g] \in {"get", "sleep"} /\ Fault /\ WatchGoto(g, "stopped")
  /\ UNCHANGED <<etcdVars, srvVars, view, ring, rev>>

----------------------------------------------------------------------------
Init ==
  /\ kv = [s \in Servers |-> 0] /\ leases = {} /\ log = <<>> /\ granted = 0
  /\ pc = [s \in Servers |-> "off"] /\ lease = [s \in Servers |-> 0]
  /\ view = [g \in Gateways |-> <<>>]
  /\ ring = [g \in Gateways |-> RingOf(<<>>)]
  /\ rev = [g \in Gateways |-> 0] /\ dpc = [g \in Gateways |-> "get"]
  /\ faults = 0

ServerStep(s) ==
  \/ RegisterPut(s) \/ KeepAlive(s) \/ ChannelCloses(s) \/ Revoke(s)
  \/ ReGrant(s) \/ RePut(s) \/ SleepOver(s)

WatchStep(g) == WatchGet(g) \/ handleEvent(g) \/ WatchWakes(g)

Next ==
  \/ LeaseExpires
  \/ \E s \in Servers : \/ RegisterGrant(s) \/ ServerStep(s)
                        \/ Deregister(s) \/ Crash(s)
  \/ \E g \in Gateways : WatchStep(g) \/ WatchEnds(g) \/ WatchStops(g)

Spec == Init /\ [][Next]_vars

(* Requests are answered, pauses end, watched events arrive, and etcd ends *)
(* a lease nobody renews.                                                  *)
Fairness ==
  /\ WF_vars(LeaseExpires)
  /\ \A s \in Servers : WF_vars(ServerStep(s))
  /\ \A g \in Gateways : WF_vars(WatchStep(g))

LiveSpec == Spec /\ Fairness

----------------------------------------------------------------------------
(* Properties.                                                             *)

(* Instance s had its key at revision n.                                   *)
Present(s, n) ==
  \E j \in 1 .. n : /\ log[j] = Event("PUT", s)
                    /\ \A i \in j + 1 .. n : log[i].addr # s

(* Get with the revision it answers for and the watch from the next one    *)
(* lose nothing: a gateway's list is exactly the set of instances          *)
(* registered at the revision it has reached, without repetition, however  *)
(* watches, expiries and registrations interleave (watch, handleEvent).    *)
ViewIsSnapshot ==
  \A g \in Gateways :
    /\ rev[g] <= Len(log)
    /\ \A s \in Servers : contains(view[g], s) <=> Present(s, rev[g])
    /\ IsInjective(view[g])

(* README.md: a user is routed to the same Logic instance while the        *)
(* members do not change.  The ring a gateway holds sends every key to a   *)
(* member, and to the one any other gateway with the same members chooses: *)
(* the order in which events brought the members does not matter.          *)
RouteFollowsMembers ==
  \A g \in Gateways, k \in Keys :
    LET members == Range(view[g])
    IN /\ RingGet(ring[g], k) = RingGet(RingOf(InKeyOrder(members)), k)
       /\ members # {} => RingGet(ring[g], k) \in members

(* A lease is renewed whose key was never written: reRegister failed       *)
(* between Grant and Put, and the next KeepAlive finds a healthy lease.    *)
Orphaned(s) == pc[s] = "renew" /\ lease[s] \in leases /\ ~Registered(s)

(* Once the faults are over every running instance is registered again,    *)
(* unless a Put failed after its Grant, the keys of dead instances are     *)
(* gone, and every gateway that still watches has the true list.           *)
Converges ==
  <>[](/\ \A s \in Servers : IF pc[s] = "off" THEN ~Registered(s)
                             ELSE Registered(s) \/ Orphaned(s)
       /\ \A g \in Gateways :
            dpc[g] # "stopped" =>
              Range(view[g]) = {s \in Servers : Registered(s)})
=============================================================================
