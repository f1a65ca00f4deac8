------------------------------ MODULE DnsCache ------------------------------
(***************************************************************************)
(* The agent's DNS cache (dns_cache.c, cpe.c) on top of the asynchronous   *)
(* resolver.  Every ACS URL that is set adds an entry for its host, whose  *)
(* name is resolved again and again: the callback of one resolution arms   *)
(* the timer of the next.  A session that opens asks the cache, which asks *)
(* the blocking resolver when it has no address yet.                       *)
(*                                                                         *)
(* The entries are the resolver's clients.  The tree holds the first entry *)
(* of a host; a later one is refreshed too, but never found.               *)
(*                                                                         *)
(* Abstracted: addresses, but for whether there is one; the lengths of the *)
(* delays.                                                                 *)
(***************************************************************************)
EXTENDS Evdns

CONSTANTS
    Hosts,    \* names of ACS hosts
    Numerics  \* ACS hosts given by address

None    == "none"

ASSUME DnsCacheAssumption ==
    Hosts \cap Numerics = {} /\ None \notin Hosts \cup Numerics

VARIABLES
    tree,   \* cpe->dns_cache: the entry of each host, or None
    entry,  \* the entries: host, whether there is an address, and ev pending
    acs     \* cpe->acs_url->host

vars == <<base, tree, entry, acs>>

Unused  == [host |-> None, address |-> FALSE, timer |-> FALSE]
InUse   == {c \in Clients : entry[c].host # None}
Named   == {c \in InUse : entry[c].host \in Hosts}

Init ==
    /\ base = EmptyBase
    /\ tree = [h \in Hosts \cup Numerics |-> None]
    /\ entry = [c \in Clients |-> Unused]
    /\ acs = None

\* evcpe_dns_add, from evcpe_set and sk_set_acs_dns: a new entry each time.
\* RB_INSERT leaves the tree alone when it has the name.
AcsUrlSet(host, net) == \E c \in Clients \ InUse :
    /\ ~base.dead
    /\ acs' = host
    /\ tree' = [tree EXCEPT ![host] = IF @ = None THEN c ELSE @]
    /\ entry' = [entry EXCEPT ![c] =
          [host |-> host, timer |-> FALSE, address |-> host \in Numerics]]
    /\ base' = IF host \in Numerics THEN base ELSE Resolved(base, c, net)

\* evcpe_dns_timer_cb.
EntryTimer(c, net) ==
    /\ ~base.dead
    /\ entry[c].timer
    /\ entry' = [entry EXCEPT ![c].timer = FALSE]
    /\ base' = Resolved(base, c, net)
    /\ UNCHANGED <<tree, acs>>

\* evcpe_dns_cb: a failure keeps the address and tries again at once.
EntryCallback(c) ==
    /\ ~base.dead
    /\ base.deferred # << >> /\ FirstDeferred.handle = c
    /\ base' = DropDeferred(base)
    /\ entry' = [entry EXCEPT ![c].timer = TRUE,
          ![c].address = @ \/ FirstDeferred.result = "ok"]
    /\ UNCHANGED <<tree, acs>>

\* evcpe_dns_cache_get, from evcpe_start_session, when the entry found has no
\* address yet and gethostbyname, which blocks, returns one.
Get ==
    /\ ~base.dead
    /\ acs # None
    /\ entry' = [entry EXCEPT ![tree[acs]].address = TRUE]
    /\ UNCHANGED <<base, tree, acs>>

Resolver == \E net \in Nets : ResolverSteps(net)
                              /\ UNCHANGED <<tree, entry, acs>>

Next ==
    \/ \E host \in Hosts \cup Numerics, net \in Nets : AcsUrlSet(host, net)
    \/ \E c \in Clients, net \in Nets : EntryTimer(c, net)
    \/ \E c \in Clients : EntryCallback(c)
    \/ Get
    \/ Resolver

Alone(step) == step /\ UNCHANGED <<tree, entry, acs>>
AllWork == [s \in Servers |-> "ok"]

\* The event loop runs its timers and deferred callbacks, and a socket with
\* no room has room again.  Servers need not answer, nor probes be sent.
Fairness ==
    /\ \A h \in Handles :
          WF_vars(\E net \in Nets : Alone(RequestTimesOut(h, net)))
    /\ \A s \in Servers : WF_vars(Alone(WriteReady(s, AllWork)))
    /\ WF_vars(\E net \in Nets : Alone(RunProbe(net)))
    /\ \A c \in Clients : WF_vars(EntryCallback(c))

Spec == Init /\ [][Next]_vars /\ Fairness

-----------------------------------------------------------------------------
\* Servers, requests, entries and the tree are of their types; a request is
\* sent and passed on no more often than it may be.
TypeOK ==
    /\ base.server \in [Servers -> [up : BOOLEAN, timedout : 0..MaxTimeouts,
          timer : BOOLEAN, choked : BOOLEAN, writing : BOOLEAN,
          probing : BOOLEAN]]
    /\ base.head \in Servers
    /\ base.req \in [Handles -> [ns : Servers \cup {0}, tx : 0..MaxRetransmits,
          reissue : 0..MaxReissues, send : BOOLEAN, timer : BOOLEAN,
          search : {NoSearch} \cup (-1 .. Domains), sentTo : SUBSET Servers]]
    /\ tree \in [Hosts \cup Numerics -> Clients \cup {None}]
    /\ entry \in [Clients -> [host : Hosts \cup Numerics \cup {None},
          address : BOOLEAN, timer : BOOLEAN]]

\* The state is well typed and what is counted twice agrees: the resolver's
\* counters, kept by every path that issues, parks, retries, finishes or
\* cancels a request, are what its queues and servers say.
Consistent == TypeOK /\ CountersAgree

\* The refresh of an entry neither stops nor doubles: one resolution, one
\* callback or one timer.
OneRefresh == ~base.dead => \A c \in Named :
    Cardinality({i \in DOMAIN base.deferred : base.deferred[i].handle = c})
    + (IF c \in Asking(base) THEN 1 ELSE 0)
    + (IF entry[c].timer THEN 1 ELSE 0) = 1

\* Every resolution calls back, whatever the servers answer, and the next is
\* armed, once the servers' sockets report no more errors.  (Two servers that
\* fail in turn pass a request on before it has left.)
ResolutionCallsBack ==
    <>[][\A s \in Servers : ~ReadFails(s)]_vars =>
        \A c \in Clients : c \in Asking(base) ~> entry[c].timer \/ base.dead
=============================================================================
