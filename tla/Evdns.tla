-------------------------------- MODULE Evdns --------------------------------
(***************************************************************************)
(* The asynchronous resolver the agent links in (skevent/evdns.c): name    *)
(* servers that fail and are probed, requests in flight and waiting, their *)
(* timeouts, retransmissions and reissues, and the callbacks, which are    *)
(* always deferred.                                                        *)
(*                                                                         *)
(* struct evdns_base is one variable, base; each C function that changes   *)
(* it is an operator from a base to a base.  One event of the event loop   *)
(* (a timer, a socket, a deferred callback, a call) is one action.  net    *)
(* says what sendto returns for each server during that event.             *)
(*                                                                         *)
(* Abstracted: names, packets and transaction ids (a reply to a request    *)
(* comes from a server it was sent to, or is ignored); the hash buckets,   *)
(* whose requests are visited in the order they were issued; the lengths   *)
(* of timeouts; failures to allocate.  A process that uses freed memory    *)
(* is dead.                                                                *)
(***************************************************************************)
EXTENDS Integers, Sequences, FiniteSets, SequencesExt

CONSTANTS
    N,              \* name servers
    Clients,        \* handles of the calls to evdns_resolve_ipv4
    MaxInflight,    \* global_max_requests_inflight: 64
    MaxRetransmits, \* global_max_retransmits: 3
    MaxReissues,    \* global_max_reissues: 1
    MaxTimeouts,    \* global_max_nameserver_timeout: 3
    Domains,        \* search domains: one if the host name has a dot, or none
    Dotted,         \* whether the name asked for has a dot
    Codes,          \* what a reply says
    Nets            \* what sendto returns: a set of functions on the servers

Servers == 1..N
Handles == Clients \cup Servers   \* a server stands for its probe's handle

ASSUME EvdnsAssumption ==
    /\ N \in Nat \ {0} /\ MaxInflight \in Nat \ {0}
    /\ MaxRetransmits \in Nat \ {0} /\ MaxReissues \in Nat
    /\ MaxTimeouts \in Nat /\ Domains \in Nat /\ Dotted \in BOOLEAN
    /\ Codes \subseteq {"ok", "notexist", "servfail", "refused"}
    /\ Nets \subseteq [Servers -> {"ok", "again", "error"}]
    /\ Clients \cap Servers = {} /\ IsFiniteSet(Clients)

VARIABLE base

\* No queue is longer: the rounds of a loop over one.
Rounds == 0..Cardinality(Handles)

NoSearch == -2
\* ns 0: not assigned.  sentTo is what the network knows of the request.
NoRequest == [ns |-> 0, tx |-> 0, reissue |-> 0, send |-> FALSE,
              timer |-> FALSE, search |-> NoSearch, sentTo |-> {}]
GoodServer == [up |-> TRUE, timedout |-> 0, timer |-> FALSE, choked |-> FALSE,
               writing |-> FALSE, probing |-> FALSE]

EmptyBase ==
    [server |-> [s \in Servers |-> GoodServer], head |-> 1, good |-> N,
     req |-> [h \in Handles |-> NoRequest], inflight |-> << >>,
     waiting |-> << >>, nin |-> 0, nwait |-> 0, deferred |-> << >>,
     dead |-> FALSE]

InFlight(b) == ToSet(b.inflight)
Asking(b)   == InFlight(b) \cup ToSet(b.waiting)
Deferred(b) == {b.deferred[i].handle : i \in DOMAIN b.deferred}

-----------------------------------------------------------------------------
\* nameserver_pick: the first good server of the ring from the head on, which
\* moves behind it; with none good, the server after the head.
After(s) == (s % N) + 1
Pick(b) ==
    LET good == {s \in Servers : b.server[s].up}
        Ahead(s) == (s - b.head) % N
    IN  IF b.good = 0 THEN After(b.head)
        ELSE CHOOSE s \in good : \A t \in good : Ahead(s) <= Ahead(t)
HeadAfter(b, s) == IF b.good = 0 THEN s ELSE After(s)

Assign(b, h) ==
    LET s == Pick(b) IN [b EXCEPT !.req[h].ns = s, !.head = HeadAfter(b, s)]

\* nameserver_failed: what has not left yet goes to another server.
Moved(b, h, s) == IF b.req[h].tx = 0 /\ b.req[h].ns = s THEN Assign(b, h) ELSE b
Failed(b, s) ==
    LET down == [b EXCEPT !.good = @ - 1,
                          !.server[s] = [@ EXCEPT !.up = FALSE, !.timer = TRUE]]
        after[i \in Rounds] ==
            IF i = 0 THEN down ELSE Moved(after[i - 1], b.inflight[i], s)
    IN  IF ~b.server[s].up THEN b
        ELSE IF b.good = 1 THEN down ELSE after[Len(b.inflight)]

\* Mutant of Transmit: the socket that has no room is not waited for.
TransmitUnwatched(b, h, net) ==
    LET s == b.req[h].ns
    IN  IF b.server[s].choked \/ net[s] # "ok"
        THEN [b EXCEPT !.req[h].send = TRUE, !.server[s].choked = TRUE]
        ELSE [b EXCEPT !.req[h].timer = TRUE, !.req[h].tx = @ + 1,
                       !.req[h].send = FALSE, !.req[h].sentTo = @ \cup {s}]

\* evdns_request_transmit.  A request that could not be sent at all is left
\* to its timeout; one the socket has no room for is marked for later.
Transmit(b, h, net) ==
    LET s == b.req[h].ns
        marked == [b EXCEPT !.req[h].send = TRUE]
        tried == IF net[s] = "error" THEN Failed(marked, s)
                 ELSE [marked EXCEPT !.req[h].sentTo = @ \cup {s}]
    IN  IF marked.server[s].choked THEN marked
        ELSE IF net[s] = "again"
        THEN [marked EXCEPT !.server[s].choked = TRUE,
                            !.server[s].writing = TRUE]
        ELSE [tried EXCEPT !.req[h].timer = TRUE, !.req[h].tx = @ + 1,
                           !.req[h].send = FALSE]

\* evdns_transmit.
Resent(b, h, net) == IF b.req[h].send THEN Transmit(b, h, net) ELSE b
TransmitMarked(b, net) ==
    LET after[i \in Rounds] ==
            IF i = 0 THEN b ELSE Resent(after[i - 1], b.inflight[i], net)
    IN  after[Len(b.inflight)]

\* evdns_requests_pump_waiting_queue: while there is room the oldest request
\* that waits is issued.
Issued(b, h) ==
    Assign([b EXCEPT !.waiting = Tail(@), !.nwait = @ - 1,
                     !.inflight = Append(@, h), !.nin = @ + 1], h)
Promoted(b, net) ==
    LET h == Head(b.waiting)
    IN  IF b.nin < MaxInflight
        THEN TransmitMarked(Transmit(Issued(b, h), h, net), net) ELSE b
Pump(b, net) ==
    LET after[i \in Rounds] ==
            IF i = 0 THEN b ELSE Promoted(after[i - 1], net)
    IN  after[Len(b.waiting)]

\* request_finished.
Without(q, h) == RemoveAt(q, CHOOSE i \in DOMAIN q : q[i] = h)
Removed(b, h) ==
    LET freed == [b EXCEPT !.req[h] = NoRequest]
    IN  IF h \in InFlight(b)
        THEN [freed EXCEPT !.inflight = Without(@, h), !.nin = @ - 1]
        ELSE [freed EXCEPT !.waiting = Without(@, h), !.nwait = @ - 1]
Finished(b, h, net) == Pump(Removed(b, h), net)

\* reply_schedule_callback.
Schedule(b, h, result) ==
    [b EXCEPT !.deferred = Append(@, [handle |-> h, result |-> result])]

\* request_new: at the limit a request gets no server.
NewRequest(b, h, search) ==
    LET made == [b EXCEPT !.req[h] = [NoRequest EXCEPT !.search = search]]
    IN  IF b.nin < MaxInflight THEN Assign(made, h) ELSE made

\* request_submit.
Submit(b, h, net) ==
    IF b.req[h].ns # 0
    THEN Transmit([b EXCEPT !.inflight = Append(@, h), !.nin = @ + 1], h, net)
    ELSE [b EXCEPT !.waiting = Append(@, h), !.nwait = @ + 1]

\* search_request_new: a name with a dot is first tried as it stands.
FirstSearch == IF Domains = 0 THEN NoSearch ELSE IF Dotted THEN -1 ELSE 0
Resolved(b, h, net) == Submit(NewRequest(b, h, FirstSearch), h, net)

\* evdns_cancel_request: nothing to cancel once the callback is scheduled.
Cancelled(b, h, net) ==
    IF h \notin Asking(b) \/ h \in Deferred(b) THEN b
    ELSE Finished(Schedule(b, h, "cancel"), h, net)

\* Mutant of Up: a server that is up already counts once more.
UpAgain(b, s, net) ==
    LET quiet == IF b.server[s].probing THEN Cancelled(b, s, net) ELSE b
    IN  [quiet EXCEPT !.server[s].probing = FALSE, !.server[s].up = TRUE,
                      !.server[s].timer = FALSE, !.good = @ + 1]

\* nameserver_up.
Up(b, s, net) ==
    IF b.server[s].up THEN b
    ELSE LET stopped == [b EXCEPT !.server[s].timer = FALSE]
             quiet == IF b.server[s].probing
                      THEN Cancelled(stopped, s, net) ELSE stopped
         IN  [quiet EXCEPT !.server[s].probing = FALSE, !.server[s].up = TRUE,
                           !.server[s].timedout = 0, !.good = @ + 1]

-----------------------------------------------------------------------------
\* search_try_next: the request of the next name is made before the old one
\* is finished, so at the limit it waits.
HasNext(b, h) ==
    /\ b.req[h].search # NoSearch
    /\ b.req[h].search + 1 < Domains \/ ~Dotted
TryNext(b, h, net) ==
    LET i == b.req[h].search + 1
        next == IF i < Domains THEN i ELSE NoSearch
        made == NewRequest(b, h, next)
        old == Finished([b EXCEPT !.head = made.head], h, net)
    IN  Submit([old EXCEPT !.req[h] = made.req[h]], h, net)

\* Mutant of Unresolved: the failure is passed up although the search goes on.
UnresolvedTwice(b, h, code, net) ==
    IF HasNext(b, h) THEN TryNext(Schedule(b, h, code), h, net)
    ELSE Finished(Schedule(b, h, code), h, net)

\* reply_handle, the end of an error.
Unresolved(b, h, code, net) ==
    IF HasNext(b, h) THEN TryNext(b, h, net)
    ELSE Finished(Schedule(b, h, code), h, net)

\* A bad code: another server, but the old timeout still runs, and only it
\* sends the request there.
Refused(b, h, net) ==
    LET failed == Failed(b, b.req[h].ns)
        other == Assign(failed, h)
    IN  IF b.req[h].reissue >= MaxReissues THEN Unresolved(b, h, "refused", net)
        ELSE IF other.req[h].ns = failed.req[h].ns
        THEN Unresolved(other, h, "refused", net)
        ELSE [other EXCEPT !.req[h].reissue = @ + 1, !.req[h].tx = 0,
                           !.req[h].send = TRUE]

\* The server is there.  If it is down and this answers its own probe, the
\* probe is cancelled and freed, and then used.
NoSuchName(b, h, net) ==
    LET s == b.req[h].ns
    IN  IF h = s /\ b.server[s].probing /\ ~b.server[s].up
        THEN [b EXCEPT !.dead = TRUE]
        ELSE Unresolved(Up(b, s, net), h, "notexist", net)

Found(b, h, net) ==
    LET s == b.req[h].ns
        told == Schedule(b, h, "ok")
        own == IF h = s THEN [told EXCEPT !.server[s].probing = FALSE] ELSE told
    IN  Finished(Up(own, s, net), h, net)

\* reply_handle.
Handled(b, h, code, net) ==
    CASE code = "ok"       -> Found(b, h, net)
      [] code = "notexist" -> NoSuchName(b, h, net)
      [] code = "servfail" -> Unresolved(b, h, "servfail", net)
      [] code = "refused"  -> Refused(b, h, net)

\* Mutant of Probed: a probe that fails is not repeated.
ProbedOnce(b, s, result, net) ==
    LET over == [b EXCEPT !.server[s].probing = FALSE]
    IN  IF result \in {"ok", "notexist"} THEN Up(over, s, net) ELSE over

\* nameserver_probe_callback, and nameserver_probe_failed.
Probed(b, s, result, net) ==
    LET over == [b EXCEPT !.server[s].probing = FALSE]
    IN  CASE result = "cancel"             -> over
          [] result \in {"ok", "notexist"} -> Up(over, s, net)
          [] OTHER -> [over EXCEPT !.server[s].timer = ~b.server[s].up]

-----------------------------------------------------------------------------
\* evdns_request_timeout_callback.
RequestTimesOut(h, net) ==
    LET s == base.req[h].ns
        late == base.server[s].timedout + 1 > MaxTimeouts
        blamed == IF late THEN Failed([base EXCEPT !.server[s].timedout = 0], s)
                  ELSE [base EXCEPT !.server[s].timedout = @ + 1]
        fired == [blamed EXCEPT !.req[h].timer = FALSE]
    IN  /\ ~base.dead
        /\ base.req[h].timer
        /\ base' = IF fired.req[h].tx >= MaxRetransmits
                   THEN Finished(Schedule(fired, h, "timeout"), h, net)
                   ELSE Transmit(fired, h, net)

\* nameserver_prod_callback and nameserver_send_probe: in flight no matter
\* what the limit is.  Callbacks are run before the ten seconds of the timer.
ProbeTimer(s, net) ==
    /\ ~base.dead
    /\ base.server[s].timer
    /\ s \notin Deferred(base)
    /\ base' = LET made == NewRequest([base EXCEPT !.server[s].timer = FALSE,
                                                  !.server[s].probing = TRUE],
                                      s, NoSearch)
               IN  Submit([made EXCEPT !.req[s].ns = s], s, net)

\* Mutant of WriteReady: what is marked is not sent.
WriteReadyUnused(s, net) ==
    /\ ~base.dead
    /\ base.server[s].writing
    /\ base' = [base EXCEPT !.server[s].choked = FALSE,
                            !.server[s].writing = FALSE]

\* nameserver_ready_callback, writable.
WriteReady(s, net) ==
    /\ ~base.dead
    /\ base.server[s].writing
    /\ base' = LET free == [base EXCEPT !.server[s].choked = FALSE]
               IN  IF \E h \in InFlight(free) : free.req[h].send
                   THEN TransmitMarked(free, net)
                   ELSE [free EXCEPT !.server[s].writing = FALSE]

\* nameserver_ready_callback, readable: a reply, or an error of the socket.
Reply(s, h, code, net) ==
    /\ ~base.dead
    /\ h \in InFlight(base) /\ s \in base.req[h].sentTo
    /\ base' = Handled([base EXCEPT !.server[s].timedout = 0], h, code, net)

ReadFails(s) ==
    /\ ~base.dead
    /\ base.server[s].up
    /\ base' = Failed(base, s)

\* reply_run_callback: the first deferred callback, result still to be told.
FirstDeferred == Head(base.deferred)
DropDeferred(b) == [b EXCEPT !.deferred = Tail(@)]

RunProbe(net) ==
    /\ ~base.dead
    /\ base.deferred # << >> /\ FirstDeferred.handle \in Servers
    /\ base' = Probed(DropDeferred(base), FirstDeferred.handle,
                      FirstDeferred.result, net)

\* What the event loop does by itself with the resolver.
ResolverSteps(net) ==
    \/ \E h \in Handles : RequestTimesOut(h, net)
    \/ \E s \in Servers : ProbeTimer(s, net) \/ WriteReady(s, net)
    \/ \E s \in Servers, h \in Handles, c \in Codes : Reply(s, h, c, net)
    \/ \E s \in Servers : ReadFails(s)
    \/ RunProbe(net)

-----------------------------------------------------------------------------
\* The counters that decide whether a request is issued or waits, and whether
\* a server is picked, are what they count.
CountersAgree ==
    /\ base.nin = Len(base.inflight) /\ base.nwait = Len(base.waiting)
    /\ base.good = Cardinality({s \in Servers : base.server[s].up})
    /\ IsInjective(base.inflight \o base.waiting)

\* A server that is down comes to be probed: its timer runs, its probe is out,
\* or the probe's callback is still to run.  A server that is up has neither.
DownServerIsProbed == ~base.dead => \A s \in Servers :
    IF base.server[s].up
    THEN ~base.server[s].timer /\ s \notin Asking(base)
    ELSE s \in Deferred(base) \/ (base.server[s].timer # (s \in Asking(base)))

\* A request in flight is going to be looked at again: by its timeout, or by
\* the socket of a server that is waited for to become writable.  While a
\* request waits one is in flight, whose end lets it go on.
RequestIsDriven ==
    /\ ~base.dead => \A h \in InFlight(base) :
          \/ base.req[h].timer
          \/ base.req[h].send /\ \E s \in Servers : base.server[s].writing
    /\ base.nwait > 0 => base.nin > 0
=============================================================================
