----------------------------- MODULE EventLoop ------------------------------
(***************************************************************************)
(* The loop that runs every timer and callback of the agent                *)
(* (skevent/event.c, evmap.c, epoll.c): events wait for a file descriptor, *)
(* a time, or both; the loop waits, moves what is due to the active queue, *)
(* and runs the callbacks one by one, then the deferred ones.  A callback  *)
(* may add and delete any event.                                           *)
(*                                                                         *)
(* Time is relative: left[e] is how far off the timeout of e is, lag how   *)
(* old the time is that the loop has cached (tv_cache).                    *)
(*                                                                         *)
(* As the agent uses it: one priority, no locks (evthread is never set     *)
(* up), level-triggered epoll, a monotonic clock.  Abstracted: the order   *)
(* of the heap.  Not used by the agent, and left out: event_active, common *)
(* timeouts, event_once, signals and the interruption of a wait by them.   *)
(***************************************************************************)
EXTENDS Integers, Sequences, FiniteSets, SequencesExt

CONSTANTS
    Events,
    Fds,
    Fd(_), Wants(_),  \* the descriptor of an event, and what it waits for there
    Persistent,       \* the events made with EV_PERSIST
    Delays,           \* timeouts that are asked for
    Deferreds,        \* deferred callbacks
    None,             \* no event
    MaxDeferred,      \* MAX_DEFERRED
    MaxOps,           \* bound: calls to the library in one callback
    MaxLag,           \* bound: ticks between two polls
    MaxLate           \* bound: how late a timeout may become

Ways    == {"read", "write"}
Reasons == Ways \cup {"timeout"}

ASSUME EventLoopAssumption ==
    /\ Persistent \subseteq Events /\ Delays \subseteq Nat \ {0}
    /\ \A e \in Events : Fd(e) \in Fds /\ Wants(e) \subseteq Ways
    /\ None \notin Events \cup Deferreds /\ Events \cap Deferreds = {}
    /\ MaxDeferred \in Nat \ {0} /\ {MaxOps, MaxLag, MaxLate} \subseteq Nat

VARIABLES
    inserted,  \* events on the I/O queue (EVLIST_INSERTED)
    timed,     \* events in the heap (EVLIST_TIMEOUT)
    left,      \* ev_timeout, from now
    period,    \* ev_io_timeout, 0 when never set
    asked,     \* the events whose last event_add had a timeout
    active,    \* the active queue
    res,       \* ev_res: why an event is active
    count,     \* event_count
    watchers,  \* nread and nwrite of a descriptor (evmap_io)
    polled,    \* what the kernel watches a descriptor for
    ready,     \* what a descriptor is ready for
    deferred,  \* the deferred callbacks
    budget,    \* how many more of them run before the next poll
    pc,        \* where the loop is
    current,   \* the event whose callback runs, and what it was told
    ops,       \* calls the running callback may still make
    lag,       \* the age of the cached time
    wait,      \* how long the loop still waits; -1: for I/O only
    stop       \* event_break

queues == << inserted, timed, left, active, res, count, watchers, polled >>
loop   == << pc, current, ops, wait, budget >>
vars   == << queues, loop, period, asked, ready, deferred, lag, stop >>

Active == ToSet(active)

\* The queues as a record, for the operations that are made of others.  What
\* is not read again before it is set again (ev_timeout, ev_res) is cleared.
Queues == [ins |-> inserted, tim |-> timed, left |-> left, act |-> active,
           res |-> res, n |-> count, w |-> watchers, p |-> polled]
Become(q) ==
    /\ inserted' = q.ins /\ timed' = q.tim
    /\ left' = [e \in Events |->
                  IF e \in q.tim \cup ToSet(q.act) THEN q.left[e] ELSE 0]
    /\ active' = q.act
    /\ res' = [e \in Events |-> IF e \in ToSet(q.act) THEN q.res[e] ELSE {}]
    /\ count' = q.n /\ watchers' = q.w /\ polled' = q.p

Init ==
    /\ inserted = {} /\ timed = {} /\ active = << >> /\ count = 0
    /\ left = [e \in Events |-> 0] /\ period = [e \in Events |-> 0]
    /\ asked = {} /\ res = [e \in Events |-> {}]
    /\ watchers = [f \in Fds |-> [w \in Ways |-> 0]]
    /\ polled = [f \in Fds |-> {}] /\ ready = [f \in Fds |-> {}]
    /\ deferred = << >> /\ budget = 0
    \* The agent sets up its first events, then dispatches.
    /\ pc = "callback" /\ current = << None, {} >> /\ ops = MaxOps
    /\ lag = 0 /\ wait = 0 /\ stop = FALSE

-----------------------------------------------------------------------------
\* evmap_io_add and evmap_io_del: the kernel is told when the first event for
\* a way comes and when the last one goes (epoll_apply_one_change).
Watch(q, e) ==
    LET f == Fd(e)
        w == [x \in Ways |-> q.w[f][x] + IF x \in Wants(e) THEN 1 ELSE 0]
    IN  [q EXCEPT !.ins = @ \cup {e}, !.n = @ + 1, !.w[f] = w,
                  !.p[f] = @ \cup {x \in Wants(e) : w[x] = 1}]
\* Mutant of Unwatch: the kernel is told for every event that goes.
UnwatchAll(q, e) ==
    LET f == Fd(e)
        w == [x \in Ways |-> q.w[f][x] - IF x \in Wants(e) THEN 1 ELSE 0]
    IN  IF e \notin q.ins THEN q
        ELSE [q EXCEPT !.ins = @ \ {e}, !.n = @ - 1, !.w[f] = w,
                       !.p[f] = @ \ Wants(e)]

Unwatch(q, e) ==
    LET f == Fd(e)
        w == [x \in Ways |-> q.w[f][x] - IF x \in Wants(e) THEN 1 ELSE 0]
    IN  IF e \notin q.ins THEN q
        ELSE [q EXCEPT !.ins = @ \ {e}, !.n = @ - 1, !.w[f] = w,
                       !.p[f] = @ \ {x \in Wants(e) : w[x] = 0}]

\* event_queue_insert and event_queue_remove for the heap and the active queue.
Untimed(q, e) ==
    IF e \in q.tim THEN [q EXCEPT !.tim = @ \ {e}, !.n = @ - 1] ELSE q
Inactive(q, e) ==
    IF e \in ToSet(q.act) THEN [q EXCEPT !.act = RemoveFirst(@, e), !.n = @ - 1] ELSE q

\* event_add_internal up to the timeout, and with one that is t away.
Insert(q, e) ==
    IF Wants(e) # {} /\ e \notin q.ins \cup ToSet(q.act) THEN Watch(q, e) ELSE q

\* Mutant of Timeout: an event that is active for its timeout stays so.
TimeoutAnyway(q, e, t) ==
    LET g == Untimed(Insert(q, e), e)
    IN  [g EXCEPT !.tim = @ \cup {e}, !.left[e] = t, !.n = @ + 1]

Timeout(q, e, t) ==
    LET g == Untimed(Insert(q, e), e)
        h == IF "timeout" \in q.res[e] THEN Inactive(g, e) ELSE g
    IN  [h EXCEPT !.tim = @ \cup {e}, !.left[e] = t, !.n = @ + 1]

\* event_del_internal.
Delete(q, e) == Unwatch(Inactive(Untimed(q, e), e), e)

\* event_active_nolock, for an event that was not active.
Activate(q, e, why) ==
    [q EXCEPT !.act = Append(@, e), !.res[e] = why, !.n = @ + 1]

-----------------------------------------------------------------------------
\* What a callback may call.
Call == pc = "callback" /\ ops > 0 /\ ops' = ops - 1
Others == UNCHANGED << pc, current, wait, budget, lag >>

AddTimed(e, d) ==
    /\ Call /\ Become(Timeout(Queues, e, d - lag))
    /\ period' = IF e \in Persistent THEN [period EXCEPT ![e] = d] ELSE period
    /\ asked' = asked \cup {e}
    /\ Others /\ UNCHANGED << ready, deferred, stop >>
AddUntimed(e) ==
    /\ Call /\ Wants(e) # {} /\ Become(Insert(Queues, e))
    /\ asked' = IF e \in timed \cup Active THEN asked ELSE asked \ {e}
    /\ Others /\ UNCHANGED << period, ready, deferred, stop >>
Del(e) ==
    /\ Call /\ Become(Delete(Queues, e)) /\ asked' = asked \ {e}
    /\ Others /\ UNCHANGED << period, ready, deferred, stop >>
\* event_deferred_cb_schedule and event_deferred_cb_cancel.
Schedule(c) ==
    /\ Call
    /\ deferred' = IF c \in ToSet(deferred) THEN deferred ELSE Append(deferred, c)
    /\ Others /\ UNCHANGED << queues, period, asked, ready, stop >>
Cancel(c) ==
    /\ Call /\ c \in ToSet(deferred) /\ deferred' = RemoveFirst(deferred, c)
    /\ Others /\ UNCHANGED << queues, period, asked, ready, stop >>
\* event_base_loopbreak.
Break ==
    /\ Call /\ stop' = TRUE
    /\ Others /\ UNCHANGED << queues, period, asked, ready, deferred >>
\* A callback reads or writes until its descriptor is no longer ready.
Consume(f, w) ==
    /\ Call /\ w \in ready[f] /\ ready' = [ready EXCEPT ![f] = @ \ {w}]
    /\ Others /\ UNCHANGED << queues, period, asked, deferred, stop >>

-----------------------------------------------------------------------------
\* The rest of event_process_active after a callback; or, after the set-up,
\* the begin of event_base_loop, which forgets a break it was told of before.
Return ==
    /\ pc = "callback"
    /\ current' = << None, {} >> /\ ops' = 0
    /\ stop' = (stop /\ current[1] # None)
    /\ pc' = IF stop \/ current[1] = None THEN "top"
             ELSE IF current[1] \in Deferreds THEN "deferred" ELSE "process"
    /\ UNCHANGED << queues, period, asked, ready, deferred, budget, lag, wait >>

\* event_process_active_single_queue and event_persist_closure.
Run(e, q, per) ==
    /\ Become(q) /\ pc' = "callback" /\ current' = << e, res[e] >>
    /\ ops' = MaxOps /\ period' = per
    /\ UNCHANGED << asked, ready, deferred, budget, lag, wait, stop >>

RunOnce ==
    LET e == Head(active)
    IN  /\ pc = "process" /\ active # << >> /\ e \notin Persistent
        /\ Run(e, Delete(Queues, e), period)
RunPersistent ==
    LET e == Head(active)
        q == Inactive(Queues, e)
        from == IF "timeout" \in res[e] THEN left[e] ELSE 0 - lag
    IN  /\ pc = "process" /\ active # << >> /\ e \in Persistent
        /\ Run(e, IF period[e] = 0 THEN q ELSE Timeout(q, e, from + period[e]),
               period)

\* event_process_deferred_callbacks.
Processed ==
    /\ pc = "process" /\ active = << >>
    /\ pc' = "deferred" /\ budget' = MaxDeferred
    /\ UNCHANGED << queues, period, asked, ready, deferred, current, ops,
                    lag, wait, stop >>
RunDeferred ==
    /\ pc = "deferred" /\ budget > 0 /\ deferred # << >>
    /\ deferred' = Tail(deferred) /\ budget' = budget - 1
    /\ pc' = "callback" /\ current' = << Head(deferred), {} >> /\ ops' = MaxOps
    /\ UNCHANGED << queues, period, asked, ready, lag, wait, stop >>
DeferredDone ==
    /\ pc = "deferred" /\ (budget = 0 \/ deferred = << >>)
    /\ pc' = "top" /\ budget' = 0
    /\ UNCHANGED << queues, period, asked, ready, deferred, current, ops,
                    lag, wait, stop >>

\* The top of event_base_loop, with timeout_next: how long it waits is
\* reckoned from the cached time.
Soonest == CHOOSE t \in {left[e] : e \in timed} : \A e \in timed : t <= left[e]
Busy    == active # << >> \/ deferred # << >>
Ends ==
    /\ pc = "top" /\ (stop \/ (count = 0 /\ ~Busy)) /\ pc' = "ended"
    /\ UNCHANGED << queues, period, asked, ready, deferred, current, ops,
                    budget, lag, wait, stop >>
Wait ==
    /\ pc = "top" /\ ~stop /\ (count > 0 \/ Busy)
    /\ wait' = IF Busy THEN 0
               ELSE IF timed = {} THEN -1
               ELSE IF Soonest + lag <= 0 THEN 0 ELSE Soonest + lag
    /\ pc' = "wait" /\ lag' = 0
    /\ UNCHANGED << queues, period, asked, ready, deferred, current, ops,
                    budget, stop >>

\* epoll_dispatch, update_time_cache, timeout_process.
Seen(e) == Wants(e) \cap ready[Fd(e)] \cap polled[Fd(e)]
Heard   == {e \in inserted : Seen(e) # {}}
Due     == {e \in timed : left[e] <= 0}
\* Mutant of TimeOut: it is asked before the deletion whether it is active.
TimeOutOnce(q, e) ==
    IF e \in ToSet(q.act) THEN Delete(q, e)
    ELSE Activate(Delete(q, e), e, {"timeout"})

\* A due event is deleted and activated for its timeout alone.
TimeOut(q, e) == Activate(Delete(q, e), e, {"timeout"})
Expire(q, s) ==
    LET after[i \in 0..Len(s)] ==
            IF i = 0 THEN q ELSE TimeOut(after[i - 1], s[i])
    IN  after[Len(s)]

\* What is ready is activated in the order of the kernel's answer; none of it
\* was active.
Hear(q, s) ==
    [q EXCEPT !.act = @ \o s, !.n = @ + Len(s),
              !.res = [e \in Events |-> IF e \in ToSet(s) THEN Seen(e)
                                       ELSE @[e]]]

Orders(S) == {s \in [1..Cardinality(S) -> S] : IsInjective(s)}
Dispatch ==
    /\ pc = "wait" /\ (wait = 0 \/ Heard # {})
    /\ \E io \in Orders(Heard), late \in Orders(Due) :
          /\ \A i, j \in DOMAIN late : i < j => left[late[i]] <= left[late[j]]
          /\ Become(Expire(Hear(Queues, io), late))
    /\ pc' = IF Heard \cup Due # {} \/ Busy THEN "process" ELSE "top"
    /\ lag' = 0
    /\ UNCHANGED << period, asked, ready, deferred, current, ops, budget, wait,
                    stop >>

-----------------------------------------------------------------------------
\* The clock; a descriptor becomes ready.
Tick ==
    /\ IF pc = "wait" THEN wait # 0 /\ lag' = 0 ELSE lag < MaxLag /\ lag' = lag + 1
    /\ wait' = IF pc = "wait" /\ wait > 0 THEN wait - 1 ELSE wait
    /\ \A e \in timed : left[e] > -MaxLate
    /\ left' = [e \in Events |-> IF e \in timed \cup Active THEN left[e] - 1
                                 ELSE left[e]]
    /\ pc # "ended"
    /\ UNCHANGED << inserted, timed, active, count, watchers, polled, pc,
                    current, ops, budget, period, asked, res, ready, deferred,
                    stop >>
Arrive(f, w) ==
    /\ pc # "ended" /\ w \notin ready[f]
    /\ ready' = [ready EXCEPT ![f] = @ \cup {w}]
    /\ UNCHANGED << queues, loop, period, asked, deferred, lag, stop >>

Callback ==
    \/ \E e \in Events : Del(e) \/ AddUntimed(e) \/ \E d \in Delays : AddTimed(e, d)
    \/ \E c \in Deferreds : Schedule(c) \/ Cancel(c)
    \/ \E f \in Fds, w \in Ways : Consume(f, w)
    \/ Break
Loop == \/ RunOnce \/ RunPersistent \/ Processed \/ RunDeferred \/ DeferredDone
        \/ Return \/ Wait \/ Ends \/ Dispatch
Next == Loop \/ Callback \/ Tick \/ \E f \in Fds, w \in Ways : Arrive(f, w)

Fairness == WF_vars(Loop) /\ SF_vars(Tick)
Spec == Init /\ [][Next]_vars /\ Fairness

-----------------------------------------------------------------------------
\* The queues hold events, the active and the deferred one each at most once.
TypeOK ==
    /\ inserted \subseteq Events /\ timed \subseteq Events /\ asked \subseteq Events
    /\ Active \subseteq Events /\ IsInjective(active)
    /\ period \in [Events -> Delays \cup {0}] /\ res \in [Events -> SUBSET Reasons]
    /\ IsInjective(deferred) /\ ToSet(deferred) \subseteq Deferreds
    /\ pc \in {"callback", "process", "deferred", "top", "wait", "ended"}

\* The loop ends when event_count is 0 and waits for what the kernel was asked
\* to watch: both are kept up to date by every path that adds, activates,
\* expires or deletes an event, one that is on several queues included.
CountersAgree ==
    /\ TypeOK
    /\ count = Cardinality(inserted) + Cardinality(timed) + Len(active)
    /\ \A f \in Fds, w \in Ways :
          LET there == {e \in inserted : Fd(e) = f /\ w \in Wants(e)}
          IN  /\ watchers[f][w] = Cardinality(there)
              /\ w \in polled[f] <=> there # {}

\* No callback is told of a timeout before its time: one that is put off
\* while it is already active does not run ("Rescheduling this timeout before
\* the callback can be executed removes it from the active list", event.c).
NotBeforeItsTime ==
    \A e \in Active : "timeout" \in res[e] => left[e] <= 0 /\ e \notin timed

\* A timeout that was asked for and has come is told to its callback, unless
\* it is put off or deleted first or the loop was told to stop.
DueIsRun ==
    \A e \in Events :
        (e \in timed \cap asked /\ left[e] <= 0)
            ~> current[1] = e \/ e \notin asked \/ left[e] > 0 \/ stop
=============================================================================
