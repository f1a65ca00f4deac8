# A verification project for the CWMP agent

The repository is a TR-069 (CWMP) agent for Android set-top boxes: a native event
loop in C that reports to an auto-configuration server (ACS) over HTTP and carries
out the ACS's remote procedure calls, a Java service around it, and a helper process
for privileged work.  This directory holds TLA+ models of the agent, the TLC
configurations that check them, and theorems proved with TLAPS.  Below,
`P` is `src/SkTR069_A8/jni/jni_android_tr069/tr69_code` and `E` is `src/SkTR069_A8/jni/skevent`, the
repository's own copy of libevent 2.0, on which everything of the agent runs.

## 1. Inventory

| Component | Code | State it keeps | Operations | Modelled by |
|---|---|---|---|---|
| Session | `P/session.c` | queues `req_in`, `res_pending`, `req_out`, `req_pending`; hold flag, transfer flag, retry count, authentication state | start, send, post, HTTP callback, message in, terminate | `CwmpSession`, `CwmpExchange` |
| SOAP dispatch | `P/msg_xml.c` and one `*_xml.c` per message | element stack while parsing | recognise and fill a message | `CwmpSession` (kind of message only) |
| Agent | `P/cpe.c`, `P/evcpe.c` | current session, worker queue, timers, server addresses, failover flags, boot status | boot, worker loop, periodic and session timers, connection request, call handlers, end of session, awakening | `Cpe` |
| Worker handlers | `P/accessor.c` (4020-5100 and on) | persistent parameters, transfer slots | download, upload, reboot, factory reset, diagnostics, reauthentication, awakening, reports | `Cpe` |
| Parameter getters and setters | `P/accessor.c` (the rest) | the device's settings | one pair per parameter; change table; the object lists kept over a restart | `Repo` (the two object lists); the rest not modelled |
| Parameter tree | `P/repo.c`, `obj.c`, `attr.c`, `class.c`, `type.c`, `constraint.c` | tree of objects, instances and values; event list | locate, get, set, AddObject, DeleteObject, events | `Repo` (lists, set); `Cpe` (events) |
| XML reader, model files | `P/minixml.c`, `data_xml.c`, `class_xml.c`, `obj_xml.c`, `attr_xml.c`, `xml_stack.c` | parser position, element stack | parse | planned |
| HTTP authentication | `P/http_author_util.c`, `http_digest_calc.c`, `md5.c`, `cookie.c` | realm, nonce, counters | parse a challenge, compute a header | `CwmpSession`: answerable or not |
| DNS cache | `P/dns_cache.c`, `cpe.c` 2175-2368 | one entry per ACS host: address, timer | add, refresh, look up | `DnsCache`; `Cpe`: `Resolves` |
| Resolver | `E/evdns.c` | servers with their state and probe timers, requests in flight and waiting | send, retry, pass on, search, fail, probe | `Evdns` |
| HTTP client | `E/http.c`, `bufferevent_sock.c` | request queue, connection state, enabled events | queue, connect, write, read, fail, free | `EvHttp`, `HttpPromise` |
| Buffers | `E/buffer.c` | chains, pointer to the last one with data | add, read, move, drain, expand | `Evbuffer`, `ByteQueues` |
| Event loop | `E/event.c`, `evmap.c`, `epoll.c` | I/O queue, heap, active queue, deferred callbacks, counters | add, delete, dispatch, time out | `EventLoop` |
| STUN | `P/stun*.c`, `accessor.c` 7856-7877 | enable flag, socket, addresses, keep-alive timer, threads | start, stop, keep alive, compare addresses, UDP connection request | `Stun`; `Cpe`: the messages its threads queue |
| Network diagnosis | `P/net_diagnosis.c` | results of ping, traceroute, bandwidth | run, report | `Cpe`: the codes and sessions that report them |
| Persister | `P/persister.c` | - | compiled out (`evcpe.c` 461-474) | no |
| JNI glue, Java service, binder helper, the rest of libevent, tools | see `PROJECT.json` | outside the agent | | no, or as environment |

How they interact.  One event thread runs the loop of libevent: the worker tick (every
100 ms), the periodic timer, the 0 s session timer, the HTTP server for connection requests
and the HTTP callbacks of the session.  Other threads (Java calls, STUN, the traceroute
result) append to the worker queue or arm a timer without a lock.  A session hands each call
of the ACS to `evcpe_handle_request`, which answers through `evcpe_session_send` and may queue work for
the worker loop; when a session ends, `evcpe_session_terminate_cb` decides what the next one
reports and which server it contacts.  Codes that must survive a restart are written to
the parameter `tr069_event` ("boot status").

What is hard here:
- **half-duplex HTTP**: an answer, a new request, an empty POST, a 401 in the middle of any of
  them, and a hold flag that parks requests, all through one callback (`session.c` 150-420);
- **several starters, one session slot**: a dozen handlers, two timers and the boot open sessions and
  `evcpe_start_session` does not look at the slot (`cpe.c` 1130-1190);
- **reporting exactly what is owed**: codes are stored, put in the repository, cleared, and
  reset on success, in different callbacks, across restarts;
- **failover**: two flags and a queued message steer between two servers, racing other queued work;
- **partial failure**: a call that sets several values stops at the first failure;
- **one thread, callbacks in callbacks**: a callback of the HTTP client may queue a request or free the connection it
  is called from, and sometimes runs before the call that caused it has returned;
- **a resolver with its own retries**: servers fail and are probed, datagrams do not fit, requests wait, and
  each path must leave exactly one timer or event behind;
- **STUN without a lock**: a thread, a timer on the event thread and a command share flag, socket and address;
- **two copies of a list**: the tree is volatile and counts its items; what survives a restart is one
  parameter per number, and marks that say which numbers were added or deleted.

What makes the components correct: a session answers every call in turn and once, with an ACS
that answers in turn never ends well with a request unanswered, and ends; the agent has one session at a time, forgets no event before
it was reported, answers connection requests, keeps its heartbeat, and tries the other server;
the layers below lose no byte, request, timeout or resolution, and leave nothing waiting for nobody.
The hazards, each at its line with the properties that cover it, are in
`PROJECT.json`.

## 2. Modules

### CwmpSession, CwmpExchange
`CwmpExchange` is what the ACS sees of a session: who speaks, what was last said, and whether the exchange
is over.  `CwmpSession` is `session.c` in detail.  `Start` is `evcpe_start_session`; every other step is
`HttpCallback`, one run of `evcpe_session_http_cb` with all it calls:

| Action | Reply |
|---|---|
| `TimedOut` | none, or status 0, 404 or 408 |
| `ResendInform`, `RestartWithInform`, `ChallengedWithNothingOut` | 401 with retries left; what is outstanding decides |
| `Accept` | a body that is handled; then `PostAnswer`, `PostHeld`, `PostPending`, `Finish`, `PostTransfer`, `PostNothing` in the order of the code, or a POST that fails |
| `Reject`, `RejectEnvelopes` | a body that is not recognised or settles nothing; an InformResponse that is refused |
| `BadCookie` | a Set-Cookie header that cannot be parsed: the body is not looked at |

| TLA+ | C |
|---|---|
| `req_in`, `res_pending`, `req_out`, `req_pending` | the four queues of `evcpe_session`, as sequences of methods |
| `posted` | the HTTP request in flight |
| `heard` | what the last reply was; the code does not keep it |
| `status` | `"open"`; `"ok"`, `"fail"` (the termination callback has run with 0, with an error); `"crash"` (the code dereferences a null or freed pointer, and nothing more can be said) |
| `informAcked`, `calls`, `orderly` | history: an InformResponse was accepted; calls so far; every POST was answered in turn |
| `beat` | nothing; flips at each callback, so that a callback never looks like a stutter |

`Stuck` is a session with nothing in flight: an Inform lost to a URL without a path, or one that could not be created, at the start or after
a challenge, leaves it waiting for a callback that will not come.  `SuccessMeansAnswered` speaks of an ACS that has answered each request
in the reply to the POST that carries it (`orderly`), and may otherwise do what it likes: one that ends a session unasked is believed (section 5).

Abstracted: the text of messages, cookies (but for one that cannot be parsed), the digest, the saved bytes of the Inform, session ids, failing
allocations, and a server address that changes in mid-session.

### Cpe
The agent around its sessions.  One action per worker handler (`HandleUpload` is
`sk_tr069_start_upload`, and so on), per timer callback (`SessionTimer`,
`PeriodicTimer`), per boot (`Boot`, `Restart`), per message of another thread, and for the
parts of a session the agent takes part in: `AcsCall`, `InformTaken`, `TransferPosted`, `SessionOk`, `SessionFail`
(`evcpe_session_terminate_cb`); `AcsSetsHeartbeat` and `AcsSetsUpgradeUrl` are the two parameters whose setters act at once.  A session here does what `CwmpExchange` allows and a little more.

| TLA+ | C |
|---|---|
| `session` | `cpe->session`: `"none"` (NULL), `"open"`, `"stuck"` (an Inform that could not be made or posted, with no callback to come), `"overrun"` (two sessions, one slot; nothing is modelled afterwards) |
| `session_ev`, `periodic_ev` | the timers pending |
| `stored` | the codes in `tr069_event`; `{}` is "none", and "" reads like `{"BOOTSTRAP"}` |
| `events`, `informed` | the repository's event list, and a copy at the moment the Inform was made |
| `flag_acs_url`, `reset_acs_url_flag`, `reauth`, `acs_url`, `tr069_acs` | the failover state |
| `upgrade`, `newBuild` | `tr069_upgrade_flag`, and whether the build time differs from its copy |

Abstracted: the event list is a set; time is not modelled, except that the 0 s session timer
fires before the next 100 ms tick; a queue append is atomic (the unlocked append is a hazard of its own,
listed); sleeps, the retry counter, the value-change and log flags, and the DOWNLOADING
status (never set) are left out; name resolution is the choice `Resolves`.  The log, alarm and periodic statistics
paths that open sessions directly are not modelled.

### Repo
One list of objects of the parameter tree, as `UsbInstalledAppList` and `AppAutoRunBlackList` of the model file
are, with the four things that change it: `AddObject`, `DeleteObject` and `SetParameterValues`, each a whole
call of the ACS (handler, lookup, change of the tree, persistent mark, answer), and `Restart`, which
loses the tree and builds it again from the parameters (`sk_tr069_preload_multipleObject_*_construct`).

| TLA+ | C |
|---|---|
| `slots`, `instances` | the items of `value.multiple.list`, and those whose `obj` is not NULL: a deleted item stays and is used again |
| `size` | `value.multiple.size` |
| `names` | the parameters `usb_install_packagename1`, ...: a value, or `"AddObject"`, `"DeleteObject"` |
| `silent` | a simple parameter with a validated value (`tr069_silent_upgrade`) |
| `answer` | the last response or fault; `number` is the `instance_number` of the response |

`Loaded` and `Dropped` give the two loops of the reconstruction in closed form: how many objects the first adds,
and which the second takes out.  The counter `NumofAPP` is kept by the platform and external.
Abstracted: the path before the list, paths with a second number, `ClassName` (kept like `PackageName`), failing allocations.  The constraint
`MaxNumofAPP` of the model file and the limit of the loop are both 10, and one constant here.

### Evdns, DnsCache
`base` is `struct evdns_base`; each C function that changes it is an operator from a base to a base (`Failed` is `nameserver_failed`,
`Transmit` is `evdns_request_transmit`, `Finished` is `request_finished`, ...), and each event of the loop is an action:
`RequestTimesOut`, `ProbeTimer`, `WriteReady`, `Reply`, `ReadFails`, `RunProbe`.  `DnsCache` composes it with the agent's cache: `AcsUrlSet`
(`sk_set_acs_dns`), `EntryTimer`, `EntryCallback`, and `Get` (`evcpe_dns_cache_get`, a session that opens).

| TLA+ | C |
|---|---|
| `server[s]` | `state`, `timedout`, `choked`, `write_waiting`, and whether the probe timer is pending |
| `req[h]` | server, `tx_count`, `reissue_count`, `transmit_me`, timer, search position; `sentTo` is what the network knows |
| `inflight`, `waiting`, `nin`, `nwait`, `good` | the two queues and the counters kept beside them |
| `deferred` | the callbacks `reply_schedule_callback` has queued |
| `dead` | freed memory was used, and nothing more can be said |

A reply comes from a server the request was sent to, or is none.  `Nets` says what `sendto` returns during one event.
Abstracted: packets, names, transaction ids, lengths of timeouts.  `Codes` has one error for all that a request and a probe treat alike (`notexist` stands for
a malformed, cut or unknown answer too).

### Stun
The thread of `STUN_Work` (`Begin`, `Response`, `ResponseUnusable`, `Compare`, `UdpRequest`, `IpChanged`, then `StopTimer`, `Close`, `End`), the
event thread (`SwitchOff`, `AskAnew`, `StopOld`, `StartNew`: the command; `TimerFires`, `TimerArmed`: one callback in two steps, since the
thread runs meanwhile; `Inform`), and the LAN.  Steps of the thread end where what it shares with the event thread is read or written.
`Punctual` says that a thread begins, and ends within the two seconds the command sleeps; without it the properties that mention it are not claimed.
Left out: a thread that cannot be created (like allocations that fail), and the loop's second condition, `sk_tr069_get_init_status`, which is set to 1 once
(`evcpe.c` 690; the line that would reset it, 553, is commented out).  Time stamps of requests are ordered by `strcmp`; that it is an order is all that is used.

### EvHttp, HttpPromise
`http` is `struct evhttp_connection` with its bufferevent, the far end (`peer`), and `todo`, the calls that have not
returned: a user's callback and a connect are steps of their own, because they may come back in several ways.  `Read` is
`evhttp_read_header` and `evhttp_read_body` with what they call, one piece of a reply at a time.
`HttpPromise` is what the users of a connection rely on: a request goes out once, in order, and ends in one way.  `Fail` of one request is
`FailOldest` there, and an address that cannot be reached `FailAll`, which the promise allows only while nothing was sent.
The functions the agent never calls are listed in the module's header and left out.

### Evbuffer, ByteQueues
A buffer is its chains with `lwd` for `last_with_datap`, the byte count, the frozen ends, and `bad`, an assertion that failed.  One
action per public operation.  `ByteQueues` is what a user sees: queues of bytes.  `Spares` says whether `Add`, `AddReference` and
`RemoveBuffer` also put bytes behind a chain that was left empty (after a read that got nothing, say), which is what finding `buffer_spares` is about.

### EventLoop
The set-up is a callback of no event; a break asked for then is forgotten when the loop begins (`Return`).  `pc` walks through `event_base_loop`: `top`, `wait`, `process`, `callback`, `deferred`.  In a callback any event may be added, deleted or
put off.  `Expire`, the walk of `timeout_process` over the heap, is a recursive function over the
events that are due.  Time is relative: `left[e]` is how far off a timeout is, `lag` the age of `tv_cache`.  Events are on up to three queues; `count`, `watchers`
and `polled` are `event_count`, the counters of `evmap_io`, and what epoll was told.

## 3. Runs

| Run | Module, configuration | Bounds | Shows |
|---|---|---|---|
| `session` | `MCCwmpSession` | 2 methods, 3 calls, 3 outstanding | calls are answered in turn, transfers are reported first, a good end leaves no request unanswered (`SuccessMeansAnswered`), the session ends, and implements `CwmpExchange` |
| `cpe` | `MCCpe` | all calls but traceroute, connection request, awakening, bandwidth; no heartbeat; queue of 1; 1 restart; sessions that fail to open or stall | `OneSessionAtATime`, `InformCarriesStored`, `ReportedBeforeForgotten` |
| `cpe_live` | `MCCpe_live` | local work and traceroutes, heartbeat on or off, awakening, queue of 2, no restart | `ConnectionRequestReported`, `HeartbeatGoesOn`, `OtherServerTried` |
| `repo` | `MCRepo` | list of 4, 2 settings in a call, 2 restarts | `RefusedOnlyWhenFull`, `MarksFollowInstances`, `RestartRestores` |
| `resolver` | `MCDnsCache` | 2 servers, 1 entry (a name or an address), 2 requests in flight, 1 search domain, every error code, the first server's socket may be full | `Consistent`, `DownServerIsProbed`, `RequestIsDriven`, `OneRefresh`, `ResolutionCallsBack` |
| `stun` | `MCStun` | 2 threads, 2 addresses, 1 port, 2 time stamps, 2 ids | `SocketOwned`, `AcsToldOfAddress`, `KeepAliveRuns`, `ConnectionRequestOnce`, `StopsWhenDisabled` |
| `http` | `MCEvHttp` | 3 requests, 5 ways a reply ends, one 100 Continue, 3 ways a connect begins | `RequestDriven`, `IdleWatched`, `AssertionsHold`, `ReplyMatches`, `RequestEnds`, and that the connection implements `HttpPromise` |
| `buffer` | `MCEvbuffer` | 2 buffers, 3 bytes, 3 chains, sizes and limits scaled down | `WellFormed`, and that the buffers implement `ByteQueues` |
| `event_loop` | `MCEventLoop` | 2 events on one descriptor, timeouts of 2 ticks, 1 deferred callback, 2 calls in a callback | `CountersAgree`, `NotBeforeItsTime`, `DueIsRun` |

`cpe_traceroute`, `http_unreachable` and `buffer_spares` end in a violation and are the findings of section 5.

Why the bounds are enough.  A session's callback looks at the heads of its queues and whether they are
empty, so three calls show a queue that fills, drains and fills again, and three outstanding requests a report with the Informs behind it that two challenges add; five challenges in a row
are the code's own limit and are not scaled.  The worker handles one message at a
time and, but for the periodic timer, looks only at the head of the queue: with one message the code itself may add
others (`REAUTH`, `STUN_ONCMD`, `2_PERIODIC` are not bounded), and `cpe_live` has two.  A restart forgets everything but the parameters, so one
restart shows what the parameters carry over.  A list of four has holes at either end and
between instances, two adjacent ones included, which is all that reuse and reconstruction look at; a second restart works on what
the first has built.  The resolver's decisions compare a server with the others, and a request with the limit of
its tries, so two servers, a probe of each and one client, with one retransmission and one reissue, show one of each kind in the way of the others;
with `MaxInflight` of two, requests also wait.  Punctual STUN threads come one after another, so two are enough to show one that ends and its successor; addresses are only compared.
Three requests show one that is sent, its successor, and one behind both, which `evhttp_connection_cb_cleanup` treats differently.
A buffer looks at a chain, its neighbour and the last one; three bytes in three chains give each every form of empty, full and misaligned
(`MinSize`, `CopyMax`, `RealignMax` are scaled so that each test in the code goes either way).  The loop treats an event by its flags; the two events have between them all
of them, share a descriptor, and meet on every queue; `MaxLag` and `MaxLate` only bound how long the clock runs on.
All other variables are finite in the code.  `CHECK_DEADLOCK FALSE` stands where the system may rest: a session that has ended, an agent or a list for which nothing more
is asked, a loop that has ended, and after a bound is reached.

### Fairness
- `CwmpSession`: weak, of `HttpCallback`, because libevent's HTTP client calls back for
  every request, with a reply or after its timeout: this is `RequestEnds` of `EvHttp`.
- `Cpe`: weak, of `Boot`, of the worker tick (an always re-armed timer), of both timers (`DueIsRun` of `EventLoop`), and of `SessionEnd`, which is `SessionEnds` of the session.
- `DnsCache`: weak, of the timers and callbacks of requests, and of a socket that becomes writable with room in it.  Servers need not answer.
- `Stun`: weak, of each thread's steps but the arrival of datagrams, of the end of the timer's callback and of the command's sleep; strong, of `Inform`, because
  the worker, which the command interrupts, comes back to a queued message as long as it is queued.
- `EvHttp`: weak, of the event loop: some event that is due is taken.  The timeout of a request is always among those.  The server owes nothing.
- `EventLoop`: weak, of the loop's steps; strong, of the clock, which goes on whenever the loop waits.

Nothing is assumed of the ACS, of other threads, or of restarts; `SessionEnds` and `SuccessMeansAnswered` say themselves of which ACS they speak (one that stops holding requests and challenges with a
header; one that answers in turn), `ResolutionCallsBack` of which sockets (they stop reporting errors), and the number of calls is a bound.  The liveness properties of `Cpe` let go of agents that are not up, powered
down, or hold a session that is stuck or overrun (`Cut`); those of the layers below let go of states that are the end of what can be said (`dead`, `aborted`).

## 4. Proofs

`CwmpSessionProofs`, for every set of methods and all bounds:
- `TypeCorrect`, `QueuesAlwaysDrained`: from `IInv == TypeOK /\ QueuesDrained`.  `QueuesDrained` (between callbacks no call is
  unanswered and no answer unposted) is what makes the callbacks' guards match the state the queues are in, and is inductive with the types.
- `CallsAlwaysAnsweredInTurn`: from the same invariant, one step per kind of callback.
- `SuccessAlwaysAnswered`: `Outstanding` says what a session owes while it waits: nothing but the request in flight, or an
  Inform in flight behind a report that was refused.  The reply to that Inform does not settle the report, because `SettlesOldest` compares methods, so the session can only fail.
- `ReportedBeforeSuccess`: `Reported` adds that once the Inform is acknowledged no transfer is left to report, while the ACS holds nothing.  It is the
  callback that hears the InformResponse that must post the report, since no later one need: every queue is empty then (`AnsweredAlone`), so the branches before that one do not take it.
- `ImplementsExchange`: the refinement of `CwmpExchange`, step by step: each callback is one move of the exchange or none.

`CpeProofs`, for every configuration that satisfies the stated hypotheses:
- `SessionsNeverOverlap` (no call asks for a traceroute): the invariant `Serial` says why the code's guards are enough: the session timer is only pending while
  there is no open session, and nothing is open before the boot.
- `InformAlwaysCarriesStored` (also: no heartbeat): `Carried` adds that nothing asks for a periodic Inform (`Still`) and that an upgrade is
  recorded at boot and not later (`Settled`), so that no code is stored while a session is open.
- `NothingForgotten` (also: a session ends well only after its Inform was taken, `AcksFirst`): the action
  property `ReportedBeforeForgotten`, from `Carried`.
- `AgentTyped` (no hypothesis): `TypeOK`, split into the groups of variables that handlers change together (`TypedIsTypeOK`), one step per handler.

The hypotheses are not decoration: a traceroute breaks the first (finding `cpe_traceroute`), the heartbeat's Inform leaves out stored codes that
its success resets (`cpe.c` 840, 1310), and a session may end well unheard (section 5).

`RepoProofs`, for every limit, every set of values and any number of calls and restarts: `TypeCorrect`, `SizeAlwaysCounts`, `CapacityNeverLost` and
`MarksAlwaysFollow`, from `IInv == TypeOK /\ SizeCounts /\ RefusedOnlyWhenFull /\ MarksFollowInstances`.  The counter is what makes the rest
work: an object is refused when the counter says so, and only because it is the number of instances (`CountFits`, by the
cardinality of intervals and subsets) is the list then full, and is there a free item or room for another otherwise.  `LeastExists` and `GreatestExists` say what `Min` and `Max`
choose, on which `NewSlot`, `Loaded` and the last write of a call (`AfterSet`) rest.
`RestartAlwaysRestores` needs one fact more, `InARow`: the numbers that were ever used are the first ones, and the list does not reach past them.  Then the loop that
counts objects stops at the last number and not before (`LoadedLeast`), and what the second loop takes out are the holes.

`StunProofs`, for every number of threads, descriptors, addresses and requests:
- `TypeCorrect`: `TypeOK` alone is inductive.
- `SocketsOwned`: `SocketInv` adds that threads come one at a time (`OneThread`, from `Punctual`) and that the one that holds the context has an open descriptor in it.
- `RequestsWakeOnce`: `RequestInv` adds that a request that has woken the agent is not later than the last one accepted, which is what the test of time stamps needs.
- `AcsIsTold`: `ToldInv` ties flag, address and the last address queued to what the ACS was told, for each place the thread can be at between reading a response and comparing.
- `KeepAliveGoesOn`: from `SocketInv`, because only one thread can stop the timer, and it listens no more when it does.

The modules that follow begin with the same few lemmas on queues whose elements are all different (adding, taking out one, what stays), and on
induction over the numbers as a fact about sets, which turns a recursive function that walks a queue into steps that keep an invariant (`Stays`).

`EventLoopProofs`, for every set of events, descriptors and delays: `CountsAreRight` and `TimeoutsAreDue`, from `LoopInv == Sound(Queues) /\ Idle /\ Rest`.
`Sound` is a predicate of the queues as a value, so that each operation (`Watch`, `Unwatch`, `Activate`, `Delete`, `TimeOut`, ...) has one lemma and an action, which makes
several calls, follows from them.  Counts are cardinalities (`Counted`, `Watching`); a timeout that is told is due and off the heap (`OnTime`), which is what another
callback's `event_add` must undo.  `Idle` says where in the round nothing is active.

`EvHttpProofs`, for every set of requests: `NeverAborts`, `OwnReply`, `EventAwaited`, `ClosingNoticed`, and the refinement `PromiseKept`, from
`HttpInv == Settled(http) /\ Attempted`.  `Settled` has six parts: types; the queue and what was sent of it (`QueueOK`); the calls that have not returned, at most one
of each request and none of them reading (`CallsOK`, `TopOK`); the event each state waits for (`StateOK`); and `StreamOK`, the one the rest hangs on: what is on the wire,
in the buffer and still to be asked is, in order, the reply to the request at the head and nothing else.  No property mentions the stream, and none but the types is
inductive without it.  `Attempted` excepts the connection that got no socket.

`DnsCacheProofs`, for all servers, entries, limits, reply codes and results of `sendto`: `CountersAreKept`, `ProbesGoOn`, `RefreshIsOne` and `RequestsAreDriven`, from
`DnsInv == Sound(base) /\ Refreshed`.  `Sound` is a predicate of a base, since every C function is an operator from a base to a base: each has one lemma, and an
action follows from those of the functions it calls.  Its parts: counters and queues without repetition (`Counted`); what each request in flight waits
for, but for those a call is still busy with (`Driven`); at most one callback owed to each handle, and one of timer, probe and callback for a server that is
down, with the same exception (`Watched`); and that a request only waits at the limit or one short of it (`Parked`).  The exceptions are the point: in the
middle of `request_finished`, `nameserver_up` or `search_try_next` the invariant does not hold, and the lemmas say for whom.  What functions that only send may do to servers is
`Sent`, which keeps `Watched` (`SentWatched`).  `Refreshed` ties each named entry to exactly one of its timer and the resolver (`Live`).  `RequestsAreDriven` assumes
`MaxInflight > 1`: `search_try_next` makes the next request before the last has left, so that with room for one only it is parked with nothing in flight (the agent's limit is 64).

`EvbufferProofs`, for any buffers, sizes and limits (`MinSize` and `MaxChains` at least 1, room for two vectors): `BuffersWellFormed` and the refinement
`BytesKept`.  Both assume `~Spares`: nothing is added behind a chain that was left empty, since there the run `buffer_spares` refutes the first.  That restrains `Add`, `AddReference`
and `RemoveBuffer` only; the other operations are proved for every state they meet, chains left empty included.
The invariant is `IInv`: each buffer's chains hold bytes that were put in (`Buffer`), it is `Sane` (the count is that of the bytes in the chains; the pointer is to the last chain with
data, or to the first where there is none; no assertion has failed), and there are at most `MaxChains` of them.
The bytes of a buffer are a concatenation over its chains (`Contents`), which `FlattenIs` solves as a recursion along the list: what it yields for a list that is joined, cut, or changed in one
place (`ContentsConcat`, `ContentsAround`, `ContentsReplaced`, ...) is proved from that once, and nothing later looks at the recursion.  On these rest the lemmas about the functions of `buffer.c`, each of which says that the
result is a buffer and what its bytes are: `DropFacts` (the bytes beyond the first n), `PullUpFacts` (the same bytes), `PutFacts`, `PutFirstFacts`, `ExpandFacts`,
`ExpandFastFacts` (the room it promises, in the chains from the pointer on), `FillFacts` (what was read is spread over those chains and none of it is lost), and those on moving chains from one buffer to
another.  `Kept` says of a step that it keeps `IInv` and is one of `ByteQueues` or changes no queue, one lemma for each action.

Each of these invariants was checked by TLC on the run of its module before it was proved; `DnsInv` also with every function from servers to results of `sendto` as `Nets`.

Only model-checked: everything with fairness (`SessionEnds`, `ConnectionRequestReported`, `HeartbeatGoesOn`, `OtherServerTried`, `ResolutionCallsBack`, `StopsWhenDisabled`,
`RequestEnds`, `DueIsRun`; liveness and ENABLED are out of the prover's reach).
Every other property of a passing run is stated by a theorem.  `LastWithData` is the property of the finding `buffer_spares`, and part of `WellFormed`.

## 5. Findings

| Run | What the code does |
|---|---|
| `cpe_traceroute` | a traceroute result opens a session over one in flight |
| `http_unreachable` | an address that cannot be reached is reported during the call that connects; a callback that frees the connection is then followed by a write into it |
| `buffer_spares` | bytes added behind a chain left empty are not found by the pointer to the last chain with data, and may be freed or overwritten |

Each quotes the line it contradicts in `PROJECT.json`.

Other things the models show.  Most contradict no line of the repository; all are modelled as they are, and a property that would be hurt says what it lets go of:
- sessions: a 401 to an empty POST or to an answer reads through the null head of `req_out` (`crash`); an empty reply with any status but 0, 401, 404, 408 ends the session
  well, so the boot status is reset although no Inform was taken; a TransferComplete refused with a 401 is not sent again: a new Inform is posted behind it, the answer to that
  settles nothing, the session fails, and the flag is down;
- failover: a backup server that works is not made the main one; a queued switch is carried out after a session has succeeded; a device whose
  servers are both down when it boots stays silent (`first_connect` blocks the periodic timer, which is why `HeartbeatGoesOn` excepts it);
- lists: an object deleted at the end of the list is back after a restart, and `NumofAPP` does not count it; AddObject answers a number that is one too small; a value that is refused is answered as set (`repo.c` 323);
- resolver: a name error in answer to a probe frees the probe twice; SERVFAIL is not left to time out as its comment says, but fails the request; a resolution that failed is retried without a delay; setting the ACS URL again adds a second entry for its host, which is refreshed for ever and never found; with
  `max-inflight:1` a search that goes on waits with nothing in flight;
- STUN: a thread that does not end within two seconds shares the context with its successor, and a pending timer is overwritten (`dead`);
- HTTP: after a `socket()` that fails while the next request is being sent nothing is waited for, nor after a connect that fails at once, when the state is set to connecting behind its callback (`unattempted` stands for both); bytes a server sends without being asked trip an assertion (`AssertionsHold` is of servers that answer what they are asked);
- event loop: `event_add` without a timeout leaves the old period of a persistent event in place; a timeout found due in the same round as data hides the data from the callback until the next round.

## 6. Plan

1. done: `CwmpExchange`, `CwmpSession`, `Cpe`, `Repo`, `Stun`, `EvHttp`, `HttpPromise`, `EventLoop`, `Evdns`, `DnsCache`, `Evbuffer`, `ByteQueues`, and their proofs;
2. proofs: what still holds of the buffers with `Spares`;
3. `Agent`: `Cpe` composed with `CwmpExchange`, call handlers included;
4. `RepoWalk`: GetParameterNames and GetParameterValues as functions of the tree, with their notification and access lists;
5. `Transfers`: the slots of `accessor.c` and the report of a finished transfer across a restart;
6. `WorkerQueue`: the unlocked list shared by threads, at the grain of its pointer writes;
7. `XmlStack`, `MsgXml`: the element stack and dispatch as algorithms; `HttpAuth`: challenge parsing and retry.

### Not modelled
Java service, JNI glue, binder helper and tools (no protocol state of their own); of libevent, what the agent does not use (the HTTP server but for connection
requests, RPC, filters and rate limits, other backends, thread support, which is never set up); the persister (compiled out) and the log upload
thread (its start is commented out, `evcpe.c` 286); the digest computation (a pure function with test vectors); packet formats of DNS
and STUN; and the device settings behind the getters and setters, some nine thousand lines of one pair per parameter that change nothing but the value they are named for.
