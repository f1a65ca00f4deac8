-------------------------------- MODULE Stun --------------------------------
(***************************************************************************)
(* NAT traversal (stun.c, stun_ucr.c, sk_tr069_stun_on_cmd in accessor.c): *)
(* a thread that asks a STUN server for the device's public address and    *)
(* listens for connection requests over UDP, a keep-alive timer on the     *)
(* event thread, and the command that starts or stops it, which the worker *)
(* runs on the event thread too.  The thread tells the worker of a new     *)
(* address, and of a request, by messages.                                 *)
(*                                                                         *)
(* Between the event thread and the STUN thread there is no lock: they     *)
(* meet in the flag, the context, the timer and the socket.  The two       *)
(* seconds the command sleeps are all that lets an old thread end.         *)
(*                                                                         *)
(* Abstracted: the packets (a response carries a mapped address, or none); *)
(* that a datagram is only read when it is there; the 31 idle rounds after *)
(* which the local address is looked at; names and signatures of a         *)
(* connection request, which are compared to no effect; how time stamps    *)
(* are ordered (by strcmp); a thread that cannot be created; and the       *)
(* status sk_tr069_get_init_status, which is set once and never reset.     *)
(***************************************************************************)
EXTENDS Integers, FiniteSets

CONSTANTS
    Threads,   \* STUN threads that may live at once
    Fds,       \* descriptors the system may give
    IPs,       \* IPv4 addresses: positive numbers
    Ports,     \* ports
    Stamps,    \* time stamps of connection requests: 0 when there is none
    Ids,       \* their message ids
    Punctual,  \* whether a thread starts before the next command, and ends
               \* before the one after it, and within the two seconds
    MaxWakes   \* bound: messages counted per connection request

ASSUME StunAssumption ==
    /\ IPs \subseteq Nat \ {0} /\ Fds \subseteq Nat \ {0}
    /\ Ports \subseteq Nat \ {0}
    /\ Stamps \subseteq Nat /\ Punctual \in BOOLEAN /\ MaxWakes \in Nat

VARIABLES
    enabled,    \* Stun_Enable_Flag
    context,    \* m_stun_context
    sockets,    \* open descriptors of STUN
    timer,      \* stun_nat_event is pending
    inCallback, \* STUN_TimeOut_Cb has sent, and not yet armed the timer again
    thread,     \* where each STUN thread is
    command,    \* "idle", or "stopping" while STUN_start sleeps
    address,    \* m_UDPConnectionRequestAddress
    last,       \* m_last_UDPConnectionRequestAddress
    natFlag,    \* g_nat_stun_flag
    changed,    \* a VALUE_CHANGE message is queued
    told,       \* what the last VALUE CHANGE Inform said of NAT
    request,    \* s_lastOKUCR
    woken,      \* CONNECTION_REQUEST messages queued for each request
    lan,        \* the address of the device: the parameter lan_ip
    dead        \* a pending timer was overwritten

asking  == <<address, last, natFlag, changed, told>>
waking  == <<request, woken>>
vars == <<enabled, context, sockets, timer, inCallback, thread, command,
          asking, waking, lan, dead>>

None     == <<0, -1>>   \* the empty string
Unmapped == <<0, 0>>    \* 0.0.0.0:0, of a response without an address
Requests == [ts : Stamps, id : Ids]
NoRequest == [ts |-> 0, id |-> "none"]
NoContext == [fd |-> 0, local |-> 0, port |-> 0, nat |-> FALSE]

\* The address of a device behind no NAT is written in the byte order of the
\* host, which is not that of the network.
Swapped(ip) == -ip
Addresses == ((IPs \cup {Swapped(i) : i \in IPs}) \X (Ports \cup {0}))
             \cup {None, Unmapped}

Running == {t \in Threads : thread[t] # "none"}
\* What a VALUE CHANGE Inform says of NAT: the address only if there is one.
Report  == [flag |-> natFlag, address |-> IF natFlag = 1 THEN address ELSE None]

Init ==
    /\ enabled = FALSE /\ context = NoContext /\ sockets = {}
    /\ timer = FALSE /\ inCallback = FALSE
    /\ thread = [t \in Threads |-> "none"]
    /\ command = "idle"
    /\ address = None /\ last = None /\ natFlag = -1 /\ changed = FALSE
    /\ told = [flag |-> -1, address |-> None]
    /\ request = NoRequest /\ woken = [r \in Requests |-> 0]
    /\ lan \in IPs
    /\ dead = FALSE

\* The event thread is free for another event.
EventThread == ~dead /\ command = "idle" /\ ~inCallback

-----------------------------------------------------------------------------
\* sk_tr069_stun_on_cmd: STUN is not enabled, or its server not known.
SwitchOff ==
    /\ EventThread
    /\ enabled' = FALSE /\ natFlag' = 0 /\ changed' = TRUE
    /\ UNCHANGED <<context, sockets, timer, inCallback, thread, command,
                   address, last, told, waking, lan, dead>>

\* STUN_OnCmd, once the shutdown has begun: ask again, and tell anew.
AskAnew ==
    /\ EventThread /\ enabled
    /\ last' = None
    /\ UNCHANGED <<enabled, context, sockets, timer, inCallback, thread,
                   command, address, natFlag, changed, told, waking, lan, dead>>

\* STUN_start: a thread that runs is told to stop, and given two seconds.
StopOld ==
    /\ EventThread /\ enabled
    /\ enabled' = FALSE /\ command' = "stopping"
    /\ UNCHANGED <<context, sockets, timer, inCallback, thread, asking, waking,
                   lan, dead>>

\* STUN_start, after that, or at once: the context is cleared with the timer
\* that is in it, and a thread created.
StartNew == \E fd \in Fds \cup {0}, t \in Threads :
    /\ ~dead /\ ~inCallback
    /\ command = "stopping" \/ ~enabled
    /\ thread[t] = "none" /\ (Punctual => Running = {})
    /\ fd \notin sockets
    /\ command' = "idle"
    /\ dead' = timer
    /\ context' = [NoContext EXCEPT !.fd = fd, !.local = IF fd = 0 THEN 0 ELSE lan]
    /\ sockets' = sockets \cup ({fd} \ {0})
    /\ thread' = IF fd = 0 THEN thread ELSE [thread EXCEPT ![t] = "starting"]
    /\ UNCHANGED <<enabled, timer, inCallback, asking, waking, lan>>

\* STUN_TimeOut_Cb, in two steps: the STUN thread may stop the timer between.
TimerFires ==
    /\ EventThread /\ timer
    /\ timer' = FALSE /\ inCallback' = TRUE
    /\ UNCHANGED <<enabled, context, sockets, thread, command, asking, waking,
                   lan, dead>>

\* Mutant of TimerArmed: a keep-alive is sent once.
TimerLeft ==
    /\ ~dead /\ inCallback
    /\ inCallback' = FALSE
    /\ UNCHANGED <<enabled, context, sockets, timer, thread, command, asking,
                   waking, lan, dead>>

TimerArmed ==
    /\ ~dead /\ inCallback
    /\ timer' = TRUE /\ inCallback' = FALSE
    /\ UNCHANGED <<enabled, context, sockets, thread, command, asking, waking,
                   lan, dead>>

\* The worker handles VALUE_CHANGE: the Inform carries what is known then.
Inform ==
    /\ EventThread /\ changed
    /\ changed' = FALSE /\ told' = Report
    /\ UNCHANGED <<enabled, context, sockets, timer, inCallback, thread,
                   command, address, last, natFlag, waking, lan, dead>>

-----------------------------------------------------------------------------
Goes(t, from, to) ==
    /\ ~dead
    /\ thread[t] = from
    /\ thread' = [thread EXCEPT ![t] = to]

\* STUN_Work, up to its loop.
Begin(t) ==
    /\ Goes(t, "starting", "loop")
    /\ enabled' = TRUE /\ timer' = TRUE
    /\ dead' = timer
    /\ UNCHANGED <<context, sockets, inCallback, command, asking, waking, lan>>

\* Mutant of Response: it is taken without a local address.
ResponseAnyway(t) == \E mapped \in (IPs \X Ports) \cup {Unmapped} :
    /\ enabled /\ context.fd \in sockets
    /\ LET nat == mapped[1] # lan
       IN  /\ Goes(t, "loop", IF nat THEN "nat" ELSE "direct")
           /\ context' = [context EXCEPT !.local = lan, !.nat = nat,
                             !.port = IF nat THEN mapped[2] ELSE @]
           /\ address' = IF nat THEN mapped ELSE <<Swapped(lan), context.port>>
    /\ UNCHANGED <<enabled, sockets, timer, inCallback, command, last, natFlag,
                   changed, told, waking, lan, dead>>

\* STUN_Receive, a response: the address is set at once, and compared with
\* the last one told in the next step.  Without an address in the response it
\* is 0.0.0.0:0.
Response(t) == \E mapped \in (IPs \X Ports) \cup {Unmapped} :
    /\ enabled /\ context.fd \in sockets /\ lan # 0
    /\ LET nat == mapped[1] # lan
       IN  /\ Goes(t, "loop", IF nat THEN "nat" ELSE "direct")
           /\ context' = [context EXCEPT !.local = lan, !.nat = nat,
                             !.port = IF nat THEN mapped[2] ELSE @]
           /\ address' = IF nat THEN mapped ELSE <<Swapped(lan), context.port>>
    /\ UNCHANGED <<enabled, sockets, timer, inCallback, command, last, natFlag,
                   changed, told, waking, lan, dead>>

\* The same without a local address: only that is noted.
ResponseUnusable(t) ==
    /\ enabled /\ context.fd \in sockets /\ lan = 0
    /\ Goes(t, "loop", "loop")
    /\ context' = [context EXCEPT !.local = 0]
    /\ UNCHANGED <<enabled, sockets, timer, inCallback, command, asking, waking,
                   lan, dead>>

\* Mutant of Compare: a device that is behind no NAT any more says nothing.
CompareNat(t) == \E pc \in {"nat", "direct"} :
    /\ Goes(t, pc, "loop")
    /\ natFlag' = IF address # last /\ pc = "nat" THEN 1 ELSE natFlag
    /\ changed' = (changed \/ (address # last /\ pc = "nat"))
    /\ last' = address
    /\ UNCHANGED <<enabled, context, sockets, timer, inCallback, command,
                   address, told, waking, lan, dead>>

Compare(t) == \E pc \in {"nat", "direct"} :
    /\ Goes(t, pc, "loop")
    /\ last' = address
    /\ IF address # last
       THEN natFlag' = (IF pc = "nat" THEN 1 ELSE 0) /\ changed' = TRUE
       ELSE UNCHANGED <<natFlag, changed>>
    /\ UNCHANGED <<enabled, context, sockets, timer, inCallback, command,
                   address, told, waking, lan, dead>>

\* Mutant of Fresh: a request of the same second is taken.
FreshOrSame(r) == request.ts = 0 \/ r.ts >= request.ts

\* STUN_UCR_Valid: later than the last one taken, and not the same.
Fresh(r) == request.ts = 0 \/ (r.ts > request.ts /\ r.id # request.id)

\* STUN_Receive, a connection request over UDP.
UdpRequest(t) == \E r \in Requests :
    /\ enabled /\ context.fd \in sockets
    /\ Goes(t, "loop", "loop")
    /\ Fresh(r)
    /\ woken[r] < MaxWakes
    /\ request' = r /\ woken' = [woken EXCEPT ![r] = @ + 1]
    /\ UNCHANGED <<enabled, context, sockets, timer, inCallback, command,
                   asking, lan, dead>>

\* STUN_CheckIPChanged, after many idle rounds: what was told is forgotten.
IpChanged(t) ==
    /\ enabled
    /\ Goes(t, "loop", "loop")
    /\ lan # 0 /\ lan # context.local
    /\ context' = [context EXCEPT !.local = lan]
    /\ last' = None
    /\ UNCHANGED <<enabled, sockets, timer, inCallback, command, address,
                   natFlag, changed, told, waking, lan, dead>>

\* Mutant of StopTimer: a thread without a local address does not look.
StopTimerWhenUp(t) ==
    /\ ~enabled /\ lan # 0
    /\ Goes(t, "loop", "closing")
    /\ timer' = FALSE
    /\ UNCHANGED <<enabled, context, sockets, inCallback, command, asking,
                   waking, lan, dead>>

\* The end of STUN_Work, when the flag is clear.
StopTimer(t) ==
    /\ ~enabled
    /\ Goes(t, "loop", "closing")
    /\ timer' = FALSE
    /\ UNCHANGED <<enabled, context, sockets, inCallback, command, asking,
                   waking, lan, dead>>

\* Mutant of Close: the descriptor is forgotten, not closed.
Forget(t) ==
    /\ Goes(t, "closing", "ending")
    /\ context' = [context EXCEPT !.fd = -1]
    /\ UNCHANGED <<enabled, sockets, timer, inCallback, command, asking,
                   waking, lan, dead>>

Close(t) ==
    /\ Goes(t, "closing", "ending")
    /\ sockets' = sockets \ {context.fd}
    /\ context' = [context EXCEPT !.fd = IF @ = 0 THEN 0 ELSE -1]
    /\ UNCHANGED <<enabled, timer, inCallback, command, asking, waking, lan,
                   dead>>

End(t) ==
    /\ Goes(t, "ending", "none")
    /\ enabled' = FALSE
    /\ UNCHANGED <<context, sockets, timer, inCallback, command, asking,
                   waking, lan, dead>>

\* Outside: the device gets another address, or loses it.
LanChanges == \E ip \in IPs \cup {0} :
    /\ ~dead
    /\ lan' = ip
    /\ UNCHANGED <<enabled, context, sockets, timer, inCallback, thread,
                   command, asking, waking, dead>>

Leaving(t) == StopTimer(t) \/ Close(t) \/ End(t)

Next ==
    \/ SwitchOff \/ AskAnew \/ StopOld \/ StartNew
    \/ TimerFires \/ TimerArmed \/ Inform
    \/ \E t \in Threads :
          \/ Begin(t) \/ Response(t) \/ ResponseUnusable(t) \/ Compare(t)
          \/ UdpRequest(t) \/ IpChanged(t) \/ Leaving(t)
    \/ LanChanges

\* The system runs the threads, and the event loop its callbacks; the worker
\* comes to every message in the end.
Fairness ==
    /\ \A t \in Threads : /\ WF_vars(Begin(t)) /\ WF_vars(Compare(t))
                          /\ WF_vars(Leaving(t))
    /\ WF_vars(TimerArmed) /\ WF_vars(StartNew /\ command = "stopping")
    /\ SF_vars(Inform)

Spec == Init /\ [][Next]_vars /\ Fairness

-----------------------------------------------------------------------------
\* The state is well formed.
TypeOK ==
    /\ enabled \in BOOLEAN /\ timer \in BOOLEAN /\ inCallback \in BOOLEAN
    /\ changed \in BOOLEAN /\ dead \in BOOLEAN
    /\ context \in [fd : Fds \cup {0, -1}, local : IPs \cup {0},
                    port : Ports \cup {0}, nat : BOOLEAN]
    /\ sockets \subseteq Fds
    /\ thread \in [Threads -> {"none", "starting", "loop", "nat", "direct",
                               "closing", "ending"}]
    /\ command \in {"idle", "stopping"}
    /\ address \in Addresses /\ last \in Addresses
    /\ natFlag \in {-1, 0, 1}
    /\ told \in [flag : {-1, 0, 1}, address : Addresses]
    /\ request \in Requests \cup {NoRequest}
    /\ woken \in [Requests -> 0..MaxWakes]
    /\ lan \in IPs \cup {0}

Holds(t) == thread[t] \in {"starting", "loop", "nat", "direct", "closing"}
Listens(t) == thread[t] \in {"loop", "nat", "direct"}

\* When threads come one after another, the open sockets are the one in the
\* context of the thread that lives, and none when no thread does: switching
\* STUN on and off for ever takes no more than one descriptor.
SocketOwned ==
    Punctual => sockets = IF \E t \in Threads : Holds(t) THEN {context.fd} ELSE {}

Compares(t) == thread[t] \in {"nat", "direct"}

\* What the last Inform that was made says of NAT and of the address is what the
\* agent would say now, or another is on its way: a VALUE CHANGE is queued, or the thread is about to
\* compare.  This holds of every order of answers, of switching off and of
\* Informs, with no lock between the two threads.  (It would not with two
\* threads: one may announce what the other one is about to replace.)
AcsToldOfAddress ==
    Punctual => (told = Report \/ changed \/ \E t \in Threads : Compares(t))

\* While a thread listens, its keep-alive timer runs: the mapping does not
\* lapse in silence.
KeepAliveRuns ==
    (Punctual /\ ~dead /\ \E t \in Threads : Listens(t)) => (timer \/ inCallback)

\* A connection request over UDP that comes twice, or after a later one, wakes
\* the agent once, over restarts of STUN too.
ConnectionRequestOnce == \A r \in Requests : r.ts # 0 => woken[r] <= 1

\* A thread that listens when STUN is switched off ends.
StopsWhenDisabled ==
    \A t \in Threads :
        (~enabled /\ Listens(t)) ~> (thread[t] = "none" \/ enabled \/ dead)
=============================================================================
