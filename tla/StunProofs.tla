----------------------------- MODULE StunProofs -----------------------------
(***************************************************************************)
(* Theorems about Stun: its state is well formed, one descriptor is open   *)
(* while a thread lives and none otherwise, the ACS is told of every       *)
(* address, a connection request wakes the agent once, and the keep-alive  *)
(* of a thread that listens goes on.                                       *)
(***************************************************************************)
EXTENDS Stun, TLAPS

USE StunAssumption

\* A step of one thread moves that thread only.
LEMMA Moves ==
    ASSUME TypeOK, NEW t \in Threads, NEW from, NEW to, Goes(t, from, to)
    PROVE  /\ thread[t] = from /\ thread'[t] = to
           /\ \A u \in Threads : u # t => thread'[u] = thread[u]
  BY DEF Goes, TypeOK

-----------------------------------------------------------------------------
\* Every address the device may announce is one.
LEMMA AddressesHold ==
    /\ None \in Addresses /\ Unmapped \in Addresses
    /\ \A ip \in IPs, p \in Ports \cup {0} : <<ip, p>> \in Addresses
    /\ \A ip \in IPs, p \in Ports \cup {0} : <<Swapped(ip), p>> \in Addresses
    /\ \A ip \in IPs, p \in Ports \cup {0} :
          <<ip, p>> # None /\ <<Swapped(ip), p>> # None
    /\ Unmapped # None
<1>1. None \in Addresses /\ Unmapped \in Addresses
  BY DEF Addresses
<1>2. ASSUME NEW ip \in IPs, NEW p \in Ports \cup {0}
      PROVE  <<ip, p>> \in Addresses /\ <<Swapped(ip), p>> \in Addresses
  BY DEF Addresses
<1>3. ASSUME NEW ip, NEW p \in Ports \cup {0}
      PROVE  <<ip, p>> # None
  BY DEF None
<1>4. Unmapped # None
  BY DEF Unmapped, None
<1> QED BY <1>1, <1>2, <1>3, <1>4

\* A response sets an address, and it is not the empty string.
LEMMA ResponseSets ==
    ASSUME TypeOK, NEW t \in Threads, Response(t)
    PROVE  /\ address' \in Addresses /\ address' # None
           /\ context' \in [fd : Fds \cup {0, -1}, local : IPs \cup {0},
                            port : Ports \cup {0}, nat : BOOLEAN]
           /\ context'.fd = context.fd
<1>1. PICK mapped \in (IPs \X Ports) \cup {Unmapped} :
         LET nat == mapped[1] # lan
         IN  /\ context' = [context EXCEPT !.local = lan, !.nat = nat,
                               !.port = IF nat THEN mapped[2] ELSE @]
             /\ address' = IF nat THEN mapped ELSE <<Swapped(lan), context.port>>
  BY DEF Response
<1>2. lan \in IPs /\ context.port \in Ports \cup {0}
  BY DEF Response, TypeOK
<1>3. mapped \in Addresses /\ mapped # None /\ mapped[2] \in Ports \cup {0}
  <2>1. CASE mapped = Unmapped
    BY <2>1, AddressesHold DEF Unmapped
  <2>2. CASE mapped \in IPs \X Ports
    <3>1. mapped = <<mapped[1], mapped[2]>>
      BY <2>2
    <3>2. mapped[1] \in IPs /\ mapped[2] \in Ports
      BY <2>2
    <3> QED BY <3>1, <3>2, AddressesHold
  <2> QED BY <2>1, <2>2
<1>4. address' \in Addresses /\ address' # None
  BY <1>1, <1>2, <1>3, AddressesHold
<1>5. context' \in [fd : Fds \cup {0, -1}, local : IPs \cup {0},
                    port : Ports \cup {0}, nat : BOOLEAN]
  BY <1>1, <1>2, <1>3 DEF TypeOK
<1>6. context'.fd = context.fd
  BY <1>1 DEF TypeOK
<1> QED BY <1>4, <1>5, <1>6

\* A step of the command, of the timer or of the worker keeps the state well
\* formed.
LEMMA EventThreadKeepsType ==
    ASSUME TypeOK,
           \/ SwitchOff \/ AskAnew \/ StopOld \/ StartNew
           \/ TimerFires \/ TimerArmed \/ Inform \/ LanChanges
    PROVE  TypeOK'
<1>1. CASE SwitchOff
  <2>1. enabled' \in BOOLEAN /\ changed' \in BOOLEAN
    BY <1>1, Zenon DEF SwitchOff
  <2>2. natFlag' = 0
        /\ UNCHANGED <<context, sockets, timer, inCallback, thread, command,
                       address, last, told, waking, lan, dead>>
    BY <1>1 DEF SwitchOff
  <2> QED BY <2>1, <2>2 DEF TypeOK, waking
<1>2. CASE AskAnew
  BY <1>2, AddressesHold DEF TypeOK, AskAnew, waking
<1>3. CASE StopOld
  <2>1. enabled' \in BOOLEAN
    BY <1>3, Zenon DEF StopOld
  <2> QED BY <1>3, <2>1 DEF TypeOK, StopOld, asking, waking
<1>4. CASE StartNew
  <2>1. PICK fd \in Fds \cup {0}, t \in Threads :
          /\ context' = [NoContext EXCEPT !.fd = fd,
                                          !.local = IF fd = 0 THEN 0 ELSE lan]
          /\ sockets' = sockets \cup ({fd} \ {0})
          /\ thread' = IF fd = 0 THEN thread ELSE [thread EXCEPT ![t] = "starting"]
    BY <1>4 DEF StartNew
  <2>2. context' \in [fd : Fds \cup {0, -1}, local : IPs \cup {0},
                      port : Ports \cup {0}, nat : BOOLEAN]
    BY <2>1 DEF TypeOK, NoContext
  <2>3. sockets' \subseteq Fds
    BY <2>1 DEF TypeOK
  <2>4. thread' \in [Threads -> {"none", "starting", "loop", "nat", "direct",
                                 "closing", "ending"}]
    BY <2>1 DEF TypeOK
  <2>5. command' = "idle" /\ dead' = timer
        /\ UNCHANGED <<enabled, timer, inCallback, asking, waking, lan>>
    BY <1>4 DEF StartNew
  <2>6. dead' \in BOOLEAN /\ timer' \in BOOLEAN
    BY <2>5, Zenon DEF TypeOK
  <2> QED BY <2>2, <2>3, <2>4, <2>5, <2>6 DEF TypeOK, asking, waking
<1>5. CASE TimerFires
  <2>1. timer' \in BOOLEAN /\ inCallback' \in BOOLEAN
    BY <1>5, Zenon DEF TimerFires
  <2> QED BY <1>5, <2>1 DEF TypeOK, TimerFires, asking, waking
<1>6. CASE TimerArmed
  <2>1. timer' \in BOOLEAN /\ inCallback' \in BOOLEAN
    BY <1>6, Zenon DEF TimerArmed
  <2> QED BY <1>6, <2>1 DEF TypeOK, TimerArmed, asking, waking
<1>7. CASE Inform
  <2>1. told' \in [flag : {-1, 0, 1}, address : Addresses]
    BY <1>7, AddressesHold DEF TypeOK, Inform, Report
  <2>2. changed' \in BOOLEAN
    BY <1>7, Zenon DEF Inform
  <2> QED BY <1>7, <2>1, <2>2 DEF TypeOK, Inform, waking
<1>8. CASE LanChanges
  BY <1>8 DEF TypeOK, LanChanges, asking, waking
<1> QED BY <1>1, <1>2, <1>3, <1>4, <1>5, <1>6, <1>7, <1>8

\* So does a step of a STUN thread.
LEMMA ThreadKeepsType ==
    ASSUME TypeOK, NEW t \in Threads,
           \/ Begin(t) \/ Response(t) \/ ResponseUnusable(t) \/ Compare(t)
           \/ UdpRequest(t) \/ IpChanged(t) \/ Leaving(t)
    PROVE  TypeOK'
<1>1. CASE Begin(t)
  <2>1. enabled' \in BOOLEAN /\ timer' \in BOOLEAN
    BY <1>1, Zenon DEF Begin
  <2>2. dead' \in BOOLEAN
    BY <1>1, Zenon DEF TypeOK, Begin
  <2>3. thread' \in [Threads -> {"none", "starting", "loop", "nat", "direct",
                                 "closing", "ending"}]
    BY <1>1 DEF TypeOK, Begin, Goes
  <2> QED BY <1>1, <2>1, <2>2, <2>3 DEF TypeOK, Begin, asking, waking
<1>2. CASE Response(t)
  <2>1. thread' \in [Threads -> {"none", "starting", "loop", "nat", "direct",
                                 "closing", "ending"}]
    BY <1>2 DEF TypeOK, Response, Goes
  <2> QED BY ZenonT(30), <1>2, <2>1, ResponseSets DEF TypeOK, Response, waking
<1>3. CASE Compare(t)
  BY ZenonT(30), <1>3 DEF TypeOK, Compare, Goes, waking
<1>4. CASE UdpRequest(t)
  <2>1. PICK r \in Requests :
          /\ woken[r] < MaxWakes
          /\ request' = r /\ woken' = [woken EXCEPT ![r] = @ + 1]
    BY <1>4 DEF UdpRequest
  <2>2. woken[r] + 1 \in 0..MaxWakes
    BY <2>1 DEF TypeOK
  <2>3. woken' \in [Requests -> 0..MaxWakes]
    BY <2>1, <2>2 DEF TypeOK
  <2>4. thread' = thread
    BY <1>4 DEF TypeOK, UdpRequest, Goes
  <2> QED BY <1>4, <2>1, <2>3, <2>4 DEF TypeOK, UdpRequest, asking
<1>5. CASE IpChanged(t)
  <2>1. thread' = thread
    BY <1>5 DEF TypeOK, IpChanged, Goes
  <2> QED BY <1>5, <2>1, AddressesHold DEF TypeOK, IpChanged, waking
<1>6. CASE Leaving(t)
  <2>1. CASE StopTimer(t)
    <3>1. timer' \in BOOLEAN
      BY <2>1, Zenon DEF StopTimer
    <3> QED BY <2>1, <3>1 DEF TypeOK, StopTimer, Goes, asking, waking
  <2>2. CASE Close(t)
    BY <2>2 DEF TypeOK, Close, Goes, asking, waking
  <2>3. CASE End(t)
    <3>1. enabled' \in BOOLEAN
      BY <2>3, Zenon DEF End
    <3> QED BY <2>3, <3>1 DEF TypeOK, End, Goes, asking, waking
  <2> QED BY <1>6, <2>1, <2>2, <2>3 DEF Leaving
<1>7. CASE ResponseUnusable(t)
  <2>1. thread' = thread
    BY <1>7 DEF TypeOK, ResponseUnusable, Goes
  <2> QED BY <1>7, <2>1 DEF TypeOK, ResponseUnusable, asking, waking
<1> QED BY <1>1, <1>2, <1>3, <1>4, <1>5, <1>6, <1>7

\* Every step of thread, event thread and LAN keeps the types.
LEMMA TypeOKStep == TypeOK /\ [Next]_vars => TypeOK'
<1> SUFFICES ASSUME TypeOK, [Next]_vars PROVE TypeOK'
  OBVIOUS
<1>1. CASE UNCHANGED vars
  BY <1>1 DEF TypeOK, vars, asking, waking
<1>2. CASE Next
  BY <1>2, EventThreadKeepsType, ThreadKeepsType DEF Next
<1> QED BY <1>1, <1>2

\* STUN begins off, with no thread.
LEMMA InitTypeOK == Init => TypeOK
<1> SUFFICES ASSUME Init PROVE TypeOK
  OBVIOUS
<1>1. woken \in [Requests -> 0..MaxWakes]
  BY DEF Init
<1>2. context \in [fd : Fds \cup {0, -1}, local : IPs \cup {0},
                   port : Ports \cup {0}, nat : BOOLEAN]
  BY DEF Init, NoContext
<1> QED BY <1>1, <1>2, AddressesHold DEF Init, TypeOK

\* With any threads, addresses and requests, punctual or not, the state of
\* STUN is well formed.
THEOREM TypeCorrect == Spec => []TypeOK
<1>1. Init => TypeOK
  BY InitTypeOK
<1>2. TypeOK /\ [Next]_vars => TypeOK'
  BY TypeOKStep
<1> QED BY <1>1, <1>2, PTL DEF Spec
-----------------------------------------------------------------------------
(* Descriptors.  With punctual threads only one runs: the socket in its      *)
(* context is the open one until it closes it.                               *)
OneThread == \A t, u \in Running : t = u

SocketInv ==
    Punctual => /\ OneThread
                /\ SocketOwned
                /\ (\E t \in Threads : Holds(t)) => context.fd \in Fds

\* Every step keeps the context with the one thread that holds it.
LEMMA SocketStep == TypeOK /\ SocketInv /\ [Next]_vars => SocketInv'
<1> SUFFICES ASSUME TypeOK, SocketInv, [Next]_vars, Punctual
             PROVE  /\ OneThread'
                    /\ SocketOwned'
                    /\ ((\E t \in Threads : Holds(t)) => context.fd \in Fds)'
  BY Zenon DEF SocketInv
<1>1. /\ OneThread
      /\ sockets = IF \E t \in Threads : Holds(t) THEN {context.fd} ELSE {}
      /\ (\E t \in Threads : Holds(t)) => context.fd \in Fds
  BY DEF SocketInv, SocketOwned
<1>2. CASE /\ context'.fd = context.fd /\ sockets' = sockets
           /\ \A t \in Threads : Holds(t)' <=> Holds(t)
           /\ Running' \subseteq Running
  BY <1>1, <1>2 DEF SocketOwned, OneThread
<1>3. CASE StartNew
  <2>1. PICK fd \in Fds \cup {0}, t \in Threads :
          /\ Running = {}
          /\ fd \notin sockets
          /\ context' = [NoContext EXCEPT !.fd = fd,
                                          !.local = IF fd = 0 THEN 0 ELSE lan]
          /\ sockets' = sockets \cup ({fd} \ {0})
          /\ thread' = IF fd = 0 THEN thread ELSE [thread EXCEPT ![t] = "starting"]
    BY <1>3 DEF StartNew
  <2>2. ~ \E u \in Threads : Holds(u)
    BY <2>1 DEF Running, Holds
  <2>3. sockets = {} /\ context'.fd = fd
    BY <1>1, <2>1, <2>2 DEF NoContext
  <2>4. CASE fd = 0
    BY <2>1, <2>2, <2>3, <2>4 DEF SocketOwned, OneThread, Holds, Running
  <2>5. CASE fd # 0
    <3>1. thread'[t] = "starting" /\ \A u \in Threads : u # t => thread'[u] = "none"
      BY <2>1, <2>5 DEF TypeOK, Running
    <3>2. Holds(t)' /\ Running' = {t}
      BY <3>1 DEF Holds, Running
    <3>3. sockets' = {fd} /\ fd \in Fds
      BY <2>1, <2>3, <2>5
    <3> QED BY <2>3, <3>2, <3>3 DEF SocketOwned, OneThread
  <2> QED BY <2>4, <2>5
<1>4. ASSUME NEW t \in Threads, Close(t) PROVE
         OneThread' /\ SocketOwned' /\ ~ (\E u \in Threads : Holds(u))'
  <2>1. thread[t] = "closing" /\ thread'[t] = "ending"
        /\ \A u \in Threads : u # t => thread'[u] = thread[u]
    BY <1>4, Moves DEF Close
  <2>2. Running = {t} /\ Running' = {t}
    BY <1>1, <2>1 DEF OneThread, Running
  <2>3. \A u \in Threads : ~ Holds(u)'
    BY <2>1, <2>2 DEF Running, Holds
  <2>4. Holds(t)
    BY <2>1 DEF Holds
  <2>5. sockets' = {}
    BY <1>1, <1>4, <2>4 DEF Close
  <2> QED BY <2>2, <2>3, <2>5 DEF SocketOwned, OneThread
<1>5. CASE UNCHANGED vars
  <2>1. context' = context /\ sockets' = sockets /\ thread' = thread
    BY <1>5 DEF vars
  <2> QED BY <2>1, <1>2 DEF Holds, Running
<1>6. CASE \/ SwitchOff \/ AskAnew \/ StopOld \/ TimerFires \/ TimerArmed
           \/ Inform \/ LanChanges
  <2>1. context' = context /\ sockets' = sockets /\ thread' = thread
    BY <1>6 DEF SwitchOff, AskAnew, StopOld, TimerFires, TimerArmed, Inform,
                LanChanges
  <2> QED BY <2>1, <1>2 DEF Holds, Running
<1>7. ASSUME NEW t \in Threads,
             \/ Begin(t) \/ Response(t) \/ ResponseUnusable(t) \/ Compare(t)
             \/ UdpRequest(t) \/ IpChanged(t) \/ StopTimer(t)
      PROVE  /\ context'.fd = context.fd /\ sockets' = sockets
             /\ \A u \in Threads : Holds(u)' <=> Holds(u)
             /\ Running' \subseteq Running
  <2>1. context'.fd = context.fd /\ sockets' = sockets
    BY <1>7, ResponseSets DEF Begin, Response, ResponseUnusable, Compare,
                              UdpRequest, IpChanged, StopTimer, TypeOK
  <2>2. PICK from \in {"starting", "loop", "nat", "direct"},
             to \in {"loop", "nat", "direct", "closing"} : Goes(t, from, to)
    BY <1>7, Zenon DEF Begin, Response, ResponseUnusable, Compare, UdpRequest,
                       IpChanged, StopTimer
  <2>3. thread[t] = from /\ thread'[t] = to
        /\ \A u \in Threads : u # t => thread'[u] = thread[u]
    BY <2>2, Moves
  <2> QED BY <2>1, <2>3 DEF Holds, Running
<1>8. ASSUME NEW t \in Threads, End(t)
      PROVE  /\ context'.fd = context.fd /\ sockets' = sockets
             /\ \A u \in Threads : Holds(u)' <=> Holds(u)
             /\ Running' \subseteq Running
  <2>1. thread[t] = "ending" /\ thread'[t] = "none"
        /\ \A u \in Threads : u # t => thread'[u] = thread[u]
    BY <1>8, Moves DEF End
  <2> QED BY <1>8, <2>1 DEF End, Holds, Running
<1>9. CASE Next
  <2>1. ASSUME NEW t \in Threads,
               \/ Begin(t) \/ Response(t) \/ ResponseUnusable(t) \/ Compare(t)
               \/ UdpRequest(t) \/ IpChanged(t) \/ Leaving(t)
        PROVE  /\ OneThread'
               /\ SocketOwned'
               /\ ((\E u \in Threads : Holds(u)) => context.fd \in Fds)'
    BY <2>1, <1>2, <1>4, <1>7, <1>8 DEF Leaving
  <2> QED BY <1>3, <1>6, <1>9, <2>1 DEF Next
<1> QED BY <1>5, <1>9

\* However often STUN is switched on and off, at most the one descriptor of
\* the living thread is open, if threads start and end in time.
THEOREM SocketsOwned == Spec => []SocketOwned
<1>1. Init => SocketInv
  BY DEF Init, SocketInv, SocketOwned, OneThread, Running, Holds
<1>2. SocketInv => SocketOwned
  BY Zenon DEF SocketInv, SocketOwned
<1> QED BY <1>1, <1>2, SocketStep, TypeCorrect, PTL DEF Spec

-----------------------------------------------------------------------------
(* Connection requests.  The last one taken bounds the stamps of all that    *)
(* were: one that is not later than it is not taken again.                   *)
RequestInv ==
    \A r \in Requests : r.ts # 0 => /\ woken[r] <= 1
                                    /\ woken[r] > 0 => r.ts <= request.ts

\* Taking a request that is fresh keeps the bound.
LEMMA FreshKeeps ==
    ASSUME TypeOK, RequestInv, NEW t \in Threads, UdpRequest(t)
    PROVE  RequestInv'
<1>1. PICK r \in Requests :
        /\ Fresh(r)
        /\ request' = r /\ woken' = [woken EXCEPT ![r] = @ + 1]
  BY DEF UdpRequest
<1>2. r.ts \in Nat /\ request.ts \in Nat
  <2>1. \A q \in Requests : q.ts \in Nat
    BY DEF Requests
  <2>2. NoRequest.ts = 0
    BY DEF NoRequest
  <2> QED BY <2>1, <2>2 DEF TypeOK
<1>3. request.ts = 0 \/ r.ts > request.ts
  BY <1>1 DEF Fresh
<1> SUFFICES ASSUME NEW q \in Requests, q.ts # 0
             PROVE  woken'[q] <= 1 /\ (woken'[q] > 0 => q.ts <= r.ts)
  BY <1>1 DEF RequestInv
<1>4. q.ts \in Nat /\ woken[q] \in Nat /\ woken[q] <= 1
      /\ (woken[q] > 0 => q.ts <= request.ts)
  <2>1. q.ts \in Nat
    BY DEF Requests
  <2>2. woken[q] \in Nat
    BY DEF TypeOK
  <2> QED BY <2>1, <2>2 DEF RequestInv
<1>5. CASE q = r
  <2>1. woken[q] = 0
    BY <1>2, <1>3, <1>4, <1>5
  <2>2. woken'[q] = 1
    BY <1>1, <1>5, <2>1 DEF TypeOK
  <2> QED BY <1>2, <1>5, <2>2
<1>6. CASE q # r
  <2>1. woken'[q] = woken[q]
    BY <1>1, <1>6 DEF TypeOK
  <2>2. woken[q] > 0 => q.ts <= r.ts
    BY <1>2, <1>3, <1>4
  <2> QED BY <1>4, <2>1, <2>2
<1> QED BY <1>5, <1>6

\* A request that wakes the agent is not older than the last accepted.
LEMMA RequestStep == TypeOK /\ RequestInv /\ [Next]_vars => RequestInv'
<1> SUFFICES ASSUME TypeOK, RequestInv, [Next]_vars PROVE RequestInv'
  OBVIOUS
<1>1. CASE UNCHANGED <<request, woken>>
  BY <1>1 DEF RequestInv
<1>2. CASE UNCHANGED vars
  BY <1>1, <1>2 DEF vars, waking
<1>3. CASE \/ SwitchOff \/ AskAnew \/ StopOld \/ TimerFires \/ TimerArmed
           \/ Inform \/ LanChanges
  BY <1>1, <1>3 DEF SwitchOff, AskAnew, StopOld, TimerFires, TimerArmed, Inform,
                    LanChanges, waking
<1>4. CASE StartNew
  BY <1>1, <1>4 DEF StartNew, waking
<1>5. ASSUME NEW t \in Threads,
             \/ Begin(t) \/ Response(t) \/ ResponseUnusable(t) \/ Compare(t)
             \/ IpChanged(t) \/ Leaving(t)
      PROVE  RequestInv'
  BY <1>1, <1>5 DEF Begin, Response, ResponseUnusable, Compare, IpChanged,
                    Leaving, StopTimer, Close, End, waking
<1> QED BY <1>2, <1>3, <1>4, <1>5, FreshKeeps DEF Next

\* A connection request with a time stamp wakes the agent at most once, however
\* many threads read datagrams and however often STUN is started again.
THEOREM RequestsWakeOnce == Spec => []ConnectionRequestOnce
<1>1. Init => RequestInv
  BY DEF Init, RequestInv
<1>2. RequestInv => ConnectionRequestOnce
  BY DEF RequestInv, ConnectionRequestOnce
<1> QED BY <1>1, <1>2, RequestStep, TypeCorrect, PTL DEF Spec

-----------------------------------------------------------------------------
(* The address.  Between a response and its comparison what was told may be  *)
(* old, but only if the address differs from the last one compared.          *)
Comparing == \E t \in Threads : Compares(t)

ToldInv ==
    Punctual => /\ Comparing => address # None
                /\ ~ Comparing => last \in {None, address}
                /\ (Comparing => address = last) => (told = Report \/ changed)

\* Every step keeps what the ACS was told in line with the address.
LEMMA ToldStep == TypeOK /\ SocketInv /\ ToldInv /\ [Next]_vars => ToldInv'
<1> SUFFICES ASSUME TypeOK, SocketInv, ToldInv, [Next]_vars, Punctual
             PROVE  /\ Comparing' => address' # None
                    /\ ~ Comparing' => last' \in {None, address'}
                    /\ (Comparing' => address' = last')
                          => (told' = Report' \/ changed')
  BY Zenon DEF ToldInv
<1>1. /\ OneThread
      /\ Comparing => address # None
      /\ ~ Comparing => last \in {None, address}
      /\ (Comparing => address = last) => (told = Report \/ changed)
  BY DEF SocketInv, ToldInv
<1>2. CASE /\ UNCHANGED <<address, last, natFlag, changed, told>>
           /\ Comparing' <=> Comparing
  BY <1>1, <1>2 DEF Report
<1>3. CASE UNCHANGED vars
  BY <1>2, <1>3 DEF vars, asking, Comparing, Compares
<1>4. CASE StopOld \/ TimerFires \/ TimerArmed \/ LanChanges
  BY <1>2, <1>4 DEF StopOld, TimerFires, TimerArmed, LanChanges, asking,
                    Comparing, Compares
<1>5. CASE StartNew
  <2>1. Comparing' <=> Comparing
    BY <1>5 DEF StartNew, TypeOK, Comparing, Compares
  <2> QED BY <1>2, <1>5, <2>1 DEF StartNew, asking
<1>6. CASE SwitchOff
  <2>1. Comparing' <=> Comparing
    BY <1>6 DEF SwitchOff, Comparing, Compares
  <2> QED BY <1>1, <1>6, <2>1 DEF SwitchOff
<1>7. CASE AskAnew
  <2>1. Comparing' <=> Comparing
    BY <1>7 DEF AskAnew, Comparing, Compares
  <2> QED BY <1>1, <1>7, <2>1 DEF AskAnew, Report
<1>8. CASE Inform
  <2>1. Comparing' <=> Comparing
    BY <1>8 DEF Inform, Comparing, Compares
  <2>2. told' = Report'
    BY <1>8 DEF Inform, Report
  <2> QED BY <1>1, <1>8, <2>1, <2>2 DEF Inform
<1>9. ASSUME NEW t \in Threads,
             Begin(t) \/ ResponseUnusable(t) \/ UdpRequest(t) \/ Leaving(t)
      PROVE  /\ UNCHANGED <<address, last, natFlag, changed, told>>
             /\ Comparing' <=> Comparing
  <2>1. PICK from \in {"starting", "loop", "closing", "ending"},
             to \in {"loop", "closing", "ending", "none"} : Goes(t, from, to)
    BY <1>9, Zenon DEF Begin, ResponseUnusable, UdpRequest, Leaving, StopTimer,
                       Close, End
  <2>2. thread[t] = from /\ thread'[t] = to
        /\ \A u \in Threads : u # t => thread'[u] = thread[u]
    BY <2>1, Moves
  <2>3. Comparing' <=> Comparing
    BY <2>2 DEF Comparing, Compares
  <2> QED BY <1>9, <2>3 DEF Begin, ResponseUnusable, UdpRequest, Leaving,
                            StopTimer, Close, End, asking
<1>10. ASSUME NEW t \in Threads, IpChanged(t)
       PROVE  ~ Comparing /\ ~ Comparing' /\ last' = None
              /\ UNCHANGED <<address, natFlag, changed, told>>
  <2>1. thread[t] = "loop" /\ thread'[t] = "loop"
        /\ \A u \in Threads : u # t => thread'[u] = thread[u]
    BY <1>10, Moves DEF IpChanged
  <2>2. ~ Comparing /\ ~ Comparing'
    BY <1>1, <2>1 DEF OneThread, Running, Comparing, Compares
  <2> QED BY <1>10, <2>2 DEF IpChanged
<1>11. ASSUME NEW t \in Threads, Response(t)
       PROVE  ~ Comparing /\ Comparing' /\ address' # None
              /\ UNCHANGED <<last, natFlag, changed, told>>
  <2>1. PICK to \in {"nat", "direct"} : Goes(t, "loop", to)
    BY <1>11 DEF Response
  <2>2. thread[t] = "loop" /\ thread'[t] = to
    BY <2>1, Moves
  <2>3. ~ Comparing
    BY <1>1, <2>2 DEF OneThread, Running, Comparing, Compares
  <2>4. Comparing'
    BY <2>2 DEF Comparing, Compares
  <2> QED BY <1>11, <2>3, <2>4, ResponseSets DEF Response
<1>12. ASSUME NEW t \in Threads, Compare(t)
       PROVE  /\ Comparing /\ ~ Comparing' /\ last' = address
              /\ address' = address /\ told' = told
              /\ address = last => (natFlag' = natFlag /\ changed' = changed)
              /\ address # last => changed'
  <2>1. PICK pc \in {"nat", "direct"} : Goes(t, pc, "loop")
    BY <1>12 DEF Compare
  <2>2. thread[t] = pc /\ thread'[t] = "loop"
        /\ \A u \in Threads : u # t => thread'[u] = thread[u]
    BY <2>1, Moves
  <2>3. Comparing /\ ~ Comparing'
    BY <1>1, <2>2 DEF OneThread, Running, Comparing, Compares
  <2> QED BY <1>12, <2>3 DEF Compare
<1>13. CASE \E t \in Threads : Response(t)
  <2>1. ~ Comparing /\ Comparing' /\ address' # None
        /\ UNCHANGED <<last, natFlag, changed, told>>
    BY <1>11, <1>13
  <2>2. ASSUME address' = last PROVE Report' = Report
    BY <1>1, <2>1, <2>2 DEF Report
  <2> QED BY <1>1, <2>1, <2>2
<1>14. CASE \E t \in Threads : Compare(t)
  BY <1>1, <1>12, <1>14 DEF Report
<1>15. CASE \E t \in Threads : IpChanged(t)
  BY <1>1, <1>10, <1>15 DEF Report
<1>16. CASE \E t \in Threads :
               Begin(t) \/ ResponseUnusable(t) \/ UdpRequest(t) \/ Leaving(t)
  BY <1>2, <1>9, <1>16
<1> QED
  BY <1>3, <1>4, <1>5, <1>6, <1>7, <1>8, <1>13, <1>14, <1>15, <1>16 DEF Next

\* Once the agent is at rest the ACS has been told what the agent knows of NAT,
\* or a VALUE CHANGE is on its way: whatever the addresses, and wherever the
\* steps of the STUN thread fall among those of the worker.
THEOREM AcsIsTold == Spec => []AcsToldOfAddress
<1>1. Init => SocketInv
  BY DEF Init, SocketInv, SocketOwned, OneThread, Running, Holds
<1>2. Init => ToldInv
  BY DEF Init, ToldInv, Comparing, Compares, Report
<1>3. ToldInv => AcsToldOfAddress
  BY Zenon DEF ToldInv, AcsToldOfAddress, Comparing
<1> QED BY <1>1, <1>2, <1>3, SocketStep, ToldStep, TypeCorrect, PTL DEF Spec
-----------------------------------------------------------------------------
(* The keep-alive.  Only the thread that listens stops its timer, on its way *)
(* out, and threads come one at a time.                                      *)
LEMMA KeepAliveStep ==
    TypeOK /\ SocketInv /\ KeepAliveRuns /\ [Next]_vars => KeepAliveRuns'
<1> SUFFICES ASSUME TypeOK, SocketInv, KeepAliveRuns, [Next]_vars,
                    Punctual, ~dead', (\E t \in Threads : Listens(t))'
             PROVE  timer' \/ inCallback'
  BY Zenon DEF KeepAliveRuns
<1>1. OneThread
  BY DEF SocketInv
<1>2. ASSUME ~dead, \E t \in Threads : Listens(t)
      PROVE  timer \/ inCallback
  BY <1>2 DEF KeepAliveRuns
<1>3. CASE thread' = thread /\ timer' = timer /\ inCallback' = inCallback /\ ~dead
  BY <1>2, <1>3 DEF Listens
<1>4. CASE UNCHANGED vars
  BY <1>3, <1>4 DEF vars
<1>5. CASE SwitchOff \/ AskAnew \/ StopOld \/ Inform \/ LanChanges
  BY <1>3, <1>5 DEF SwitchOff, AskAnew, StopOld, Inform, LanChanges, EventThread
<1>6. CASE TimerFires \/ TimerArmed
  BY <1>6 DEF TimerFires, TimerArmed
<1>7. CASE StartNew
  <2>1. PICK fd \in Fds \cup {0}, t \in Threads :
          /\ Running = {}
          /\ thread' = IF fd = 0 THEN thread ELSE [thread EXCEPT ![t] = "starting"]
    BY <1>7 DEF StartNew
  <2>2. \A u \in Threads : thread'[u] \in {"none", "starting"}
    BY <2>1 DEF TypeOK, Running
  <2> QED BY <2>2 DEF Listens
<1>8. ASSUME NEW t \in Threads,
             \/ Response(t) \/ ResponseUnusable(t) \/ Compare(t)
             \/ UdpRequest(t) \/ IpChanged(t)
      PROVE  timer' \/ inCallback'
  <2>1. PICK from \in {"loop", "nat", "direct"}, to \in {"loop", "nat", "direct"} :
          Goes(t, from, to)
    BY <1>8, Zenon DEF Response, ResponseUnusable, Compare, UdpRequest, IpChanged
  <2>2. Listens(t) /\ ~dead
    BY <2>1 DEF Goes, Listens
  <2>3. timer' = timer /\ inCallback' = inCallback
    BY <1>8 DEF Response, ResponseUnusable, Compare, UdpRequest, IpChanged
  <2> QED BY <1>2, <2>2, <2>3
<1>9. ASSUME NEW t \in Threads, Begin(t)
      PROVE  timer'
  BY <1>9 DEF Begin
<1>10. ASSUME NEW t \in Threads, StopTimer(t)
       PROVE  FALSE
  <2>1. thread[t] = "loop" /\ thread'[t] = "closing"
        /\ \A u \in Threads : u # t => thread'[u] = thread[u]
    BY <1>10, Moves DEF StopTimer
  <2>2. \A u \in Threads : u # t => thread[u] = "none"
    BY <1>1, <2>1 DEF OneThread, Running
  <2> QED BY <2>1, <2>2 DEF Listens
<1>11. ASSUME NEW t \in Threads, Close(t) \/ End(t)
       PROVE  timer' \/ inCallback'
  <2>1. PICK from \in {"closing", "ending"}, to \in {"ending", "none"} :
          Goes(t, from, to)
    BY <1>11, Zenon DEF Close, End
  <2>2. thread'[t] = to /\ (\A u \in Threads : u # t => thread'[u] = thread[u])
        /\ ~dead
    BY <2>1, Moves DEF Goes
  <2>3. \E u \in Threads : Listens(u)
    BY <2>2 DEF Listens
  <2>4. timer' = timer /\ inCallback' = inCallback
    BY <1>11 DEF Close, End
  <2> QED BY <1>2, <2>2, <2>3, <2>4
<1> QED BY <1>4, <1>5, <1>6, <1>7, <1>8, <1>9, <1>10, <1>11 DEF Next, Leaving

\* While a punctual thread listens, its keep-alive timer is pending or its
\* callback is about to arm it again.
THEOREM KeepAliveGoesOn == Spec => []KeepAliveRuns
<1>1. Init => SocketInv
  BY DEF Init, SocketInv, SocketOwned, OneThread, Running, Holds
<1>2. Init => KeepAliveRuns
  BY DEF Init, KeepAliveRuns, Listens
<1> QED BY <1>1, <1>2, SocketStep, KeepAliveStep, TypeCorrect, PTL DEF Spec
=============================================================================
