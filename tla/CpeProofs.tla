------------------------------ MODULE CpeProofs ------------------------------
(***************************************************************************)
(* Theorems about the agent around its sessions, for every configuration   *)
(* and every bound of Cpe.                                                 *)
(***************************************************************************)
EXTENDS Cpe, TLAPS

\* What the queue operations of the model return.
LEMMA QueueFacts ==
    ASSUME NEW S, NEW q \in Seq(S)
    PROVE  /\ << >> \in Seq(S)
           /\ \A m \in S : Append(q, m) \in Seq(S) /\ <<m>> \in Seq(S)
           /\ q # << >> => Head(q) \in S /\ Tail(q) \in Seq(S)
           /\ \A m \in S : q # << >> => Tail(q) \o <<m>> \in Seq(S)
           /\ q # << >> => Tail(q) \o << >> \in Seq(S)
  <1>1. q # << >> => Head(q) \in S /\ Tail(q) \in Seq(S)
    OBVIOUS
  <1>2. << >> \in Seq(S) /\ \A m \in S : <<m>> \in Seq(S) /\ Append(q, m) \in Seq(S)
    OBVIOUS
  <1>3. ASSUME NEW a \in Seq(S), NEW b \in Seq(S)
        PROVE  a \o b \in Seq(S)
    OBVIOUS
  <1> QED BY <1>1, <1>2, <1>3

-----------------------------------------------------------------------------
(* Sessions never overlap unless the ACS may ask for a traceroute.         *)

Quiet == Messages \ {"TRACEROUTE"}

\* Every way to open a session starts from "none": the worker loop looks
\* before it takes a message, the timer is only armed by a handler that ran
\* without a session, nothing but the worker runs between the two, and the
\* boot comes first.
Serial ==
    /\ session # "overrun"
    /\ session_ev \in BOOLEAN
    /\ session_ev => session = "none"
    /\ running = "off" => session = "none" /\ session_ev = FALSE
    /\ tracing = FALSE
    /\ worker_queue \in Seq(Quiet)

\* A session opened over none does not overlap, and one opened by a step that
\* leaves the timer idle keeps Serial.
LEMMA StartFromNone ==
    ASSUME session = "none",
           NEW codes, NEW evs, NEW flag, StartSession(codes, evs, flag)
    PROVE  session' # "overrun"
  <1>1. PICK how \in Attempts : StartSessionAs(codes, evs, flag, how)
    BY DEF StartSession
  <1> QED BY <1>1 DEF StartSessionAs, OpenSession, Opened, inSession

\* Before the boot nothing is open.
LEMMA SerialInit == ASSUME Init PROVE Serial
  <1>1. << >> \in Seq(Quiet)
    OBVIOUS
  <1> QED BY <1>1 DEF Init, Volatile, Serial

\* What a handler of the worker loop must do to keep Serial.
LEMMA HandlerKeepsSerial ==
    ASSUME Serial, NEW m \in Messages, Tick(m),
           worker_queue' \in Seq(Quiet), tracing' = tracing,
           \/ session_ev' = FALSE /\ session' # "overrun"
           \/ session_ev' = TRUE /\ session' = "none"
    PROVE  Serial'
  BY DEF Serial, Tick, process

\* A worker handler opens no session over another one.
LEMMA WorkerKeepsSerial == ASSUME Serial, WorkerTick PROVE Serial'
  <1>1. worker_queue # << >> =>
          /\ Head(worker_queue) \in Quiet /\ Tail(worker_queue) \in Seq(Quiet)
          /\ Tail(worker_queue) \o << >> \in Seq(Quiet)
          /\ Tail(worker_queue) \o <<"VALUE_CHANGE">> \in Seq(Quiet)
    <2>1. "VALUE_CHANGE" \in Quiet
      BY DEF Quiet, Messages, OutsideMessages, AcsMessages
    <2> QED BY <2>1, QueueFacts DEF Serial
  <1>2. ASSUME NEW m, Tick(m)
        PROVE  /\ session = "none" /\ session_ev = FALSE /\ m # "TRACEROUTE"
               /\ worker_queue # << >> /\ m \in Messages
    <2>1. session = "none" /\ ~session_ev /\ worker_queue # << >>
          /\ m = Head(worker_queue)
      BY <1>2 DEF Tick, Free
    <2>2. session_ev = FALSE
      BY <2>1 DEF Serial
    <2> QED BY <1>1, <2>1, <2>2 DEF Quiet
  <1>3. ASSUME NEW m, Tick(m), Done, tracing' = tracing, session' # "overrun",
               \/ session_ev' = FALSE
               \/ session_ev' = TRUE /\ session' = "none"
        PROVE  Serial'
    <2>1. worker_queue' \in Seq(Quiet)
      BY <1>1, <1>2, <1>3 DEF Done
    <2> QED BY <1>2, <1>3, <2>1, HandlerKeepsSerial
  <1>4. ASSUME NEW m, Tick(m), Done, UNCHANGED tracing, UNCHANGED inSession,
               session_ev' \in {session_ev, TRUE}
        PROVE  Serial'
    BY <1>2, <1>3, <1>4 DEF inSession
  <1>5. ASSUME NEW m, Tick(m), Done, UNCHANGED <<tracing, session_ev>>,
               NEW codes, NEW evs, NEW flag, StartSession(codes, evs, flag)
        PROVE  Serial'
    BY <1>2, <1>3, <1>5, StartFromNone
  <1>6. CASE HandleReportNow
    BY <1>5, <1>6, <1>2 DEF HandleReportNow, ReportNow, StartIfFree
  <1>7. CASE HandlePeriodic
    BY <1>5, <1>7, <1>2 DEF HandlePeriodic, StartIfFree
  <1>8. CASE HandleDownload
    BY <1>4, <1>8 DEF HandleDownload
  <1>9. CASE HandleUpload \/ HandlePing \/ HandleBandwidth
    BY <1>4, <1>9 DEF HandleUpload, HandlePing, HandleBandwidth, Finished,
                      ArmSession
  <1>10. CASE HandlePlay
    BY <1>5, <1>10 DEF HandlePlay
  <1>11. CASE HandleReboot \/ HandleFactoryReset \/ HandleDiagnosis
    BY <1>4, <1>11 DEF HandleReboot, HandleFactoryReset, HandleDiagnosis
  <1>12. CASE HandleTraceroute
    BY <1>2, <1>12 DEF HandleTraceroute
  <1>13. CASE HandleStun
    <2>1. PICK note \in {<< >>, <<"VALUE_CHANGE">>} :
             worker_queue' = Tail(worker_queue) \o note
      BY <1>13 DEF HandleStun
    <2>2. Tick("STUN_ONCMD") /\ tracing' = tracing
          /\ session' = session /\ session_ev' = session_ev
      BY <1>13 DEF HandleStun, inSession
    <2>3. worker_queue' \in Seq(Quiet)
      BY <2>1, <2>2, <1>1, <1>2
    <2> QED BY <1>2, <2>2, <2>3, HandlerKeepsSerial
  <1>14. CASE HandleReauth
    BY <1>5, <1>14 DEF HandleReauth
  <1>15. CASE HandleAwaken
    BY <1>5, <1>15 DEF HandleAwaken
  <1> QED
    BY <1>6, <1>7, <1>8, <1>9, <1>10, <1>11, <1>12, <1>13, <1>14, <1>15
    DEF WorkerTick

\* What any other step must do to keep Serial.
LEMMA MessageKeepsSerial ==
    ASSUME Serial, UNCHANGED <<running, session, session_ev, tracing>>,
           \/ UNCHANGED worker_queue
           \/ \E m \in Quiet : worker_queue' = Append(worker_queue, m)
           \/ worker_queue' = <<"2_PERIODIC">>
    PROVE  Serial'
  <1>1. "2_PERIODIC" \in Quiet
    BY DEF Quiet, Messages, AcsMessages, OutsideMessages
  <1>2. worker_queue' \in Seq(Quiet)
    BY <1>1, QueueFacts DEF Serial
  <1> QED BY <1>2 DEF Serial

\* Neither does any other step, when no call asks for a traceroute.
LEMMA NextKeepsSerial ==
    ASSUME "TRACEROUTE" \notin AcsCalls, Serial, [Next]_vars
    PROVE  Serial'
  <1> USE DEF process, inSession, clocks, heartbeat, reports, switches
  <1>1. "STUN_ONCMD" \in Quiet /\ "REAUTH" \in Quiet /\ "AWAKEN" \in Quiet
        /\ "CONNECTION_REQUEST" \in Quiet
        /\ OutsideMessages \subseteq Quiet
        /\ AcsCalls \cap AcsMessages \subseteq Quiet
    BY DEF Quiet, Messages, AcsMessages, OutsideMessages
  <1>2. CASE Boot
    <2>1. session = "none" /\ session_ev = FALSE /\ session_ev' = session_ev
          /\ running' \in {"up", "ended"} /\ UNCHANGED <<worker_queue, tracing>>
      BY <1>2 DEF Boot, Serial
    <2>2. PICK how \in Attempts :
             StartSessionAs(CodesAfterCheck, events, "BOOT", how)
      BY <1>2 DEF Boot
    <2>3. session' # "overrun"
      BY <2>1, <2>2, StartFromNone DEF StartSession
    <2> QED BY <2>1, <2>3 DEF Serial
  <1>3. CASE Restart
    <2>1. << >> \in Seq(Quiet)
      OBVIOUS
    <2> QED BY <1>3, <2>1 DEF Restart, ForgetVolatile, Serial
  <1>4. CASE WorkerTick
    BY <1>4, WorkerKeepsSerial
  <1>5. CASE SessionTimer
    <2>1. session = "none"
      BY <1>5 DEF SessionTimer, Serial
    <2>2. session' # "overrun"
      BY <1>5, <2>1, StartFromNone DEF SessionTimer
    <2> QED BY <1>5, <2>2 DEF SessionTimer, Serial
  <1>6. CASE PeriodicTimer
    BY <1>6, MessageKeepsSerial DEF PeriodicTimer
  <1>7. CASE ConnectionRequest \/ ConnectionChallenged \/ Awaken
    BY <1>1, <1>7, MessageKeepsSerial
    DEF ConnectionRequest, ConnectionChallenged, Awaken, AddMsg
  <1>8. CASE \E m \in OutsideMessages : OutsideMessage(m)
    BY <1>1, <1>8, MessageKeepsSerial DEF OutsideMessage, AddMsg
  <1>9. CASE TracerouteResponse
    BY <1>9 DEF TracerouteResponse, Serial
  <1>10. CASE \E m \in AcsMessages : AcsCall(m)
    BY <1>1, <1>10, MessageKeepsSerial DEF AcsCall, AddMsg
  <1>11. CASE \/ AcsSetsHeartbeat \/ AcsSetsUpgradeUrl
              \/ InformTaken \/ TransferPosted
    BY <1>11, MessageKeepsSerial
    DEF AcsSetsHeartbeat, AcsSetsUpgradeUrl, InformTaken, TransferPosted
  <1>12. CASE SessionStalls
    BY <1>12 DEF SessionStalls, InProgress, Serial
  <1>13. CASE SessionEnd
    <2>1. running = "up" /\ running' = running /\ session' = "none"
          /\ UNCHANGED <<tracing, session_ev>>
      BY <1>13 DEF SessionEnd, SessionOk, SessionFail, SessionOver, InProgress
    <2>2. UNCHANGED worker_queue
          \/ worker_queue' = Append(worker_queue, "STUN_ONCMD")
          \/ worker_queue' = Append(worker_queue, "REAUTH")
      BY <1>13 DEF SessionEnd, SessionOk, SessionFail, SwitchServer
    <2>3. worker_queue' \in Seq(Quiet)
      BY <1>1, <2>2, QueueFacts DEF Serial
    <2> QED BY <2>1, <2>3 DEF Serial
  <1>14. CASE UNCHANGED vars
    BY <1>14, MessageKeepsSerial DEF vars
  <1> QED
    BY <1>2, <1>3, <1>4, <1>5, <1>6, <1>7, <1>8, <1>9, <1>10, <1>11, <1>12,
       <1>13, <1>14 DEF Next

\* No session is opened over one in flight, however many handlers, timers and
\* boots open one, as long as no call asks for a traceroute: its result is the
\* only thing that opens a session without looking (accessor.c:4387).
THEOREM SessionsNeverOverlap ==
    ASSUME "TRACEROUTE" \notin AcsCalls
    PROVE  Spec => []OneSessionAtATime
  <1>1. Init => Serial
    BY SerialInit
  <1>2. Serial /\ [Next]_vars => Serial'
    BY NextKeepsSerial
  <1>3. Serial => OneSessionAtATime
    BY DEF Serial, OneSessionAtATime
  <1> QED BY <1>1, <1>2, <1>3, PTL DEF Spec

-----------------------------------------------------------------------------
(* With the periodic Inform switched off, every Inform carries the codes    *)
(* that are owed, so none is forgotten before it was reported.              *)

Ordinary == Messages \ {"2_PERIODIC"}

\* Nothing in the agent asks for the periodic Inform.
Still ==
    /\ tr069_inform = FALSE
    /\ event_flag # "PERIODIC"
    /\ worker_queue \in Seq(Ordinary)

\* Where a step of the worker loop leaves the queue.
LEMMA WorkerQueue ==
    ASSUME WorkerTick
    PROVE  /\ worker_queue # << >>
           /\ \/ worker_queue' = Tail(worker_queue)
              \/ worker_queue' = Tail(worker_queue) \o << >>
              \/ worker_queue' = Tail(worker_queue) \o <<"VALUE_CHANGE">>
           /\ UNCHANGED <<running, tr069_inform>>
  <1> USE DEF Tick, Done, Finished, ReportNow, process, heartbeat
  <1>1. CASE HandleReportNow \/ HandlePeriodic \/ HandleDownload \/ HandleUpload
    BY <1>1 DEF HandleReportNow, HandlePeriodic, HandleDownload, HandleUpload
  <1>2. CASE HandlePing \/ HandleBandwidth \/ HandlePlay \/ HandleReboot
    BY <1>2 DEF HandlePing, HandleBandwidth, HandlePlay, HandleReboot
  <1>3. CASE \/ HandleFactoryReset \/ HandleTraceroute \/ HandleStun
             \/ HandleDiagnosis \/ HandleReauth \/ HandleAwaken
    BY <1>3 DEF HandleFactoryReset, HandleTraceroute, HandleStun,
                HandleDiagnosis, HandleReauth, HandleAwaken
  <1> QED BY <1>1, <1>2, <1>3 DEF WorkerTick

\* A session is opened with the flag its caller has set.
LEMMA StartSetsFlag ==
    ASSUME NEW codes, NEW evs, NEW flag, StartSession(codes, evs, flag)
    PROVE  event_flag' = flag
  BY DEF StartSession, StartSessionAs

\* No worker handler touches the periodic codes while there is no heartbeat.
LEMMA WorkerKeepsFlag ==
    ASSUME Still, WorkerTick
    PROVE  event_flag' # "PERIODIC" /\ ~HandlePeriodic
  <1> USE DEF Still
  <1>1. ~HandlePeriodic
    <2>1. Head(worker_queue) \in Ordinary
      BY WorkerQueue, QueueFacts
    <2> QED BY <2>1 DEF HandlePeriodic, Tick, Ordinary
  <1>2. CASE HandleReportNow
    BY <1>1, <1>2, StartSetsFlag DEF HandleReportNow, ReportNow, StartIfFree
  <1>3. CASE \/ HandleDownload \/ HandleReboot \/ HandleFactoryReset
             \/ HandleTraceroute \/ HandleStun \/ HandleDiagnosis
    BY <1>1, <1>3 DEF HandleDownload, HandleReboot, HandleFactoryReset,
                HandleTraceroute, HandleStun, HandleDiagnosis, reports
  <1>4. CASE HandleUpload \/ HandlePing \/ HandleBandwidth
    BY <1>1, <1>4 DEF HandleUpload, HandlePing, HandleBandwidth, Finished, ArmSession,
                reports
  <1>5. CASE HandlePlay
    BY <1>1, <1>5, StartSetsFlag DEF HandlePlay
  <1>6. CASE HandleReauth \/ HandleAwaken
    <2>1. FlagAfterReset(stored) # "PERIODIC"
      BY DEF FlagAfterReset
    <2> QED BY <1>1, <1>6, <2>1, StartSetsFlag DEF HandleReauth, HandleAwaken
  <1> QED BY <1>1, <1>2, <1>3, <1>4, <1>5, <1>6 DEF WorkerTick

\* Without heartbeat nothing ever asks for a periodic Inform.
LEMMA NextKeepsStill ==
    ASSUME Heartbeats \subseteq {FALSE}, Still, [Next]_vars
    PROVE  Still'
  <1> USE DEF Still, process, inSession, clocks, heartbeat, reports
  <1>1. \A m \in AcsMessages \cup OutsideMessages : m \in Ordinary
    BY DEF Ordinary, Messages, AcsMessages, OutsideMessages
  <1>2. "STUN_ONCMD" \in Ordinary /\ "REAUTH" \in Ordinary
        /\ "AWAKEN" \in Ordinary /\ "CONNECTION_REQUEST" \in Ordinary
        /\ "VALUE_CHANGE" \in Ordinary
    BY DEF Ordinary, Messages, AcsMessages, OutsideMessages
  <1>3. \A m \in Ordinary : Append(worker_queue, m) \in Seq(Ordinary)
    BY QueueFacts
  <1>4. CASE Boot
    <2>1. event_flag' = "BOOT"
      BY <1>4 DEF Boot, StartSessionAs
    <2> QED BY <1>4, <2>1 DEF Boot
  <1>5. CASE Restart
    BY <1>5, QueueFacts DEF Restart, ForgetVolatile
  <1>6. CASE WorkerTick
    <2>1. worker_queue # << >> =>
             /\ Tail(worker_queue) \in Seq(Ordinary)
             /\ Tail(worker_queue) \o << >> \in Seq(Ordinary)
             /\ Tail(worker_queue) \o <<"VALUE_CHANGE">> \in Seq(Ordinary)
      BY <1>2, QueueFacts
    <2>2. worker_queue' \in Seq(Ordinary)
      BY <1>6, <2>1, WorkerQueue
    <2> QED BY <1>6, <2>2, WorkerQueue, WorkerKeepsFlag
  <1>7. CASE SessionTimer
    BY <1>7, StartSetsFlag DEF SessionTimer
  <1>8. CASE PeriodicTimer
    BY <1>8 DEF PeriodicTimer
  <1>9. CASE ConnectionRequest \/ ConnectionChallenged \/ Awaken
    BY <1>2, <1>3, <1>9 DEF ConnectionRequest, ConnectionChallenged, Awaken, AddMsg
  <1>10. CASE \E m \in OutsideMessages : OutsideMessage(m)
    BY <1>1, <1>3, <1>10 DEF OutsideMessage, AddMsg
  <1>11. CASE TracerouteResponse
    BY <1>11 DEF TracerouteResponse, ArmSession
  <1>12. CASE \E m \in AcsMessages : AcsCall(m)
    BY <1>1, <1>3, <1>12 DEF AcsCall, AddMsg
  <1>13. CASE \/ AcsSetsHeartbeat \/ AcsSetsUpgradeUrl \/ InformTaken
              \/ TransferPosted \/ SessionStalls
    BY <1>13 DEF AcsSetsHeartbeat, AcsSetsUpgradeUrl, InformTaken,
                 TransferPosted, SessionStalls
  <1>14. CASE SessionEnd
    <2>1. UNCHANGED worker_queue
          \/ worker_queue' = Append(worker_queue, "STUN_ONCMD")
          \/ worker_queue' = Append(worker_queue, "REAUTH")
      BY <1>14 DEF SessionEnd, SessionOk, SessionFail, SwitchServer
    <2>2. UNCHANGED <<tr069_inform, event_flag>>
      BY <1>14 DEF SessionEnd, SessionOk, SessionFail
    <2> QED BY <1>2, <1>3, <2>1, <2>2
  <1>15. CASE UNCHANGED vars
    BY <1>15 DEF vars
  <1> QED
    BY <1>4, <1>5, <1>6, <1>7, <1>8, <1>9, <1>10, <1>11, <1>12, <1>13, <1>14,
       <1>15 DEF Next

\* While the device is up no firmware upgrade is left to be recognised: the
\* boot did that, and the next build is only seen after a restart.
Settled == running # "off" => ~(upgrade /\ newBuild)

Carried == Serial /\ Still /\ Settled /\ InformCarriesStored

\* Without the heartbeat flag every code that is owed is due.
LEMMA OwedIsDue ==
    ASSUME NEW codes, NEW flag, flag # "PERIODIC"
    PROVE  Owed(codes) \subseteq Due(codes, flag)
  BY DEF Owed, Due

\* A session opened over none carries what is owed for the codes it was opened
\* with, if they are what is stored after the step.
LEMMA StartCarries ==
    ASSUME session = "none", NEW codes, NEW evs, NEW flag, flag # "PERIODIC",
           StartSession(codes, evs, flag), stored' = codes
    PROVE  InformCarriesStored'
  <1>1. PICK how \in Attempts : StartSessionAs(codes, evs, flag, how)
    BY DEF StartSession
  <1>2. CASE UNCHANGED inSession
    BY <1>2 DEF inSession, InformCarriesStored
  <1>3. CASE OpenSession((evs \ {"BOOT"}) \cup Due(codes, flag), how)
    <2>1. session' = "open" => Due(codes, flag) \subseteq informed'
      BY <1>3 DEF OpenSession, Opened
    <2>2. Owed(stored') \subseteq Due(codes, flag)
      BY OwedIsDue
    <2> QED BY <2>1, <2>2 DEF InformCarriesStored
  <1> QED BY <1>1, <1>2, <1>3 DEF StartSessionAs

\* A handler that stores a code does so before it opens the session that reports it.
LEMMA WorkerKeepsCarried ==
    ASSUME Carried, WorkerTick
    PROVE  InformCarriesStored'
  <1> USE DEF Tick, Free
  <1>1. ASSUME NEW m, Tick(m), UNCHANGED inSession
        PROVE  InformCarriesStored'
    BY <1>1 DEF inSession, InformCarriesStored
  <1>2. CASE HandleReportNow
    BY <1>2, StartCarries DEF HandleReportNow, ReportNow, StartIfFree
  <1>3. CASE \/ HandleDownload \/ HandleReboot \/ HandleFactoryReset
             \/ HandleTraceroute \/ HandleStun \/ HandleDiagnosis
    BY <1>1, <1>3 DEF HandleDownload, HandleReboot, HandleFactoryReset,
                HandleTraceroute, HandleStun, HandleDiagnosis
  <1>4. CASE HandleUpload \/ HandlePing \/ HandleBandwidth
    BY <1>1, <1>4 DEF HandleUpload, HandlePing, HandleBandwidth, Finished, ArmSession
  <1>5. CASE HandlePlay
    BY <1>5, StartCarries DEF HandlePlay
  <1>6. CASE HandleReauth \/ HandleAwaken
    <2>1. FlagAfterReset(stored) # "PERIODIC"
      BY DEF FlagAfterReset
    <2> QED BY <1>6, <2>1, StartCarries DEF HandleReauth, HandleAwaken
  <1> QED
    BY <1>2, <1>3, <1>4, <1>5, <1>6, WorkerKeepsFlag DEF WorkerTick, Carried

\* No worker handler recognises an upgrade: that is done at boot.
LEMMA WorkerKeepsSettled == ASSUME Settled, WorkerTick PROVE Settled'
  <1>1. CASE HandleDownload \/ HandleUpload \/ HandlePing \/ HandleBandwidth
    BY <1>1, WorkerQueue
    DEF HandleDownload, HandleUpload, HandlePing, HandleBandwidth, Finished,
        firmware, Settled
  <1>2. CASE \/ HandleReportNow \/ HandlePeriodic \/ HandlePlay \/ HandleReboot
             \/ HandleFactoryReset
    BY <1>2, WorkerQueue
    DEF HandleReportNow, ReportNow, HandlePeriodic, HandlePlay, HandleReboot,
        HandleFactoryReset, firmware, Settled
  <1>3. CASE \/ HandleTraceroute \/ HandleStun \/ HandleDiagnosis
             \/ HandleReauth \/ HandleAwaken
    BY <1>3, WorkerQueue
    DEF HandleTraceroute, HandleStun, HandleDiagnosis, HandleReauth,
        HandleAwaken, firmware, Settled
  <1> QED BY <1>1, <1>2, <1>3 DEF WorkerTick

\* What is stored is carried by the Inform, after every step.
LEMMA NextKeepsCarried ==
    ASSUME "TRACEROUTE" \notin AcsCalls, Heartbeats \subseteq {FALSE},
           Carried, [Next]_vars
    PROVE  Carried'
  <1> USE DEF Carried, process, inSession, clocks, heartbeat, reports, firmware
  <1>1. Serial' /\ Still'
    BY NextKeepsSerial, NextKeepsStill
  <1>2. ASSUME UNCHANGED <<running, upgrade, newBuild>>
        PROVE  Settled'
    BY <1>2 DEF Settled
  <1>3. ASSUME UNCHANGED <<session, informed, stored>>
        PROVE  InformCarriesStored'
    BY <1>3 DEF InformCarriesStored
  <1>4. ASSUME session' # "open"
        PROVE  InformCarriesStored'
    BY <1>4 DEF InformCarriesStored
  <1>5. CASE Boot
    <2>1. \E how \in Attempts : StartSessionAs(CodesAfterCheck, events, "BOOT", how)
      BY <1>5 DEF Boot
    <2>2. InformCarriesStored'
      BY <1>5, <2>1, StartCarries DEF Boot, Serial, StartSession, CheckUpgrade
    <2>3. Settled'
      BY <1>5, Zenon DEF Boot, CheckUpgrade, Settled
    <2> QED BY <1>1, <2>2, <2>3
  <1>6. CASE Restart
    <2>1. session' = "none" /\ running' = "off"
      BY <1>6 DEF Restart, ForgetVolatile
    <2> QED BY <1>1, <1>4, <2>1 DEF Settled
  <1>7. CASE WorkerTick
    BY <1>1, <1>7, WorkerKeepsCarried, WorkerKeepsSettled
  <1>8. CASE SessionTimer
    BY <1>1, <1>2, <1>8, StartCarries DEF SessionTimer, Serial, Still
  <1>9. CASE PeriodicTimer
    BY <1>1, <1>2, <1>3, <1>9 DEF PeriodicTimer
  <1>10. CASE ConnectionRequest \/ ConnectionChallenged
    BY <1>1, <1>2, <1>3, <1>10 DEF ConnectionRequest, ConnectionChallenged
  <1>11. CASE Awaken
    <2>1. ~(upgrade /\ newBuild)
      BY <1>11 DEF Awaken, Settled
    <2>2. stored' = stored /\ upgrade' = (upgrade /\ ~newBuild)
          /\ newBuild' = (newBuild /\ ~upgrade) /\ UNCHANGED <<session, informed>>
      BY <1>11, <2>1 DEF Awaken, CheckUpgrade, CodesAfterCheck
    <2>3. ~(upgrade' /\ newBuild')
      BY <2>2, Zenon
    <2> QED BY <1>1, <1>3, <2>2, <2>3 DEF Settled
  <1>12. CASE \E m \in OutsideMessages : OutsideMessage(m)
    BY <1>1, <1>2, <1>3, <1>12 DEF OutsideMessage
  <1>13. CASE TracerouteResponse
    BY <1>13 DEF TracerouteResponse, Serial
  <1>14. CASE \E m \in AcsMessages : AcsCall(m)
    BY <1>1, <1>2, <1>3, <1>14 DEF AcsCall
  <1>15. CASE AcsSetsHeartbeat \/ InformTaken \/ TransferPosted
    BY <1>1, <1>2, <1>3, <1>15 DEF AcsSetsHeartbeat, InformTaken, TransferPosted
  <1>16. CASE SessionStalls
    BY <1>1, <1>2, <1>4, <1>16 DEF SessionStalls
  <1>17. CASE SessionEnd
    <2>1. session' = "none" /\ UNCHANGED <<running, upgrade, newBuild>>
      BY <1>17 DEF SessionEnd, SessionOk, SessionFail, SessionOver
    <2> QED BY <1>1, <1>2, <1>4, <2>1
  <1>18. CASE AcsSetsUpgradeUrl
    BY <1>1, <1>3, <1>18 DEF AcsSetsUpgradeUrl, Settled
  <1>19. CASE UNCHANGED vars
    BY <1>1, <1>2, <1>3, <1>19 DEF vars
  <1> QED
    BY <1>5, <1>6, <1>7, <1>8, <1>9, <1>10, <1>11, <1>12, <1>13, <1>14, <1>15,
       <1>16, <1>17, <1>18, <1>19 DEF Next

\* The three parts together, over a whole run.
LEMMA CarriedInvariant ==
    ASSUME "TRACEROUTE" \notin AcsCalls, Heartbeats \subseteq {FALSE}
    PROVE  Spec => []Carried
  <1>1. Init => Carried
    <2>1. Init => Still
      <3>1. << >> \in Seq(Ordinary)
        OBVIOUS
      <3> QED BY <3>1 DEF Init, Volatile, Still
    <2>2. Init => Settled /\ InformCarriesStored
      BY DEF Init, Volatile, Settled, InformCarriesStored
    <2> QED BY <2>1, <2>2, SerialInit DEF Carried
  <1>2. Carried /\ [Next]_vars => Carried'
    BY NextKeepsCarried
  <1> QED BY <1>1, <1>2, PTL DEF Spec

\* A session in progress was opened with an Inform that carries every event the
\* ACS is owed, for every number of restarts and every queue, as long as the
\* periodic Inform is off and no call asks for a traceroute (cpe.c:736-896,
\* and every handler that stores a code or opens a session).
THEOREM InformAlwaysCarriesStored ==
    ASSUME "TRACEROUTE" \notin AcsCalls, Heartbeats \subseteq {FALSE}
    PROVE  Spec => []InformCarriesStored
  <1>1. Carried => InformCarriesStored
    BY DEF Carried
  <1> QED BY <1>1, CarriedInvariant, PTL

\* The property of the next theorem, of one step.
Kept == \A c \in stored \ (stored' \cup {"BOOT"}) :
           stored' = {"BOOTSTRAP"} \/ (acked /\ c \in informed)

\* A worker handler drops no stored code but for a BOOTSTRAP in its place.
LEMMA WorkerForgetsNothing == ASSUME WorkerTick PROVE Kept
  <1> USE DEF Kept, AddCode
  <1>1. CASE HandleReportNow \/ HandlePeriodic \/ HandleDownload \/ HandlePlay
    BY <1>1 DEF HandleReportNow, ReportNow, HandlePeriodic, HandleDownload,
                HandlePlay
  <1>2. CASE HandleUpload \/ HandlePing \/ HandleBandwidth
    BY <1>2 DEF HandleUpload, HandlePing, HandleBandwidth, Finished
  <1>3. CASE HandleReboot \/ HandleFactoryReset \/ HandleTraceroute \/ HandleStun
    BY <1>3 DEF HandleReboot, HandleFactoryReset, HandleTraceroute, HandleStun
  <1>4. CASE HandleDiagnosis \/ HandleReauth \/ HandleAwaken
    BY <1>4 DEF HandleDiagnosis, HandleReauth, HandleAwaken
  <1> QED BY <1>1, <1>2, <1>3, <1>4 DEF WorkerTick

\* Nor does any other step, but a success with the codes its Inform carried.
LEMMA StepForgetsNothing ==
    ASSUME AcksFirst = TRUE, InformCarriesStored, [Next]_vars
    PROVE  Kept
  <1> USE DEF Kept
  <1>1. CASE UNCHANGED stored
    BY <1>1
  <1>2. CASE Boot \/ Awaken \/ TracerouteResponse
    BY <1>2 DEF Boot, Awaken, TracerouteResponse, CheckUpgrade, CodesAfterCheck,
                AddCode
  <1>3. CASE WorkerTick
    BY <1>3, WorkerForgetsNothing
  <1>4. CASE SessionOk
    <2>1. session = "open" /\ acked /\ stored' = {"BOOT"}
      BY <1>4 DEF SessionOk, SessionOver, InProgress
    <2>2. \A c \in stored \ {"BOOT"} : c \in Owed(stored)
      BY DEF Owed, Fresh
    <2> QED BY <2>1, <2>2 DEF InformCarriesStored
  <1>5. CASE \/ Restart \/ SessionTimer \/ PeriodicTimer \/ ConnectionRequest
             \/ ConnectionChallenged \/ SessionFail
    BY <1>1, <1>5 DEF Restart, SessionTimer, PeriodicTimer, ConnectionRequest,
                      ConnectionChallenged, SessionFail
  <1>6. CASE \/ \E m \in OutsideMessages : OutsideMessage(m)
             \/ \E m \in AcsMessages : AcsCall(m)
             \/ AcsSetsHeartbeat \/ AcsSetsUpgradeUrl \/ InformTaken
             \/ TransferPosted \/ SessionStalls
    BY <1>1, <1>6 DEF OutsideMessage, AcsCall, AcsSetsHeartbeat,
                      AcsSetsUpgradeUrl, InformTaken, TransferPosted, SessionStalls
  <1>7. CASE UNCHANGED vars
    BY <1>1, <1>7 DEF vars
  <1> QED BY <1>2, <1>3, <1>4, <1>5, <1>6, <1>7 DEF Next, SessionEnd

\* A code leaves the persistent list only after the ACS took an Inform with it,
\* whatever fails, restarts or is queued (cpe.c:1310), if sessions end well
\* only once their Inform was taken, the periodic Inform is off, and no call
\* asks for a traceroute.
THEOREM NothingForgotten ==
    ASSUME AcksFirst = TRUE, "TRACEROUTE" \notin AcsCalls,
           Heartbeats \subseteq {FALSE}
    PROVE  Spec => ReportedBeforeForgotten
  <1>1. InformCarriesStored /\ [Next]_vars =>
           [\A c \in stored \ (stored' \cup {"BOOT"}) :
              stored' = {"BOOTSTRAP"} \/ (acked /\ c \in informed)]_vars
    BY StepForgetsNothing DEF Kept
  <1> QED
    BY <1>1, InformAlwaysCarriesStored, PTL DEF Spec, ReportedBeforeForgotten
-----------------------------------------------------------------------------
(* Type correctness.                                                       *)

\* The variables that opening a session writes, and the others.
SessionTypes ==
    /\ session \in {"none", "open", "stuck", "overrun"}
    /\ informed \subseteq Events /\ acked \in BOOLEAN
    /\ events \subseteq Events
    /\ event_flag \in {"NO_BOOT", "BOOT", "PERIODIC"}
    /\ transfer_flag \in BOOLEAN

RestartTypes == restarts \in 0..MaxRestarts

DeviceTypes ==
    /\ running \in {"off", "up", "ended"} /\ RestartTypes
    /\ session_ev \in BOOLEAN /\ periodic_ev \in BOOLEAN
    /\ tr069_inform \in Heartbeats
    /\ first_connect \in BOOLEAN /\ power_down \in BOOLEAN
    /\ start_stun \in BOOLEAN /\ tracing \in BOOLEAN
    /\ upgrade \in BOOLEAN /\ newBuild \in BOOLEAN
    /\ stored \subseteq Codes

ServerTypes ==
    /\ flag_acs_url \in {0, 1, 2} /\ reset_acs_url_flag \in {0, 1, 2}
    /\ acs_url \in Addresses /\ reauth \in Addresses \cup {""}
    /\ tr069_acs \in Addresses

QueueTypes == worker_queue \in Seq(Messages)

Typed == SessionTypes /\ DeviceTypes /\ ServerTypes /\ QueueTypes

\* The count of restarts is typed as long as it stays.
LEMMA RestartsSame ==
    ASSUME RestartTypes, UNCHANGED restarts PROVE RestartTypes'
  BY DEF RestartTypes

\* The addresses of the servers are typed as long as they stay.
LEMMA ServersSame == ASSUME ServerTypes, UNCHANGED servers PROVE ServerTypes'
  BY DEF ServerTypes, servers

\* A restart is only taken while the bound allows it.
LEMMA RestartCounted == ASSUME RestartTypes, Restart PROVE RestartTypes'
  <1>1. MaxRestarts \in Nat
    BY ConfigAssumption
  <1>2. restarts \in 0..MaxRestarts
    BY DEF RestartTypes
  <1>3. restarts < MaxRestarts /\ restarts' = restarts + 1
    BY DEF Restart
  <1>4. restarts' \in 0..MaxRestarts
    BY <1>1, <1>2, <1>3
  <1> QED BY <1>4 DEF RestartTypes

\* The type invariant, in the groups of variables that handlers change together.
LEMMA TypedIsTypeOK == Typed <=> TypeOK
  <1>1. 0..2 = {0, 1, 2}
    OBVIOUS
  <1> QED
    BY <1>1 DEF Typed, RestartTypes, SessionTypes, DeviceTypes, ServerTypes, QueueTypes, TypeOK

\* A session is opened with events, and leaves the types of all it writes.
LEMMA StartTypes ==
    ASSUME SessionTypes, NEW codes \in SUBSET Codes, NEW evs \in SUBSET Events,
           NEW flag \in {"NO_BOOT", "BOOT", "PERIODIC"},
           NEW how, StartSessionAs(codes, evs, flag, how)
    PROVE  SessionTypes'
  <1> DEFINE due == Due(codes, flag)
             all == (evs \ {"BOOT"}) \cup due
  <1>1. due \subseteq Events
    BY DEF Due, Codes, Events
  <1>2. all \subseteq Events
    BY <1>1
  <1>3. events' = all /\ event_flag' = flag
    BY DEF StartSessionAs
  <1>4. transfer_flag' \in BOOLEAN
    BY Zenon DEF StartSessionAs
  <1>5. /\ session' \in {"none", "open", "stuck", "overrun"}
        /\ informed' \subseteq Events /\ acked' \in BOOLEAN
    <2>1. CASE UNCHANGED inSession
      BY <2>1 DEF inSession, SessionTypes
    <2>2. CASE OpenSession(all, how)
      BY <2>2, <1>2 DEF OpenSession, Opened
    <2> QED BY <2>1, <2>2 DEF StartSessionAs
  <1> HIDE DEF due, all
  <1> QED BY <1>2, <1>3, <1>4, <1>5 DEF SessionTypes

\* Opening a session, over whatever there was, keeps the types.
LEMMA StartTypesAny ==
    ASSUME SessionTypes, NEW codes \in SUBSET Codes, NEW evs \in SUBSET Events,
           NEW flag \in {"NO_BOOT", "BOOT", "PERIODIC"},
           StartSession(codes, evs, flag)
    PROVE  SessionTypes'
  BY StartTypes DEF StartSession

\* So does opening one when the slot is free.
LEMMA StartIfFreeTypes ==
    ASSUME Typed, NEW evs \in SUBSET Events,
           NEW flag \in {"NO_BOOT", "BOOT", "PERIODIC"}, StartIfFree(evs, flag)
    PROVE  SessionTypes'
  <1>1. CASE session = "none"
    BY <1>1, StartTypesAny DEF StartIfFree, Typed, DeviceTypes
  <1>2. CASE session # "none"
    BY <1>2 DEF StartIfFree, Typed, SessionTypes, inSession
  <1> QED BY <1>1, <1>2

\* So does arming the session timer.
LEMMA ArmTypes ==
    ASSUME SessionTypes, ArmSession
    PROVE  SessionTypes' /\ session_ev' \in BOOLEAN
  BY DEF ArmSession, SessionTypes, inSession

\* The outcome of looking for new firmware.
LEMMA CheckTypes ==
    ASSUME DeviceTypes, CheckUpgrade
    PROVE  /\ stored' \subseteq Codes
           /\ upgrade' \in BOOLEAN /\ newBuild' \in BOOLEAN
           /\ CodesAfterCheck \subseteq Codes
  <1>1. CodesAfterCheck \subseteq Codes
    BY DEF CodesAfterCheck, AddCode, Codes, DeviceTypes
  <1>2. upgrade' \in BOOLEAN /\ newBuild' \in BOOLEAN
    BY Zenon DEF CheckUpgrade
  <1> QED BY <1>1, <1>2 DEF CheckUpgrade

\* The queue of the worker loses its head and gains known messages.
LEMMA WorkerQueueTypes ==
    ASSUME QueueTypes, WorkerTick
    PROVE  QueueTypes'
  <1>1. "VALUE_CHANGE" \in Messages
    BY DEF Messages, OutsideMessages
  <1> QED BY <1>1, WorkerQueue, QueueFacts DEF QueueTypes

\* What the loop leaves alone, and what every handler must still show.
LEMMA WorkerRest ==
    ASSUME WorkerTick
    PROVE  UNCHANGED <<running, restarts, periodic_ev, tr069_inform,
                       first_connect, start_stun>>
  <1> USE DEF Tick, Finished, ReportNow, process, heartbeat
  <1>1. CASE HandleReportNow \/ HandlePeriodic \/ HandleDownload \/ HandleUpload
    BY <1>1 DEF HandleReportNow, HandlePeriodic, HandleDownload, HandleUpload
  <1>2. CASE HandlePing \/ HandleBandwidth \/ HandlePlay \/ HandleReboot
    BY <1>2 DEF HandlePing, HandleBandwidth, HandlePlay, HandleReboot
  <1>3. CASE \/ HandleFactoryReset \/ HandleTraceroute \/ HandleStun
             \/ HandleDiagnosis \/ HandleReauth \/ HandleAwaken
    BY <1>3 DEF HandleFactoryReset, HandleTraceroute, HandleStun,
                HandleDiagnosis, HandleReauth, HandleAwaken
  <1> QED BY <1>1, <1>2, <1>3 DEF WorkerTick

HandlerTypes ==
    /\ SessionTypes /\ ServerTypes
    /\ session_ev \in BOOLEAN /\ power_down \in BOOLEAN /\ tracing \in BOOLEAN
    /\ upgrade \in BOOLEAN /\ newBuild \in BOOLEAN /\ stored \subseteq Codes

\* Each worker handler keeps the types of what handlers change.
LEMMA HandlersKeepTypes == ASSUME Typed, WorkerTick PROVE HandlerTypes'
  <1> USE DEF Typed, firmware
  <1>1. ASSUME SessionTypes', stored' \subseteq Codes,
               UNCHANGED <<session_ev, power_down, tracing, firmware, servers>>
        PROVE  HandlerTypes'
    BY <1>1 DEF HandlerTypes, DeviceTypes, ServerTypes, servers
  <1>2. ASSUME UNCHANGED <<inSession, reports>>
        PROVE  SessionTypes'
    BY <1>2 DEF inSession, reports, SessionTypes
  <1>3. stored \subseteq Codes
    BY DEF DeviceTypes
  <1>4. ASSUME NEW c \in Codes PROVE AddCode(stored, c) \subseteq Codes
    BY <1>3, <1>4 DEF AddCode
  <1>5. CASE HandleReportNow
    <2>1. PICK m \in {"CONNECTION_REQUEST", "VALUE_CHANGE", "SHUTDOWN"} : ReportNow(m)
      BY <1>5 DEF HandleReportNow
    <2>2. {m} \in SUBSET Events
      BY DEF Events
    <2>3. SessionTypes'
      BY <2>1, <2>2, StartIfFreeTypes DEF ReportNow
    <2> QED BY <1>1, <1>3, <2>1, <2>3 DEF ReportNow
  <1>6. CASE HandlePeriodic
    <2>1. SessionTypes'
      BY <1>6, StartIfFreeTypes DEF HandlePeriodic
    <2> QED BY <1>1, <1>3, <1>6, <2>1 DEF HandlePeriodic
  <1>7. CASE HandleDownload
    <2>1. SessionTypes'
      BY <1>2, <1>7 DEF HandleDownload
    <2>2. upgrade' \in BOOLEAN /\ newBuild' \in BOOLEAN
      BY <1>7 DEF HandleDownload, DeviceTypes
    <2> QED
      BY <1>3, <1>7, <2>1, <2>2
      DEF HandleDownload, HandlerTypes, DeviceTypes, ServerTypes, servers
  <1>8. ASSUME NEW m, NEW c \in Codes, Finished(m, c)
        PROVE  HandlerTypes'
    <2>1. SessionTypes' /\ session_ev' \in BOOLEAN
      BY <1>8, ArmTypes DEF Finished
    <2> QED
      BY <1>4, <1>8, <2>1
      DEF Finished, HandlerTypes, DeviceTypes, ServerTypes, servers
  <1>9. CASE HandleUpload \/ HandlePing \/ HandleBandwidth
    <2>1. {"TRANSFER_COMPLETE", "DIAGNOSTICS_COMPLETE"} \subseteq Codes
      BY DEF Codes
    <2>2. CASE UNCHANGED <<inSession, session_ev, reports, servers, power_down,
                           tracing, stored, firmware>>
      BY <1>1, <1>2, <1>3, <2>2
    <2> QED
      BY <1>8, <1>9, <2>1, <2>2 DEF HandleUpload, HandlePing, HandleBandwidth
  <1>10. CASE HandlePlay
    <2>1. stored' = AddCode(stored, "DIAGNOSTICS_COMPLETE")
          /\ StartSession(stored', {}, "NO_BOOT")
      BY <1>10 DEF HandlePlay
    <2>2. stored' \subseteq Codes
      BY <1>4, <2>1 DEF Codes
    <2>3. SessionTypes'
      BY <2>1, <2>2, StartTypesAny
    <2> QED BY <1>1, <1>10, <2>2, <2>3 DEF HandlePlay
  <1>11. CASE HandleReboot
    <2>1. SessionTypes' /\ stored' \subseteq Codes
      BY <1>2, <1>4, <1>11 DEF HandleReboot, Codes
    <2> QED
      BY <1>11, <2>1
      DEF HandleReboot, HandlerTypes, DeviceTypes, ServerTypes, servers
  <1>12. CASE HandleFactoryReset \/ HandleStun \/ HandleDiagnosis
    <2>1. SessionTypes' /\ stored' \subseteq Codes
      BY <1>2, <1>3, <1>12
      DEF HandleFactoryReset, HandleStun, HandleDiagnosis, Codes
    <2> QED
      BY <1>1, <1>12, <2>1 DEF HandleFactoryReset, HandleStun, HandleDiagnosis
  <1>13. CASE HandleTraceroute
    <2>1. SessionTypes'
      BY <1>2, <1>13 DEF HandleTraceroute
    <2> QED
      BY <1>3, <1>13, <2>1
      DEF HandleTraceroute, HandlerTypes, DeviceTypes, ServerTypes, servers
  <1>14. FlagAfterReset(stored) \in {"NO_BOOT", "BOOT", "PERIODIC"}
    BY DEF FlagAfterReset
  <1>15. CASE HandleReauth
    <2>1. acs_url' \in Addresses /\ reset_acs_url_flag' \in {0, 1, 2}
      BY <1>15 DEF HandleReauth, ServerTypes, Raised
    <2>2. stored' \subseteq Codes /\ SessionTypes'
      <3>1. CASE Backup \notin {"", tr069_acs}
        <4>1. stored' = AddCode(stored, "BOOTSTRAP")
              /\ StartSession(stored', {}, "NO_BOOT")
          BY <1>15, <3>1 DEF HandleReauth
        <4>2. stored' \subseteq Codes
          BY <1>4, <4>1 DEF Codes
        <4> QED BY <4>1, <4>2, StartTypesAny
      <3>2. CASE Backup \in {"", tr069_acs}
        BY <1>3, <1>14, <1>15, <3>2, StartTypesAny DEF HandleReauth
      <3> QED BY <3>1, <3>2
    <2> QED
      BY <1>15, <2>1, <2>2
      DEF HandleReauth, HandlerTypes, DeviceTypes, ServerTypes
  <1>16. CASE HandleAwaken
    <2>1. SessionTypes'
      BY <1>3, <1>14, <1>16, StartTypesAny DEF HandleAwaken
    <2> QED
      BY <1>3, <1>16, <2>1
      DEF HandleAwaken, HandlerTypes, DeviceTypes, ServerTypes
  <1> QED
    BY <1>5, <1>6, <1>7, <1>9, <1>10, <1>11, <1>12, <1>13, <1>15, <1>16
    DEF WorkerTick

\* The worker tick keeps every type.
LEMMA WorkerKeepsTypes == ASSUME Typed, WorkerTick PROVE Typed'
  BY WorkerRest, HandlersKeepTypes, WorkerQueueTypes, RestartsSame
  DEF Typed, DeviceTypes, HandlerTypes

\* A session that ended: the flags, the other server, the queue.
LEMMA EndKeepsTypes == ASSUME Typed, SessionEnd PROVE Typed'
  <1> USE DEF Typed
  <1>1. SessionTypes'
    BY DEF SessionTypes, SessionEnd, SessionOk, SessionFail, SessionOver, reports
  <1>2. DeviceTypes'
    BY RestartsSame DEF DeviceTypes, SessionEnd, SessionOk, SessionFail, process, clocks,
           switches, firmware, Codes
  <1>3. QueueTypes'
    <2>1. {"STUN_ONCMD", "REAUTH"} \subseteq Messages
      BY DEF Messages, AcsMessages
    <2>2. \A m \in {"STUN_ONCMD", "REAUTH"} :
             Append(worker_queue, m) \in Seq(Messages)
      BY <2>1, QueueFacts DEF QueueTypes
    <2>3. \/ UNCHANGED worker_queue
          \/ \E m \in {"STUN_ONCMD", "REAUTH"} : worker_queue' = Append(worker_queue, m)
      BY DEF SessionEnd, SessionOk, SessionFail, SwitchServer
    <2> QED BY <2>2, <2>3 DEF QueueTypes
  <1>4. ServerTypes'
    <2>1. CASE SessionOk
      BY <2>1 DEF SessionOk, ServerTypes
    <2>2. CASE SessionFail
      <3>1. reauth' \in Addresses \cup {""}
        BY <2>2, ConfigAssumption DEF SessionFail, SwitchServer, ServerTypes
      <3>2. flag_acs_url' \in {0, 1, 2} /\ reset_acs_url_flag' \in {0, 1, 2}
        BY <2>2 DEF SessionFail, SwitchServer, ServerTypes
      <3> QED BY <2>2, <3>1, <3>2 DEF SessionFail, ServerTypes
    <2> QED BY <2>1, <2>2 DEF SessionEnd
  <1> QED BY <1>1, <1>2, <1>3, <1>4

\* A message from elsewhere in the queue.
LEMMA AddTypes ==
    ASSUME QueueTypes, NEW m \in Messages, AddMsg(m)
    PROVE  QueueTypes'
  BY QueueFacts DEF AddMsg, QueueTypes

\* The boot keeps every type.
LEMMA BootKeepsTypes == ASSUME Typed, Boot PROVE Typed'
  <1> USE DEF Typed
  <1>1. /\ stored' \subseteq Codes
        /\ upgrade' \in BOOLEAN /\ newBuild' \in BOOLEAN
        /\ CodesAfterCheck \subseteq Codes
    BY CheckTypes DEF Boot
  <1>2. PICK how \in Attempts :
           /\ StartSessionAs(CodesAfterCheck, events, "BOOT", how)
           /\ running' = IF how = "failed" THEN "ended" ELSE "up"
    BY DEF Boot
  <1>3. SessionTypes'
    <2>1. events \subseteq Events
      BY DEF SessionTypes
    <2> QED BY <1>1, <1>2, <2>1, StartTypes
  <1>4. DeviceTypes'
    BY <1>1, <1>2, ConfigAssumption, RestartsSame DEF Boot, DeviceTypes, switches
  <1> QED BY <1>3, <1>4 DEF Boot, ServerTypes, QueueTypes

\* A restart keeps every type.
LEMMA RestartKeepsTypes == ASSUME Typed, Restart PROVE Typed'
  <1> USE DEF Typed
  <1>1. SessionTypes'
    BY DEF Restart, ForgetVolatile, SessionTypes
  <1>2. DeviceTypes'
    <2>1. RestartTypes'
      BY RestartCounted DEF DeviceTypes
    <2> QED BY <2>1 DEF Restart, ForgetVolatile, DeviceTypes
  <1>3. ServerTypes'
    BY DEF Restart, ForgetVolatile, ServerTypes
  <1>4. QueueTypes'
    BY QueueFacts DEF Restart, ForgetVolatile, QueueTypes
  <1> QED BY <1>1, <1>2, <1>3, <1>4

\* Every step keeps every type.
LEMMA NextKeepsTypes == ASSUME Typed, [Next]_vars PROVE Typed'
  <1> USE DEF Typed, process, inSession, clocks, heartbeat, reports, switches,
              firmware
  <1>1. \A m \in AcsMessages \cup OutsideMessages : m \in Messages
    BY DEF Messages
  <1>2. CASE Boot \/ Restart \/ WorkerTick \/ SessionEnd
    BY <1>2, BootKeepsTypes, RestartKeepsTypes, WorkerKeepsTypes, EndKeepsTypes
  <1>3. CASE SessionTimer
    <2>1. SessionTypes'
      BY <1>3, StartTypesAny DEF SessionTimer, SessionTypes, DeviceTypes
    <2>2. DeviceTypes'
      BY <1>3, RestartsSame DEF SessionTimer, DeviceTypes
    <2>3. ServerTypes' /\ QueueTypes'
      BY <1>3, ServersSame DEF SessionTimer, QueueTypes
    <2> QED BY <2>1, <2>2, <2>3
  <1>4. CASE PeriodicTimer
    <2>1. QueueTypes'
      BY <1>4, QueueFacts DEF PeriodicTimer, QueueTypes, Messages
    <2>2. SessionTypes' /\ ServerTypes'
      BY <1>4, ServersSame DEF PeriodicTimer, SessionTypes
    <2>3. DeviceTypes'
      BY <1>4, RestartsSame DEF PeriodicTimer, DeviceTypes
    <2> QED BY <2>1, <2>2, <2>3
  <1>5. CASE ConnectionRequest
    <2>1. QueueTypes'
      BY <1>5, AddTypes DEF ConnectionRequest, Messages, OutsideMessages
    <2>2. SessionTypes'
      BY <1>5 DEF ConnectionRequest, SessionTypes
    <2>3. first_connect' \in BOOLEAN
      BY <1>5 DEF ConnectionRequest, DeviceTypes
    <2>4. DeviceTypes'
      BY <1>5, <2>3, RestartsSame DEF ConnectionRequest, DeviceTypes
    <2> QED BY <1>5, <2>1, <2>2, <2>4, ServersSame DEF ConnectionRequest
  <1>6. CASE ConnectionChallenged
    <2>1. SessionTypes'
      BY <1>6 DEF ConnectionChallenged, SessionTypes
    <2>2. DeviceTypes'
      BY <1>6, RestartsSame DEF ConnectionChallenged, DeviceTypes
    <2>3. ServerTypes' /\ QueueTypes'
      BY <1>6, ServersSame DEF ConnectionChallenged, QueueTypes
    <2> QED BY <2>1, <2>2, <2>3
  <1>7. CASE Awaken
    <2>1. QueueTypes'
      BY <1>7, AddTypes DEF Awaken, Messages, OutsideMessages
    <2>2. DeviceTypes'
      BY <1>7, CheckTypes, RestartsSame, ServersSame DEF Awaken, DeviceTypes
    <2> QED BY <1>7, <2>1, <2>2, ServersSame DEF Awaken, SessionTypes
  <1>8. CASE TracerouteResponse
    <2>1. SessionTypes' /\ session_ev' \in BOOLEAN
      BY <1>8, ArmTypes DEF TracerouteResponse
    <2>2. stored' \subseteq Codes
      BY <1>8 DEF TracerouteResponse, AddCode, Codes, DeviceTypes
    <2>3. DeviceTypes'
      BY <1>8, <2>1, <2>2, RestartsSame DEF TracerouteResponse, DeviceTypes
    <2>4. ServerTypes' /\ QueueTypes'
      BY <1>8, ServersSame DEF TracerouteResponse, QueueTypes
    <2> QED BY <2>1, <2>3, <2>4
  <1>9. CASE \E m \in OutsideMessages : OutsideMessage(m)
    <2>1. QueueTypes'
      BY <1>1, <1>9, AddTypes DEF OutsideMessage
    <2>2. SessionTypes' /\ ServerTypes'
      BY <1>9, ServersSame DEF OutsideMessage, SessionTypes
    <2>3. DeviceTypes'
      BY <1>9, RestartsSame DEF OutsideMessage, DeviceTypes
    <2> QED BY <2>1, <2>2, <2>3
  <1>10. CASE \E m \in AcsMessages : AcsCall(m)
    <2>1. QueueTypes'
      BY <1>1, <1>10, AddTypes DEF AcsCall
    <2>2. /\ tr069_acs' \in Addresses /\ reauth' \in Addresses \cup {""}
          /\ UNCHANGED <<flag_acs_url, reset_acs_url_flag, acs_url>>
      BY <1>10 DEF AcsCall, ServerTypes
    <2>3. ServerTypes'
      BY <2>2 DEF ServerTypes
    <2>4. SessionTypes' /\ DeviceTypes'
      BY <1>10, RestartsSame DEF AcsCall, SessionTypes, DeviceTypes
    <2> QED BY <2>1, <2>3, <2>4
  <1>11. CASE AcsSetsHeartbeat
    <2>1. Heartbeats \subseteq BOOLEAN
      BY ConfigAssumption
    <2>2. SessionTypes' /\ QueueTypes' /\ ServerTypes'
      BY <1>11, ServersSame DEF AcsSetsHeartbeat, SessionTypes, QueueTypes
    <2> QED BY <1>11, <2>1, <2>2, RestartsSame DEF AcsSetsHeartbeat, DeviceTypes
  <1>12. CASE InformTaken \/ TransferPosted
    <2>1. SessionTypes'
      BY <1>12 DEF InformTaken, TransferPosted, SessionTypes
    <2>2. DeviceTypes'
      BY <1>12, RestartsSame DEF InformTaken, TransferPosted, DeviceTypes
    <2>3. ServerTypes' /\ QueueTypes'
      BY <1>12, ServersSame DEF InformTaken, TransferPosted, QueueTypes
    <2> QED BY <2>1, <2>2, <2>3
  <1>13. CASE SessionStalls
    BY <1>13, RestartsSame, ServersSame DEF SessionStalls, SessionTypes, DeviceTypes, QueueTypes
  <1>14. CASE AcsSetsUpgradeUrl
    <2>1. SessionTypes' /\ QueueTypes' /\ ServerTypes'
      BY <1>14, ServersSame DEF AcsSetsUpgradeUrl, SessionTypes, QueueTypes
    <2>2. upgrade' \in BOOLEAN /\ newBuild' \in BOOLEAN
      BY <1>14, Zenon DEF AcsSetsUpgradeUrl
    <2> QED BY <1>14, <2>1, <2>2, RestartsSame DEF AcsSetsUpgradeUrl, DeviceTypes
  <1>15. CASE UNCHANGED vars
    BY <1>15, RestartsSame, ServersSame DEF vars, SessionTypes, DeviceTypes, QueueTypes
  <1> QED
    BY <1>2, <1>3, <1>4, <1>5, <1>6, <1>7, <1>8, <1>9, <1>10, <1>11, <1>12,
       <1>13, <1>14, <1>15 DEF Next

\* Every variable keeps its type through every handler, timer and restart: in
\* particular the server a switch goes to is always an address or "", and the
\* stored codes are codes whatever is written over them (cpe.c:1246-1340).
THEOREM AgentTyped == Spec => []TypeOK
  <1>1. Init => Typed
    <2>1. << >> \in Seq(Messages)
      OBVIOUS
    <2>2. Init => SessionTypes /\ ServerTypes
      BY DEF Init, Volatile, SessionTypes, ServerTypes, Addresses
    <2>3. Init => DeviceTypes
      <3>1. Init => RestartTypes
        <4>1. MaxRestarts \in Nat
          BY ConfigAssumption
        <4> QED BY <4>1 DEF Init, RestartTypes
      <3>2. Heartbeats \subseteq BOOLEAN
        BY ConfigAssumption
      <3> QED BY <3>1, <3>2 DEF Init, Volatile, DeviceTypes, Codes
    <2> QED BY <2>1, <2>2, <2>3 DEF Init, Volatile, Typed, QueueTypes
  <1>2. Typed /\ [Next]_vars => Typed'
    BY NextKeepsTypes
  <1> QED BY <1>1, <1>2, TypedIsTypeOK, PTL DEF Spec
=============================================================================
