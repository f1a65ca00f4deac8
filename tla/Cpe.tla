--------------------------------- MODULE Cpe ---------------------------------
(***************************************************************************)
(* The agent around its sessions (cpe.c, evcpe.c, the worker handlers of   *)
(* accessor.c): which worker message is handled when, which session is     *)
(* opened with which event codes, which codes survive it and a restart,    *)
(* and which server is contacted after a failure.                          *)
(*                                                                         *)
(* The event thread runs the worker loop, the timers and the callbacks of  *)
(* the session, one step each.  Messages from other threads and the result *)
(* of a traceroute may arrive between any two steps.  A session is what    *)
(* CwmpExchange promises: it may deliver calls, take the Inform and the    *)
(* transfer report, hang, and end well or badly.                           *)
(*                                                                         *)
(* Abstracted: the stored codes are the set of the codes in "tr069_event"  *)
(* ("none" is the empty set), the repository holds a set of events,        *)
(* addresses and timer intervals are names, allocations succeed.           *)
(***************************************************************************)
EXTENDS Naturals, Sequences

CONSTANTS
    AcsCalls,     \* worker messages the calls of an ACS may queue
    Outside,      \* worker messages other threads and callbacks may queue
    Heartbeats,   \* values PeriodicInformEnable may have: subset of BOOLEAN
    Backup,       \* tr069_bak_acs, "" when there is none
    PPPoE,        \* is the address obtained over PPPoE
    Resolves,     \* may the ACS be resolved: subset of BOOLEAN
    Opens,        \* how an attempt to open a session may turn out
    Ends,         \* how a session may end: subset of {"ok", "fail"}
    AcksFirst,    \* does a session end well only after the Inform was taken
    MaxQueue,     \* bound: length of the worker queue
    MaxRestarts   \* bound: restarts of the device

AcsMessages == {"DOWNLOAD", "UPLOAD", "REBOOT", "FACTORY_RESET", "PING",
                "TRACEROUTE", "PLAY", "STUN_ONCMD", "PACKET_CAPTURE",
                "SYSLOG_UPLOAD", "REAUTH"}
OutsideMessages == {"CONNECTION_REQUEST", "VALUE_CHANGE", "SHUTDOWN", "AWAKEN",
                    "BANDWIDTH_DIAGNOSTICS"}
Messages == AcsMessages \cup OutsideMessages \cup {"2_PERIODIC"}

Codes  == {"BOOTSTRAP", "BOOT", "TRANSFER_COMPLETE", "DIAGNOSTICS_COMPLETE",
           "M_REBOOT"}
Events == Codes \cup {"PERIODIC", "VALUE_CHANGE", "CONNECTION_REQUEST",
                      "SHUTDOWN"}
Addresses == {"main", "backup"}

ASSUME ConfigAssumption ==
    /\ AcsCalls \subseteq AcsMessages
    /\ Outside \subseteq OutsideMessages
    /\ Heartbeats \subseteq BOOLEAN
    /\ PPPoE \in BOOLEAN /\ AcksFirst \in BOOLEAN
    /\ Backup \in Addresses \cup {""}
    /\ Resolves \subseteq BOOLEAN
    /\ Opens \subseteq {"open", "failed", "mute"}
    /\ Ends \subseteq {"ok", "fail"}
    /\ MaxQueue \in Nat /\ MaxRestarts \in Nat

VARIABLES
    running,        \* "off", "up", or "ended": the event loop never started
    session,        \* cpe->session: "none", "open", "stuck", or "overrun"
    session_ev,     \* the 0 s timer of evcpe_worker_start_session is pending
    periodic_ev,    \* the periodic timer is pending
    worker_queue,
    events,         \* the events in the repository
    informed,       \* the events in the Inform that opened the session
    acked,          \* the Inform of the session was taken
    event_flag,     \* cpe->event_flag
    transfer_flag,  \* cpe->transfer_flag
    flag_acs_url,       \* 1 at first, 2 once the other server was queued, 0
    reset_acs_url_flag, \* 0 at first, then as flag_acs_url
    first_connect,  \* no session has succeeded and nobody has connected yet
    power_down,
    acs_url,        \* the server sessions are opened with
    reauth,         \* the server the next REAUTH switches to
    start_stun,     \* flag_start_stun
    tracing,        \* a traceroute was asked of the other process
    stored,         \* the codes in the parameter "tr069_event"
    tr069_acs,      \* the parameter "tr069_acs"
    tr069_inform,   \* the parameter PeriodicInformEnable
    upgrade,        \* the parameter "tr069_upgrade_flag"
    newBuild,       \* tr069_system_build_time differs from its backup
    restarts        \* restarts of the device so far

process    == <<running, restarts>>
inSession  == <<session, informed, acked>>
clocks     == <<session_ev, periodic_ev, tr069_inform>>
heartbeat  == <<periodic_ev, tr069_inform>>
reports    == <<events, event_flag, transfer_flag>>
servers    == <<flag_acs_url, reset_acs_url_flag, acs_url, reauth, tr069_acs>>
switches   == <<first_connect, power_down, start_stun, tracing>>
firmware   == <<upgrade, newBuild>>
vars == <<process, inSession, clocks, worker_queue, reports, servers, switches,
          stored, firmware>>

-----------------------------------------------------------------------------
(* Event codes.                                                            *)

\* sk_tr069_add_boot_status: the first code replaces "none".
AddCode(codes, c) == codes \cup {c}

\* Before the first report of the device only BOOTSTRAP is due.
Fresh(codes) == codes \in {{}, {"BOOTSTRAP"}}

\* Mutant of Due: the reason for the session is added, the stored codes are not.
DueWithoutStored(codes, flag) ==
    IF Fresh(codes) THEN {"BOOTSTRAP"}
    ELSE IF flag = "PERIODIC" THEN {"PERIODIC"}
    ELSE IF flag = "BOOT" THEN {"BOOT"} ELSE {}
\* evcpe_get_boot_status: the events it adds for the stored codes.
Due(codes, flag) ==
    IF Fresh(codes) THEN {"BOOTSTRAP"}
    ELSE IF flag = "PERIODIC" THEN {"PERIODIC"}
    ELSE (codes \ {"BOOT"}) \cup (IF flag = "BOOT" THEN {"BOOT"} ELSE {})

\* sk_tr069_start_reauth and _awaken: no BOOT after a BOOTSTRAP.
FlagAfterReset(codes) ==
    IF codes = {} \/ "BOOTSTRAP" \in codes THEN "NO_BOOT" ELSE "BOOT"

-----------------------------------------------------------------------------
(* evcpe_start_session, for the stored codes, the events and the flag its  *)
(* caller has just set.  cpe->session is overwritten whatever it is: over  *)
(* a session in flight, the first of the two to end frees the other one,   *)
(* and nothing is said of the agent after that.  An attempt that fails to  *)
(* create or post its Inform ("failed", an error for the caller, or        *)
(* "mute", none) leaves a session that no callback will ever end.          *)
Opened(how) ==
    IF session \in {"open", "overrun"} THEN "overrun"
    ELSE IF how = "open" THEN "open" ELSE "stuck"

OpenSession(all, how) ==
    /\ session' = Opened(how)
    /\ informed' = IF how = "open" THEN all ELSE {}
    /\ acked' = FALSE

StartSessionAs(codes, evs, flag, how) ==
    LET due == Due(codes, flag)
        all == (evs \ {"BOOT"}) \cup due
    IN  /\ events' = all
        /\ event_flag' = flag
        /\ transfer_flag' = (transfer_flag \/ "TRANSFER_COMPLETE" \in due)
        /\ \/ how = "asleep" /\ power_down /\ UNCHANGED inSession
           \/ /\ how = "unresolved" /\ ~power_down /\ FALSE \in Resolves
              /\ UNCHANGED inSession
           \/ /\ how \in Opens /\ ~power_down /\ TRUE \in Resolves
              /\ OpenSession(all, how)

Attempts == {"asleep", "unresolved"} \cup Opens

StartSession(codes, evs, flag) ==
    \E how \in Attempts : StartSessionAs(codes, evs, flag, how)

\* evcpe_worker_start_session, after evcpe_handle_del_event.
ArmSession ==
    /\ session_ev' = TRUE
    /\ events' = {}
    /\ event_flag' = "NO_BOOT"
    /\ UNCHANGED <<inSession, transfer_flag>>

AddMsg(m) ==
    /\ Len(worker_queue) < MaxQueue
    /\ worker_queue' = Append(worker_queue, m)

-----------------------------------------------------------------------------
(* Start and restart of the device.                                        *)
Volatile ==
    /\ session = "none" /\ session_ev = FALSE /\ periodic_ev = FALSE
    /\ worker_queue = << >> /\ events = {} /\ informed = {} /\ acked = FALSE
    /\ event_flag = "NO_BOOT" /\ transfer_flag = FALSE
    /\ flag_acs_url = 1 /\ reset_acs_url_flag = 0
    /\ first_connect = TRUE /\ power_down = FALSE
    /\ reauth = "" /\ start_stun = TRUE /\ tracing = FALSE

Init ==
    /\ running = "off"
    /\ Volatile
    /\ acs_url = "main"
    /\ stored \in {{}, {"BOOTSTRAP"}, {"BOOT"}}
    /\ tr069_acs = "main"
    /\ tr069_inform \in Heartbeats
    /\ upgrade = FALSE /\ newBuild = FALSE
    /\ restarts = 0

\* sk_tr069_check_upgrade_successful_or_not
CodesAfterCheck ==
    IF upgrade /\ newBuild THEN AddCode(stored, "TRANSFER_COMPLETE") ELSE stored
CheckUpgrade ==
    /\ stored' = CodesAfterCheck
    /\ upgrade' = (upgrade /\ ~newBuild)
    /\ newBuild' = (newBuild /\ ~upgrade)

\* sk_tr069_callback: a first session that cannot be started ends the thread
\* before it dispatches its first event.
Boot ==
    /\ running = "off"
    /\ CheckUpgrade
    /\ acs_url' = tr069_acs
    /\ periodic_ev' = tr069_inform
    /\ \E how \in Attempts :
          /\ StartSessionAs(CodesAfterCheck, events, "BOOT", how)
          /\ running' = IF how = "failed" THEN "ended" ELSE "up"
    /\ UNCHANGED <<session_ev, worker_queue, flag_acs_url,
                   reset_acs_url_flag, reauth, tr069_acs, tr069_inform,
                   switches, restarts>>

ForgetVolatile ==
    /\ session' = "none" /\ session_ev' = FALSE /\ periodic_ev' = FALSE
    /\ worker_queue' = << >> /\ events' = {} /\ informed' = {} /\ acked' = FALSE
    /\ event_flag' = "NO_BOOT" /\ transfer_flag' = FALSE
    /\ flag_acs_url' = 1 /\ reset_acs_url_flag' = 0
    /\ first_connect' = TRUE /\ power_down' = FALSE
    /\ reauth' = "" /\ start_stun' = TRUE /\ tracing' = FALSE

\* A reboot, a crash, a power failure or a factory reset; new firmware may
\* have been written in between.  Only the parameters survive.
Restart ==
    /\ running # "off"
    /\ restarts < MaxRestarts
    /\ restarts' = restarts + 1
    /\ running' = "off"
    /\ ForgetVolatile
    /\ newBuild' \in {newBuild, TRUE}
    /\ UNCHANGED <<acs_url, stored, tr069_acs, tr069_inform, upgrade>>

-----------------------------------------------------------------------------
(* The worker loop: every 100 ms the oldest message is handled, unless     *)
(* there is a session.  session_ev is due at once, so it always runs       *)
(* before the next tick.                                                   *)

\* Mutant of Free: the worker does not look at the session.
FreeAnyway == TRUE
\* evcpe_get_session_status
Free == session = "none"

Tick(m) ==
    /\ running = "up"
    /\ ~session_ev
    /\ Free
    /\ worker_queue # << >> /\ Head(worker_queue) = m
    /\ UNCHANGED <<process, heartbeat, first_connect, start_stun>>

Done == worker_queue' = Tail(worker_queue)

\* The last lines of the handlers of connection requests, value changes,
\* shutdowns and the heartbeat.
StartIfFree(evs, flag) ==
    IF session = "none" THEN StartSession(stored, evs, flag)
    ELSE /\ events' = evs /\ event_flag' = flag
         /\ UNCHANGED <<inSession, transfer_flag>>

\* Mutant of ReportNow: the events are cleared after the new one is added.
ReportThenClear(m) ==
    /\ Tick(m) /\ Done
    /\ StartIfFree({}, "NO_BOOT")
    /\ UNCHANGED <<servers, power_down, tracing, stored, firmware, session_ev>>
\* sk_tr069_start_6_connection_request, _4_value_change and _shutdown
ReportNow(m) ==
    /\ Tick(m) /\ Done
    /\ StartIfFree({m}, "NO_BOOT")
    /\ UNCHANGED <<servers, power_down, tracing, stored, firmware, session_ev>>

HandleReportNow ==
    \E m \in {"CONNECTION_REQUEST", "VALUE_CHANGE", "SHUTDOWN"} : ReportNow(m)

HandlePeriodic ==
    /\ Tick("2_PERIODIC") /\ Done
    /\ StartIfFree({}, "PERIODIC")
    /\ UNCHANGED <<servers, power_down, tracing, stored, firmware, session_ev>>

\* sk_tr069_start_download: firmware, or a configuration file.
HandleDownload ==
    /\ Tick("DOWNLOAD") /\ Done
    /\ \/ upgrade' = TRUE /\ newBuild' = FALSE
       \/ UNCHANGED firmware
    /\ UNCHANGED <<inSession, session_ev, reports, servers, power_down,
                   tracing, stored>>

\* sk_tr069_start_upload, _ping and _bandwidth_diagnostics: the work is done
\* at once, and a session reports it.
Finished(m, c) ==
    /\ Tick(m) /\ Done
    /\ stored' = AddCode(stored, c)
    /\ ArmSession
    /\ UNCHANGED <<servers, power_down, tracing, firmware>>

HandleUpload ==
    \/ Finished("UPLOAD", "TRANSFER_COMPLETE")
    \/ /\ Tick("UPLOAD") /\ Done            \* a file type it does not know
       /\ UNCHANGED <<inSession, session_ev, reports, servers, power_down,
                      tracing, stored, firmware>>
HandlePing      == Finished("PING", "DIAGNOSTICS_COMPLETE")
HandleBandwidth == Finished("BANDWIDTH_DIAGNOSTICS", "DIAGNOSTICS_COMPLETE")

HandlePlay ==
    /\ Tick("PLAY") /\ Done
    /\ stored' = AddCode(stored, "DIAGNOSTICS_COMPLETE")
    /\ StartSession(stored', {}, "NO_BOOT")
    /\ UNCHANGED <<servers, power_down, tracing, firmware, session_ev>>

\* sk_tr069_reboot: from now on no session starts until the device restarts.
HandleReboot ==
    /\ Tick("REBOOT") /\ Done
    /\ power_down' = TRUE
    /\ stored' = AddCode(stored, "M_REBOOT")
    /\ UNCHANGED <<inSession, session_ev, reports, servers, tracing, firmware>>

\* sk_tr069_factoryreset: the device restarts some time later.
HandleFactoryReset ==
    /\ Tick("FACTORY_RESET") /\ Done
    /\ stored' = {"BOOTSTRAP"}
    /\ UNCHANGED <<inSession, session_ev, reports, servers, power_down,
                   tracing, firmware>>

\* sk_tr069_traceroute: another process does it and calls back.
HandleTraceroute ==
    /\ Tick("TRACEROUTE") /\ Done
    /\ tracing' = TRUE
    /\ UNCHANGED <<inSession, session_ev, reports, servers, power_down,
                   stored, firmware>>

\* sk_tr069_stun_on_cmd: without its parameters STUN is switched off, which
\* is a value change.
HandleStun ==
    /\ Tick("STUN_ONCMD")
    /\ \E note \in {<< >>, <<"VALUE_CHANGE">>} :
          worker_queue' = Tail(worker_queue) \o note
    /\ UNCHANGED <<inSession, session_ev, reports, servers, power_down,
                   tracing, stored, firmware>>

\* sk_tr069_packet_capture and _syslog_upload leave no trace here.
HandleDiagnosis ==
    /\ \E m \in {"PACKET_CAPTURE", "SYSLOG_UPLOAD"} : Tick(m)
    /\ Done
    /\ UNCHANGED <<inSession, session_ev, reports, servers, power_down,
                   tracing, stored, firmware>>

\* Mutant of Raised: the flag is raised whatever it is.
RaisedAgain(flag) == flag + 1
Raised(flag) == IF flag = 0 THEN 1 ELSE flag

\* sk_tr069_start_reauth
HandleReauth ==
    /\ Tick("REAUTH") /\ Done
    /\ acs_url' = IF reauth = "" THEN acs_url ELSE reauth
    /\ reset_acs_url_flag' = Raised(reset_acs_url_flag)
    /\ IF Backup \notin {"", tr069_acs}
       THEN /\ stored' = AddCode(stored, "BOOTSTRAP")
            /\ StartSession(stored', {}, "NO_BOOT")
       ELSE /\ stored' = stored
            /\ StartSession(stored, {}, FlagAfterReset(stored))
    /\ UNCHANGED <<flag_acs_url, reauth, tr069_acs, power_down, tracing,
                   firmware, session_ev>>

\* sk_tr069_start_awaken
HandleAwaken ==
    /\ Tick("AWAKEN") /\ Done
    /\ acs_url' = tr069_acs
    /\ reset_acs_url_flag' = 1
    /\ StartSession(stored, {}, FlagAfterReset(stored))
    /\ UNCHANGED <<flag_acs_url, reauth, tr069_acs, power_down, tracing,
                   stored, firmware, session_ev>>

WorkerTick ==
    \/ HandleReportNow \/ HandlePeriodic \/ HandleDownload \/ HandleUpload
    \/ HandlePing \/ HandleBandwidth \/ HandlePlay \/ HandleReboot
    \/ HandleFactoryReset \/ HandleTraceroute \/ HandleStun \/ HandleDiagnosis
    \/ HandleReauth \/ HandleAwaken

\* evcpe_worker_start_session_cb
SessionTimer ==
    /\ running = "up" /\ session_ev
    /\ session_ev' = FALSE
    /\ StartSession(stored, events, event_flag)
    /\ UNCHANGED <<process, heartbeat, worker_queue, servers, switches,
                   stored, firmware>>

\* Mutant of PeriodicTimer: the timer is not armed again.
TimerRunsOut ==
    /\ running = "up" /\ periodic_ev
    /\ periodic_ev' = FALSE
    /\ worker_queue' = IF tr069_inform /\ ~first_connect /\ worker_queue = << >>
                       THEN <<"2_PERIODIC">> ELSE worker_queue
    /\ UNCHANGED <<process, inSession, session_ev, tr069_inform, reports,
                   servers, switches, stored, firmware>>

\* evcpe_start_session_cb
PeriodicTimer ==
    /\ running = "up" /\ periodic_ev
    /\ periodic_ev' = TRUE
    /\ worker_queue' = IF tr069_inform /\ ~first_connect /\ worker_queue = << >>
                       THEN <<"2_PERIODIC">> ELSE worker_queue
    /\ UNCHANGED <<process, inSession, session_ev, tr069_inform, reports,
                   servers, switches, stored, firmware>>

-----------------------------------------------------------------------------
(* Messages and results from outside the event loop's own work.            *)

\* evcpe_creq_cb, or the UDP request of the STUN thread, which is not a
\* first connection.
ConnectionRequest ==
    /\ running = "up"
    /\ "CONNECTION_REQUEST" \in Outside
    /\ AddMsg("CONNECTION_REQUEST")
    /\ first_connect' \in {first_connect, FALSE}
    /\ UNCHANGED <<process, inSession, clocks, reports, servers, power_down,
                   start_stun, tracing, stored, firmware>>

\* evcpe_creq_cb without credentials: only a challenge, yet a connection.
ConnectionChallenged ==
    /\ running = "up"
    /\ "CONNECTION_REQUEST" \in Outside
    /\ first_connect' = FALSE
    /\ UNCHANGED <<process, inSession, clocks, worker_queue, reports,
                   servers, power_down, start_stun, tracing, stored, firmware>>

OutsideMessage(m) ==
    /\ running = "up"
    /\ m \in Outside \cap {"VALUE_CHANGE", "SHUTDOWN", "BANDWIDTH_DIAGNOSTICS"}
    /\ AddMsg(m)
    /\ UNCHANGED <<process, inSession, clocks, reports, servers, switches,
                   stored, firmware>>

\* sk_tr069_awakening
Awaken ==
    /\ running = "up"
    /\ "AWAKEN" \in Outside
    /\ CheckUpgrade
    /\ AddMsg("AWAKEN")
    /\ UNCHANGED <<process, inSession, clocks, reports, servers, switches>>

\* sk_tr069_traceroute_response_cb: on another thread, at any time.
TracerouteResponse ==
    /\ running = "up" /\ tracing
    /\ tracing' = FALSE
    /\ stored' = AddCode(stored, "DIAGNOSTICS_COMPLETE")
    /\ ArmSession
    /\ UNCHANGED <<process, heartbeat, worker_queue, servers, first_connect,
                   power_down, start_stun, firmware>>

-----------------------------------------------------------------------------
(* The session in progress.                                                *)
InProgress == running = "up" /\ session = "open"

\* evcpe_handle_request and evcpe_handle_set_param_values: the work of a call
\* is queued, to be done once the answer is sent.
AcsCall(m) ==
    /\ InProgress
    /\ m \in AcsCalls
    /\ AddMsg(m)
    /\ IF m = "REAUTH"                    \* sk_tr069_set_acsurl
       THEN \E url \in Addresses : tr069_acs' = url /\ reauth' = url
       ELSE UNCHANGED <<tr069_acs, reauth>>
    /\ UNCHANGED <<process, inSession, clocks, reports, flag_acs_url,
                   reset_acs_url_flag, acs_url, switches, stored, firmware>>

\* sk_tr069_set_inform_enable
AcsSetsHeartbeat ==
    /\ InProgress
    /\ tr069_inform' \in Heartbeats
    /\ periodic_ev' = tr069_inform'
    /\ UNCHANGED <<process, inSession, session_ev, worker_queue, reports,
                   servers, switches, stored, firmware>>

\* sk_tr069_set_upgrade_url: the upgrade is asked of the device at once.
AcsSetsUpgradeUrl ==
    /\ InProgress
    /\ upgrade' = TRUE /\ newBuild' = FALSE
    /\ UNCHANGED <<process, inSession, clocks, worker_queue, reports, servers,
                   switches, stored>>

\* evcpe_handle_inform_response
InformTaken ==
    /\ InProgress /\ ~acked
    /\ acked' = TRUE
    /\ events' = {}
    /\ UNCHANGED <<process, session, informed, clocks, worker_queue,
                   event_flag, transfer_flag, servers, switches, stored,
                   firmware>>

\* evcpe_session_http_cb posts a TransferComplete.
TransferPosted ==
    /\ InProgress /\ transfer_flag
    /\ transfer_flag' = FALSE
    /\ UNCHANGED <<process, inSession, clocks, worker_queue, events,
                   event_flag, servers, switches, stored, firmware>>

\* A new Inform could not be created or posted after a challenge.
SessionStalls ==
    /\ InProgress
    /\ Opens # {"open"}
    /\ session' = "stuck"
    /\ UNCHANGED <<process, informed, acked, clocks, worker_queue, reports,
                   servers, switches, stored, firmware>>

SessionOver ==
    /\ InProgress
    /\ session' = "none" /\ informed' = {} /\ acked' = FALSE

\* evcpe_session_terminate_cb, success
SessionOk ==
    /\ SessionOver
    /\ "ok" \in Ends
    /\ AcksFirst => acked
    /\ flag_acs_url' = 0 /\ reset_acs_url_flag' = 0
    /\ first_connect' = FALSE
    /\ stored' = {"BOOT"}
    /\ start_stun' = FALSE
    /\ IF start_stun /\ PPPoE
       THEN worker_queue' = Append(worker_queue, "STUN_ONCMD")
       ELSE UNCHANGED worker_queue
    /\ UNCHANGED <<process, clocks, reports, acs_url, reauth, tr069_acs,
                   power_down, tracing, firmware>>

\* Mutant of SwitchServer: the flags are set but nothing is queued.
SwitchUnqueued ==
    /\ reauth' = IF Backup = "" THEN tr069_acs ELSE Backup
    /\ UNCHANGED worker_queue
    /\ flag_acs_url' = 2 /\ reset_acs_url_flag' = 2

\* The first failure of a process, or of a new or awakened server, sends the
\* agent to the other server; the next one is final.
SwitchServer ==
    IF flag_acs_url = 1 \/ reset_acs_url_flag = 1
    THEN /\ reauth' = IF Backup = "" THEN tr069_acs ELSE Backup
         /\ worker_queue' = Append(worker_queue, "REAUTH")
         /\ flag_acs_url' = 2 /\ reset_acs_url_flag' = 2
    ELSE /\ UNCHANGED <<reauth, worker_queue>>
         /\ IF flag_acs_url = 2 \/ reset_acs_url_flag = 2
            THEN flag_acs_url' = 0 /\ reset_acs_url_flag' = 0
            ELSE UNCHANGED <<flag_acs_url, reset_acs_url_flag>>

\* Mutant of SessionFail: the stored codes are reset before the result of the
\* session is known.
FailForgets ==
    /\ SessionOver
    /\ "fail" \in Ends
    /\ SwitchServer
    /\ transfer_flag' \in {transfer_flag, FALSE}
    /\ stored' = {"BOOT"}
    /\ UNCHANGED <<process, clocks, events, event_flag, acs_url, tr069_acs,
                   switches, firmware>>

\* evcpe_session_terminate_cb, failure; a transfer report may be lost with it.
SessionFail ==
    /\ SessionOver
    /\ "fail" \in Ends
    /\ SwitchServer
    /\ transfer_flag' \in {transfer_flag, FALSE}
    /\ UNCHANGED <<process, clocks, events, event_flag, acs_url, tr069_acs,
                   switches, stored, firmware>>

SessionEnd == SessionOk \/ SessionFail

Next ==
    \/ Boot \/ Restart
    \/ WorkerTick \/ SessionTimer \/ PeriodicTimer
    \/ ConnectionRequest \/ ConnectionChallenged \/ Awaken \/ TracerouteResponse
    \/ \E m \in OutsideMessages : OutsideMessage(m)
    \/ \E m \in AcsMessages : AcsCall(m)
    \/ AcsSetsHeartbeat \/ AcsSetsUpgradeUrl \/ InformTaken \/ TransferPosted
    \/ SessionStalls \/ SessionEnd

\* The event loop dispatches what is due, and a session that does not hang
\* ends (CwmpSession, SessionEnds).
Fairness ==
    /\ WF_vars(Boot)
    /\ WF_vars(WorkerTick)
    /\ WF_vars(SessionTimer)
    /\ WF_vars(PeriodicTimer)
    /\ WF_vars(SessionEnd)

Spec == Init /\ [][Next]_vars /\ Fairness

-----------------------------------------------------------------------------
TypeOK ==
    /\ running \in {"off", "up", "ended"}
    /\ session \in {"none", "open", "stuck", "overrun"}
    /\ session_ev \in BOOLEAN /\ periodic_ev \in BOOLEAN
    /\ worker_queue \in Seq(Messages)
    /\ events \subseteq Events /\ informed \subseteq Events
    /\ acked \in BOOLEAN
    /\ event_flag \in {"NO_BOOT", "BOOT", "PERIODIC"}
    /\ transfer_flag \in BOOLEAN
    /\ flag_acs_url \in 0..2 /\ reset_acs_url_flag \in 0..2
    /\ first_connect \in BOOLEAN /\ power_down \in BOOLEAN
    /\ acs_url \in Addresses /\ reauth \in Addresses \cup {""}
    /\ start_stun \in BOOLEAN /\ tracing \in BOOLEAN
    /\ stored \subseteq Codes
    /\ tr069_acs \in Addresses /\ tr069_inform \in Heartbeats
    /\ upgrade \in BOOLEAN /\ newBuild \in BOOLEAN
    /\ restarts \in 0..MaxRestarts

\* No session is opened over one that is in flight, although a dozen handlers,
\* two timers and the boot each open sessions on their own (evcpe_start_session
\* does not look).  It takes the result of a traceroute to break this.
\* cpe.c:915 says of a request of the server that no session is started when
\* one is established already.
OneSessionAtATime == session # "overrun"

\* What the ACS is owed, for the stored codes.
Owed(codes) == IF Fresh(codes) THEN {"BOOTSTRAP"} ELSE codes \ {"BOOT"}

\* A session that is in progress was opened with an Inform that carries every
\* event owed: none was stored since, and none was left out.  (Without the
\* heartbeat, whose Inform leaves them out, and without traceroutes.)
InformCarriesStored == session = "open" => Owed(stored) \subseteq informed

\* A code leaves the persistent list only when the ACS has taken an Inform that
\* carries it, whatever fails, restarts, or is queued meanwhile; a factory
\* reset clears the list (cpe.c:1310, the reset of tr069_event on success).
ReportedBeforeForgotten ==
    [][\A c \in stored \ (stored' \cup {"BOOT"}) :
          stored' = {"BOOTSTRAP"} \/ (acked /\ c \in informed)]_vars

\* What keeps the agent from talking to the ACS and is not the schedule's doing.
Cut == running # "up" \/ power_down \/ session \in {"stuck", "overrun"}

\* A connection request is answered by a session whose Inform says so, whatever
\* is queued before it and however the sessions before it end: no handler and
\* no timer clears its event first.
ConnectionRequestReported ==
    (\E i \in DOMAIN worker_queue : worker_queue[i] = "CONNECTION_REQUEST")
        ~> ("CONNECTION_REQUEST" \in informed \/ Cut)

\* Once the first session has succeeded or the ACS has connected, the agent
\* never falls silent while the periodic Inform is enabled.
HeartbeatGoesOn ==
    []<>(session # "none" \/ Cut \/ first_connect \/ ~tr069_inform)

\* After the first failed session of a process the other server is tried,
\* whatever else is queued (cpe.c:1246-1274).
OtherServerTried == (flag_acs_url = 2) ~> (acs_url = Backup \/ Cut)
=============================================================================
