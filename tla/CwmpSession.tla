----------------------------- MODULE CwmpSession -----------------------------
(***************************************************************************)
(* One CWMP session of the agent (session.c), from evcpe_start_session to  *)
(* the termination callback.  The event thread runs every handler here, so *)
(* a handler is one step: evcpe_session_http_cb takes the reply to the one *)
(* HTTP request in flight, handles the SOAP message in it, and posts the   *)
(* next message or closes the session.  The ACS is the environment.        *)
(*                                                                         *)
(* Abstracted: SOAP text, cookies, the digest header and the saved bytes   *)
(* of the Inform (they decide what a POST contains, not which POST is      *)
(* sent), session ids, and failures to allocate memory.                    *)
(***************************************************************************)
EXTENDS Naturals, Sequences

CONSTANTS
    AcsMethods,    \* the RPC methods the ACS may call
    Holds,         \* values of HoldRequests the ACS may send
    Headers,       \* may a 401 carry WWW-Authenticate: subset of BOOLEAN
    MaxCalls,      \* bound: RPC calls of the ACS in the session
    MaxOutstanding \* bound: length of req_out

ASSUME BoundsAssumption ==
    /\ MaxCalls \in Nat
    /\ MaxOutstanding \in Nat
    /\ Holds \subseteq BOOLEAN
    /\ Headers \subseteq BOOLEAN

VARIABLES
    status,         \* "idle", "open", or how the session ended
    posted,         \* the HTTP request in flight
    heard,          \* what the last HTTP reply was
    hold_requests,  \* session->hold_requests
    retry_cnt,      \* session->retry_cnt
    req_in,         \* calls of the ACS that have no answer yet
    req_out,        \* requests posted and not settled, oldest first
    req_pending,    \* requests still to be posted
    res_pending,    \* answers still to be posted
    transfer_flag,  \* cpe->transfer_flag
    informAcked,    \* an InformResponse was accepted and the events deleted
    calls,          \* how many calls the ACS has made
    orderly,        \* the ACS has answered every POST in turn
    beat            \* alternates, so that no callback is a stuttering step

queues == <<req_in, req_out, req_pending, res_pending>>
vars == <<status, posted, heard, hold_requests, retry_cnt, queues,
          transfer_flag, informAcked, calls, orderly, beat>>

RetryLimit == 5

CpeMethods == {"Inform", "TransferComplete"}

Request(m) == [kind |-> "request", method |-> m]
Answer(m)  == [kind |-> "answer", method |-> m]
EmptyPost  == [kind |-> "empty", method |-> "none"]
NoPost     == [kind |-> "none", method |-> "none"]

Posts == [kind : {"request"}, method : CpeMethods]
         \cup [kind : {"answer"}, method : AcsMethods]
         \cup {EmptyPost, NoPost}

(***************************************************************************)
(* What a reply carries.  "unknown" is everything evcpe_msg_from_xml gives *)
(* no type: pages, broken SOAP, methods the agent has no parser for.       *)
(***************************************************************************)
Nothing == [type |-> "empty"]
Unknown == [type |-> "unknown"]
Silence == [type |-> "silence"]
Calls     == [type : {"request"}, method : AcsMethods, hold : Holds]
Responses == [type : {"response"}, method : CpeMethods, hold : Holds]
Faults    == [type : {"fault"}, hold : Holds]
Denials   == [type : {"challenge"}, header : Headers]
Bodies    == {Nothing, Unknown} \cup Calls \cup Responses \cup Faults
Replies   == Bodies \cup Denials \cup {Silence}

Awaiting == status = "open" /\ posted # NoPost

\* Nothing is in flight, so no callback of this session will ever run again.
Stuck == status = "open" /\ posted = NoPost

-----------------------------------------------------------------------------
Init ==
    /\ status = "idle"
    /\ posted = NoPost
    /\ heard = Silence
    /\ hold_requests = FALSE
    /\ retry_cnt = 0
    /\ req_in = << >> /\ req_out = << >>
    /\ req_pending = << >> /\ res_pending = << >>
    /\ transfer_flag \in BOOLEAN
    /\ informAcked = FALSE
    /\ calls = 0 /\ orderly = TRUE
    /\ beat = 0

\* What evcpe_session_send_do does with a message: a URL without a path makes
\* it lose the message and report success.
Sendings == {"posted", "lost", "refused"}

\* evcpe_session_start: the first pending request must be an Inform.
StartPending(pending, sent) ==
    IF sent # "refused" /\ pending # << >> /\ Head(pending) = "Inform"
    THEN /\ posted' = IF sent = "posted" THEN Request("Inform") ELSE NoPost
         /\ req_pending' = Tail(pending)
         /\ req_out' = Append(req_out, "Inform")
    ELSE /\ posted' = NoPost
         /\ req_pending' = pending
         /\ UNCHANGED req_out

\* evcpe_create_inform: nothing is queued when the repository cannot fill in
\* the Inform; the Inform stays queued when it cannot be posted.
CreateInform(filled, sent) ==
    IF filled
    THEN StartPending(Append(req_pending, "Inform"), sent)
    ELSE posted' = NoPost /\ UNCHANGED <<req_pending, req_out>>

\* evcpe_start_session, once the address of the ACS is known.  A failure to
\* create the Inform leaves the session in place.
Start ==
    /\ status = "idle"
    /\ status' = "open"
    /\ \E filled \in BOOLEAN, sent \in Sendings : CreateInform(filled, sent)
    /\ UNCHANGED <<heard, hold_requests, retry_cnt, req_in, res_pending,
                   transfer_flag, informAcked, calls, orderly, beat>>

\* evcpe_session_free
FreeQueues ==
    /\ req_in' = << >> /\ req_out' = << >>
    /\ req_pending' = << >> /\ res_pending' = << >>

\* evcpe_session_close: the termination callback frees the session.
Close(how) ==
    /\ status' = how
    /\ posted' = NoPost
    /\ FreeQueues

-----------------------------------------------------------------------------
(* The reply is a time-out: no answer, or status 0, 404 or 408.            *)
TimedOut ==
    /\ Awaiting
    /\ heard' = Silence
    /\ beat' = 1 - beat
    /\ Close("fail")
    /\ UNCHANGED <<hold_requests, retry_cnt, transfer_flag, informAcked, calls,
                   orderly>>

\* Mutant of Challenged: one challenge too many is answered.
ChallengedOnceMore ==
    /\ Awaiting
    /\ retry_cnt <= RetryLimit
    /\ beat' = 1 - beat
    /\ \E denied \in Denials :
          /\ heard' = denied
          /\ retry_cnt' = IF denied.header THEN retry_cnt + 1 ELSE retry_cnt
    /\ UNCHANGED <<hold_requests, transfer_flag, informAcked, calls, orderly>>

\* Mutant of Challenged: the retries are not counted.
ChallengedUncounted ==
    /\ Awaiting
    /\ retry_cnt < RetryLimit
    /\ beat' = 1 - beat
    /\ heard' \in Denials
    /\ UNCHANGED <<retry_cnt, hold_requests, transfer_flag, informAcked, calls,
                   orderly>>

(* The reply is a 401 and retries are left.                                *)
Challenged ==
    /\ Awaiting
    /\ retry_cnt < RetryLimit
    /\ beat' = 1 - beat
    /\ \E denied \in Denials :
          /\ heard' = denied
          /\ retry_cnt' = IF denied.header THEN retry_cnt + 1 ELSE retry_cnt
    /\ UNCHANGED <<hold_requests, transfer_flag, informAcked, calls, orderly>>

\* The oldest outstanding request is the Inform: it is posted again.
ResendInform ==
    /\ Challenged
    /\ req_out # << >>
    /\ Head(req_out) = "Inform"
    /\ \/ /\ posted' = Request("Inform")
          /\ UNCHANGED <<status, queues>>
       \/ Close("fail")

\* It is another request: a new Inform is created, whatever becomes of it, and
\* joins the queue behind the one that was refused.  (The URL has a path, or
\* nothing would have been posted.)
RestartWithInform ==
    /\ Challenged
    /\ req_out # << >>
    /\ Head(req_out) # "Inform"
    /\ Len(req_out) < MaxOutstanding
    /\ \E filled \in BOOLEAN, sent \in Sendings \ {"lost"} : CreateInform(filled, sent)
    /\ UNCHANGED <<status, req_in, res_pending>>

\* There is none: the method of a null message is read.
ChallengedWithNothingOut ==
    /\ Challenged
    /\ req_out = << >>
    /\ Close("crash")

-----------------------------------------------------------------------------
(* Any other reply.  evcpe_session_handle_incoming on its body ...         *)

\* Mutant of SettlesOldest: whatever the response is to, the oldest request is
\* taken for answered.
SettlesAny(b) == req_out # << >>

SettlesOldest(b) ==
    /\ req_out # << >>
    /\ b.type = "response" => b.method = Head(req_out)

Handled(b) ==
    \/ b.type \in {"empty", "request"}
    \/ b.type \in {"response", "fault"} /\ SettlesOldest(b)

\* Mutant of AnswerOldest: the answered call stays in req_in.
AnswerAndKeep(arrived, m) ==
    IF Head(arrived) = m
    THEN [in |-> arrived, res |-> Append(res_pending, m)]
    ELSE [in |-> arrived, res |-> res_pending]

\* evcpe_handle_request ends in evcpe_session_send, which answers the oldest
\* call if the answer is of its method.
AnswerOldest(arrived, m) ==
    IF Head(arrived) = m
    THEN [in |-> Tail(arrived), res |-> Append(res_pending, m)]
    ELSE [in |-> arrived, res |-> res_pending]

HoldAfter(b) == IF b.type = "empty" THEN hold_requests ELSE b.hold
\* Mutant of OutAfter: a settled request stays in the queue.
OutKept(b) == req_out
OutAfter(b) ==
    IF b.type \in {"response", "fault"} THEN Tail(req_out) ELSE req_out
AnsweredAfter(b) ==
    IF b.type = "request"
    THEN AnswerOldest(Append(req_in, b.method), b.method)
    ELSE [in |-> req_in, res |-> res_pending]

AcksInform(b) == b.type = "response" /\ b.method = "Inform"

(* ... and then one of six things, in this order of precedence.            *)
PostAnswer(b) ==
    LET res == AnsweredAfter(b).res IN
    /\ res # << >>
    /\ posted' = Answer(Head(res))
    /\ res_pending' = Tail(res)
    /\ req_out' = OutAfter(b)
    /\ UNCHANGED <<status, req_pending, transfer_flag>>

NoAnswer(b) == AnsweredAfter(b).res = << >>

\* Mutant of PostHeld: the hold flag is looked at before the answers.
PostHeldFirst(b) ==
    /\ HoldAfter(b)
    /\ posted' = EmptyPost
    /\ req_out' = OutAfter(b)
    /\ res_pending' = AnsweredAfter(b).res
    /\ UNCHANGED <<status, req_pending, transfer_flag>>

PostHeld(b) ==
    /\ NoAnswer(b) /\ HoldAfter(b)
    /\ posted' = EmptyPost
    /\ req_out' = OutAfter(b)
    /\ res_pending' = << >>
    /\ UNCHANGED <<status, req_pending, transfer_flag>>

PostPending(b) ==
    /\ NoAnswer(b) /\ ~HoldAfter(b) /\ req_pending # << >>
    /\ posted' = Request(Head(req_pending))
    /\ req_pending' = Tail(req_pending)
    /\ req_out' = Append(OutAfter(b), Head(req_pending))
    /\ res_pending' = << >>
    /\ UNCHANGED <<status, transfer_flag>>

Idle(b) == NoAnswer(b) /\ ~HoldAfter(b) /\ req_pending = << >>

Finish(b) ==
    /\ Idle(b) /\ b.type = "empty"
    /\ Close("ok")
    /\ UNCHANGED transfer_flag

PostTransfer(b) ==
    /\ Idle(b) /\ b.type # "empty" /\ transfer_flag
    /\ posted' = Request("TransferComplete")
    /\ req_out' = Append(OutAfter(b), "TransferComplete")
    /\ transfer_flag' = FALSE
    /\ res_pending' = << >>
    /\ UNCHANGED <<status, req_pending>>

\* Mutant of PostNothing: the flag is not looked at.
PostNothingAnyway(b) ==
    /\ Idle(b) /\ b.type # "empty"
    /\ posted' = EmptyPost
    /\ req_out' = OutAfter(b)
    /\ res_pending' = << >>
    /\ UNCHANGED <<status, req_pending, transfer_flag>>

PostNothing(b) ==
    /\ Idle(b) /\ b.type # "empty" /\ ~transfer_flag
    /\ posted' = EmptyPost
    /\ req_out' = OutAfter(b)
    /\ res_pending' = << >>
    /\ UNCHANGED <<status, req_pending, transfer_flag>>

\* The POST fails: the session fails, and a transfer report is dropped.
PostFails(b) ==
    /\ Idle(b) => b.type # "empty"
    /\ Close("fail")
    /\ transfer_flag' = (transfer_flag /\ ~Idle(b))

\* What an ACS that answers in turn says: a request is answered in the reply
\* to the POST that carries it, with the response to it (a TransferComplete
\* also with a fault), and nothing else is answered.
InTurn(b) ==
    IF posted.kind = "request"
    THEN \/ b.type = "response" /\ b.method = posted.method
         \/ b.type = "fault" /\ posted.method # "Inform"
    ELSE b.type \in {"empty", "request"}

Answered(b) ==
    /\ Awaiting
    /\ heard' = b
    /\ beat' = 1 - beat
    /\ retry_cnt' = 0
    /\ b.type = "request" => calls < MaxCalls
    /\ calls' = IF b.type = "request" THEN calls + 1 ELSE calls
    /\ orderly' = (orderly /\ InTurn(b))

Accept(b) ==
    /\ Answered(b)
    /\ Handled(b)
    /\ hold_requests' = HoldAfter(b)
    /\ informAcked' = (informAcked \/ AcksInform(b))
    /\ \/ /\ req_in' = AnsweredAfter(b).in
          /\ \/ PostAnswer(b) \/ PostHeld(b) \/ PostPending(b)
             \/ PostTransfer(b) \/ PostNothing(b)
       \/ Finish(b)
       \/ PostFails(b)

\* The body has no type, or settles a request that is not the oldest; its
\* HoldRequests may have been read by then.
Reject(b) ==
    /\ Answered(b)
    /\ ~Handled(b)
    /\ Close("fail")
    /\ hold_requests' \in {hold_requests} \cup Holds
    /\ UNCHANGED <<transfer_flag, informAcked>>

\* A Set-Cookie header that cannot be parsed: the body is not looked at.
BadCookie(b) ==
    /\ Answered(b)
    /\ Close("fail")
    /\ UNCHANGED <<hold_requests, transfer_flag, informAcked>>

\* An InformResponse whose MaxEnvelopes is not 1: evcpe_session_message_cb
\* closes and frees the session, then its caller goes on using it.
RejectEnvelopes(b) ==
    /\ Answered(b)
    /\ Handled(b) /\ AcksInform(b)
    /\ Close("crash")
    /\ hold_requests' = HoldAfter(b)
    /\ UNCHANGED <<transfer_flag, informAcked>>

HttpCallback ==
    \/ TimedOut
    \/ ResendInform
    \/ RestartWithInform
    \/ ChallengedWithNothingOut
    \/ \E b \in Bodies :
          Accept(b) \/ Reject(b) \/ BadCookie(b) \/ RejectEnvelopes(b)

Next == Start \/ HttpCallback

\* evhttp calls back for every request it was given, with the reply or, after
\* the connection's timeout, without one.
Fairness == WF_vars(HttpCallback)

Spec == Init /\ [][Next]_vars /\ Fairness

-----------------------------------------------------------------------------
TypeOK ==
    /\ status \in {"idle", "open", "ok", "fail", "crash"}
    /\ posted \in Posts
    /\ heard \in Replies
    /\ hold_requests \in BOOLEAN
    /\ retry_cnt \in 0..RetryLimit
    /\ req_in \in Seq(AcsMethods)
    /\ req_out \in Seq(CpeMethods)
    /\ req_pending \in Seq(CpeMethods)
    /\ res_pending \in Seq(AcsMethods)
    /\ transfer_flag \in BOOLEAN
    /\ informAcked \in BOOLEAN
    /\ calls \in 0..MaxCalls /\ orderly \in BOOLEAN
    /\ beat \in {0, 1}

\* While a reply is awaited, the POST in flight answers the call the ACS made
\* last, or there was no such call: no call is answered late, twice, by the
\* answer to another one, or behind a POST of the agent's own
\* (evcpe_session_send and the order of the branches of evcpe_session_http_cb).
CallsAnsweredInTurn ==
    Awaiting =>
        /\ heard.type = "request" <=> posted.kind = "answer"
        /\ heard.type = "request" => posted = Answer(heard.method)

\* Between two callbacks the queues hold no unfinished business: every call is
\* answered and its answer posted within the callback that brought it, and a
\* request stays unposted only in a session that hangs.  A session that does
\* not run has nothing in flight.
QueuesDrained ==
    /\ req_in = << >> /\ res_pending = << >>
    /\ Awaiting => req_pending = << >>
    /\ status = "idle" =>
          req_out = << >> /\ req_pending = << >> /\ heard = Silence
    /\ status # "open" => posted = NoPost /\ req_out = << >>

\* An ACS that acknowledges the Inform and never holds requests is told of the
\* finished transfer before the session can end well.
TransferReportedBeforeSuccess ==
    [](~hold_requests) => [](status = "ok" /\ informAcked => ~transfer_flag)

\* An ACS that stops holding requests, makes finitely many calls and challenges
\* with a WWW-Authenticate header cannot keep a session open: it ends, unless
\* an Inform that could not be created left nothing in flight.
SessionEnds ==
    /\ <>[](~hold_requests)
    /\ <>[](heard.type = "challenge" => heard.header)
    => <>[](status # "open" \/ Stuck)

\* With an ACS that answers in turn (and may hold, challenge, call and time out as
\* it likes), a session that ends well has had its Inform taken and every other
\* request answered, a TransferComplete that was refused
\* with a 401 included: a new Inform is then posted behind it, and an answer to
\* that Inform must not pass for the answer to the report, whose flag is down
\* already (session.c 101-124, 203-208, 350).
SuccessMeansAnswered ==
    [][status = "open" /\ status' = "ok" /\ orderly'
       => informAcked /\ req_out = << >>]_vars

\* The session is a half-duplex exchange: the queues, the hold flag and the
\* authentication retries are invisible from outside.
Exchange == INSTANCE CwmpExchange WITH
    stage <- status, wire <- posted, awaiting <- req_out, flag <- transfer_flag

ExchangeSpec == Exchange!Spec

=============================================================================
