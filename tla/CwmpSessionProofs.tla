-------------------------- MODULE CwmpSessionProofs --------------------------
(***************************************************************************)
(* Theorems about CwmpSession for all values of its constants.             *)
(***************************************************************************)
EXTENDS CwmpSession, TLAPS

\* A body of each type belongs to the set of bodies of that type.
LEMMA BodyTypes ==
    ASSUME NEW b \in Bodies
    PROVE  /\ b.type \in {"empty", "unknown", "request", "response", "fault"}
           /\ b.type = "request" => b.method \in AcsMethods /\ b.hold \in Holds
           /\ b.type = "response" => b.method \in CpeMethods /\ b.hold \in Holds
           /\ b.type = "fault" => b.hold \in Holds
  BY DEF Bodies, Nothing, Unknown, Calls, Responses, Faults

IInv == TypeOK /\ QueuesDrained

\* With the queues drained, the answer to a call is the only one to post.
LEMMA AnsweredAlone ==
    ASSUME TypeOK, QueuesDrained, NEW b \in Bodies
    PROVE  /\ AnsweredAfter(b).in = << >>
           /\ b.type = "request" => AnsweredAfter(b).res = <<b.method>>
           /\ b.type # "request" => AnsweredAfter(b).res = << >>
<1>1. CASE b.type = "request"
  <2>1. b.method \in AcsMethods
    BY <1>1, BodyTypes
  <2>2. /\ Append(req_in, b.method) = <<b.method>>
        /\ Append(res_pending, b.method) = <<b.method>>
    BY <2>1 DEF QueuesDrained
  <2>3. Head(<<b.method>>) = b.method /\ Tail(<<b.method>>) = << >>
    BY <2>1
  <2>. QED
    BY <1>1, <2>2, <2>3 DEF AnsweredAfter, AnswerOldest
<1>2. CASE b.type # "request"
  BY <1>2 DEF AnsweredAfter, QueuesDrained
<1>. QED
  BY <1>1, <1>2

\* Before the session is started all its queues are empty.
LEMMA InitIInv == Init => IInv
<1>. SUFFICES ASSUME Init PROVE IInv
  OBVIOUS
<1>1. posted \in Posts /\ heard \in Replies
  BY DEF Init, Posts, Replies
<1>2. 0 \in 0..MaxCalls /\ 0 \in 0..RetryLimit
  BY BoundsAssumption DEF RetryLimit
<1>3. << >> \in Seq(AcsMethods) /\ << >> \in Seq(CpeMethods)
  OBVIOUS
<1>4. TypeOK
  BY <1>1, <1>2, <1>3, Zenon DEF Init, TypeOK
<1>5. QueuesDrained
  BY DEF Init, QueuesDrained, Awaiting
<1>. QED
  BY <1>4, <1>5 DEF IInv

\* What evcpe_create_inform does to the queues, however it ends.
LEMMA CreatedInform ==
    ASSUME IInv, req_pending = << >>, NEW filled \in BOOLEAN, NEW sent \in Sendings,
           CreateInform(filled, sent)
    PROVE  /\ \/ /\ posted' = Request("Inform")
                 /\ req_pending' = << >>
                 /\ req_out' = Append(req_out, "Inform")
              \/ /\ posted' = NoPost
                 /\ req_pending' \in {<< >>, <<"Inform">>}
                 /\ \/ req_out' = req_out
                    \/ sent = "lost" /\ req_out' = Append(req_out, "Inform")
           /\ posted' \in Posts
           /\ req_pending' \in Seq(CpeMethods)
           /\ req_out' \in Seq(CpeMethods)
<1>1. Append(req_pending, "Inform") = <<"Inform">>
  OBVIOUS
<1>2. Head(<<"Inform">>) = "Inform" /\ Tail(<<"Inform">>) = << >>
  OBVIOUS
<1>3. Request("Inform") \in Posts /\ NoPost \in Posts
  BY DEF Request, Posts, CpeMethods
<1>4. req_out \in Seq(CpeMethods)
  BY DEF IInv, TypeOK
<1>5. /\ "Inform" \in CpeMethods
      /\ Append(req_out, "Inform") \in Seq(CpeMethods)
      /\ << >> \in Seq(CpeMethods) /\ <<"Inform">> \in Seq(CpeMethods)
  BY <1>4 DEF CpeMethods
<1>6. \/ /\ posted' = Request("Inform")
         /\ req_pending' = << >>
         /\ req_out' = Append(req_out, "Inform")
      \/ /\ posted' = NoPost
         /\ req_pending' \in {<< >>, <<"Inform">>}
         /\ \/ req_out' = req_out
            \/ sent = "lost" /\ req_out' = Append(req_out, "Inform")
  BY <1>1, <1>2 DEF CreateInform, StartPending, Sendings
<1>7. /\ posted' \in Posts
      /\ req_pending' \in Seq(CpeMethods)
      /\ req_out' \in Seq(CpeMethods)
  BY <1>3, <1>4, <1>5, <1>6
<1>. QED
  BY <1>6, <1>7

\* Closing the session keeps the invariant whatever else the handler did.
LEMMA ClosedIInv ==
    ASSUME NEW how \in {"ok", "fail", "crash"}, Close(how),
           heard' \in Replies, hold_requests' \in BOOLEAN,
           retry_cnt' \in 0..RetryLimit, transfer_flag' \in BOOLEAN,
           informAcked' \in BOOLEAN, calls' \in 0..MaxCalls,
           orderly' \in BOOLEAN, beat' \in {0, 1}
    PROVE  IInv'
<1>1. NoPost \in Posts
  BY DEF Posts
<1>. QED
  BY <1>1 DEF Close, FreeQueues, IInv, TypeOK, QueuesDrained, Awaiting

\* evcpe_start_session queues and posts the Inform.
LEMMA StartIInv == IInv /\ Start => IInv'
<1>. SUFFICES ASSUME IInv, Start PROVE IInv'
  OBVIOUS
<1>1. PICK filled \in BOOLEAN, sent \in Sendings : CreateInform(filled, sent)
  BY DEF Start
<1>2. req_pending = << >>
  BY DEF IInv, QueuesDrained, Start
<1>3. TypeOK'
  BY <1>1, <1>2, CreatedInform DEF Start, IInv, TypeOK
<1>4. QueuesDrained'
  BY <1>1, <1>2, CreatedInform DEF Start, IInv, QueuesDrained, Awaiting, Request, NoPost
<1>. QED
  BY <1>3, <1>4 DEF IInv

\* The variables every 401 handler treats alike.
LEMMA ChallengedTypes ==
    ASSUME IInv, Challenged
    PROVE  /\ heard' \in Replies /\ hold_requests' \in BOOLEAN
           /\ retry_cnt' \in 0..RetryLimit /\ transfer_flag' \in BOOLEAN
           /\ informAcked' \in BOOLEAN /\ calls' \in 0..MaxCalls
           /\ orderly' \in BOOLEAN /\ beat' \in {0, 1} /\ req_pending = << >>
<1>1. heard' \in Replies
  BY DEF Challenged, Replies
<1>2. retry_cnt' \in 0..RetryLimit
  <2>1. retry_cnt' \in {retry_cnt, retry_cnt + 1}
    BY DEF Challenged
  <2>2. retry_cnt \in 0..RetryLimit /\ retry_cnt < RetryLimit
    BY DEF IInv, TypeOK, Challenged
  <2>. QED
    BY <2>1, <2>2 DEF RetryLimit
<1>3. /\ hold_requests' = hold_requests /\ transfer_flag' = transfer_flag
      /\ informAcked' = informAcked /\ calls' = calls /\ orderly' = orderly
  BY DEF Challenged
<1>4. req_pending = << >>
  BY DEF Challenged, IInv, QueuesDrained
<1>5. /\ hold_requests \in BOOLEAN /\ transfer_flag \in BOOLEAN
      /\ informAcked \in BOOLEAN /\ calls \in 0..MaxCalls /\ orderly \in BOOLEAN
  BY DEF IInv, TypeOK
<1>6. beat' \in {0, 1}
  BY DEF Challenged, IInv, TypeOK
<1>. QED
  BY <1>1, <1>2, <1>3, <1>4, <1>5, <1>6

\* A reply that ends the session leaves what is queued where it is.
LEMMA TimedOutIInv == IInv /\ TimedOut => IInv'
<1>. SUFFICES ASSUME IInv, TimedOut PROVE IInv'
  OBVIOUS
<1>1. heard' \in Replies
  BY DEF TimedOut, Replies
<1>2. /\ hold_requests' \in BOOLEAN /\ retry_cnt' \in 0..RetryLimit
      /\ transfer_flag' \in BOOLEAN /\ informAcked' \in BOOLEAN
      /\ calls' \in 0..MaxCalls /\ orderly' \in BOOLEAN
  BY Zenon DEF TimedOut, IInv, TypeOK
<1>3. beat' \in {0, 1}
  BY DEF TimedOut, IInv, TypeOK
<1>. QED
  BY <1>1, <1>2, <1>3, ClosedIInv DEF TimedOut

\* A challenged Inform is posted again.
LEMMA ResendInformIInv == IInv /\ ResendInform => IInv'
<1>. SUFFICES ASSUME IInv, ResendInform PROVE IInv'
  OBVIOUS
<1>1. Challenged
  BY DEF ResendInform
<1>2. CASE Close("fail")
  BY <1>1, <1>2, ChallengedTypes, ClosedIInv
<1>3. CASE posted' = Request("Inform") /\ UNCHANGED <<status, queues>>
  <2>1. Request("Inform") \in Posts
    BY DEF Request, Posts, CpeMethods
  <2>2. status = "open"
    BY <1>1 DEF Challenged, Awaiting
  <2>3. UNCHANGED <<status, req_in, req_out, req_pending, res_pending>>
    BY <1>3 DEF queues
  <2>4. TypeOK'
    BY <1>1, <1>3, <2>1, <2>3, ChallengedTypes DEF IInv, TypeOK
  <2>5. QueuesDrained'
    BY <1>1, <2>2, <2>3, ChallengedTypes DEF IInv, QueuesDrained, Awaiting
  <2>. QED
    BY <2>4, <2>5 DEF IInv
<1>. QED
  BY <1>2, <1>3 DEF ResendInform

\* A challenge to another request starts over with an Inform.
LEMMA RestartIInv == IInv /\ RestartWithInform => IInv'
<1>. SUFFICES ASSUME IInv, RestartWithInform PROVE IInv'
  OBVIOUS
<1>1. Challenged /\ status = "open"
  BY DEF RestartWithInform, Challenged, Awaiting
<1>2. PICK filled \in BOOLEAN, sent \in Sendings \ {"lost"} :
                CreateInform(filled, sent)
  BY DEF RestartWithInform
<1>3. UNCHANGED <<status, req_in, res_pending>>
  BY DEF RestartWithInform
<1>4. TypeOK'
  BY <1>1, <1>2, <1>3, ChallengedTypes, CreatedInform DEF IInv, TypeOK
<1>5. QueuesDrained'
  BY <1>1, <1>2, <1>3, ChallengedTypes, CreatedInform
     DEF IInv, QueuesDrained, Awaiting, Request, NoPost
<1>. QED
  BY <1>4, <1>5 DEF IInv

\* A challenge with nothing outstanding is a crash.
LEMMA NothingOutIInv == IInv /\ ChallengedWithNothingOut => IInv'
  BY ChallengedTypes, ClosedIInv DEF ChallengedWithNothingOut

\* The variables every handler of a 2xx (or any other) reply treats alike.
LEMMA AnsweredTypes ==
    ASSUME IInv, NEW b \in Bodies, Answered(b)
    PROVE  /\ heard' \in Replies
           /\ retry_cnt' \in 0..RetryLimit
           /\ calls' \in 0..MaxCalls
           /\ orderly' \in BOOLEAN
           /\ beat' \in {0, 1}
           /\ b.type # "unknown" => HoldAfter(b) \in BOOLEAN
           /\ OutAfter(b) \in Seq(CpeMethods) \/ ~Handled(b)
           /\ req_pending = << >>
<1>1. heard' \in Replies
  BY DEF Answered, Replies
<1>2. retry_cnt' \in 0..RetryLimit
  BY DEF Answered, RetryLimit
<1>3. calls' \in 0..MaxCalls
  <2>1. calls \in 0..MaxCalls
    BY DEF IInv, TypeOK
  <2>2. calls' = calls \/ (calls < MaxCalls /\ calls' = calls + 1)
    BY DEF Answered
  <2>. QED
    BY <2>1, <2>2, BoundsAssumption
<1>4. b.type # "unknown" => HoldAfter(b) \in BOOLEAN
  <2>1. hold_requests \in BOOLEAN
    BY DEF IInv, TypeOK
  <2>2. b.type \in {"request", "response", "fault"} => b.hold \in BOOLEAN
    BY BodyTypes, BoundsAssumption
  <2>. QED
    BY <2>1, <2>2, BodyTypes DEF HoldAfter
<1>5. OutAfter(b) \in Seq(CpeMethods) \/ ~Handled(b)
  <2>1. req_out \in Seq(CpeMethods)
    BY DEF IInv, TypeOK
  <2>2. req_out # << >> => Tail(req_out) \in Seq(CpeMethods)
    BY <2>1
  <2>. QED
    BY <2>1, <2>2 DEF OutAfter, Handled, SettlesOldest
<1>6. req_pending = << >>
  BY DEF Answered, IInv, QueuesDrained
<1>7. beat' \in {0, 1}
  BY DEF Answered, IInv, TypeOK
<1>8. orderly' \in BOOLEAN
  BY Zenon DEF Answered, IInv, TypeOK
<1>. QED
  BY <1>1, <1>2, <1>3, <1>4, <1>5, <1>6, <1>7, <1>8

\* A reply that is not recognised ends the session.
LEMMA RejectIInv ==
    ASSUME IInv, NEW b \in Bodies, Reject(b) \/ BadCookie(b) \/ RejectEnvelopes(b)
    PROVE  IInv'
<1>1. Answered(b)
  BY DEF Reject, BadCookie, RejectEnvelopes
<1>2. transfer_flag' \in BOOLEAN /\ informAcked' \in BOOLEAN
  BY Zenon DEF Reject, BadCookie, RejectEnvelopes, IInv, TypeOK
<1>3. CASE Reject(b) \/ BadCookie(b)
  <2>1. hold_requests' \in {hold_requests} \cup Holds
    BY <1>3 DEF Reject, BadCookie
  <2>2. hold_requests' \in BOOLEAN
    BY <2>1, BoundsAssumption DEF IInv, TypeOK
  <2>. QED
    BY <1>1, <1>2, <1>3, <2>2, AnsweredTypes, ClosedIInv DEF Reject, BadCookie
<1>4. CASE RejectEnvelopes(b)
  <2>1. hold_requests' \in BOOLEAN
    BY <1>1, <1>4, AnsweredTypes DEF RejectEnvelopes, AcksInform
  <2>. QED
    BY <1>1, <1>2, <1>4, <2>1, AnsweredTypes, ClosedIInv DEF RejectEnvelopes
<1>. QED
  BY <1>3, <1>4

\* With the queues drained, a callback that posts leaves them drained.
LEMMA PostIInv ==
    ASSUME IInv, NEW b \in Bodies, Answered(b), Handled(b),
           hold_requests' = HoldAfter(b),
           informAcked' = (informAcked \/ AcksInform(b)),
           req_in' = AnsweredAfter(b).in,
           \/ PostAnswer(b) \/ PostHeld(b) \/ PostPending(b)
           \/ PostTransfer(b) \/ PostNothing(b)
    PROVE  IInv'
<1>1. /\ TypeOK /\ QueuesDrained
      /\ status = "open"
      /\ b.type # "unknown"
      /\ OutAfter(b) \in Seq(CpeMethods)
  BY AnsweredTypes, BodyTypes DEF IInv, Answered, Awaiting, Handled
<1>2. /\ req_in' = << >>
      /\ b.type = "request" => AnsweredAfter(b).res = <<b.method>>
      /\ b.type # "request" => AnsweredAfter(b).res = << >>
  BY <1>1, AnsweredAlone
<1>3. /\ hold_requests' \in BOOLEAN /\ heard' \in Replies
      /\ retry_cnt' \in 0..RetryLimit /\ calls' \in 0..MaxCalls
      /\ orderly' \in BOOLEAN /\ beat' \in {0, 1} /\ req_pending = << >>
  BY <1>1, AnsweredTypes
<1>4. informAcked' \in BOOLEAN
  BY <1>1, Zenon DEF TypeOK
<1>5. /\ status' = "open"
      /\ posted' \in Posts
      /\ req_pending' = << >>
      /\ res_pending' = << >>
      /\ req_out' \in Seq(CpeMethods)
      /\ transfer_flag' \in BOOLEAN
  <2>1. CASE PostAnswer(b)
    <3>1. b.type = "request" /\ AnsweredAfter(b).res = <<b.method>>
      BY <1>2, <2>1 DEF PostAnswer
    <3>2. Head(<<b.method>>) = b.method /\ Tail(<<b.method>>) = << >>
      OBVIOUS
    <3>3. Answer(b.method) \in Posts
      BY <3>1, BodyTypes DEF Answer, Posts
    <3>. QED
      BY <1>1, <1>3, <2>1, <3>1, <3>2, <3>3 DEF PostAnswer, TypeOK
  <2>2. CASE PostHeld(b) \/ PostNothing(b)
    <3>1. EmptyPost \in Posts
      BY DEF Posts
    <3>. QED
      BY <1>1, <1>3, <2>2, <3>1 DEF PostHeld, PostNothing, TypeOK
  <2>3. CASE PostPending(b)
    BY <1>3, <2>3 DEF PostPending
  <2>4. CASE PostTransfer(b)
    <3>1. Request("TransferComplete") \in Posts /\ "TransferComplete" \in CpeMethods
      BY DEF Request, Posts, CpeMethods
    <3>2. Append(OutAfter(b), "TransferComplete") \in Seq(CpeMethods)
      BY <1>1, <3>1
    <3>. QED
      BY <1>1, <1>3, <2>4, <3>1, <3>2 DEF PostTransfer
  <2>. QED
    BY <2>1, <2>2, <2>3, <2>4
<1>6. << >> \in Seq(AcsMethods) /\ << >> \in Seq(CpeMethods)
  OBVIOUS
<1>7. TypeOK'
  BY <1>2, <1>3, <1>4, <1>5, <1>6 DEF TypeOK
<1>8. QueuesDrained'
  BY <1>2, <1>5 DEF QueuesDrained, Awaiting
<1>. QED
  BY <1>7, <1>8 DEF IInv

\* A reply that is handled leaves every queue drained, or held.
LEMMA AcceptIInv == ASSUME IInv, NEW b \in Bodies, Accept(b) PROVE IInv'
<1>1. /\ Answered(b) /\ Handled(b)
      /\ hold_requests' = HoldAfter(b)
      /\ informAcked' = (informAcked \/ AcksInform(b))
  BY DEF Accept
<1>2. hold_requests' \in BOOLEAN
  BY <1>1, AnsweredTypes, BodyTypes DEF Handled
<1>3. informAcked' \in BOOLEAN
  BY <1>1, Zenon DEF IInv, TypeOK
<1>4. CASE Finish(b)
  <2>1. transfer_flag' \in BOOLEAN
    BY <1>4, Zenon DEF Finish, IInv, TypeOK
  <2>. QED
    BY <1>1, <1>2, <1>3, <1>4, <2>1, AnsweredTypes, ClosedIInv DEF Finish
<1>5. CASE PostFails(b)
  <2>1. transfer_flag' \in BOOLEAN
    BY <1>5, Zenon DEF PostFails, IInv, TypeOK
  <2>. QED
    BY <1>1, <1>2, <1>3, <1>5, <2>1, AnsweredTypes, ClosedIInv DEF PostFails
<1>. QED
  BY <1>1, <1>4, <1>5, PostIInv DEF Accept

\* Every step keeps the invariant.
LEMMA NextIInv == IInv /\ [Next]_vars => IInv'
<1>. SUFFICES ASSUME IInv, [Next]_vars PROVE IInv'
  OBVIOUS
<1>1. CASE Start
  BY <1>1, StartIInv
<1>2. CASE TimedOut
  BY <1>2, TimedOutIInv
<1>3. CASE ResendInform
  BY <1>3, ResendInformIInv
<1>4. CASE RestartWithInform
  BY <1>4, RestartIInv
<1>5. CASE ChallengedWithNothingOut
  BY <1>5, NothingOutIInv
<1>6. ASSUME NEW b \in Bodies, Accept(b) PROVE IInv'
  BY <1>6, AcceptIInv
<1>7. ASSUME NEW b \in Bodies, Reject(b) \/ BadCookie(b) \/ RejectEnvelopes(b)
      PROVE  IInv'
  BY <1>7, RejectIInv
<1>8. CASE UNCHANGED vars
  BY <1>8 DEF vars, queues, IInv, TypeOK, QueuesDrained, Awaiting
<1>. QED
  BY <1>1, <1>2, <1>3, <1>4, <1>5, <1>6, <1>7, <1>8 DEF Next, HttpCallback

\* The state of a session always has its type: in particular the agent never
\* answers more than RetryLimit challenges in a row.
THEOREM TypeCorrect == Spec => []TypeOK
<1>1. IInv => TypeOK
  BY DEF IInv
<1>. QED
  BY <1>1, InitIInv, NextIInv, PTL DEF Spec

\* Between two HTTP callbacks no call of the ACS is left unanswered, no answer
\* unposted, and no request of the agent unposted unless the session hangs.
THEOREM QueuesAlwaysDrained == Spec => []QueuesDrained
<1>1. IInv => QueuesDrained
  BY DEF IInv
<1>. QED
  BY <1>1, InitIInv, NextIInv, PTL DEF Spec

-----------------------------------------------------------------------------
(* CwmpSession implements CwmpExchange.                                     *)

\* The session begins where the exchange does.
LEMMA RefinesInit == Init => Exchange!Init
  BY DEF Init, Exchange!Init, NoPost, Exchange!NoPost

\* The Inform opens the exchange.
LEMMA RefinesStart == IInv /\ Start => Exchange!Open
<1>. SUFFICES ASSUME IInv, Start PROVE Exchange!Open
  OBVIOUS
<1>1. PICK filled \in BOOLEAN, sent \in Sendings : CreateInform(filled, sent)
  BY DEF Start
<1>2. req_pending = << >> /\ req_out = << >>
  BY DEF IInv, QueuesDrained, Start
<1>3. \/ posted' = Request("Inform") /\ req_out' = <<"Inform">>
      \/ posted' = NoPost /\ req_out' \in {<< >>, <<"Inform">>}
  <2>1. Append(req_out, "Inform") = <<"Inform">>
    BY <1>2
  <2>. QED
    BY <1>1, <1>2, <2>1, CreatedInform
<1>. QED
  BY <1>3 DEF Start, Exchange!Open, Request, Exchange!Request, NoPost,
     Exchange!NoPost, Exchange!Inform

\* A session that ends ends the exchange.
LEMMA RefinesEnd ==
    ASSUME Awaiting, NEW how \in {"ok", "fail", "crash"}, Close(how),
           transfer_flag' = transfer_flag \/ (how = "fail" /\ transfer_flag' = FALSE)
    PROVE  Exchange!Next
<1>1. Exchange!End(how)
  BY DEF Close, FreeQueues, Awaiting, Exchange!End, Exchange!Posted, NoPost, Exchange!NoPost
<1>. QED
  BY <1>1 DEF Exchange!Next

\* A challenge is one move of the exchange.
LEMMA RefinesChallenge ==
    ASSUME IInv, ResendInform \/ RestartWithInform \/ ChallengedWithNothingOut
    PROVE  Exchange!Next
<1>1. Challenged /\ Awaiting
  BY DEF ResendInform, RestartWithInform, ChallengedWithNothingOut, Challenged
<1>2. transfer_flag' = transfer_flag
  BY <1>1 DEF Challenged
<1>3. CASE Close("fail") \/ Close("crash")
  BY <1>1, <1>2, <1>3, RefinesEnd
<1>4. CASE /\ req_out # << >> /\ Head(req_out) = "Inform"
           /\ posted' = Request("Inform") /\ UNCHANGED <<status, queues>>
  BY <1>1, <1>2, <1>4 DEF queues, Awaiting, Exchange!Next, Exchange!Challenge,
     Exchange!Posted, NoPost, Exchange!NoPost, Request, Exchange!Request, Exchange!Inform
<1>5. CASE RestartWithInform
  <2>1. PICK filled \in BOOLEAN, sent \in Sendings \ {"lost"} :
                  CreateInform(filled, sent)
    BY <1>5 DEF RestartWithInform
  <2>2. req_pending = << >>
    BY <1>1, ChallengedTypes
  <2>3. \/ posted' = Request("Inform") /\ req_out' = Append(req_out, "Inform")
        \/ posted' = NoPost /\ req_out' = req_out
    BY <2>1, <2>2, CreatedInform
  <2>. QED
    BY <1>1, <1>2, <1>5, <2>3 DEF RestartWithInform, Awaiting, Exchange!Next,
       Exchange!Challenge, Exchange!Posted, NoPost, Exchange!NoPost, Request,
       Exchange!Request, Exchange!Inform
<1>. QED
  BY <1>3, <1>4, <1>5 DEF ResendInform, ChallengedWithNothingOut

\* A reply that is handled is one move of the exchange.
LEMMA RefinesAccept ==
    ASSUME IInv, NEW b \in Bodies, Accept(b)
    PROVE  Exchange!Next
<1>1. Answered(b) /\ Handled(b) /\ Awaiting /\ TypeOK /\ QueuesDrained
  BY DEF Accept, Answered, IInv
<1>2. /\ req_pending = << >>
      /\ b.type = "request" => AnsweredAfter(b).res = <<b.method>>
      /\ b.type # "request" => AnsweredAfter(b).res = << >>
      /\ b.type \in {"empty", "request", "response", "fault"}
  BY <1>1, AnsweredAlone, AnsweredTypes DEF Handled
<1>3. /\ b.type \in {"response", "fault"}
         => req_out # << >> /\ OutAfter(b) = Tail(req_out)
      /\ b.type \in {"empty", "request"} => OutAfter(b) = req_out
  BY <1>1 DEF Handled, SettlesOldest, OutAfter
<1>4. Exchange!Posted
  BY <1>1 DEF Awaiting, Exchange!Posted, NoPost, Exchange!NoPost
<1>5. CASE Finish(b)
  BY <1>1, <1>5, RefinesEnd DEF Finish
<1>6. CASE PostFails(b)
  <2>1. transfer_flag' = transfer_flag \/ transfer_flag' = FALSE
    BY <1>1, <1>6 DEF PostFails, TypeOK
  <2>. QED
    BY <1>1, <1>6, <2>1, RefinesEnd DEF PostFails
<1>7. CASE PostAnswer(b)
  <2>1. b.type = "request" /\ b.method \in AcsMethods
    BY <1>2, <1>7, BodyTypes DEF PostAnswer
  <2>2. Head(<<b.method>>) = b.method
    OBVIOUS
  <2>3. Exchange!Call(b.method)
    BY <1>2, <1>3, <1>4, <1>7, <2>1, <2>2
       DEF PostAnswer, Exchange!Call, Answer, Exchange!Answer
  <2>. QED
    BY <2>1, <2>3 DEF Exchange!Next
<1>8. CASE PostHeld(b) \/ PostNothing(b)
  <2>1. /\ posted' = Exchange!EmptyPost /\ req_out' = OutAfter(b)
        /\ status' = status /\ transfer_flag' = transfer_flag
    BY <1>8 DEF PostHeld, PostNothing, EmptyPost, Exchange!EmptyPost
  <2>2. b.type # "request"
    BY <1>2, <1>8 DEF PostHeld, PostNothing, Idle, NoAnswer
  <2>3. CASE b.type = "empty"
    BY <1>3, <1>4, <2>1, <2>3 DEF Exchange!Next, Exchange!Held
  <2>4. CASE b.type \in {"response", "fault"}
    BY <1>3, <1>4, <2>1, <2>4 DEF Exchange!Next, Exchange!Settle, Exchange!Speak
  <2>. QED
    BY <1>2, <2>2, <2>3, <2>4
<1>9. CASE PostTransfer(b)
  <2>1. b.type \in {"response", "fault"}
    BY <1>2, <1>9 DEF PostTransfer, Idle, NoAnswer
  <2>. QED
    BY <1>3, <1>4, <1>9, <2>1 DEF PostTransfer, Exchange!Next, Exchange!Settle,
       Exchange!Speak, Request, Exchange!Request, Exchange!Transfer
<1>10. ~PostPending(b)
  BY <1>2 DEF PostPending
<1>. QED
  BY <1>5, <1>6, <1>7, <1>8, <1>9, <1>10 DEF Accept

\* Every step is a move of the exchange or none.
LEMMA RefinesNext == IInv /\ [Next]_vars => [Exchange!Next]_(Exchange!vars)
<1>. SUFFICES ASSUME IInv, [Next]_vars PROVE Exchange!Next \/ UNCHANGED Exchange!vars
  OBVIOUS
<1>1. CASE Start
  BY <1>1, RefinesStart DEF Exchange!Next
<1>2. CASE TimedOut
  BY <1>2, RefinesEnd DEF TimedOut
<1>3. CASE ResendInform \/ RestartWithInform \/ ChallengedWithNothingOut
  BY <1>3, RefinesChallenge
<1>4. ASSUME NEW b \in Bodies, Accept(b) PROVE Exchange!Next
  BY <1>4, RefinesAccept
<1>5. ASSUME NEW b \in Bodies, Reject(b) \/ BadCookie(b) \/ RejectEnvelopes(b)
      PROVE  Exchange!Next
  BY <1>5, RefinesEnd DEF Reject, BadCookie, RejectEnvelopes, Answered
<1>6. CASE UNCHANGED vars
  BY <1>6 DEF vars, queues, Exchange!vars
<1>. QED
  BY <1>1, <1>2, <1>3, <1>4, <1>5, <1>6 DEF Next, HttpCallback

\* Whatever methods the ACS calls, however it holds, challenges and faults,
\* the session is seen from outside as the half-duplex exchange.
THEOREM ImplementsExchange == Spec => ExchangeSpec
<1>1. Init => Exchange!Init
  BY RefinesInit
<1>2. IInv /\ [Next]_vars => [Exchange!Next]_(Exchange!vars)
  BY RefinesNext
<1>. QED
  BY <1>1, <1>2, InitIInv, NextIInv, PTL DEF Spec, ExchangeSpec, Exchange!Spec

-----------------------------------------------------------------------------
(* Calls and answers alternate.                                             *)

\* An answer is posted by the callback that heard the call.
LEMMA AnsweredInTurnStep == IInv /\ CallsAnsweredInTurn /\ [Next]_vars => CallsAnsweredInTurn'
<1>. SUFFICES ASSUME IInv, CallsAnsweredInTurn, [Next]_vars, Awaiting'
              PROVE  /\ heard'.type = "request" <=> posted'.kind = "answer"
                     /\ heard'.type = "request" => posted' = Answer(heard'.method)
  BY DEF CallsAnsweredInTurn, Answer
<1>1. \A how \in {"ok", "fail", "crash"} : ~Close(how)
  BY DEF Awaiting, Close
<1>2. CASE Start
  <2>1. posted' = Request("Inform")
    BY <1>2, CreatedInform DEF Start, IInv, QueuesDrained, Awaiting, NoPost
  <2>2. heard' = Silence
    BY <1>2 DEF Start, IInv, QueuesDrained
  <2>. QED
    BY <2>1, <2>2 DEF Silence, Request
<1>3. CASE ResendInform \/ RestartWithInform
  <2>1. heard'.type = "challenge"
    BY <1>3 DEF ResendInform, RestartWithInform, Challenged, Denials
  <2>2. posted' = Request("Inform")
    BY <1>1, <1>3, CreatedInform, ChallengedTypes
       DEF ResendInform, RestartWithInform, Awaiting
  <2>. QED
    BY <2>1, <2>2 DEF Request
<1>4. ASSUME NEW b \in Bodies, Accept(b)
      PROVE  /\ heard'.type = "request" <=> posted'.kind = "answer"
             /\ heard'.type = "request" => posted' = Answer(heard'.method)
  <2>1. Answered(b) /\ heard' = b /\ TypeOK /\ QueuesDrained
    BY <1>4 DEF Accept, Answered, IInv
  <2>2. /\ req_pending = << >>
        /\ b.type = "request" => AnsweredAfter(b).res = <<b.method>>
        /\ b.type # "request" => AnsweredAfter(b).res = << >>
    BY <2>1, AnsweredAlone, AnsweredTypes
  <2>3. Head(<<b.method>>) = b.method /\ <<b.method>> # << >>
    OBVIOUS
  <2>4. PostAnswer(b) \/ PostHeld(b) \/ PostTransfer(b) \/ PostNothing(b)
    BY <1>1, <1>4, <2>2 DEF Accept, Finish, PostFails, PostPending
  <2>5. CASE PostAnswer(b)
    BY <2>1, <2>2, <2>3, <2>5 DEF PostAnswer, Answer
  <2>6. CASE PostHeld(b) \/ PostTransfer(b) \/ PostNothing(b)
    BY SMTT(30), <2>1, <2>2, <2>3, <2>6
       DEF PostHeld, PostTransfer, PostNothing, Idle, NoAnswer, EmptyPost, Request
  <2>. QED
    BY <2>4, <2>5, <2>6
<1>5. CASE UNCHANGED vars
  BY <1>5 DEF vars, CallsAnsweredInTurn, Awaiting
<1>. QED
  BY <1>1, <1>2, <1>3, <1>4, <1>5
     DEF Next, HttpCallback, TimedOut, ChallengedWithNothingOut, Reject, BadCookie,
         RejectEnvelopes

\* An answer is on the wire exactly when the last thing heard was a call, and
\* it answers that call.
THEOREM CallsAlwaysAnsweredInTurn == Spec => []CallsAnsweredInTurn
<1>1. Init => CallsAnsweredInTurn
  BY DEF Init, CallsAnsweredInTurn, Awaiting
<1>. QED
  BY <1>1, InitIInv, NextIInv, AnsweredInTurnStep, PTL DEF Spec

-----------------------------------------------------------------------------
(* The transfer report comes before success.                               *)

\* In a session that has not failed, an acknowledged Inform leaves no transfer
\* to report: the callback that hears the InformResponse posts the report.
Reported ==
    informAcked =>
        status # "idle" /\ (status \in {"open", "ok"} => ~transfer_flag)

\* The transfer flag is never raised, and only a 2xx answer acknowledges.
LEMMA FlagOnlyLowered ==
    ASSUME IInv, [Next]_vars
    PROVE  transfer_flag' = TRUE => transfer_flag = TRUE
<1>1. ASSUME NEW b \in Bodies, Accept(b)
      PROVE  transfer_flag' \in {transfer_flag, FALSE}
  <2>1. CASE PostFails(b)
    <3>1. transfer_flag \in BOOLEAN
      BY DEF IInv, TypeOK
    <3>. QED
      BY <2>1, <3>1 DEF PostFails
  <2>. QED
    BY <1>1, <2>1 DEF Accept, PostAnswer, PostHeld, PostPending, PostTransfer,
       PostNothing, Finish
<1>2. ASSUME Start \/ TimedOut \/ ResendInform \/ RestartWithInform
             \/ ChallengedWithNothingOut \/ UNCHANGED vars
      PROVE  transfer_flag' = transfer_flag
  BY <1>2 DEF Start, TimedOut, ResendInform, RestartWithInform,
     ChallengedWithNothingOut, Challenged, vars
<1>3. ASSUME NEW b \in Bodies, Reject(b) \/ BadCookie(b) \/ RejectEnvelopes(b)
      PROVE  transfer_flag' = transfer_flag
  BY <1>3 DEF Reject, BadCookie, RejectEnvelopes
<1>. QED
  BY <1>1, <1>2, <1>3 DEF Next, HttpCallback

\* A session that was started is not idle again.
LEMMA NeverIdleAgain == ASSUME Next PROVE status' # "idle"
<1>1. ASSUME NEW b \in Bodies, Accept(b) PROVE status' # "idle"
  BY <1>1 DEF Accept, Answered, Awaiting, PostAnswer, PostHeld, PostPending,
     PostTransfer, PostNothing, Finish, PostFails, Close
<1>2. CASE Start \/ TimedOut \/ RestartWithInform
  BY <1>2 DEF Start, TimedOut, RestartWithInform, Challenged, Awaiting, Close
<1>3. CASE ResendInform \/ ChallengedWithNothingOut
  BY <1>3 DEF ResendInform, ChallengedWithNothingOut, Challenged, Awaiting, Close
<1>4. ASSUME NEW b \in Bodies, Reject(b) \/ BadCookie(b) \/ RejectEnvelopes(b)
      PROVE  status' # "idle"
  BY <1>4 DEF Reject, BadCookie, RejectEnvelopes, Close
<1>. QED
  BY <1>1, <1>2, <1>3, <1>4 DEF Next, HttpCallback

\* The callback that hears the InformResponse posts the report, if there is one.
LEMMA AcceptReports ==
    ASSUME IInv, Reported, hold_requests' = FALSE, NEW b \in Bodies, Accept(b),
           informAcked', status' \in {"open", "ok"}
    PROVE  ~transfer_flag'
<1>1. /\ Answered(b) /\ Handled(b) /\ hold_requests' = HoldAfter(b)
      /\ informAcked' = (informAcked \/ AcksInform(b))
      /\ TypeOK /\ QueuesDrained /\ status = "open"
  BY DEF Accept, Answered, Awaiting, IInv
<1>2. CASE informAcked
  <2>1. transfer_flag = FALSE
    BY <1>1, <1>2 DEF Reported, TypeOK
  <2>. QED
    BY <2>1, FlagOnlyLowered, NextIInv DEF Next, HttpCallback, IInv, TypeOK
<1>3. CASE AcksInform(b)
  <2>1. /\ b.type = "response"
        /\ AnsweredAfter(b).res = << >> /\ req_pending = << >>
    BY <1>1, <1>3, AnsweredAlone, AnsweredTypes DEF AcksInform
  <2>2. Idle(b) /\ ~HoldAfter(b)
    BY <1>1, <2>1 DEF Idle, NoAnswer
  <2>3. ~PostAnswer(b) /\ ~PostHeld(b) /\ ~PostPending(b) /\ ~Finish(b)
    BY <2>1, <2>2 DEF PostAnswer, PostHeld, PostPending, Finish
  <2>4. ~PostFails(b)
    BY DEF PostFails, Close
  <2>. QED
    BY <2>3, <2>4 DEF Accept, PostTransfer, PostNothing
<1>. QED
  BY <1>1, <1>2, <1>3

\* Nothing else acknowledges an Inform, or raises the flag.
LEMMA ReportedStep ==
    ASSUME IInv, Reported, ~hold_requests', [Next]_vars
    PROVE  Reported'
<1>a. informAcked' => status' # "idle"
  <2>1. CASE UNCHANGED vars
    BY <2>1 DEF vars, Reported
  <2>. QED
    BY <2>1, NeverIdleAgain
<1>. SUFFICES ASSUME informAcked', status' \in {"open", "ok"}
              PROVE  ~transfer_flag'
  BY <1>a DEF Reported
<1>1. ASSUME informAcked' = informAcked, informAcked, status \in {"open", "ok"}
      PROVE  ~transfer_flag'
  BY <1>1, FlagOnlyLowered DEF Reported, IInv, TypeOK
<1>2. ASSUME NEW b \in Bodies, Accept(b)
      PROVE  ~transfer_flag'
  <2>1. hold_requests' = FALSE
    BY <1>2, NextIInv DEF IInv, TypeOK, Next, HttpCallback
  <2>. QED
    BY <1>2, <2>1, AcceptReports
<1>3. CASE Start
  BY <1>1, <1>3 DEF Start, Reported
<1>4. CASE \/ TimedOut \/ ResendInform \/ RestartWithInform
           \/ ChallengedWithNothingOut
  BY <1>1, <1>4 DEF TimedOut, ResendInform, RestartWithInform,
     ChallengedWithNothingOut, Challenged, Awaiting
<1>5. ASSUME NEW b \in Bodies, Reject(b) \/ BadCookie(b) \/ RejectEnvelopes(b)
      PROVE  FALSE
  BY <1>5 DEF Reject, BadCookie, RejectEnvelopes, Close
<1>6. CASE UNCHANGED vars
  BY <1>1, <1>6 DEF vars
<1>. QED
  BY <1>2, <1>3, <1>4, <1>5, <1>6 DEF Next, HttpCallback

\* An ACS that takes the Inform and never holds requests is told of the
\* finished transfer before the session can end well, whatever it calls,
\* however often it challenges, and whichever request it faults (session.c,
\* the order of the branches of evcpe_session_http_cb).
THEOREM ReportedBeforeSuccess == Spec => TransferReportedBeforeSuccess
<1>1. Init => Reported
  BY DEF Init, Reported
<1>2. IInv /\ Reported /\ ~hold_requests' /\ [Next]_vars => Reported'
  BY ReportedStep
<1>3. Reported => (status = "ok" /\ informAcked => ~transfer_flag)
  BY DEF Reported
<1>. QED
  BY <1>1, <1>2, <1>3, InitIInv, NextIInv, PTL DEF Spec, TransferReportedBeforeSuccess

-----------------------------------------------------------------------------
(* With an ACS that answers in turn, success leaves nothing unanswered.     *)

\* What waits for an answer while such an ACS is to reply: the request in
\* flight alone; or, behind a report that was refused, Informs, of which the
\* last is in flight; or nothing, and then the Inform was taken.
Outstanding ==
    Awaiting /\ orderly =>
        \/ posted.kind # "request" /\ req_out = << >> /\ informAcked
        \/ posted = Request("Inform") /\ req_out = <<"Inform">>
        \/ posted = Request("TransferComplete") /\ informAcked
           /\ req_out = <<"TransferComplete">>
        \/ posted = Request("Inform") /\ informAcked
           /\ req_out # << >> /\ Head(req_out) = "TransferComplete"

\* What the ACS may be heard to say is what InTurn allows.
LEMMA InTurnBodies ==
    ASSUME NEW b \in Bodies, Answered(b), orderly'
    PROVE  /\ orderly
           /\ posted.kind = "request" =>
                 \/ b.type = "response" /\ b.method = posted.method
                 \/ b.type = "fault" /\ posted.method # "Inform"
           /\ posted.kind # "request" => b.type \in {"empty", "request"}
<1>1. orderly /\ InTurn(b)
  BY DEF Answered
<1>. QED
  BY <1>1 DEF InTurn

\* A handled reply settles the only request that waits, or finds none waiting.
LEMMA AcceptSettles ==
    ASSUME IInv, Outstanding, orderly', NEW b \in Bodies, Accept(b)
    PROVE  /\ OutAfter(b) = << >>
           /\ informAcked \/ AcksInform(b)
<1>1. Answered(b) /\ Handled(b) /\ Awaiting /\ orderly
  BY DEF Accept, Answered
<1>2. CASE posted.kind # "request" /\ req_out = << >> /\ informAcked
  BY <1>1, <1>2, InTurnBodies DEF OutAfter
<1>3. CASE posted = Request("Inform") /\ req_out = <<"Inform">>
  <2>1. b.type = "response" /\ b.method = "Inform"
    BY <1>1, <1>3, InTurnBodies DEF Request
  <2>. QED
    BY <1>3, <2>1 DEF OutAfter, AcksInform
<1>4. CASE posted = Request("TransferComplete") /\ informAcked
           /\ req_out = <<"TransferComplete">>
  <2>1. b.type \in {"response", "fault"}
    BY <1>1, <1>4, InTurnBodies DEF Request
  <2>. QED
    BY <1>4, <2>1 DEF OutAfter
<1>5. CASE posted = Request("Inform") /\ informAcked
           /\ req_out # << >> /\ Head(req_out) = "TransferComplete"
  <2>1. b.type = "response" /\ b.method = "Inform"
    BY <1>1, <1>5, InTurnBodies DEF Request
  <2>2. ~Handled(b)
    BY <1>5, <2>1 DEF Handled, SettlesOldest
  <2>. QED
    BY <1>1, <2>2
<1>. QED
  BY <1>1, <1>2, <1>3, <1>4, <1>5 DEF Outstanding

\* A reply that is handled is followed by a POST with nothing else waiting.
LEMMA AcceptOutstanding ==
    ASSUME IInv, Outstanding, NEW b \in Bodies, Accept(b)
    PROVE  Outstanding'
<1>. SUFFICES ASSUME Awaiting', orderly' PROVE Outstanding'
  BY DEF Outstanding
<1>1. OutAfter(b) = << >> /\ informAcked'
  BY AcceptSettles DEF Accept
<1>2. req_pending = << >>
  BY AnsweredTypes DEF Accept
<1>3. PostAnswer(b) \/ PostHeld(b) \/ PostTransfer(b) \/ PostNothing(b)
  BY <1>2 DEF Accept, Awaiting, Finish, PostFails, PostPending, Close
<1>4. CASE PostAnswer(b)
  BY <1>1, <1>4 DEF PostAnswer, Answer, Outstanding
<1>5. CASE PostHeld(b) \/ PostNothing(b)
  BY <1>1, <1>5 DEF PostHeld, PostNothing, EmptyPost, Outstanding
<1>6. CASE PostTransfer(b)
  <2>1. req_out' = <<"TransferComplete">>
    BY <1>1, <1>6 DEF PostTransfer
  <2>. QED
    BY <1>1, <1>6, <2>1 DEF PostTransfer, Outstanding
<1>. QED
  BY <1>3, <1>4, <1>5, <1>6

\* A challenge posts the Inform again, or one behind the refused report.
LEMMA ChallengeOutstanding ==
    ASSUME IInv, Outstanding, ResendInform \/ RestartWithInform
    PROVE  Outstanding'
<1>. SUFFICES ASSUME Awaiting', orderly' PROVE Outstanding'
  BY DEF Outstanding
<1>1. Challenged /\ Awaiting /\ req_out # << >> /\ orderly
      /\ informAcked' = informAcked
  BY DEF ResendInform, RestartWithInform, Challenged
<1>2. CASE ResendInform
  <2>1. posted' = Request("Inform") /\ req_out' = req_out
    BY <1>2 DEF ResendInform, Close, Awaiting, queues
  <2>2. Head(req_out) = "Inform"
    BY <1>2 DEF ResendInform
  <2>3. Head(<<"TransferComplete">>) # "Inform"
    OBVIOUS
  <2>4. req_out = <<"Inform">>
    BY <1>1, <2>2, <2>3 DEF Outstanding
  <2>. QED
    BY <2>1, <2>4 DEF Outstanding
<1>3. CASE RestartWithInform
  <2>1. PICK filled \in BOOLEAN, sent \in Sendings \ {"lost"} :
                  CreateInform(filled, sent)
    BY <1>3 DEF RestartWithInform
  <2>2. posted' = Request("Inform") /\ req_out' = Append(req_out, "Inform")
    BY <1>1, <2>1, CreatedInform, ChallengedTypes DEF Awaiting
  <2>3. Head(req_out) # "Inform" /\ req_out \in Seq(CpeMethods)
    BY <1>3 DEF RestartWithInform, IInv, TypeOK
  <2>4. Head(req_out) = "TransferComplete" /\ informAcked
    <3>1. Head(<<"Inform">>) = "Inform"
          /\ Head(<<"TransferComplete">>) = "TransferComplete"
      OBVIOUS
    <3>. QED
      BY <1>1, <2>3, <3>1 DEF Outstanding
  <2>5. req_out' # << >> /\ Head(req_out') = "TransferComplete"
    BY <1>1, <2>2, <2>3, <2>4
  <2>. QED
    BY <1>1, <2>2, <2>4, <2>5 DEF Outstanding
<1>. QED
  BY <1>2, <1>3

\* Every step keeps this.
LEMMA OutstandingStep == IInv /\ Outstanding /\ [Next]_vars => Outstanding'
<1>. SUFFICES ASSUME IInv, Outstanding, [Next]_vars PROVE Outstanding'
  OBVIOUS
<1>1. CASE Start
  <2>1. PICK filled \in BOOLEAN, sent \in Sendings : CreateInform(filled, sent)
    BY <1>1 DEF Start
  <2>2. req_pending = << >> /\ req_out = << >>
    BY <1>1 DEF IInv, QueuesDrained, Start
  <2>3. Append(req_out, "Inform") = <<"Inform">>
    BY <2>2
  <2>. QED
    BY <2>1, <2>2, <2>3, CreatedInform DEF Outstanding, Awaiting
<1>2. CASE ResendInform \/ RestartWithInform
  BY <1>2, ChallengeOutstanding
<1>3. ASSUME NEW b \in Bodies, Accept(b) PROVE Outstanding'
  BY <1>3, AcceptOutstanding
<1>4. ASSUME NEW b \in Bodies, Reject(b) \/ BadCookie(b) \/ RejectEnvelopes(b)
      PROVE  Outstanding'
  BY <1>4 DEF Reject, BadCookie, RejectEnvelopes, Close, Outstanding, Awaiting
<1>5. CASE TimedOut \/ ChallengedWithNothingOut
  BY <1>5 DEF TimedOut, ChallengedWithNothingOut, Close, Outstanding, Awaiting
<1>6. CASE UNCHANGED vars
  BY <1>6 DEF vars, queues, Outstanding, Awaiting
<1>. QED
  BY <1>1, <1>2, <1>3, <1>4, <1>5, <1>6 DEF Next, HttpCallback

\* A session only ends well by the reply that finds nothing waiting.
LEMMA AnsweredStep ==
    ASSUME IInv, Outstanding, Next, status = "open", status' = "ok", orderly'
    PROVE  informAcked /\ req_out = << >>
<1>1. ~Start /\ ~TimedOut /\ ~ResendInform /\ ~RestartWithInform
      /\ ~ChallengedWithNothingOut
  BY DEF Start, TimedOut, ResendInform, RestartWithInform,
     ChallengedWithNothingOut, Close
<1>2. \A b \in Bodies : ~Reject(b) /\ ~BadCookie(b) /\ ~RejectEnvelopes(b)
  BY DEF Reject, BadCookie, RejectEnvelopes, Close
<1>3. PICK b \in Bodies : Accept(b)
  BY <1>1, <1>2 DEF Next, HttpCallback
<1>4. b.type = "empty"
  BY <1>3 DEF Accept, PostAnswer, PostHeld, PostPending, PostTransfer,
     PostNothing, PostFails, Close, Finish
<1>5. OutAfter(b) = << >> /\ (informAcked \/ AcksInform(b))
  BY <1>3, AcceptSettles
<1>. QED
  BY <1>4, <1>5 DEF OutAfter, AcksInform

\* With an ACS that answers each request in the reply to it, however it holds,
\* challenges and calls, no session ends well whose Inform was not taken or
\* that left a request unanswered: one whose transfer report was refused with a
\* 401 can only fail (session.c 101-124 and 203-208).
THEOREM SuccessAlwaysAnswered == Spec => SuccessMeansAnswered
<1>1. Init => Outstanding
  BY DEF Init, Outstanding, Awaiting
<1>2. IInv /\ Outstanding /\ [Next]_vars =>
        [status = "open" /\ status' = "ok" /\ orderly'
         => informAcked /\ req_out = << >>]_vars
  BY AnsweredStep
<1>. QED
  BY <1>1, <1>2, InitIInv, NextIInv, OutstandingStep, PTL
     DEF Spec, SuccessMeansAnswered

=============================================================================
