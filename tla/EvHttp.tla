------------------------------- MODULE EvHttp -------------------------------
(***************************************************************************)
(* The HTTP client connection under the agent's sessions and transfers     *)
(* (skevent/http.c over bufferevent_sock.c): its request queue, its        *)
(* connection state, the events it waits for, and the callbacks it runs.   *)
(*                                                                         *)
(* struct evhttp_connection is one variable, http; each C function that    *)
(* changes it is an operator from a connection to a connection.  One event *)
(* of the event loop is one action.  A call that may come back in several  *)
(* ways - connect, and the user's callback, which may queue a request or   *)
(* free the connection - is a frame on the stack todo, and a step of its   *)
(* own: no event is taken before the stack is empty.                       *)
(*                                                                         *)
(* Abstracted: the bytes of a message are pieces (a line, the headers, a   *)
(* body, a trailer); a request is written in one piece; sizes and their    *)
(* limits; a host name that does not resolve fails like an address that    *)
(* cannot be reached; failures to allocate.  Not used by the agent, and    *)
(* left out: incoming connections, evhttp_cancel_request, close and chunk  *)
(* callbacks, retries (evhttp_connection_set_retries is never called).     *)
(***************************************************************************)
EXTENDS Naturals, Sequences, FiniteSets, SequencesExt

CONSTANTS
    Requests,
    Framings,    \* how the server ends a reply
    Attempts,    \* how connecting may start
    MaxContinues \* 100 Continue answers the server sends on a connection

None == "none"
ASSUME EvHttpAssumption ==
    /\ None \notin Requests
    /\ Framings \subseteq {"nobody", "length", "chunked", "close", "bad"}
    /\ Attempts \subseteq {"pending", "unreachable", "nosocket"}
    /\ MaxContinues \in Nat

VARIABLE http

\* What a reply consists of.  Of these, "close" announces that the server
\* closes the connection and "bad" is one evhttp cannot parse.  (A length with
\* "Connection: close", and neither header, are read as "length" and "close".)
Pieces(framing) ==
    CASE framing = "nobody"   -> << "line", "head" >>
      [] framing = "length"   -> << "line", "head", "body" >>
      [] framing = "chunked"  -> << "line", "head", "chunk", "last", "trailer" >>
      [] framing = "close"    -> << "line", "head", "rest" >>
      [] framing = "bad"      -> << "line", "junk" >>
      [] framing = "continue" -> << "line", "head" >>

PieceOf(r, f, k) == [of |-> r, framing |-> f, kind |-> k]
Reply(r, f) == [i \in 1..Len(Pieces(f)) |-> PieceOf(r, f, Pieces(f)[i])]

\* The other end of the socket: what it has to answer and what is on its way.
NoPeer == [asked |-> << >>, wire |-> << >>, closed |-> FALSE, continued |-> 0]

Connected == {"idle", "writing", "firstline", "headers", "body", "trailer"}
States == Connected \cup {"disconnected", "connecting"}
Fates == {"new", "queued", "failing", "replying", "failed", "replied",
          "dropped", "refused"}

Fresh ==
    [state |-> "disconnected", queue |-> << >>, reading |-> FALSE,
     writing |-> FALSE, connecting |-> FALSE, detect |-> FALSE,
     input |-> << >>, deferred |-> FALSE, framing |-> None, peer |-> NoPeer,
     todo |-> << >>, freed |-> FALSE, touched |-> FALSE, aborted |-> FALSE,
     unattempted |-> FALSE, copies |-> [r \in Requests |-> 0],
     fate |-> [r \in Requests |-> "new"], got |-> [r \in Requests |-> {}]]

Init == http = Fresh

Call(h, frames) == [h EXCEPT !.todo = frames \o @]
CallUser(r)     == [do |-> "user", for |-> r]
DoConnect(r)    == [do |-> "connect", for |-> r]
DoConnected     == [do |-> "connected", for |-> None]
DoRead          == [do |-> "read", for |-> None]
Abort(h)        == [h EXCEPT !.aborted = TRUE]

-----------------------------------------------------------------------------
\* Mutant of Reset: the socket is not closed, and serves the next request.
ResetKeepsSocket(h) ==
    [h EXCEPT !.reading = FALSE, !.writing = FALSE, !.connecting = FALSE,
              !.input = << >>, !.state = "disconnected"]

\* evhttp_connection_reset.
Reset(h) ==
    [h EXCEPT !.reading = FALSE, !.writing = FALSE, !.connecting = FALSE,
              !.input = << >>, !.peer = NoPeer, !.state = "disconnected"]

\* Mutant of Fail: the request stays queued and is tried again.
FailRetries(h) ==
    IF h.queue = << >> THEN Abort(h)
    ELSE Call(Reset([h EXCEPT !.fate[Head(h.queue)] = "failing"]),
              << DoConnect(None), CallUser(Head(h.queue)) >>)

\* Mutant of Fail: the requests behind the one that failed are forgotten.
FailOnly(h) ==
    IF h.queue = << >> THEN Abort(h)
    ELSE Call(Reset([h EXCEPT !.queue = Tail(@),
                              !.fate[Head(h.queue)] = "failing"]),
              << CallUser(Head(h.queue)) >>)

\* evhttp_connection_fail: the next request goes over a new connection.
Fail(h) ==
    IF h.queue = << >> THEN Abort(h)
    ELSE LET r == Head(h.queue)
             reset == Reset([h EXCEPT !.queue = Tail(@), !.framing = None,
                                      !.fate[r] = "failing"])
         IN  Call(reset, (IF reset.queue = << >> THEN << >>
                          ELSE << DoConnect(None) >>) \o << CallUser(r) >>)

\* evhttp_connection_cb_cleanup, there being no retries: every request fails.
Cleanup(h) ==
    LET reset == Reset(h)
    IN  Call([reset EXCEPT
                !.queue = << >>,
                !.fate = [r \in Requests |-> IF r \in ToSet(h.queue)
                                             THEN "failing" ELSE @[r]]],
             [i \in DOMAIN h.queue |-> CallUser(h.queue[i])])

\* Mutant of Dispatch: the flag that says what an error means is left set.
DispatchDetecting(h) ==
    IF h.queue = << >> THEN h
    ELSE IF h.state # "idle" THEN Abort(h)
    ELSE [h EXCEPT !.reading = FALSE, !.state = "writing", !.writing = TRUE,
                   !.copies[Head(h.queue)] = @ + 1]

\* evhttp_request_dispatch, with evhttp_connection_stop_detectclose.
Dispatch(h) ==
    IF h.queue = << >> THEN h
    ELSE IF h.state # "idle" THEN Abort(h)
    ELSE [h EXCEPT !.detect = FALSE, !.reading = FALSE, !.state = "writing",
                   !.writing = TRUE, !.copies[Head(h.queue)] = @ + 1]

\* evhttp_connection_start_detectclose.
DetectClose(h) == [h EXCEPT !.detect = TRUE, !.reading = TRUE]

\* Mutant of Done: the end of a kept connection is not watched for.
DoneUnwatched(h) ==
    LET r == Head(h.queue)
        taken == [h EXCEPT !.queue = Tail(@), !.fate[r] = "replying",
                           !.state = "idle", !.framing = None]
        kept == IF h.framing = "close" THEN Reset(taken) ELSE taken
    IN  IF kept.queue = << >> THEN Call(kept, << CallUser(r) >>)
        ELSE IF kept.state = "idle"
        THEN Call(Dispatch(kept), << CallUser(r) >>)
        ELSE Call(kept, << DoConnect(None), CallUser(r) >>)

\* evhttp_connection_done: the reply is complete.
Done(h) ==
    LET r == Head(h.queue)
        taken == [h EXCEPT !.queue = Tail(@), !.fate[r] = "replying",
                           !.state = "idle", !.framing = None]
        kept == IF h.framing = "close" THEN Reset(taken) ELSE taken
    IN  IF kept.queue # << >>
        THEN IF kept.state = "idle"
             THEN Call(Dispatch(kept), << CallUser(r) >>)
             ELSE Call(kept, << DoConnect(None), CallUser(r) >>)
        ELSE Call(IF kept.state = "idle" THEN DetectClose(kept) ELSE kept,
                  << CallUser(r) >>)

\* evhttp_error_cb.
ErrorCb(h, what) ==
    IF h.state = "connecting" /\ what = "timeout" THEN Cleanup(h)
    ELSE IF h.state = "body" /\ h.framing = "close" /\ what = "eof" THEN Done(h)
    ELSE IF h.detect
    THEN IF h.state = "idle" THEN Reset([h EXCEPT !.detect = FALSE])
                             ELSE Abort(h)
    ELSE Fail(h)

\* evhttp_start_read.
StartRead(h) ==
    [h EXCEPT !.writing = FALSE, !.reading = TRUE, !.state = "firstline",
              !.deferred = h.input # << >>]

\* evhttp_read_firstline, evhttp_read_header, evhttp_get_body,
\* evhttp_read_body with evhttp_handle_chunked_read, evhttp_read_trailer: one
\* piece of what was read is parsed, and the next function of them called.
Read(h) ==
    LET r == Head(h.queue)
        p == Head(h.input)
        kind == IF h.input = << >> THEN None ELSE p.kind
        next == [h EXCEPT !.input = Tail(@)]
        quiet == [next EXCEPT !.reading = FALSE]
        On(g, state) == Call([g EXCEPT !.state = state], << DoRead >>)
    IN  CASE h.state = "idle" -> Reset(h)
          [] h.state \in {"disconnected", "connecting", "writing"} -> Abort(h)
          [] kind = None ->
               IF h.state \in {"body", "trailer"} THEN [h EXCEPT !.reading = TRUE]
               ELSE h
          [] h.state = "firstline" /\ kind = "line" ->
               On([next EXCEPT !.got[r] = @ \cup {p.of}], "headers")
          [] h.state = "headers" /\ kind = "head" ->
               LET parsed == [quiet EXCEPT !.framing = p.framing]
               IN  IF p.framing = "continue" THEN StartRead(parsed)
                   ELSE IF p.framing = "nobody" THEN Done(parsed)
                   ELSE On(parsed, "body")
          [] h.state = "body" /\ kind = "chunk" -> On(next, "body")
          [] h.state = "body" /\ kind = "last"  -> On(next, "trailer")
          [] h.state = "body" /\ kind = "rest" -> [next EXCEPT !.reading = TRUE]
          [] \/ h.state = "body" /\ kind = "body"
             \/ h.state = "trailer" /\ kind = "trailer" -> Done(quiet)
          [] OTHER -> Fail(h)

\* evhttp_make_request.
Post(h, r) ==
    LET queued == [h EXCEPT !.queue = Append(@, r), !.fate[r] = "queued"]
    IN  IF h.state \notin Connected THEN Call(queued, << DoConnect(r) >>)
        ELSE IF h.queue = << >> THEN Dispatch(queued) ELSE queued

\* evhttp_connection_free: no callback is called.
Free(h) ==
    [Reset(h) EXCEPT
        !.freed = TRUE, !.queue = << >>, !.deferred = FALSE, !.detect = FALSE,
        !.fate = [r \in Requests |-> IF r \in ToSet(h.queue)
                                     THEN "dropped" ELSE @[r]]]

-----------------------------------------------------------------------------
(* Steps of the calls in progress.                                         *)

Alive == ~http.touched /\ ~http.aborted
Doing(what) == Alive /\ http.todo # << >> /\ Head(http.todo).do = what
Current == Head(http.todo).for
Popped  == [http EXCEPT !.todo = Tail(@)]

\* evhttp_connection_connect and bufferevent_socket_connect_hostname.  An
\* address that cannot be reached is reported by the callback of the
\* bufferevent (evhttp_connection_cb, then evhttp_error_cb) during the call.
Connect(attempt) ==
    /\ Doing("connect")
    /\ LET reset == Reset(Popped)
           lost  == [reset EXCEPT !.unattempted = TRUE]
       IN  http' =
            IF http.state = "connecting" THEN Popped
            ELSE CASE attempt = "pending" ->
                        [reset EXCEPT !.connecting = TRUE, !.state = "connecting",
                                      !.unattempted = FALSE]
                   [] attempt = "unreachable" ->
                        ErrorCb(Call(lost, << DoConnected >>), "error")
                   [] attempt = "nosocket" ->
                        IF Current = None THEN lost
                        ELSE [lost EXCEPT
                                !.queue = RemoveFirst(@, Current),
                                !.fate[Current] = "refused"]

\* The end of evhttp_connection_connect: evcon->state = EVCON_CONNECTING.
ConnectReturns ==
    /\ Doing("connected")
    /\ http' = IF http.freed THEN [Popped EXCEPT !.touched = TRUE]
               ELSE [Popped EXCEPT !.state = "connecting"]

ReadSome ==
    /\ Doing("read")
    /\ http' = Read(Popped)

\* The user's callback: it may queue a request or free the connection.
Told == [Popped EXCEPT !.fate[Current] =
            IF @ = "failing" THEN "failed" ELSE "replied"]
UserReturns == Doing("user") /\ http' = Told
UserAsks(r) == /\ Doing("user") /\ ~http.freed /\ http.fate[r] = "new"
               /\ http' = Post(Told, r)
UserFrees   == Doing("user") /\ ~http.freed /\ http' = Free(Told)

-----------------------------------------------------------------------------
(* Events.  A deferred callback runs at the end of the iteration of the    *)
(* loop that scheduled it, before the connection's next event.             *)

Waiting == Alive /\ http.todo = << >> /\ ~http.freed /\ ~http.deferred

Ask(r) == Waiting /\ http.fate[r] = "new" /\ http' = Post(http, r)

\* evhttp_connection_cb.
ConnectSucceeds ==
    /\ Waiting /\ http.connecting
    /\ http' = Dispatch([http EXCEPT !.connecting = FALSE, !.state = "idle"])

ConnectFails(what) ==
    /\ Waiting /\ http.connecting
    /\ LET over == [http EXCEPT !.connecting = FALSE]
       IN  http' = IF what = "refused" THEN Cleanup(over) ELSE ErrorCb(over, what)

\* Mutant of Written: the reply is not waited for.
WrittenUnread ==
    /\ Waiting /\ http.writing
    /\ http' = [http EXCEPT !.writing = FALSE, !.state = "firstline"]

\* bufferevent_writecb, then evhttp_write_cb and evhttp_write_connectioncb.
Written ==
    /\ Waiting /\ http.writing
    /\ http' = IF http.queue = << >> \/ http.state # "writing" THEN Abort(http)
               ELSE StartRead([http EXCEPT !.peer.asked =
                        IF http.peer.closed THEN @ ELSE Append(@, Head(http.queue))])

WriteFails(what) ==
    /\ Waiting /\ http.writing
    /\ http' = ErrorCb([http EXCEPT !.writing = FALSE], what)

\* bufferevent_readcb, then evhttp_read_cb.
Arrive(n) ==
    /\ Waiting /\ http.reading /\ n <= Len(http.peer.wire)
    /\ http' = Call([http EXCEPT !.input = @ \o SubSeq(http.peer.wire, 1, n),
                                 !.peer.wire = SubSeq(@, n + 1, Len(@))],
                    << DoRead >>)

ReadEnds(what) ==
    /\ Waiting /\ http.reading
    /\ what = "eof" => http.peer.closed /\ http.peer.wire = << >>
    /\ http' = ErrorCb([http EXCEPT !.reading = FALSE], what)

\* evhttp_deferred_read_cb.
Deferred ==
    /\ Alive /\ http.todo = << >> /\ http.deferred
    /\ http' = Call([http EXCEPT !.deferred = FALSE], << DoRead >>)

Errors == {"error", "timeout"}
Loop ==
    \/ \E a \in Attempts : Connect(a)
    \/ ConnectReturns \/ ReadSome \/ UserReturns \/ Deferred
    \/ ConnectSucceeds \/ \E w \in Errors \cup {"refused"} : ConnectFails(w)
    \/ Written \/ \E w \in Errors : WriteFails(w)
    \/ \E n \in 1..5 : Arrive(n)
    \/ \E w \in Errors \cup {"eof"} : ReadEnds(w)

\* The server answers what it was asked, in order, or closes the connection.
Answers(f) ==
    /\ Waiting /\ ~http.peer.closed /\ http.peer.asked # << >>
    /\ f = "continue" => http.peer.continued < MaxContinues
    /\ http' = [http EXCEPT
          !.peer.wire = @ \o Reply(Head(http.peer.asked), f),
          !.peer.asked = IF f = "continue" THEN @ ELSE Tail(@),
          !.peer.continued = IF f = "continue" THEN @ + 1 ELSE @,
          !.peer.closed = f = "close"]

HangsUp ==
    /\ Waiting /\ ~http.peer.closed /\ http.state \in Connected
    /\ http' = [http EXCEPT !.peer.closed = TRUE]

Next ==
    \/ Loop
    \/ \E r \in Requests : Ask(r) \/ UserAsks(r)
    \/ UserFrees
    \/ \E f \in Framings \cup {"continue"} : Answers(f)
    \/ HangsUp

Spec == Init /\ [][Next]_http /\ WF_http(Loop)

-----------------------------------------------------------------------------
\* The connection is always in one of its states, its requests in one fate
\* each, and the queue holds just the requests that are queued.
TypeOK ==
    /\ http.state \in States
    /\ http.fate \in [Requests -> Fates]
    /\ http.got \in [Requests -> SUBSET (Requests \cup {None})]
    /\ IsInjective(http.queue)
    /\ ToSet(http.queue) = {r \in Requests : http.fate[r] = "queued"}

\* Between events, exactly one event that has a timeout is waited for while a
\* request is queued, the one its state of the protocol calls for; but for a
\* connection that got no socket, or whose connect failed at once.
RequestDriven ==
    (Alive /\ http.todo = << >> /\ http.queue # << >> /\ ~http.unattempted) =>
        /\ http.state \notin {"idle", "disconnected"}
        /\ http.connecting = (http.state = "connecting")
        /\ http.writing = (http.state = "writing")
        /\ http.reading = (http.state \in Connected \ {"writing"})

\* An idle connection is watched for the server closing it, and only an idle
\* connection takes an error for that.
IdleWatched ==
    Alive /\ http.todo = << >> =>
        (http.state = "idle") = (http.detect /\ http.reading)

\* The queue and the fates agree, no EVUTIL_ASSERT fails, and no illegal state
\* is read in.
AssertionsHold == TypeOK /\ ~http.aborted

\* The reply a request is given is the reply to that request, whatever became
\* of the requests before it on the same or an earlier connection.
ReplyMatches == \A r \in Requests : http.got[r] \subseteq {r}

\* "save the callback for later; the cb might free our object"
\* (evhttp_connection_fail): a callback may free the connection.
FreedNotTouched == ~http.touched

\* What users of the connection rely on.
EndOf(fate) ==
    CASE fate \in {"failing", "failed"} -> "failed"
      [] fate \in {"replying", "replied"} -> "answered"
      [] fate = "queued" -> "open"
      [] OTHER -> fate
Promise == INSTANCE HttpPromise WITH
    line <- http.queue, copies <- http.copies,
    end <- [r \in Requests |-> EndOf(http.fate[r])]
KeepsPromise == Promise!Spec

\* A request that is queued comes to an end, and its callback is called
\* unless the connection was freed; but for one that got no socket, or whose
\* connect failed at once.
Ended(r) == http.fate[r] \in {"failed", "replied", "dropped", "refused"}
RequestEnds == \A r \in Requests :
    (http.fate[r] = "queued") ~> (Ended(r) \/ http.unattempted \/ ~Alive)
=============================================================================
