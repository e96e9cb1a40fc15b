---------------------------- MODULE UpstreamClient ----------------------------
(***************************************************************************)
(* One call of the upstream image service (internal/upstream/openai.go):   *)
(* the choice of endpoint, the reply, the event stream of /v1/responses    *)
(* read line by line, and the three clocks that bound it: the timeout of   *)
(* the HTTP client, the context of a worker's tick and the context of the  *)
(* admin's test (internal/admin/handler.go, TestUpstream).  The service    *)
(* itself is nondeterministic.                                             *)
(*                                                                         *)
(* Both callers have checked that the configuration is complete.  Request  *)
(* bodies are left out; a reply is what the code tells apart in it.        *)
(***************************************************************************)
EXTENDS Integers, Sequences

CONSTANTS
    ClientTimeout,  \* http.Client.Timeout, which covers reading the body
    TickDeadline,   \* the context Pool.run gives to a tick
    TestDeadline,   \* the context TestUpstream gives to a generation
    ProbeDeadline,  \* the context TestUpstream gives to TestConnection
    MaxLines        \* bound on the lines of an event stream

ASSUME ClientAssumption ==
    /\ {ClientTimeout, TickDeadline, TestDeadline, ProbeDeadline} \subseteq Nat \ {0}
    /\ MaxLines \in Nat

VARIABLES
    caller,         \* "worker", "test" or "probe"
    path,           \* the endpoint
    usable,         \* whether a request can be made from the configured base URL
    pc,
    clock,          \* since the caller's context was made
    started,        \* when the request was sent
    seen,           \* history: the lines of the event stream read so far
    sawImageEvent, sawTextEvent,
    reply,          \* history: status and body shape of the reply
    outcome         \* what the call returns

vars == <<caller, path, usable, pc, clock, started, seen, sawImageEvent,
          sawTextEvent, reply, outcome>>

Callers == {"worker", "test", "probe"}
Paths   == {"generations", "edits", "responses", "models"}

(* A line of the stream, as the loop of callResponses tells them apart: an *)
(* event line, a data line with a result, or anything it skips.            *)
Lines == {"blank", "imageEvent", "textEvent", "noise", "image", "badImage"}

(* An entry of "data" in a reply of the Images API. *)
Payloads == {"missing", "image", "empty", "bad"}

Statuses == {200, 204, 400, 401, 403, 404, 409, 422, 429, 500, 503}

(* An error body: { error: { message, type } }, { error: { message } },    *)
(* { error: "..." }, { message }, JSON cut at 2048 bytes, or no JSON.      *)
Shapes == {"typed", "untyped", "simple", "flat", "cut", "text"}

NoReply == [status |-> 0, shape |-> "text"]
Nothing == [kind |-> "none", message |-> "none"]

Init ==
    /\ caller \in Callers
    /\ path \in IF caller = "probe" THEN {"models"} ELSE Paths \ {"models"}
    /\ usable \in BOOLEAN
    /\ pc = IF caller = "worker" THEN "claiming" ELSE "sending"
    /\ clock = 0 /\ started = 0 /\ seen = <<>>
    /\ sawImageEvent = FALSE /\ sawTextEvent = FALSE
    /\ reply = NoReply /\ outcome = Nothing

-----------------------------------------------------------------------------
Deadline ==
    IF caller = "worker" THEN TickDeadline
    ELSE IF caller = "test" THEN TestDeadline ELSE ProbeDeadline

Least(a, b) == IF a < b THEN a ELSE b

(* Mutant: an HTTP client without a timeout of its own. *)
LimitOfContext == Deadline

(* When the HTTP client gives up. *)
Limit == Least(Deadline, started + ClientTimeout)

(* Time passes while the call waits. *)
Elapse ==
    /\ \/ pc = "claiming" /\ clock < Deadline
       \/ pc \in {"sending", "reading"} /\ clock < Limit
    /\ clock' = clock + 1
    /\ UNCHANGED <<caller, path, usable, pc, started, seen, sawImageEvent, sawTextEvent,
                   reply, outcome>>

Return(kind, message) ==
    /\ pc' = "done"
    /\ outcome' = [kind |-> kind, message |-> message]

(* The worker has its record and calls Generate.  Nothing but the context  *)
(* of the tick bounds the time that took.                                  *)
Send ==
    /\ pc = "claiming"
    /\ pc' = "sending"
    /\ started' = clock
    /\ UNCHANGED <<caller, path, usable, clock, seen, sawImageEvent, sawTextEvent, reply, outcome>>

(***************************************************************************)
(* http.NewRequestWithContext refuses an address that does not parse, such *)
(* as 127.0.0.1:3000 without a scheme: nothing is sent, and the error is   *)
(* of the kind that a rejected request has.  The admin's request checks    *)
(* only the length of the address (internal/admin/dto.go:62).  A call with *)
(* reference images reads those first.                                     *)
(***************************************************************************)
BadAddress ==
    /\ pc = "sending" /\ ~usable
    /\ Return("bad_request", "own")
    /\ UNCHANGED <<caller, path, usable, clock, started, seen, sawImageEvent, sawTextEvent, reply>>

(* A reference image that is no data URL stops an edit. *)
BadReference ==
    /\ pc = "sending" /\ path = "edits"
    /\ Return("bad_request", "own")
    /\ UNCHANGED <<caller, path, usable, clock, started, seen, sawImageEvent, sawTextEvent, reply>>

(* The message of a transport error, which names the timer that was due. *)
Cause == IF clock >= Limit THEN "timeout" ELSE "own"

(* Mutant: a timeout that ends with the response headers. *)
TransportErrorInHeaders ==
    /\ usable /\ pc = "sending"
    /\ Return("network", Cause)
    /\ UNCHANGED <<caller, path, usable, clock, started, seen, sawImageEvent, sawTextEvent, reply>>

(***************************************************************************)
(* No connection, a broken one, or time is up.  While the Images API's     *)
(* reply is decoded this is a decoding error.                              *)
(***************************************************************************)
TransportError ==
    /\ usable /\ pc \in {"sending", "reading"}
    /\ Return(IF pc = "reading" /\ path # "responses" THEN "unknown" ELSE "network", Cause)
    /\ UNCHANGED <<caller, path, usable, clock, started, seen, sawImageEvent, sawTextEvent, reply>>

-----------------------------------------------------------------------------
(* classifyHTTPError. *)
ClassifyStatus(status) ==
    CASE status \in {401, 403} -> "auth_failed"
      [] status = 404          -> "not_found"
      [] status = 429          -> "rate_limited"
      [] status \in {400, 422} -> "bad_request"
      [] status >= 500         -> "upstream_error"
      [] OTHER                 -> "unknown"

(* An "error" that is a string fails to decode, so the raw body is kept. *)
ErrorMessage(shape) ==
    CASE shape = "typed"               -> "type and message"
      [] shape \in {"untyped", "flat"} -> "message"
      [] OTHER                         -> "raw"

Respond(status, shape) ==
    /\ usable /\ pc = "sending" /\ caller # "probe"
    /\ reply' = [status |-> status, shape |-> shape]
    /\ IF status = 200
         THEN pc' = "reading" /\ UNCHANGED outcome
         ELSE Return(ClassifyStatus(status), ErrorMessage(shape))
    /\ UNCHANGED <<caller, path, usable, clock, started, seen, sawImageEvent, sawTextEvent>>

(* TestConnection. *)
ProbeKind(status) ==
    IF status \in {401, 403} THEN "auth_failed"
    ELSE IF status >= 500 THEN "unknown" ELSE "reachable"

Probe(status) ==
    /\ usable /\ pc = "sending" /\ caller = "probe"
    /\ reply' = [status |-> status, shape |-> "text"]
    /\ Return(ProbeKind(status), "own")
    /\ UNCHANGED <<caller, path, usable, clock, started, seen, sawImageEvent, sawTextEvent>>

-----------------------------------------------------------------------------
(* The Images API: the first entry that has data decides. *)
DecodeImageData(data, result) ==
    \/ result = "unknown" /\ \A i \in DOMAIN data : data[i] = "missing"
    \/ \E i \in DOMAIN data :
         /\ data[i] # "missing" /\ \A j \in 1..(i - 1) : data[j] = "missing"
         /\ result = IF data[i] = "bad" THEN "unknown" ELSE data[i]

ImagesBody(data) ==
    /\ pc = "reading" /\ path # "responses"
    /\ \E result \in {"unknown", "image", "empty"} :
         DecodeImageData(data, result) /\ Return(result, "own")
    /\ UNCHANGED <<caller, path, usable, clock, started, seen, sawImageEvent, sawTextEvent, reply>>

(***************************************************************************)
(* The Responses API.  The stream ends after a line without newline, or    *)
(* with nothing more to read.                                              *)
(***************************************************************************)
StreamVerdict(imageEvent, textEvent) ==
    IF ~imageEvent /\ textEvent THEN "bad_request" ELSE "unknown"

(* Mutant: a last line without newline is not looked at. *)
ReadLineTerminated(line, last) ==
    /\ pc = "reading" /\ path = "responses"
    /\ Len(seen) < MaxLines
    /\ seen' = Append(seen, line)
    /\ sawImageEvent' = (sawImageEvent \/ line = "imageEvent")
    /\ sawTextEvent' = (sawTextEvent \/ line = "textEvent")
    /\ IF last THEN Return(StreamVerdict(sawImageEvent', sawTextEvent'), "own")
       ELSE IF line = "image" THEN Return("image", "own")
       ELSE IF line = "badImage" THEN Return("unknown", "own")
       ELSE UNCHANGED <<pc, outcome>>
    /\ UNCHANGED <<caller, path, usable, clock, started, reply>>

(* Mutant: the flags describe the current event only. *)
ReadLineForgetful(line, last) ==
    /\ pc = "reading" /\ path = "responses"
    /\ Len(seen) < MaxLines
    /\ seen' = Append(seen, line)
    /\ sawImageEvent' = (line = "imageEvent")
    /\ sawTextEvent' = (line = "textEvent")
    /\ IF line = "image" THEN Return("image", "own")
       ELSE IF line = "badImage" THEN Return("unknown", "own")
       ELSE IF last THEN Return(StreamVerdict(sawImageEvent', sawTextEvent'), "own")
       ELSE UNCHANGED <<pc, outcome>>
    /\ UNCHANGED <<caller, path, usable, clock, started, reply>>

ReadLine(line, last) ==
    /\ pc = "reading" /\ path = "responses"
    /\ Len(seen) < MaxLines
    /\ seen' = Append(seen, line)
    /\ sawImageEvent' = (sawImageEvent \/ line = "imageEvent")
    /\ sawTextEvent' = (sawTextEvent \/ line = "textEvent")
    /\ IF line = "image" THEN Return("image", "own")
       ELSE IF line = "badImage" THEN Return("unknown", "own")
       ELSE IF last THEN Return(StreamVerdict(sawImageEvent', sawTextEvent'), "own")
       ELSE UNCHANGED <<pc, outcome>>
    /\ UNCHANGED <<caller, path, usable, clock, started, reply>>

EndOfStream ==
    /\ pc = "reading" /\ path = "responses"
    /\ Return(StreamVerdict(sawImageEvent, sawTextEvent), "own")
    /\ UNCHANGED <<caller, path, usable, clock, started, seen, sawImageEvent, sawTextEvent, reply>>

-----------------------------------------------------------------------------
(* What the record's owner is shown of an error: userFacingGenerationError *)
(* up to wording, a refusal by the safety system included in "rejected".   *)
UserFacing(kind) ==
    CASE kind \in {"auth_failed", "not_found"} -> "check the configuration"
      [] kind = "bad_request"                  -> "rejected"
      [] OTHER                                 -> "try again later"

Next ==
    \/ Elapse \/ Send \/ BadReference \/ BadAddress \/ TransportError \/ EndOfStream
    \/ \E status \in Statuses : Probe(status) \/ \E shape \in Shapes : Respond(status, shape)
    \/ \E d1, d2 \in Payloads : ImagesBody(<<d1, d2>>)
    \/ ImagesBody(<<>>)
    \/ \E line \in Lines, last \in BOOLEAN : ReadLine(line, last)

Spec == Init /\ [][Next]_vars

(* Time passes, the claim ends (a claim that fails makes no call), a        *)
(* request that cannot be made is given up at once, and a timer that is     *)
(* due fires; the service owes nothing.                                     *)
Fairness ==
    /\ WF_vars(Elapse) /\ WF_vars(Send) /\ WF_vars(BadAddress)
    /\ WF_vars(clock >= Limit /\ TransportError)

FairSpec == Spec /\ Fairness

-----------------------------------------------------------------------------
(***************************************************************************)
(* An image that the event stream delivered is not dropped: a finished     *)
(* call returns an image exactly when some line carried one and no earlier *)
(* line carried one that does not decode, wherever the stream ended.       *)
(***************************************************************************)
ImageNotDropped ==
    pc = "done" /\ path = "responses" =>
      (outcome.kind = "image" <=>
         \E i \in 1..Len(seen) :
           seen[i] = "image" /\ \A j \in 1..(i - 1) : seen[j] # "badImage")

(***************************************************************************)
(* The user is told that the request was rejected only for one of these    *)
(* reasons: the service answered 400 or 422, a reference image cannot be   *)
(* sent, the model answered with text and at no point of the stream began  *)
(* an image, or the configured address is no URL.  The last is a mistake   *)
(* of the admin that openai.go:135-137, 176-178, 235-237 and 282-284 put   *)
(* under the kind of a rejected request, and the user is blamed for it.    *)
(* No other misconfiguration and no slow or broken service is ever shown   *)
(* as a rejection.                                                         *)
(***************************************************************************)
RejectionHasCause ==
    pc = "done" /\ UserFacing(outcome.kind) = "rejected" =>
      \/ reply.status \in {400, 422}
      \/ reply.status = 0 /\ (path = "edits" \/ ~usable)
      \/ /\ reply.status = 200
         /\ \E i \in 1..Len(seen) : seen[i] = "textEvent"
         /\ \A i \in 1..Len(seen) : seen[i] # "imageEvent"

(***************************************************************************)
(* When Generate returns to a worker, by timeout too, the context of the   *)
(* tick has not expired and the outcome can still be written to the row,   *)
(* unless the claim alone took longer than the client's timeout leaves of  *)
(* the tick (a minute: 6 against 5).  The context is the only bound on a   *)
(* claim, so that can happen; no service, however slow, can do it.         *)
(***************************************************************************)
OutcomeWritable ==
    pc = "done" /\ caller = "worker" /\ started + ClientTimeout < TickDeadline =>
      clock < TickDeadline

(* A service that goes silent, before or in the middle of its reply, does  *)
(* not keep a worker or an admin's test for ever.                          *)
CallReturns == <>(pc = "done")
=============================================================================
