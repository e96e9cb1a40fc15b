------------------------- MODULE UpstreamClientProofs --------------------------
(***************************************************************************)
(* Proofs about UpstreamClient for any timeouts and deadlines, claims of   *)
(* any length and event streams of any length.                             *)
(***************************************************************************)
EXTENDS UpstreamClient, TLAPS

Kinds == {"none", "image", "empty", "network", "unknown", "auth_failed", "not_found",
          "rate_limited", "bad_request", "upstream_error", "reachable"}

TypeOK ==
    /\ caller \in Callers /\ path \in Paths /\ usable \in BOOLEAN
    /\ pc \in {"claiming", "sending", "reading", "done"}
    /\ clock \in Nat /\ started \in Nat
    /\ seen \in Seq(Lines)
    /\ sawImageEvent \in BOOLEAN /\ sawTextEvent \in BOOLEAN
    /\ outcome.kind \in Kinds

(* Only a worker claims, and from the request on the HTTP client's timeout *)
(* runs.                                                                   *)
OnTime ==
    /\ pc = "claiming" => caller = "worker"
    /\ pc # "claiming" => clock <= started + ClientTimeout

(* What the call knows of the reply while it has not returned. *)
ReplyKnown ==
    /\ pc \in {"claiming", "sending"} => reply.status = 0
    /\ pc = "reading" => reply.status = 200

(* The flags of the loop are what the lines read so far say, and the loop  *)
(* goes on only while no line has carried a result.                        *)
StreamKnown ==
    /\ pc \in {"claiming", "sending"} \/ path # "responses" => seen = <<>>
    /\ sawTextEvent <=> \E i \in 1..Len(seen) : seen[i] = "textEvent"
    /\ sawImageEvent <=> \E i \in 1..Len(seen) : seen[i] = "imageEvent"
    /\ pc # "done" => \A i \in 1..Len(seen) : seen[i] \notin {"image", "badImage"}

Inv ==
    /\ TypeOK /\ OnTime /\ ReplyKnown /\ StreamKnown
    /\ ImageNotDropped /\ RejectionHasCause

-----------------------------------------------------------------------------
(* A kind of error is shown as a rejection only if it is bad_request. *)
LEMMA RejectedFacts ==
    ASSUME NEW kind, UserFacing(kind) = "rejected" PROVE kind = "bad_request"
BY ZenonT(30) DEF UserFacing

(* Of the statuses only 400 and 422 are classified as bad_request. *)
LEMMA StatusFacts ==
    ASSUME NEW status \in Statuses
    PROVE  /\ ClassifyStatus(status) \in Kinds \ {"image"}
           /\ ClassifyStatus(status) = "bad_request" => status \in {400, 422}
<1>1. ClassifyStatus(status) = "bad_request" => status \in {400, 422}
    BY ZenonT(30) DEF ClassifyStatus
<1>2. ClassifyStatus(status) \in Kinds \ {"image"}
    BY ZenonT(30) DEF ClassifyStatus, Kinds
<1> QED BY <1>1, <1>2

LEMMA VerdictFacts ==
    ASSUME NEW i \in BOOLEAN, NEW t \in BOOLEAN
    PROVE  /\ StreamVerdict(i, t) \in {"bad_request", "unknown"}
           /\ StreamVerdict(i, t) = "bad_request" => ~i /\ t
BY DEF StreamVerdict

LEMMA ProbeFacts ==
    ASSUME NEW status \in Statuses
    PROVE  ProbeKind(status) \in {"auth_failed", "unknown", "reachable"}
BY DEF ProbeKind

LEMMA InitInv == Init => Inv
<1> SUFFICES ASSUME Init PROVE Inv
    OBVIOUS
<1>1. /\ caller \in Callers /\ path \in Paths
      /\ pc = IF caller = "worker" THEN "claiming" ELSE "sending"
      /\ clock = 0 /\ started = 0 /\ seen = <<>>
      /\ ~sawImageEvent /\ ~sawTextEvent
      /\ reply.status = 0 /\ outcome.kind = "none"
    BY DEF Init, Paths, NoReply, Nothing
<1>2. sawImageEvent \in BOOLEAN /\ sawTextEvent \in BOOLEAN /\ usable \in BOOLEAN
    BY DEF Init
<1>3. TypeOK
    BY <1>1, <1>2 DEF TypeOK, Kinds
<1>4. OnTime
    BY <1>1, ClientAssumption DEF OnTime, Callers
<1>5. ReplyKnown /\ StreamKnown
    BY <1>1 DEF ReplyKnown, StreamKnown
<1>6. ImageNotDropped /\ RejectionHasCause
    BY <1>1 DEF ImageNotDropped, RejectionHasCause
<1> QED BY <1>3, <1>4, <1>5, <1>6 DEF Inv

-----------------------------------------------------------------------------
(***************************************************************************)
(* The call returns with what it has read.  A return that is no image and  *)
(* no rejection needs nothing; an image needs the line that carried it,    *)
(* and a rejection its reason.                                             *)
(***************************************************************************)
Rightful(kind) ==
    /\ path = "responses" =>
         (kind = "image" <=> \E i \in 1..Len(seen') :
            seen'[i] = "image" /\ \A j \in 1..(i - 1) : seen'[j] # "badImage")
    /\ kind = "bad_request" =>
         \/ reply'.status \in {400, 422}
         \/ reply'.status = 0 /\ (path = "edits" \/ ~usable)
         \/ /\ reply'.status = 200
            /\ \E i \in 1..Len(seen') : seen'[i] = "textEvent"
            /\ \A i \in 1..Len(seen') : seen'[i] # "imageEvent"

LEMMA ReturnInv ==
    ASSUME Inv, pc \in {"sending", "reading"}, NEW kind \in Kinds, NEW message,
           Return(kind, message), Rightful(kind),
           UNCHANGED <<caller, path, usable, clock, started>>,
           seen' \in Seq(Lines), path # "responses" => seen' = <<>>,
           sawImageEvent' \in BOOLEAN, sawTextEvent' \in BOOLEAN,
           sawTextEvent' <=> \E i \in 1..Len(seen') : seen'[i] = "textEvent",
           sawImageEvent' <=> \E i \in 1..Len(seen') : seen'[i] = "imageEvent"
    PROVE  Inv'
<1>1. pc' = "done" /\ outcome'.kind = kind
    BY DEF Return
<1>2. TypeOK'
    BY <1>1 DEF Inv, TypeOK
<1>3. OnTime'
    BY <1>1 DEF Inv, OnTime
<1>4. ReplyKnown' /\ StreamKnown'
    BY <1>1 DEF ReplyKnown, StreamKnown
<1>5. ImageNotDropped'
    BY <1>1 DEF ImageNotDropped, Rightful
<1>6. RejectionHasCause'
    <2>1. UserFacing(kind) = "rejected" => kind = "bad_request"
        BY RejectedFacts
    <2> QED BY <1>1, <2>1 DEF RejectionHasCause, Rightful
<1> QED BY <1>2, <1>3, <1>4, <1>5, <1>6 DEF Inv

(* The call returns without a further line. *)
LEMMA PlainReturnInv ==
    ASSUME Inv, pc \in {"sending", "reading"}, NEW kind \in Kinds, NEW message,
           Return(kind, message),
           UNCHANGED <<caller, path, usable, clock, started, seen, sawImageEvent, sawTextEvent>>,
           path = "responses" => kind # "image",
           kind = "bad_request" =>
             \/ reply'.status \in {400, 422}
             \/ reply'.status = 0 /\ (path = "edits" \/ ~usable)
             \/ reply'.status = 200 /\ sawTextEvent /\ ~sawImageEvent
    PROVE  Inv'
<1>1. \A i \in 1..Len(seen) : seen[i] \notin {"image", "badImage"}
    BY DEF Inv, StreamKnown
<1>2. Rightful(kind)
    BY <1>1 DEF Rightful, Inv, StreamKnown
<1> QED BY <1>2, ReturnInv DEF Inv, TypeOK, StreamKnown

-----------------------------------------------------------------------------
LEMMA ElapseInv == ASSUME Inv, Elapse PROVE Inv'
<1>1. /\ pc # "done" /\ clock' = clock + 1
      /\ UNCHANGED <<caller, path, usable, pc, started, seen, sawImageEvent, sawTextEvent,
                     reply, outcome>>
    BY DEF Elapse
<1>2. OnTime'
    <2>1. CASE pc = "claiming"
        BY <1>1, <2>1 DEF Inv, OnTime
    <2>2. CASE pc # "claiming" /\ clock < Limit
        <3>1. Deadline \in Nat /\ ClientTimeout \in Nat /\ started \in Nat /\ clock \in Nat
            BY ClientAssumption DEF Deadline, Inv, TypeOK
        <3>2. Limit <= started + ClientTimeout
            BY <3>1 DEF Limit, Least
        <3>3. Limit \in Nat
            BY <3>1 DEF Limit, Least
        <3> HIDE DEF Limit
        <3>4. clock' <= started + ClientTimeout
            BY <1>1, <2>2, <3>1, <3>2, <3>3
        <3> QED BY <1>1, <2>2, <3>4 DEF Inv, OnTime
    <2> QED BY <2>1, <2>2 DEF Elapse
<1>3. TypeOK'
    <2>1. clock' \in Nat
        BY <1>1 DEF Inv, TypeOK
    <2> QED BY <1>1, <2>1 DEF Inv, TypeOK
<1> QED BY <1>1, <1>2, <1>3
        DEF Inv, ReplyKnown, StreamKnown, ImageNotDropped, RejectionHasCause

LEMMA SendInv == ASSUME Inv, Send PROVE Inv'
<1>1. /\ pc = "claiming" /\ pc' = "sending" /\ started' = clock
      /\ UNCHANGED <<caller, path, usable, clock, seen, sawImageEvent, sawTextEvent, reply, outcome>>
    BY DEF Send
<1>2. OnTime'
    BY <1>1, ClientAssumption DEF Inv, OnTime, TypeOK
<1>3. TypeOK'
    BY <1>1 DEF Inv, TypeOK
<1>4. ReplyKnown' /\ StreamKnown'
    BY <1>1 DEF Inv, ReplyKnown, StreamKnown
<1> QED BY <1>1, <1>2, <1>3, <1>4 DEF Inv, ImageNotDropped, RejectionHasCause

LEMMA NotSentInv == ASSUME Inv, BadReference \/ BadAddress PROVE Inv'
<1>1. /\ pc = "sending" /\ (path = "edits" \/ ~usable) /\ Return("bad_request", "own")
      /\ UNCHANGED <<caller, path, usable, clock, started, seen, sawImageEvent, sawTextEvent, reply>>
    BY DEF BadReference, BadAddress
<1>2. reply'.status = 0
    BY <1>1 DEF Inv, ReplyKnown
<1> QED BY <1>1, <1>2, PlainReturnInv DEF Kinds

LEMMA TransportErrorInv == ASSUME Inv, TransportError PROVE Inv'
<1>1. /\ pc \in {"sending", "reading"}
      /\ Return("unknown", Cause) \/ Return("network", Cause)
      /\ UNCHANGED <<caller, path, usable, clock, started, seen, sawImageEvent, sawTextEvent, reply>>
    BY DEF TransportError
<1>2. CASE Return("unknown", Cause)
    BY <1>1, <1>2, PlainReturnInv DEF Kinds
<1>3. CASE Return("network", Cause)
    BY <1>1, <1>3, PlainReturnInv DEF Kinds
<1> QED BY <1>1, <1>2, <1>3

LEMMA RespondInv ==
    ASSUME Inv, NEW status \in Statuses, NEW shape \in Shapes, Respond(status, shape)
    PROVE  Inv'
<1>1. /\ pc = "sending" /\ reply'.status = status
      /\ UNCHANGED <<caller, path, usable, clock, started, seen, sawImageEvent, sawTextEvent>>
      /\ \/ status = 200 /\ pc' = "reading" /\ UNCHANGED outcome
         \/ Return(ClassifyStatus(status), ErrorMessage(shape))
    BY DEF Respond
<1>2. CASE status = 200 /\ pc' = "reading" /\ UNCHANGED outcome
    <2>1. TypeOK'
        BY <1>1, <1>2 DEF Inv, TypeOK
    <2>2. OnTime' /\ ReplyKnown' /\ StreamKnown'
        BY <1>1, <1>2 DEF Inv, OnTime, ReplyKnown, StreamKnown
    <2> QED BY <1>2, <2>1, <2>2 DEF Inv, ImageNotDropped, RejectionHasCause
<1>3. CASE Return(ClassifyStatus(status), ErrorMessage(shape))
    <2>1. /\ ClassifyStatus(status) \in Kinds /\ ClassifyStatus(status) # "image"
          /\ ClassifyStatus(status) = "bad_request" => status \in {400, 422}
        BY StatusFacts
    <2> QED BY <1>1, <1>3, <2>1, PlainReturnInv
<1> QED BY <1>1, <1>2, <1>3

LEMMA ProbeInv == ASSUME Inv, NEW status \in Statuses, Probe(status) PROVE Inv'
<1>1. /\ pc = "sending" /\ Return(ProbeKind(status), "own")
      /\ UNCHANGED <<caller, path, usable, clock, started, seen, sawImageEvent, sawTextEvent>>
    BY DEF Probe
<1>2. ProbeKind(status) \in Kinds /\ ProbeKind(status) \notin {"image", "bad_request"}
    BY ProbeFacts DEF Kinds
<1> QED BY <1>1, <1>2, PlainReturnInv

LEMMA ImagesBodyInv == ASSUME Inv, NEW data, ImagesBody(data) PROVE Inv'
<1>1. /\ pc = "reading" /\ path # "responses"
      /\ UNCHANGED <<caller, path, usable, clock, started, seen, sawImageEvent, sawTextEvent, reply>>
    BY DEF ImagesBody
<1>2. PICK result \in {"unknown", "image", "empty"} : Return(result, "own")
    BY DEF ImagesBody
<1>3. result \in Kinds /\ result # "bad_request"
    BY DEF Kinds
<1> QED BY <1>1, <1>2, <1>3, PlainReturnInv

LEMMA EndOfStreamInv == ASSUME Inv, EndOfStream PROVE Inv'
<1> DEFINE kind == StreamVerdict(sawImageEvent, sawTextEvent)
<1>1. /\ pc = "reading" /\ path = "responses" /\ Return(kind, "own")
      /\ UNCHANGED <<caller, path, usable, clock, started, seen, sawImageEvent, sawTextEvent, reply>>
    BY DEF EndOfStream
<1>2. /\ kind \in Kinds /\ kind # "image"
      /\ kind = "bad_request" => ~sawImageEvent /\ sawTextEvent
    BY VerdictFacts DEF Inv, TypeOK, Kinds
<1>3. reply'.status = 200
    BY <1>1 DEF Inv, ReplyKnown
<1> HIDE DEF kind
<1> QED BY <1>1, <1>2, <1>3, PlainReturnInv

(***************************************************************************)
(* One line more: the flags still say what the lines read so far do, and   *)
(* only a line with a result, or the end of the stream, ends the loop.     *)
(***************************************************************************)
LEMMA ReadLineInv ==
    ASSUME Inv, NEW line \in Lines, NEW last \in BOOLEAN, ReadLine(line, last) PROVE Inv'
<1> DEFINE kind == StreamVerdict(sawImageEvent', sawTextEvent')
<1>1. /\ pc = "reading" /\ path = "responses"
      /\ seen' = Append(seen, line)
      /\ sawImageEvent' = (sawImageEvent \/ line = "imageEvent")
      /\ sawTextEvent' = (sawTextEvent \/ line = "textEvent")
      /\ UNCHANGED <<caller, path, usable, clock, started, reply>>
    BY DEF ReadLine
<1>2. /\ seen \in Seq(Lines) /\ seen' \in Seq(Lines)
      /\ Len(seen) \in Nat /\ Len(seen') = Len(seen) + 1
      /\ seen'[Len(seen')] = line
      /\ \A i \in 1..Len(seen) : seen'[i] = seen[i]
    BY <1>1 DEF Inv, TypeOK
<1>3. \A i \in 1..Len(seen) : seen'[i] \notin {"image", "badImage"}
    BY <1>1, <1>2 DEF Inv, StreamKnown
<1>4. sawImageEvent' \in BOOLEAN /\ sawTextEvent' \in BOOLEAN
    BY <1>1
<1>5. \A x : (\E i \in 1..Len(seen') : seen'[i] = x)
             <=> (\E i \in 1..Len(seen) : seen[i] = x) \/ line = x
    <2> TAKE x
    <2>1. ASSUME \E i \in 1..Len(seen') : seen'[i] = x
          PROVE  (\E i \in 1..Len(seen) : seen[i] = x) \/ line = x
        <3>1. PICK i \in 1..Len(seen') : seen'[i] = x
            BY <2>1
        <3>2. i \in 1..Len(seen) \/ i = Len(seen')
            BY <1>2
        <3> QED BY <1>2, <3>1, <3>2
    <2>2. ASSUME NEW i \in 1..Len(seen), seen[i] = x
          PROVE  \E j \in 1..Len(seen') : seen'[j] = x
        <3>1. i \in 1..Len(seen') /\ seen'[i] = x
            BY <1>2, <2>2
        <3> QED BY <3>1
    <2>3. line = x => \E j \in 1..Len(seen') : seen'[j] = x
        <3>1. Len(seen') \in 1..Len(seen')
            BY <1>2
        <3> QED BY <1>2, <3>1
    <2> QED BY <2>1, <2>2, <2>3
<1>6. /\ sawTextEvent <=> \E i \in 1..Len(seen) : seen[i] = "textEvent"
      /\ sawImageEvent <=> \E i \in 1..Len(seen) : seen[i] = "imageEvent"
    BY <1>1 DEF Inv, StreamKnown
<1>7. sawTextEvent' <=> \E i \in 1..Len(seen') : seen'[i] = "textEvent"
    BY <1>1, <1>5, <1>6
<1>8. sawImageEvent' <=> \E i \in 1..Len(seen') : seen'[i] = "imageEvent"
    BY <1>1, <1>5, <1>6
<1>9. reply'.status = 200
    BY <1>1 DEF Inv, ReplyKnown
<1>10. (\E i \in 1..Len(seen') :
         seen'[i] = "image" /\ \A j \in 1..(i - 1) : seen'[j] # "badImage") <=> line = "image"
    BY <1>2, <1>3
<1>11. CASE line = "image" /\ Return("image", "own")
    <2>1. Rightful("image")
        BY <1>10, <1>11 DEF Rightful
    <2> QED BY <1>1, <1>2, <1>4, <1>7, <1>8, <1>11, <2>1, ReturnInv DEF Kinds
<1>12. CASE line = "badImage" /\ Return("unknown", "own")
    <2>1. Rightful("unknown")
        BY <1>10, <1>12 DEF Rightful
    <2> QED BY <1>1, <1>2, <1>4, <1>7, <1>8, <1>12, <2>1, ReturnInv DEF Kinds
<1>13. CASE line # "image" /\ Return(kind, "own")
    <2>1. /\ kind \in Kinds /\ kind # "image"
          /\ kind = "bad_request" => ~sawImageEvent' /\ sawTextEvent'
        BY <1>4, VerdictFacts DEF Kinds
    <2> HIDE DEF kind
    <2>2. Rightful(kind)
        BY <1>7, <1>8, <1>9, <1>10, <1>13, <2>1 DEF Rightful
    <2> QED BY <1>1, <1>2, <1>4, <1>7, <1>8, <1>13, <2>1, <2>2, ReturnInv
<1>14. CASE line \notin {"image", "badImage"} /\ UNCHANGED <<pc, outcome>>
    <2>1. \A i \in 1..Len(seen') : seen'[i] \notin {"image", "badImage"}
        BY <1>2, <1>3, <1>14
    <2>2. TypeOK'
        BY <1>1, <1>2, <1>4, <1>14 DEF Inv, TypeOK
    <2>3. OnTime' /\ ReplyKnown'
        BY <1>1, <1>14 DEF Inv, OnTime, ReplyKnown
    <2>4. StreamKnown'
        BY <1>1, <1>7, <1>8, <1>14, <2>1 DEF StreamKnown
    <2> QED BY <1>1, <1>14, <2>2, <2>3, <2>4 DEF Inv, ImageNotDropped, RejectionHasCause
<1> QED BY <1>11, <1>12, <1>13, <1>14 DEF ReadLine

-----------------------------------------------------------------------------
LEMMA NextInv == Inv /\ [Next]_vars => Inv'
<1> SUFFICES ASSUME Inv, [Next]_vars PROVE Inv'
    OBVIOUS
<1>1. CASE UNCHANGED vars
    BY <1>1 DEF vars, Inv, TypeOK, OnTime, ReplyKnown, StreamKnown, ImageNotDropped,
       RejectionHasCause
<1>2. CASE \E d1, d2 \in Payloads : ImagesBody(<<d1, d2>>)
    BY <1>2, ImagesBodyInv
<1>3. CASE ImagesBody(<<>>)
    BY <1>3, ImagesBodyInv
<1> QED BY <1>1, <1>2, <1>3, ElapseInv, SendInv, NotSentInv, TransportErrorInv,
           EndOfStreamInv, RespondInv, ProbeInv, ReadLineInv DEF Next

(* The inductive invariant of a call of the image service. *)
THEOREM CallInvariant == Spec => []Inv
BY InitInv, NextInv, PTL DEF Spec

(***************************************************************************)
(* An image that the stream delivered is returned, at whatever line the    *)
(* stream or the connection ends.                                          *)
(***************************************************************************)
THEOREM ImagesReturned == Spec => []ImageNotDropped
<1>1. Inv => ImageNotDropped
    BY DEF Inv
<1> QED BY <1>1, CallInvariant, PTL

(***************************************************************************)
(* A rejection that the user is shown has one of the four causes, among    *)
(* them an address that the admin mistyped; a failing or slow service and  *)
(* a bad key are none.                                                     *)
(***************************************************************************)
THEOREM RejectionsHaveCauses == Spec => []RejectionHasCause
<1>1. Inv => RejectionHasCause
    BY DEF Inv
<1> QED BY <1>1, CallInvariant, PTL

(***************************************************************************)
(* However long the service takes, the outcome can be written when its     *)
(* claim left the tick more time than the client's timeout.                *)
(***************************************************************************)
THEOREM WritableAtReturn == Spec => []OutcomeWritable
<1>1. Inv => OutcomeWritable
    <2> SUFFICES ASSUME Inv, pc = "done", started + ClientTimeout < TickDeadline
                 PROVE  clock < TickDeadline
        BY DEF OutcomeWritable
    <2>1. clock <= started + ClientTimeout
        BY DEF Inv, OnTime
    <2>2. clock \in Nat /\ started \in Nat
        BY DEF Inv, TypeOK
    <2> QED BY <2>1, <2>2, ClientAssumption
<1> QED BY <1>1, CallInvariant, PTL
=============================================================================
