---------------------------- MODULE SpeechImplInv ----------------------------
(***************************************************************************)
(* The inductive invariants of SpeechImpl: what holds in every reachable   *)
(* state and is strong enough to follow from itself. IInv is the order of  *)
(* the queues, the operations and the streams, and each of the others adds *)
(* what one property needs: KInv that no request is lost, EInv that one    *)
(* ends once, GoneInv that cancel() is honoured, SleepInv that no thread   *)
(* oversleeps, WInv the order of the uplink, RInv that the results are     *)
(* complete.  SpeechImplProofs shows that each is kept.                    *)
(***************************************************************************)
EXTENDS SpeechImpl, SdkLemmas

(* Voices only, or texts only, from one thread: put_text() reads next_id_  *)
(* before it takes the lock, and two callers may be given the same id      *)
(* (speech_impl.cc:143-160).                                               *)
Orderly ==
  \/ Kinds \subseteq {"voice"}
  \/ Kinds \subseteq {"text"} /\ \A c, d \in Callers : c = d

(* The requests that start an operation. *)
Starts == {"TEXT", "VOICE_START"}
(* The request of the operation at work. *)
CurrentId == operations[current].id
(* The voice that is being sent. *)
FrontIs(id) == voice_reqs # <<>> /\ voice_reqs[1].polling /\ voice_reqs[1].id = id

(* Before prepare() nothing has happened. *)
FreshInv == ctlPc = "new" => Init

(* Requests of a kind the application does not make are nowhere. *)
KindInv ==
  /\ "text" \notin Kinds =>
       /\ text_reqs = <<>> /\ entering = {}
       /\ reqPc \notin {"dead", "top", "asleep"} => req.type # "TEXT"
  /\ "voice" \notin Kinds =>
       /\ voice_reqs = <<>>
       /\ reqPc \notin {"dead", "top", "asleep"} => req.type \in {"TEXT", "CANCELLED"}

(* A library that is ready has a sending thread. *)
LifeInv == initialized => ctlPc = "idle" /\ reqPc # "dead"

(* The operation at work is the last one, and that of the request the      *)
(* sending thread has in hand, or of the voice it takes the next item of.  *)
SenderInv ==
  /\ op_cond => reqPc = "inOp" /\ current # 0
  /\ reqPc = "inOp" /\ ~op_cond => current = 0
  /\ current # 0 =>
       /\ current = Len(operations)
       /\ reqPc # "failed"
       /\ reqPc \in {"change", "send", "sent", "waitOp", "inOp"} => req.id = CurrentId
       /\ reqPc \in {"top", "asleep"} /\ initialized => FrontIs(CurrentId)
       /\ reqPc = "change" => seen = CurrentId
       /\ reqPc \in {"send", "sent"} => req.type # "CANCELLED"
  /\ reqPc \in {"waitOp", "inOp"} => req.type \in {"TEXT", "VOICE_END"}
  /\ reqPc = "change" /\ seen # 0 => seen = req.id /\ req.type \notin Starts
  /\ reqPc \in {"change", "send", "sent"} /\ initialized
       /\ req.type \in {"VOICE_START", "VOICE_DATA"} => FrontIs(req.id)

(* The queues are in the order of the ids, and a text that is being        *)
(* entered has the highest.                                                *)
QueueInv ==
  /\ \A i \in 1 .. Len(text_reqs) :
       /\ text_reqs[i].id <= next_id
       /\ \A j \in 1 .. i - 1 : text_reqs[j].id < text_reqs[i].id
  /\ \A i \in 1 .. Len(voice_reqs) :
       /\ voice_reqs[i].id <= next_id
       /\ i # 1 => ~voice_reqs[i].polling
       /\ \A j \in 1 .. i - 1 : voice_reqs[j].id < voice_reqs[i].id
  /\ \A e \in entering :
       /\ e.id = IF e.stored THEN next_id ELSE next_id + 1
       /\ \A i \in 1 .. Len(text_reqs) : text_reqs[i].id < e.id
       /\ \A f \in entering : e = f

(* The sending thread has begun with request n: all that is queued comes   *)
(* after it, but for the rest of the voice n itself ...                    *)
Passed(n) ==
  /\ n <= next_id
  /\ \A i \in 1 .. Len(text_reqs) : n < text_reqs[i].id
  /\ \A i \in 1 .. Len(voice_reqs) :
       n < voice_reqs[i].id \/ (n = voice_reqs[i].id /\ voice_reqs[i].polling)
  /\ \A e \in entering : n < e.id

(* ... and so does the request in hand. *)
Behind(n) ==
  /\ Passed(n)
  /\ reqPc = "change" => n <= req.id /\ (req.type \in Starts => n < req.id)

(* The operations are in the order of the ids, behind all that is queued;  *)
(* of two operations of one request the first is cancelled.                *)
OpOrder ==
  /\ reqPc = "change" => Passed(req.id)
  /\ \A i \in 1 .. Len(operations) :
       /\ Behind(operations[i].id)
       /\ \A j \in 1 .. i - 1 :
            /\ operations[j].id <= operations[i].id
            /\ operations[j].id = operations[i].id => operations[i].status = "CANCELLED"

(* The streams of results are in the order of the ids too, and each is     *)
(* that of an operation.                                                   *)
ResponseOrder ==
  \A i \in 1 .. Len(responses) :
    /\ \A j \in 1 .. i - 1 : responses[j].id < responses[i].id
    /\ \E k \in 1 .. Len(operations) : operations[k].id = responses[i].id

(* An operation has a stream from its first answer on, completed by the    *)
(* last one.                                                               *)
StreamInv ==
  \A i \in 1 .. Len(operations) :
    /\ operations[i].status = "START" => ~HasStream(responses, operations[i].id)
    /\ operations[i].status \in {"STREAMING", "END"} => HasStream(responses, operations[i].id)
    /\ operations[i].status = "STREAMING" =>
         \A k \in 1 .. Len(responses) :
           responses[k].id = operations[i].id => responses[k].type = "uncompleted"

(* Request i has become an operation. *)
Started(i) == i \in OpIds \/ HasEnded(heard[i])

(* A voice that the sending thread has begun with has an operation.        *)
StartInv ==
  initialized =>
    /\ \A k \in 1 .. Len(voice_reqs) :
         voice_reqs[k].polling =>
           \/ Started(voice_reqs[k].id)
           \/ reqPc = "change" /\ req.id = voice_reqs[k].id /\ req.type = "VOICE_START"
    /\ reqPc = "change" /\ (seen # 0 \/ req.type \in {"VOICE_DATA", "VOICE_END"}) =>
         Started(req.id)

(* TypeOK in four parts: what OpCtl owns, the queues, the request in hand, *)
(* the rest.                                                               *)
Packets == 1 .. MaxChunks
Text == [id : SpeechId, type : {"TEXT", "CANCELLED"}, data : {NoData}]
Voice == Stream(SpeechId, Packets, {SPEECH_TIMEOUT})
Result == Stream(SpeechId, Part, {SPEECH_SERVER_INTERNAL})
QueueType == text_reqs \in Seq(Text) /\ voice_reqs \in Seq(Voice) /\ responses \in Seq(Result)
HandType ==
  /\ req.id \in SpeechId \cup {0} /\ req.type \in ReqType /\ seen \in SpeechId \cup {0}
  /\ reqPc \in {"dead", "top", "asleep", "change", "send", "failed", "sent", "waitOp", "inOp"}
  /\ reqPc \in {"dead", "top", "asleep"} <=> req.id = 0
RestType ==
  /\ initialized \in BOOLEAN /\ linkUp \in BOOLEAN /\ next_id \in 0 .. MaxId
  /\ entering \subseteq [by : Callers, id : SpeechId, stored : BOOLEAN]
  /\ respPc \in {"dead", "timeout", "recv", "asleep", "awake", "handle", "finish", "erase"}
  /\ respPc \in {"finish", "erase"} => rx.id # 0
  /\ pollPc \in {"stopped", "running", "toSleep", "asleep"}
  /\ ctlPc \in {"new", "idle", "closing", "joinReq", "joinResp", "released"}
  /\ spoken \in [SpeechId -> Nat]

(* All that TypeOK says and the packet counts. *)
Typed == OpType(SpeechId, Errors) /\ QueueType /\ HandType /\ RestType

(* The invariant of the library with requests of one kind: of what order   *)
(* the queues, the operations and the streams are, and what the sending    *)
(* thread knows of the operation it works on.                              *)
IInv ==
  /\ Typed /\ FreshInv /\ KindInv /\ LifeInv /\ SenderInv
  /\ OneInFlight /\ QueueInv /\ OpOrder
  /\ initialized => ResponseOrder /\ StreamInv

(* A voice that erase_req() fails was started: its id has passed. *)
FailedInv ==
  /\ \A k \in 1 .. Len(voice_reqs) : voice_reqs[k].type = "error" => voice_reqs[k].polling
  /\ reqPc \in {"change", "send", "failed"} => Passed(req.id)
  /\ respPc \in {"finish", "erase"} => rx.id \in SpeechId /\ Passed(rx.id)

(* What poll() returns of a request. *)
Labels == {"START"} \cup Part \cup Terminal
(* poll() returns results of these types only. *)
HeardType == heard \in [SpeechId -> Seq(Labels)]

(* Where a request is before it is an operation. *)
Waits(n) ==
  \/ \E e \in entering : e.id = n
  \/ n \in QueuedTexts
  \/ HasStream(voice_reqs, n)

(* What the rest of the properties of a request need beside IInv. *)
KInv == IInv /\ FailedInv /\ HeardType /\ StartInv /\ NoRequestLost

(* Whatever is cancelled, is cancelled by the application. *)
BlameInv ==
  /\ \A k \in 1 .. Len(operations) :
       operations[k].status = "CANCELLED" => MayCancel(operations[k].id)
  /\ \A k \in 1 .. Len(text_reqs) : text_reqs[k].type = "CANCELLED" => MayCancel(text_reqs[k].id)
  /\ \A k \in 1 .. Len(voice_reqs) : voice_reqs[k].type = "deleted" => MayCancel(voice_reqs[k].id)
  /\ reqPc \notin {"dead", "top", "asleep"} /\ req.type = "CANCELLED" => MayCancel(req.id)
  /\ cancelling \subseteq Cancels

(* What poll() has returned results of is not yet to come; a request that  *)
(* has ended is no operation, but for the second CANCELLED of one.         *)
HeardInv == \A i \in SpeechId : heard[i] # <<>> => Behind(i)
EndInv   == \A i \in SpeechId : ~MayCancel(i) /\ HasEnded(heard[i]) => i \notin OpIds

(* All that OneTerminal needs. *)
EInv == KInv /\ HeardInv /\ BlameInv /\ EndInv

(* Wherever the request i is now, it is cancelled there, and it is not to  *)
(* come any more.                                                          *)
Gone(i) ==
  /\ i <= next_id
  /\ \A k \in 1 .. Len(operations) : operations[k].id = i => operations[k].status = "CANCELLED"
  /\ \A k \in 1 .. Len(text_reqs) : text_reqs[k].id = i => text_reqs[k].type = "CANCELLED"
  /\ reqPc = "change" /\ req.id = i => req.type = "CANCELLED"
  /\ \A e \in entering : e.id # i

(* What cancel() has returned for is gone; between its two halves it       *)
(* holds req_mutex_, so that nothing is in hand.                           *)
GoneInv ==
  /\ \A i \in dropped : i \in SpeechId /\ Gone(i)
  /\ cancelling # {} => reqPc # "change"
  /\ 0 \in cancelling => \A k \in 1 .. Len(text_reqs) : text_reqs[k].type = "CANCELLED"

(* The packets of a server, of valid types unless Faults has OTHER. *)
Packet == {r \in [kind : {"none", "data", "timeout", "broken", "badData"}, id : Nat,
                  type : RespType, extra : BOOLEAN] :
             r.kind = "data" /\ r.type = "OTHER" => "OTHER" \in Faults}

(* Nothing is left unread while the receiving thread sleeps. *)
NetInv ==
  /\ inbox \in Seq(Packet)
  /\ respPc = "handle" => rx \in Packet
  /\ respPc = "asleep" => inbox = <<>>

(* The sending thread sleeps when nothing is queued. *)
ReqSleeps == reqPc = "asleep" /\ ctlPc # "closing" => initialized /\ Idle

(* poll() sleeps on nothing but the CANCELLED of a request. *)
Slept == pollPc \in {"toSleep", "asleep"} /\ initialized /\ respPc # "finish"
PollSleeps ==
  Slept => NothingToReturn \/ (operations # <<>> /\ operations[1].status = "CANCELLED")

(* A thread holds resp_mutex_ from its look to its sleep. *)
MutexInv == pollPc = "toSleep" => respPc # "finish" /\ reqPc # "failed"

(* All that SleepersIdle needs. *)
SleepInv == NetInv /\ ReqSleeps /\ PollSleeps /\ MutexInv

(* The sending thread has a request in hand. *)
Busy == reqPc \notin {"dead", "top", "asleep"}

(* A message of the server's. *)
Msg == {m \in [id : SpeechId, data : Packets \cup {NoData},
               type : {"TEXT", "VOICE_START", "VOICE_DATA", "VOICE_END"}] :
          m.type = "VOICE_DATA" => m.data \in Packets}

(* What is to be sent is a message. *)
HandData ==
  reqPc \in {"change", "send"} =>
    /\ req.data \in Packets \cup {NoData}
    /\ req.type = "VOICE_DATA" => req.data \in Packets

(* What was sent is behind all that is to come, and the end of a voice is  *)
(* behind the voice.                                                       *)
WirePassed ==
  \A k \in 1 .. Len(wire) :
    Behind(wire[k].id) /\ (wire[k].type = "VOICE_END" => ~HasStream(voice_reqs, wire[k].id))

(* So is the request in hand. *)
HandEnds ==
  Busy =>
    /\ Passed(req.id)
    /\ req.type \in {"VOICE_END", "CANCELLED"} => ~HasStream(voice_reqs, req.id)

(* A request that is over is erased, when no other has become the current  *)
(* one or when a later one has.                                            *)
RxOver ==
  respPc \in {"finish", "erase"} => Behind(rx.id) /\ (current # 0 => CurrentId # rx.id)

(* Nothing is put into a voice that was not started. *)
Silence == \A i \in SpeechId : next_id < i => spoken[i] = 0

(* The last message the server has. *)
WireEnd == wire[Len(wire)]

(* It is of the operation at work, from the start of its request on.       *)
CurSent ==
  current # 0 /\ ~(reqPc = "send" /\ req.type \in Starts) =>
    /\ wire # <<>> /\ WireEnd.id = CurrentId
    /\ \/ WireEnd.type \in {"VOICE_START", "VOICE_DATA"}
       \/ reqPc \in {"sent", "waitOp", "inOp"} /\ req.type \in {"TEXT", "VOICE_END"}

(* What is sent next follows it. *)
Ready ==
  (reqPc = "change" /\ seen # 0) \/ reqPc = "send" =>
    IF wire = <<>> THEN req.type \in Starts ELSE Follows(WireEnd, Message)

(* The packets d come after packet p and are the last ones of n.           *)
Runs(d, p, n) == p + Len(d) = n /\ \A j \in 1 .. Len(d) : d[j] = p + j

(* What is left of the voice v after packet p is all of it, if the         *)
(* application does not cancel it.                                         *)
Rest(v, p) ==
  /\ v.type # "error"
  /\ \/ Runs(v.data, p, spoken[v.id])
     \/ v.type # "uncompleted" /\ v.data = <<>> /\ MayCancel(v.id)

(* The voice i is being sent. *)
Going(i) ==
  \/ current # 0 /\ CurrentId = i
  \/ reqPc = "change" /\ req.type = "VOICE_START" /\ req.id = i

(* The last packet that was sent of it, or is in hand. *)
Pos == IF reqPc \in {"change", "send"} THEN LastOf(req) ELSE LastOf(WireEnd)

(* A voice is complete in the queue until it is started, and from then on  *)
(* what was sent and what is left of it are.                               *)
RestInv ==
  \A k \in 1 .. Len(voice_reqs) :
    IF voice_reqs[k].polling THEN Going(voice_reqs[k].id) => Rest(voice_reqs[k], Pos)
                             ELSE Rest(voice_reqs[k], 0)

(* All that UplinkOrder needs: what the server has, what the sending       *)
(* thread has in hand and what is queued fit together.                     *)
WInv ==
  /\ wire \in Seq(Msg) /\ HandData /\ WirePassed /\ HandEnds /\ RxOver /\ Silence
  /\ CurSent /\ Ready /\ RestInv

(* A packet that answers request i, and whether gen_results() has one in   *)
(* hand.                                                                   *)
For(i, p)  == p.kind = "data" /\ p.id = i
Handles(i) == respPc = "handle" /\ For(i, rx)

(* What there is of an answer once a packet has been added to the parts g. *)
Given(g, i, p) == IF For(i, p) THEN g \o Parts(p) ELSE g

(* The client has turned the parts g of answer i into results: with the    *)
(* packet in hand and those in the list, f[j] after j - 1 of them, these   *)
(* are all that the server has answered, up to the last packet.            *)
Counts(f, i, g) ==
  /\ f[1] = IF Handles(i) THEN g \o Parts(rx) ELSE g
  /\ Handles(i) /\ Last(rx) => answered[i].done /\ f[1] = answered[i].parts
  /\ \A j \in 1 .. Len(inbox) :
       /\ f[j + 1] = Given(f[j], i, inbox[j])
       /\ For(i, inbox[j]) /\ Last(inbox[j]) =>
            answered[i].done /\ f[j + 1] = answered[i].parts
  /\ f[Len(inbox) + 1] = answered[i].parts

Tally(i, g) == \E f \in [1 .. Len(inbox) + 1 -> Seq(Part)] : Counts(f, i, g)

(* What poll() has returned of request i and will return of its stream t:  *)
(* START and the parts g.                                                  *)
Shown(i, t, g) ==
  IF t.polling THEN heard[i] \o t.data = <<"START">> \o g
               ELSE heard[i] = <<>> /\ t.data = g

(* So it is with the operation of request i: before its first answer,      *)
(* between the first and the last, and then, unless it has failed.         *)
Counted(i, status) ==
  /\ status = "START" => heard[i] = <<>> /\ Tally(i, <<>>)
  /\ status = "STREAMING" =>
       \E g \in Seq(Part) :
         /\ Tally(i, g)
         /\ \A m \in 1 .. Len(responses) :
              responses[m].id = i => Shown(i, responses[m], g)
  /\ status = "END" =>
       \A m \in 1 .. Len(responses) :
         responses[m].id = i /\ responses[m].type = "completed" =>
           answered[i].done /\ Shown(i, responses[m], answered[i].parts)

CountInv ==
  initialized =>
    \A k \in 1 .. Len(operations) : Counted(operations[k].id, operations[k].status)

(* A request that was not sent is not answered. *)
Silent(i) ==
  /\ answered[i].parts = <<>> /\ ~Handles(i)
  /\ \A j \in 1 .. Len(inbox) : ~For(i, inbox[j])

QuietInv == \A i \in SpeechId : Behind(i) \/ Silent(i)

(* What has ended with END is whole, and the server has done with it. *)
WholeInv ==
  \A i \in SpeechId :
    heard[i] # <<>> /\ heard[i][Len(heard[i])] = "END" =>
      answered[i].done /\ heard[i] = <<"START">> \o answered[i].parts \o <<"END">>

(* What the server has answered. *)
AnswerSet == [SpeechId -> [parts : Seq(Part), done : BOOLEAN]]
AnswerType == answered \in AnswerSet

(* All that ResultsComplete needs. *)
RInv ==
  /\ wire \in Seq(Msg) /\ HandData /\ HandEnds /\ WirePassed
  /\ NetInv /\ AnswerType /\ QuietInv /\ CountInv /\ WholeInv

==============================================================================
