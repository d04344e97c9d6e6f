--------------------------- MODULE SpeechConnection ---------------------------
(***************************************************************************)
(* The web socket of the speech SDK (common/speech_connection.{h,cc}).     *)
(* stage_ is written by the work thread, by the keepalive thread (through  *)
(* ws_->terminate()) and by release(), and mostly without a lock, so that  *)
(* a test of it and the assignment that follows are two actions.           *)
(*                                                                         *)
(* uWS is external.  hub_.run() runs the callbacks in the work thread and  *)
(* returns once no socket is left.  A socket closed or terminated runs     *)
(* onDisconnection first, in the closing thread, once, and then goes.      *)
(***************************************************************************)
EXTENDS Naturals, Sequences

CONSTANTS
  MaxPackets,   (* bound on the packets received and not taken by recv()   *)
  MaxSessions,  (* bound on the calls of initialize()                      *)
  Releases,     (* when the owner calls release(): never, ready or any     *)
  Faults        (* of refuse, garbage, connectFails, drop, mute, muteAuth  *)

ASSUME ConnAssumption ==
  /\ MaxPackets \in Nat /\ MaxSessions \in Nat
  /\ Releases \in {"never", "ready", "any"}

VARIABLES
  stage,       (* stage_                                                   *)
  ws,          (* ws_ # NULL                                               *)
  later,       (* reconn_timepoint_ is in the future                       *)
  silent,      (* no_resp_timeout has passed since lastest_recv_tp_        *)
  responses,   (* responses_                                               *)
  sock,        (* the socket of the hub                                    *)
  workPc, keepPc, ctlPc,
  hand,        (* the callback a thread is in                              *)
  sendPc, recvPc,
  timed,       (* recv() was given a timeout                               *)
  got,         (* what recv() returned last                                *)
  session

vars == <<stage, ws, later, silent, responses, sock, workPc, keepPc, ctlPc, hand,
          sendPc, recvPc, timed, got, session>>

linkVars == <<ws, later, silent, sock>>
callVars == <<sendPc, recvPc, timed, got, responses>>
ctlVars  == <<ctlPc, session>>

Stages  == {"INIT", "CONNECTING", "UNAUTH", "READY", "RELEASED"}
Threads == {"work", "keep", "app"}
Packet  == {"DATA", "BAD", "ERROR"}
OpResult == {"none", "SUCCESS", "INVALID_PB_DATA", "CONNECTION_BROKEN", "NOT_READY",
             "TIMEOUT"}

Init ==
  /\ stage = "INIT" /\ ws = FALSE /\ later = FALSE /\ silent = FALSE
  /\ responses = <<>> /\ sock = "none"
  /\ workPc = "dead" /\ keepPc = "dead" /\ ctlPc = "none"
  /\ hand = [t \in Threads |-> "none"]
  /\ sendPc = "idle" /\ recvPc = "gone" /\ timed = FALSE /\ got = "none"
  /\ session = 0

(* reconn_mutex_ is held by release() from the stage to the notification,  *)
(* req_mutex_ by send() from the test to the write and by the work thread  *)
(* while it publishes the socket.                                          *)
ReconnMutexFree == ctlPc \notin {"close", "notify"}
ReqMutexFree    == sendPc # "write" /\ workPc # "publish"

-----------------------------------------------------------------------------
(* The owner.                                                              *)

initialize ==
  /\ ctlPc = "none" /\ session < MaxSessions
  /\ stage' = "INIT"
  /\ workPc' = "loop" /\ keepPc' = "loop" /\ ctlPc' = "running"
  /\ recvPc' = "idle" /\ got' = "none"
  /\ session' = session + 1
  /\ UNCHANGED <<linkVars, responses, hand, sendPc, timed>>

MayRelease ==
  \/ Releases = "any"
  \/ Releases = "ready" /\ stage = "READY" /\ workPc = "hub" /\ sock = "open"
       /\ keepPc # "term" /\ \A t \in Threads : hand[t] = "none"

releaseMark ==
  /\ ctlPc = "running" /\ MayRelease
  /\ stage' = "RELEASED" /\ ctlPc' = "close"
  /\ UNCHANGED <<linkVars, callVars, workPc, keepPc, hand, session>>

(* Mutant: the sockets are left open. *)
releaseCloseNot ==
  /\ ctlPc = "close"
  /\ ctlPc' = "notify"
  /\ UNCHANGED <<stage, linkVars, callVars, workPc, keepPc, hand, session>>

(* group.close(): every open socket; not one that is still connecting. *)
releaseClose ==
  /\ ctlPc = "close"
  /\ IF sock \in {"open", "mute"}
     THEN sock' = "closing" /\ hand' = [hand EXCEPT !["app"] = "null"]
     ELSE UNCHANGED <<sock, hand>>
  /\ ctlPc' = "notify"
  /\ UNCHANGED <<stage, ws, later, silent, callVars, workPc, keepPc, session>>

releaseNotify ==
  /\ ctlPc = "notify" /\ hand["app"] = "none"
  /\ workPc' = IF workPc = "asleep" THEN "loop" ELSE workPc
  /\ keepPc' = IF keepPc = "asleep" THEN "loop" ELSE keepPc
  /\ ctlPc' = "join"
  /\ UNCHANGED <<stage, linkVars, callVars, hand, session>>

(* Both threads joined; then every sleeper of recv() is awoken. *)
releaseJoin ==
  /\ ctlPc = "join" /\ workPc = "dead" /\ keepPc = "dead"
  /\ recvPc' = IF recvPc = "asleep" THEN "awake" ELSE recvPc
  /\ ctlPc' = "none"
  /\ UNCHANGED <<stage, linkVars, workPc, keepPc, hand, sendPc, timed, got, responses,
                 session>>

-----------------------------------------------------------------------------
(* onDisconnection, and the second half of onError, in thread t.           *)

Handle(t, at, next) == hand[t] = at /\ hand' = [hand EXCEPT ![t] = next]

handlerNull(t) ==
  /\ Handle(t, "null", "test")
  /\ ws' = FALSE
  /\ UNCHANGED <<stage, later, silent, sock, callVars, workPc, keepPc, ctlVars>>

handlerTest(t) ==
  /\ Handle(t, "test", IF stage = "RELEASED" THEN "none" ELSE "init")
  /\ UNCHANGED <<stage, linkVars, callVars, workPc, keepPc, ctlVars>>

(* Mutant: a link that is gone leaves the stage as it was. *)
handlerInitNot(t) ==
  /\ Handle(t, "init", "push")
  /\ UNCHANGED <<stage, linkVars, callVars, workPc, keepPc, ctlVars>>

handlerInit(t) ==
  /\ Handle(t, "init", "push")
  /\ stage' = "INIT"
  /\ UNCHANGED <<linkVars, callVars, workPc, keepPc, ctlVars>>

(* push_error_resp *)
handlerPush(t) ==
  /\ Handle(t, "push", "none")
  /\ IF stage = "READY"
     THEN /\ responses' = Append(responses, "ERROR")
          /\ recvPc' = IF recvPc = "asleep" THEN "awake" ELSE recvPc
     ELSE UNCHANGED <<responses, recvPc>>
  /\ UNCHANGED <<stage, linkVars, sendPc, timed, got, workPc, keepPc, ctlVars>>

errorTest ==
  /\ Handle("work", "errTest", IF stage = "RELEASED" THEN "none" ELSE "errInit")
  /\ UNCHANGED <<stage, linkVars, callVars, workPc, keepPc, ctlVars>>

errorInit ==
  /\ Handle("work", "errInit", "none")
  /\ stage' = "INIT" /\ later' = TRUE
  /\ UNCHANGED <<ws, silent, sock, callVars, workPc, keepPc, ctlVars>>

callback(t) ==
  \/ handlerNull(t) \/ handlerTest(t) \/ handlerInit(t) \/ handlerPush(t)
  \/ t = "work" /\ (errorTest \/ errorInit)

-----------------------------------------------------------------------------
(* run(): the work thread, outside its callbacks.                          *)

WorkAt(pc) == workPc = pc /\ hand["work"] = "none"

workLoop ==
  /\ WorkAt("loop")
  /\ workPc' = CASE stage = "RELEASED" -> "dead"
                 [] stage = "INIT" -> IF later THEN "sleep" ELSE "connect"
                 [] OTHER -> "hub"
  /\ UNCHANGED <<stage, linkVars, callVars, keepPc, hand, ctlVars>>

(* Mutant: the stage does not say that a connection is being made. *)
workConnectNot ==
  /\ WorkAt("connect")
  /\ workPc' = "dial"
  /\ UNCHANGED <<stage, linkVars, callVars, keepPc, hand, ctlVars>>

workConnect ==
  /\ WorkAt("connect")
  /\ stage' = "CONNECTING" /\ workPc' = "dial"
  /\ UNCHANGED <<linkVars, callVars, keepPc, hand, ctlVars>>

workDial ==
  /\ WorkAt("dial")
  /\ sock' = "connecting" /\ workPc' = "loop"
  /\ UNCHANGED <<stage, ws, later, silent, callVars, keepPc, hand, ctlVars>>

(* connect() fails at once, in onError, where ws_ is NULL already. *)
workDialFails ==
  /\ "connectFails" \in Faults
  /\ WorkAt("dial")
  /\ workPc' = "loop" /\ hand' = [hand EXCEPT !["work"] = "errTest"]
  /\ UNCHANGED <<stage, linkVars, callVars, keepPc, ctlVars>>

workSleep ==
  /\ WorkAt("sleep") /\ ReconnMutexFree
  /\ workPc' = IF stage = "INIT" THEN "asleep" ELSE "loop"
  /\ UNCHANGED <<stage, linkVars, callVars, keepPc, hand, ctlVars>>

workWake ==
  /\ WorkAt("asleep")
  /\ later' = FALSE /\ workPc' = "loop"
  /\ UNCHANGED <<stage, ws, silent, sock, callVars, keepPc, hand, ctlVars>>

run == workLoop \/ workConnect \/ workDial \/ workDialFails \/ workSleep \/ workWake

-----------------------------------------------------------------------------
(* The callbacks of hub_.run().                                            *)

hubReturns ==
  /\ WorkAt("hub") /\ sock = "none"
  /\ workPc' = "loop"
  /\ UNCHANGED <<stage, linkVars, callVars, keepPc, hand, ctlVars>>

(* onConnection; auth() sends the request. *)
hubConnected ==
  /\ WorkAt("hub") /\ sock = "connecting"
  /\ sock' = "open" /\ stage' = "UNAUTH"
  /\ UNCHANGED <<ws, later, silent, callVars, workPc, keepPc, hand, ctlVars>>

hubConnectFails ==
  /\ "connectFails" \in Faults
  /\ WorkAt("hub") /\ sock = "connecting"
  /\ sock' = "none" /\ hand' = [hand EXCEPT !["work"] = "errTest"]
  /\ UNCHANGED <<stage, ws, later, silent, callVars, workPc, keepPc, ctlVars>>

(* The peer goes away: the socket ends, or nothing tells. *)
hubDropped ==
  /\ "drop" \in Faults
  /\ WorkAt("hub") /\ sock \in {"open", "mute"}
  /\ sock' = "closing" /\ hand' = [hand EXCEPT !["work"] = "null"]
  /\ UNCHANGED <<stage, ws, later, silent, callVars, workPc, keepPc, ctlVars>>

peerMute ==
  /\ sock = "open"
  /\ \/ "mute" \in Faults /\ stage = "READY"
     \/ "muteAuth" \in Faults /\ stage = "UNAUTH"
  /\ sock' = "mute"
  /\ UNCHANGED <<stage, ws, later, silent, callVars, workPc, keepPc, hand, ctlVars>>

hubClosed ==
  /\ WorkAt("hub") /\ sock = "closing" /\ \A t \in Threads : hand[t] = "none"
  /\ sock' = "none"
  /\ UNCHANGED <<stage, ws, later, silent, callVars, workPc, keepPc, hand, ctlVars>>

(* onMessage: by the stage, an answer to auth() or a packet for recv(). *)
hubAuthOk ==
  /\ WorkAt("hub") /\ sock = "open" /\ stage = "UNAUTH"
  /\ silent' = FALSE
  /\ workPc' = "auth"
  /\ UNCHANGED <<stage, ws, later, sock, callVars, keepPc, hand, ctlVars>>

hubAuthRefused ==
  /\ "refuse" \in Faults
  /\ WorkAt("hub") /\ sock = "open" /\ stage = "UNAUTH"
  /\ silent' = FALSE
  /\ later' = TRUE
  /\ sock' = "closing" /\ hand' = [hand EXCEPT !["work"] = "null"]
  /\ UNCHANGED <<stage, ws, callVars, workPc, keepPc, ctlVars>>

hubPacket(p) ==
  /\ p = "BAD" => "garbage" \in Faults
  /\ WorkAt("hub") /\ sock = "open" /\ Len(responses) < MaxPackets
  /\ silent' = FALSE
  /\ IF stage = "READY"
     THEN /\ responses' = Append(responses, p)
          /\ recvPc' = IF recvPc = "asleep" THEN "awake" ELSE recvPc
     ELSE UNCHANGED <<responses, recvPc>>
  /\ stage = "UNAUTH" => p = "BAD"
  /\ UNCHANGED <<stage, ws, later, sock, sendPc, timed, got, workPc, keepPc, hand,
                 ctlVars>>

(* handle_auth_result: under req_mutex_, the stage, then the socket. *)
authReady ==
  /\ WorkAt("auth") /\ ReqMutexFree
  /\ stage' = "READY" /\ workPc' = "publish"
  /\ UNCHANGED <<linkVars, callVars, keepPc, hand, ctlVars>>

(* Mutant: the sender asleep in send() is not told. *)
authPublishSilent ==
  /\ WorkAt("publish")
  /\ ws' = TRUE /\ workPc' = "hub"
  /\ UNCHANGED <<stage, later, silent, sock, callVars, keepPc, hand, ctlVars>>

authPublish ==
  /\ WorkAt("publish")
  /\ ws' = TRUE /\ workPc' = "hub"
  /\ sendPc' = IF sendPc = "asleep" THEN "awake" ELSE sendPc
  /\ UNCHANGED <<stage, later, silent, sock, recvPc, timed, got, responses, keepPc, hand,
                 ctlVars>>

hub ==
  \/ hubReturns \/ hubConnected \/ hubConnectFails \/ hubDropped \/ hubClosed
  \/ hubAuthOk \/ hubAuthRefused \/ authReady \/ authPublish
  \/ \E p \in {"DATA", "BAD"} : hubPacket(p)

-----------------------------------------------------------------------------
(* keepalive_run()                                                         *)

KeepAt(pc) == keepPc = pc /\ hand["keep"] = "none"

keepLoop ==
  /\ KeepAt("loop")
  /\ keepPc' = CASE stage = "RELEASED" -> "dead"
                 [] stage = "READY" -> "live"
                 [] OTHER -> "sleep"
  /\ UNCHANGED <<stage, linkVars, callVars, workPc, hand, ctlVars>>

(* A ping changes nothing here: a peer that answers it is not silent. *)
keepLive ==
  /\ KeepAt("live")
  /\ keepPc' = IF silent THEN "term" ELSE "sleep"
  /\ silent' = FALSE
  /\ UNCHANGED <<stage, ws, later, sock, callVars, workPc, hand, ctlVars>>

(* Mutant: the link is only logged about. *)
keepTermNot ==
  /\ KeepAt("term")
  /\ keepPc' = "sleep"
  /\ UNCHANGED <<stage, linkVars, callVars, workPc, hand, ctlVars>>

(* ws_->terminate(); ws_ may be NULL by now. *)
keepTerm ==
  /\ KeepAt("term")
  /\ keepPc' = IF ws THEN "sleep" ELSE "crashed"
  /\ IF ws /\ sock \in {"open", "mute"}
     THEN sock' = "closing" /\ hand' = [hand EXCEPT !["keep"] = "null"]
     ELSE UNCHANGED <<sock, hand>>
  /\ UNCHANGED <<stage, ws, later, silent, callVars, workPc, ctlVars>>

keepSleep ==
  /\ KeepAt("sleep") /\ ReconnMutexFree
  /\ keepPc' = "asleep"
  /\ UNCHANGED <<stage, linkVars, callVars, workPc, hand, ctlVars>>

keepWake ==
  /\ KeepAt("asleep")
  /\ keepPc' = "loop"
  /\ UNCHANGED <<stage, linkVars, callVars, workPc, hand, ctlVars>>

keepalive_run == keepLoop \/ keepLive \/ keepTerm \/ keepSleep \/ keepWake

(* no_resp_timeout passes: the ping interval is shorter, so that the peer  *)
(* of a ready connection must be mute.                                     *)
silence ==
  /\ stage = "READY" /\ workPc # "publish" /\ sock = "mute" /\ ~silent
  /\ silent' = TRUE
  /\ UNCHANGED <<stage, ws, later, sock, callVars, workPc, keepPc, hand, ctlVars>>

-----------------------------------------------------------------------------
(* send(), with a timeout as its callers give it, and recv().              *)

sendTest ==
  /\ ctlPc = "running" /\ sendPc = "idle" /\ ReqMutexFree
  /\ sendPc' = IF stage = "READY" THEN "write" ELSE "asleep"
  /\ UNCHANGED <<stage, linkVars, recvPc, timed, got, responses, workPc, keepPc, hand,
                 ctlVars>>

sendTimer ==
  /\ sendPc = "asleep"
  /\ sendPc' = "awake"
  /\ UNCHANGED <<stage, linkVars, recvPc, timed, got, responses, workPc, keepPc, hand,
                 ctlVars>>

sendAgain ==
  /\ sendPc = "awake" /\ workPc # "publish"
  /\ sendPc' = IF stage = "READY" THEN "write" ELSE "idle"
  /\ UNCHANGED <<stage, linkVars, recvPc, timed, got, responses, workPc, keepPc, hand,
                 ctlVars>>

(* ws_send, then SUCCESS whatever ws_ was. *)
sendWrite ==
  /\ sendPc = "write"
  /\ sendPc' = "idle"
  /\ UNCHANGED <<stage, linkVars, recvPc, timed, got, responses, workPc, keepPc, hand,
                 ctlVars>>

send == sendTest \/ sendTimer \/ sendAgain \/ sendWrite

Result(p) == CASE p = "DATA" -> "SUCCESS"
               [] p = "BAD"  -> "INVALID_PB_DATA"
               [] OTHER      -> "CONNECTION_BROKEN"

Take == got' = Result(Head(responses)) /\ responses' = Tail(responses)

recvCall(t) ==
  /\ recvPc = "idle"
  /\ IF responses # <<>>
     THEN Take /\ UNCHANGED <<recvPc, timed>>
     ELSE recvPc' = "asleep" /\ timed' = t /\ UNCHANGED <<got, responses>>
  /\ UNCHANGED <<stage, linkVars, sendPc, workPc, keepPc, hand, ctlVars>>

recvTimer ==
  /\ recvPc = "asleep" /\ timed
  /\ recvPc' = "awake"
  /\ UNCHANGED <<stage, linkVars, sendPc, timed, got, responses, workPc, keepPc, hand,
                 ctlVars>>

recvReturn ==
  /\ recvPc = "awake"
  /\ IF responses # <<>> THEN Take
     ELSE got' = (IF stage = "RELEASED" THEN "NOT_READY" ELSE "TIMEOUT")
          /\ UNCHANGED responses
  /\ recvPc' = IF got' = "NOT_READY" THEN "gone" ELSE "idle"
  /\ timed' = FALSE
  /\ UNCHANGED <<stage, linkVars, sendPc, workPc, keepPc, hand, ctlVars>>

recv == (\E t \in BOOLEAN : recvCall(t)) \/ recvTimer \/ recvReturn

Next ==
  \/ initialize \/ releaseMark \/ releaseClose \/ releaseNotify \/ releaseJoin
  \/ \E t \in Threads : callback(t)
  \/ run \/ hub \/ keepalive_run
  \/ peerMute \/ silence
  \/ send \/ recv

Spec == Init /\ [][Next]_vars

(* The threads run, timers fire, hub_.run() reports what happened, and a   *)
(* server that is asked again and again lets the client in at last.        *)
Fairness ==
  /\ \A t \in Threads : WF_vars(callback(t))
  /\ WF_vars(run) /\ WF_vars(keepalive_run) /\ WF_vars(silence)
  /\ WF_vars(hubReturns \/ hubClosed) /\ WF_vars(authReady \/ authPublish)
  /\ SF_vars(workDial) /\ SF_vars(hubConnected) /\ SF_vars(hubAuthOk)
  /\ WF_vars(releaseClose) /\ WF_vars(releaseNotify) /\ WF_vars(releaseJoin)
  /\ WF_vars(sendTimer \/ sendAgain \/ sendWrite)

FairSpec == Spec /\ Fairness

-----------------------------------------------------------------------------
(* Properties.                                                             *)

TypeOK ==
  /\ stage \in Stages /\ ws \in BOOLEAN /\ later \in BOOLEAN /\ silent \in BOOLEAN
  /\ responses \in Seq(Packet)
  /\ sock \in {"none", "connecting", "open", "mute", "closing"}
  /\ workPc \in {"dead", "loop", "connect", "dial", "sleep", "asleep", "hub", "auth",
                 "publish"}
  /\ keepPc \in {"dead", "loop", "live", "term", "sleep", "asleep", "crashed"}
  /\ ctlPc \in {"none", "running", "close", "notify", "join"}
  /\ hand \in [Threads -> {"none", "null", "test", "init", "push", "errTest", "errInit"}]
  /\ sendPc \in {"idle", "asleep", "awake", "write"}
  /\ recvPc \in {"idle", "asleep", "awake", "gone"}
  /\ timed \in BOOLEAN /\ got \in OpResult /\ session \in 0 .. MaxSessions

(* connect() is called only when the last socket is gone, whoever closed   *)
(* it (speech_connection.cc:133-134,179,423, 68): hub_.run() never serves  *)
(* two sockets, whose callbacks would write one stage_ and one ws_.        *)
OneLink == workPc = "dial" => sock = "none"

(* No lost wakeup: send() does not sleep on a ready connection, nor recv() *)
(* on a packet (speech_connection.cc:418,450,462).                         *)
NobodySleepsOnWork ==
  /\ sendPc = "asleep" /\ workPc # "publish" => stage # "READY"
  /\ recvPc = "asleep" => responses = <<>>

(* The client gets back to a ready connection after every drop, refusal,   *)
(* failed connect or mute peer (speech_connection.cc:127-152,173-180),     *)
(* unless it is released or the peer goes mute before it authorizes.       *)
LinkComesBack ==
  (stage # "READY" /\ ctlPc = "running")
    ~> (stage = "READY" \/ ctlPc # "running" \/ sock = "mute")

(* "server may no response, try reconnect" (speech_connection.cc:177): a   *)
(* ready socket whose peer is mute is given up, while the keepalive thread *)
(* lives.                                                                  *)
MuteLinkDropped ==
  (sock = "mute" /\ stage = "READY") ~> (sock # "mute" \/ keepPc = "crashed")

(* The same of a peer that is mute in any stage, the authorization         *)
(* included, where keepalive_run does nothing (speech_connection.cc:168).  *)
MutePeerDropped == (sock = "mute") ~> (sock # "mute" \/ keepPc = "crashed")

(* "SpeechConnection.release invoked, wait all threads quit"               *)
(* (speech_connection.h:28): both threads quit, and release() returns, if  *)
(* the keepalive thread lives.                                             *)
ReleaseEnds == (ctlPc = "close") ~> (ctlPc = "none" \/ keepPc = "crashed")

(* READY is "connected and authorized" (speech_connection.h:26): whoever   *)
(* finds the stage READY finds a socket in ws_.                            *)
ReadyMeansConnected == stage = "READY" /\ workPc # "publish" => ws

(* "server may no response, try reconnect" (speech_connection.cc:177): the *)
(* keepalive thread has a socket to terminate.                             *)
KeepaliveHasSocket == keepPc # "crashed"

(* "push error response to list" (speech_connection.cc:445): when a ready  *)
(* connection goes, recv() is given a CONNECTION_BROKEN.                   *)
DropIsReported ==
  (hand["work"] = "init" /\ stage = "READY") ~> (\E i \in DOMAIN responses : responses[i] = "ERROR")

=============================================================================
