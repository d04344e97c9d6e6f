# Formal models of the open-voice client

This directory models the open-voice client in TLA+: the programs under
`src/` that capture a microphone, wait for the wake word, stream the speech to
a server and play back what it answers. TLC checks the models on small
instances; TLAPS proves theorems about them for every value of their constants.

Paths below are relative to `src/`; `NDK` stands for
`rokid-openvoice-process-android-ndk/jni`, `SDK` for `NDK/speech`, `SIREN` for
`NDK/blacksiren/libbsiren`.

## 1. The system

| component | state it keeps | operations | interacts with |
|---|---|---|---|
| StreamQueue (`SDK/src/common/pending_queue.h`) | linked list of data and tags, queue of tags, map id -> tag | start, stream, end, erase, clear, close, available, pop | called by TtsImpl and SpeechImpl under their mutexes |
| OperationController (`op_ctl.h`) | list of operations not polled yet, current operation, timers | new_op, set_op_error, finish_op, wait_op_finish, cancel_op, remove_front_op, refresh_op_time, op_timeout | the same |
| TtsImpl (`tts_impl.cc`) | queued requests, streams of results, operations, two threads | prepare, release, speak, cancel, poll; send_reqs, gen_results | SpeechConnection.send/recv |
| SpeechImpl (`speech_impl.cc`) | text requests, voice streams, results, operations, two threads | prepare, release, put_text, start_voice, put_voice, end_voice, cancel, poll; send_reqs, gen_results | SpeechConnection.send/recv |
| SpeechConnection (`speech_connection.{h,cc}`) | connection stage, socket, received packets, two threads | initialize, release, send, recv; socket callbacks, keepalive | uWS hub, server |
| blacksiren queue (`SIREN/src/lfqueue.cpp`) | ring of slots with futex counters, two tickets | push, pop | proxy and engine |
| blacksiren proxy (`SIREN/src/siren_proxy.cpp`) | request queue, initialisation flags, recording flags, list of wake words | init, start/stop stream, set state, add and remove words, destroy; request, answer and recording threads | engine over three socket pairs, microphone callbacks |
| blacksiren engine (`SIREN/src/siren_base.cpp`) | requested state, state taken, package queue, processor | requests of the proxy, frames; main, response and process threads, in a forked process | proxy, signal processing |
| VoiceService (`NDK/main/VoiceService.cpp`) | microphone and network state, session id, asr_finished, trigger data, event queue | init, start_siren, network_state_change, onEvent, onResponse, voice_event_callback | events of siren, SpeechImpl, its application |
| vsys-activation (`vsys-activation/src`) | VAD, wake and stream flags, recorder of the voice (`legacy/r2mem_cod.cpp`), word list, event queue | process, control, add/remove word, free; event thread | its application (events), engines |
| pro services, Android apps | service glue | binder calls, players | SDK binaries |

What is hard here: the SDK classes run an application thread, a polling thread
and two or three threads of their own over two mutexes and three condition
variables; results of the server are matched to requests that may have been
cancelled, failed or timed out meanwhile; release() races everything; and the
two queues that poll() reads (operations and streams) are advanced by different
threads but asserted to be in step. Blacksiren runs seven threads in two
processes over sockets that block, with flags read outside the locks that wake
their readers. VoiceService and vsys-activation keep their state in flags that
several threads set between the steps of one another.

What makes each component correct:
- **StreamQueue**: streams come out in the order they were started, each START,
  its data in order, and one END, REMOVED or ERROR; the positional list never
  gives a stream the data of another one.
- **OperationController / TtsImpl**: one request at the server at a time; every
  accepted request gets exactly one terminal result, in order, after all its
  voice; a cancel is final; no assert of poll() fires; nobody sleeps on work;
  release() returns and ends poll().
- **SpeechImpl**: the same, with voice streamed while it is recorded, and no
  deadlock between the request and the response mutex.
- **SpeechConnection**: one socket at a time; a dropped connection is
  reconnected, a mute one dropped; release() ends both threads.
- **blacksiren**: the queue neither duplicates nor reorders, and loses only what
  overflows; the state and the words asked for last come into force; a started
  stream is heard; destroy returns with all threads gone and nothing comes after it.
- **VoiceService**: a session ends, by a result or a failure of its own; a
  microphone the user closed stays closed.
- **vsys-activation**: the application sees whole streams (start, data, then end
  or cancel); a SLEEP stops the data; the engine listens for the words of
  the list unless it refused the last one.

## 2. Modules and the code

| module | models | how |
|---|---|---|
| `StreamFifo` | what `StreamQueue` means to its callers | operators on a sequence of streams: Start, Put, End, Erase, Clear, PopItem, PopRest |
| `StreamFifoSpec` | the promise of a queue | one action per call, on `StreamFifo` |
| `StreamQueue` | `pending_queue.h` line by line: the list of data and tags, the queue of tags, the map | refinement: the list, read from front to back (`streamsOf`), is the FIFO |
| `OpCtl` | `op_ctl.h` | one action per method; `current_op_` is an index into the list |
| `TtsImpl` | `tts_impl.{h,cc}` | one action per critical section, extends `OpCtl` and `StreamFifo` |
| `TtsPromise` | what `poll()` promises its caller | abstract specification on `asked` and `heard`; `KeepsPromise`, in `TtsImpl`, maps `asked` to `next_id` |
| `SpeechConnection` | `speech_connection.{h,cc}` | one action per step between two accesses to `stage_` and `ws_`, which no lock covers |
| `SpeechImpl` | `speech_impl.{h,cc}` | as `TtsImpl`, with the two mutexes explicit |
| `LFQueueSpec` | what the lock-free queue promises its consumer | abstract specification: begin, put, lose, deliver, miss |
| `LFQueue` | `lfqueue.cpp` | one action per atomic instruction and futex call; refines `LFQueueSpec` |
| `SirenChannel` | the three socket pairs (`siren_channel.cpp`) | FIFOs; the answers and the audio block their writer when full |
| `SirenProxy` | `siren_proxy.cpp` | the callers, the request, answer and recording threads; extends `SirenChannel` |
| `SirenBase` | `siren_base.cpp` | the three threads of the engine; extends `SirenChannel` |
| `Siren` | the library | composition of `SirenProxy` and `SirenBase` over `SirenChannel` |
| `VoiceService` | `VoiceService.cpp` | one action per access to a field that threads share, or per call of siren or the SDK; merged are the writes of flags in the branch of a result (`resp_handle`) |
| `VtWordManager` | `vt_word_manager.cpp` | one action per section under `vt_mutex`; a word may have no phones and the engine may refuse the list |
| `EventHub` | `event_hub.cpp` | the thread and the destructor |
| `VoiceActivation` | `voice_activation.cpp`, `legacy/r2mem_cod.cpp` | one action per step of `processfrm` that another thread can see; extends the two before |
| `SpeechImplInv` | the inductive invariants of `SpeechImpl`, in named parts; definitions only, `SpeechImplProofs` shows that each is kept | section 6 |
| `SdkLemmas`, `TtsImplProofs`, `SpeechImplProofs`, `SdkCommonProofs`, `LFQueueProofs`, `SirenProofs`, `VoiceServiceProofs`, `VoiceActivationProofs` | proofs | section 6 |

**How they compose.** `TtsImpl` and `SpeechImpl` use `OpCtl` and `StreamFifo`, and
`StreamFifo` stands for `StreamQueue` because `StreamQueue` refines it
(`stream_queue`, `QueueImplements`). `Siren` composes the two processes; its two queues are bounded
sequences that drop what overflows, which is what `LFQueueSpec` allows and `LFQueue`
does (`lfqueue`). `VoiceService` takes siren as a source of utterances and
the SDK as a server of requests that ends each of them, which `siren` and
`speech_*` show of them. `VoiceActivation` composes the word list, the
event thread and the frames.

**State.** Variables have the names of the members they stand for
(`operations_` is `operations`, `current_op_` is `current`, ...). A thread is a
control variable: `reqPc` for send_reqs, `respPc` for gen_results, `pollPc` for
the polling thread, `ctlPc` for the owner in release(), `workPc` and `keepPc`
for the threads of the connection, `app`, `sendT`, `recvT`, `recT`, `mainT`, `taskT`,
`procT` in the siren, `ev`, `rd`, `net` in VoiceService, `frm`, `hub`, `wpc` in
vsys-activation. `asleep` (or `inOp`, in op_cond_) is a thread
in a condition variable; only a notification of that variable, or a timeout of
its wait, makes it run. Some variables are history, which no guard of the code
reads: they are marked so where they are declared.

**Actions.** An action is one critical section. In `TtsImpl` req_mutex_ and
resp_mutex_ are always taken in the same order and released together, so that
they need no variables; in `SpeechImpl` they are taken in both orders, and a
section is cut where it waits for the second mutex (`cancelOps`, `sendErase`,
`genFinish`), or where it reads or writes without the mutex that protects
the data (`changeStarts`, `changeContinues`, `changeCancels` stand for
do_ctl_change_op, which uses the operations under req_mutex_ only). The status
written by do_ctl_change_op and the reset of current_op_ next to it are one
action, as are the two halves of an unlocked list operation: a torn list is a
data race, whose outcome is not explored.

In the siren, a notification without the mutex, a flag read outside it, and
memory read after its free are steps or faults of their own (`lateNotify`,
`reuse`). In `VoiceActivation` a frame takes seven steps, cut where
control() can change `need_asr` and `awaked` or an event is queued. There is one SLEEP
at a time, and AWAKE may fall between its two writes.

Two tests made before a lock are merged with what follows them. The voice calls of
`SpeechImpl` test `initialized_` before req_mutex_ and are one action with the section
(`start_voice`, `put_voice`, `end_voice`), so that a voice that passes release() is left
out; put_text() and speak() are cut there. The tests of session_id for VAD_DATA and for
put_voice are one, as put_voice itself does nothing without an id; for VAD_END and
VAD_CANCEL the test, the call, which may read session_id again (`EvIds`), and the
resets are steps of their own.

**Time** is two flags of an operation: its no-operation timeout has passed
(`idle`), its no-response timeout has passed (`silent`). `clock` sets them at any
moment. Lengths of a voice in `VoiceActivation` count frames; a call may give the recorder any
number of them up to `MaxIn`.

**The other side.** In `TtsImpl` and `SpeechImpl` the connection is external: send()
succeeds or fails, and a request may be lost after a send() that succeeded, which is
what `SpeechConnection` shows it may do (`conn_departs.cfg`); recv() hands out
what arrived, in order. The server answers requests it has received, in any
order, at any moment, late answers included. The microphone gives frames while it
is open; the detectors of blacksiren and of vsys-activation report any word or
voice a frame may hold. r2_vbv_setwords may fail (1, `zvbvapi.h:73`); the
engine is then taken to keep the words it had, on which no property depends.

**Bounds**, all constants:

| modules | bounds |
|---|---|
| `TtsImpl`, `SpeechImpl` | `MaxId` requests, `MaxChunks` packets of the voices or of an answer, `MaxItems` results of an answer before the last, `MaxInbox` packets received and not handled, `MaxSessions` calls of prepare() |
| `SpeechConnection` | `MaxSessions` calls of initialize(), `MaxPackets` packets not taken by recv() |
| `LFQueue` | `MaxPush` pushes; `Slots` is the length of the ring |
| `Siren` | `MaxSets` states, `MaxCalls` other calls, `MaxFrames` frames; `ReqSlots`, `PackSlots`, `AnswerRoom`, `AudioRoom` are the sizes of its queues and socket buffers; `SyncSets`: states are set synchronously |
| `VoiceService` | `MaxUtts` utterances, `MaxId` requests of a session, `MaxPrepares` sessions, `MaxCalls` calls of start_siren, `MaxBehind` events not handled when an utterance begins; `Clouds` the VADs, `Cancels` whether utterances are cancelled |
| `VtWordManager`, `VoiceActivation` | `MaxWordCalls` calls that change words, `MaxIn` frames of a voice, `MaxBacklog` events waiting when a frame begins; `TooLong`, `Resume` the recorder's limits, `VadEnables`, `Types` the settings, `Races` the destructor's race |

`Faults` is what may go wrong in a run, named where each module declares it, and
`Releases` when the owner may call release().

## 3. What the runs check

| run | bounds | properties | what it shows |
|---|---|---|---|
| `stream_queue` | 2 ids, 2 payloads, 4 items in the list | ContainersAgree, ImplementsFifo | the list with tags is the FIFO of `StreamFifo` for every order of calls, erasure of the older or the younger stream included |
| `tts_cancel` | 2 requests, 1 packet, sends that fail, requests that are lost | TypeOK, PollAsserts, OneInFlight, SleepersIdle, NoRequestLost, NoVoiceLost, CancelHonoured, KeepsPromise | the operations and the streams stay in step whatever is cancelled when, and poll() returns what `TtsPromise` allows |
| `tts_live` | 2 requests, release() at any point, links that break | EveryRequestEnds | every accepted request ends, cancelled or not, if only because the session does |
| `conn` | 1 packet, 2 sessions, refusals, garbage, failed connects, drops, mute peers; release() of a ready connection | OneLink, NobodySleepsOnWork, LinkComesBack, MuteLinkDropped, ReleaseEnds | a new socket is dialled only when the last one is gone, although four handlers reset the stage; no lost wakeup; reconnection, keepalive and release() |
| `speech_text` | 1 text, 1 intermediate result, cancel(0) and cancel(id), release(), failures of the server, losses, packets that cannot be read | NoRequestLost, ResultsComplete, CancelHonoured | a request is never forgotten, END comes after all parts of the answer, a cancel is final |
| `speech_voice` | 2 voices, a packet of either, cancel of the first, sends that fail | OwnOperation, PollAsserts, SleepersIdle, OneTerminal, UplinkOrder | voices sent while they are recorded |
| `speech_embrace` | 1 text, cancel(1) | NoEmbrace, violated | finding 1 |
| `lfqueue` | 2 producers, 2 slots, 5 pushes | CountersExact, KeepsPromise, PutIsTaken | producers that overrun the ring and undo their reservation, a consumer that goes to sleep meanwhile |
| `siren` | 1 word, 1 state, 2 other calls, 1 frame, 3 answers in the socket, an engine that may fail to come up | RequestsTakeEffect, QuietOnceDestroyed, DestroyEnds, StreamFlows | start-up, requests, streaming and destruction of both processes in every order of seven threads |
| `voice_service` | 2 utterances, 2 requests, one session, both VADs, cancels, requests that fail or are rejected | ClosedStaysClosed, SessionEndsByItsOwn, SessionEnds | sessions against utterances, the network coming and going, the user closing the microphone |
| `activation` | 1 word, 2 callers, 2 changes of words, lists that are refused, voices of up to 3 frames, both settings of the VAD, the destructor's race | StreamsPaired, CodAsserts, StreamsAreWhole, SleepStopsData, WordsInForce, StreamsEnd | streams started, paused, cancelled, resumed and ended while states change and two callers change the words |
| `vt_remove` | 2 words | RemoveReturns, violated | finding 2 |

**Why the bounds are enough.** Two requests are enough for what one request can do to
another in the SDK: only the first operation of the list and the current one are ever
treated specially, so that the second request plays both "the next one" and "a later
one"; the proofs of section 6 cover any number for the safety of `TtsImpl` and `SpeechImpl`. One
packet per answer suffices for the order of START, data and END across requests, and
two (`tts_release.cfg`) for the order within one. One caller is enough for speak() and
put_text(): they share nothing but the counter, and the bindings serialize them.
The ring of two slots is overrun by three of its five pushes, and both producers
can be in the middle of one. In the siren the sockets are small, so that writers
block; the queues are not, as an overflow loses requests (section 4). Two
utterances let each be late for the other; with `TooLong` 2 and `Resume` 0 a
voice of three frames is cancelled for its length, and one of two resumed.
Deadlock is not checked where the system may stop: a client that has made its `MaxId`
requests and polled all results leaves every thread asleep, and so does a
library that is destroyed or an application that makes no more calls.

Every property of a passing run has a mutant: a definition of the model changed
the way a plausible bug would change the code (`... Mutant: ...` in the modules),
with which TLC finds the property violated.

**Fairness.** Every thread of the code is weakly fair: the scheduler runs a thread that
can run, and no thread waits for a mutex that is taken again and again. Beyond that:
- `TtsImpl`: a caller inside speak() goes on, the clock advances, a server that has
  begun an answer goes on with it. Nothing obliges the application to speak, cancel or
  release.
- `SpeechConnection`: the socket callbacks and timeouts happen; strong fairness of a
  successful dial, connection and authorization: a server asked again and again lets
  the client in at last.
- `LFQueue`: a push that has begun goes on and the consumer pops in a loop, as
  requestThreadHandler and processThreadHandler do.
- `Siren`: the application initialises the library and goes on with a call it
  has begun; it need not make another.
- `VoiceService`: siren ends the utterance it is in, the SDK ends what it
  began (EveryRequestEnds), and a network change that has begun goes on.
- `VoiceActivation`: frames keep coming until the instance is freed, and in `vt_remove` and
  `activation_departs` (`FairCallsSpec`) calls that began go on; strong fairness of a frame that adds to the voice: a voice that goes on has data.

### Further configurations

These pass and are not among the runs of `PROJECT.json`; each repeats the properties
of a run on an instance of its own, with the module's type invariant.

| configuration, module | what it adds |
|---|---|
| `stream_three`, StreamQueue | three ids, and ErasedTagAtFront |
| `tts_release`, TtsImpl | 1 request, 2 packets, release() at any point, every fault |
| `conn_safe`, SpeechConnection | 2 packets, release() at any point, every fault |
| `speech_texts`, SpeechImpl | 2 texts, every cancel |
| `speech_result`, SpeechImpl | 1 voice with a packet and an intermediate result, cancel(0), release(), unknown packets, links that break |
| `speech_live`, SpeechImpl | EveryRequestEnds, for texts without cancels over a link that breaks again and again; its fairness is strong, since a thread that waits for a mutex is not continuously enabled |
| `lfqueue_three`, LFQueue | three producers |
| `siren_more`, Siren | 2 states, 3 other calls, every fault of start-up |
| `voice_again`, VoiceService | two sessions, and NoPutAfterCancel |
| `voice_cancel`, VoiceService | three utterances without the cloud's VAD, and CancelsItsOwn: cancel(-1), when session_id goes between the test and the call, finds no other request |
| `vt_words`, VoiceActivation | two callers and three changes of words |

## 4. Findings

1. `speech_embrace`. cancel() holds req_mutex_ and waits for resp_mutex_;
   gen_results, in erase_req(), holds resp_mutex_ and waits for req_mutex_
   (`SDK/src/speech/speech_impl.cc:222,672`). Both, and poll(), wait for ever, although
   `speech.h:114` says poll() blocks "if no result available" and one is.
2. `vt_remove`. The loop of remove_vt_word() never advances its iterator
   (`vsys-activation/src/vt_word_manager.cpp:44-51`): the removal of any word but
   the first never returns and keeps `vt_mutex`, while `vsys_activation.h:96` says it
   returns 0 or -1.

### Departures with a configuration of their own

Each of these configurations gives TLC one property the model of the code
violates, and reproduces in seconds or minutes with `tlc -config <cfg> <module>`. A
comment in the configuration names the properties it holds and the settings each
needs; one is active, the others are exchanged for it.

| configuration, module | violated | what happens |
|---|---|---|
| `tts_departs`, TtsImpl | PollReturnsOnRelease | release() joins the sending thread, which sleeps in wait_op_finish while a request is at the server; the finish_op() that would wake it comes after the join (`tts_impl.cc:87,93`), so that poll() does not return -1 as `tts.h:77` says |
| | EveryRequestEnds | op_timeout() = 0 means expired, recv(0) means wait without limit (`op_ctl.h:101-124`, `speech_connection.h:94`): a lost request whose time is over when recv() is called never ends |
| | PollAsserts | the operations of the last session survive release() and prepare() restarts the ids (`tts_impl.cc:69,221`) |
| | OneInFlight | wait_op_finish waits once (`op_ctl.h:62`): a spurious wakeup starts the next request early |
| `conn_departs`, SpeechConnection | ReleaseEnds | the work thread overwrites RELEASED with CONNECTING (`speech_connection.cc:127-133`) and goes on |
| | OneLink | release() while a socket is being made leaves it to the next session, which dials another (61-68; "TODO: ensure stage >= CONNECTING", 64) |
| | ReadyMeansConnected | onDisconnection resets ws_ before stage_ (282-284): send() drops the message and returns SUCCESS |
| | KeepaliveHasSocket | the keepalive thread uses ws_ after the work thread has reset it (168-179) |
| | MutePeerDropped | a server silent before the authorization is never given up (168) |
| | DropIsReported | the stage is reset before push_error_resp tests it (284-285, 444): recv() is not told |
| `speech_departs`, SpeechImpl | StartsAlone | a text sent while a voice is open, with nothing of the voice to send at the moment, finds the operation of the voice current and fails "assert(op.get() == NULL)" (`speech_impl.cc:416`) |
| | PollWoken | do_ctl_change_op notifies without resp_mutex_ (436): poll() misses a CANCELLED |
| | CancelledUnsent | cancel(0) of an open voice cancels it twice, and the server is not told (433) |
| | PollReturnsOnRelease | as for TtsImpl (`speech_impl.cc:129`) |
| `lfqueue` with OverflowReported for its properties, LFQueue | OverflowReported | a push on a full queue drops the item and returns 0 (`lfqueue.cpp:158`) |
| `siren_calls`, Siren | StartedMicOpen | the recorder closes the microphone for a stop after the next start opened it (`siren_proxy.cpp:168`): a started stream gives no voice until the next call |
| | DeletedAfterUse | destroy does not wait for the detached recording thread, and deletes what it uses |
| | SyncStateInForce | a synchronous set_siren_state returns for the report of an earlier state |
| `siren_ends`, Siren | InitEnds | the engine's notification of the end of its start-up is given without the mutex, or not at all when the processor fails (`siren_base.cpp:288`): init() never returns |
| | FailedInitDestroyed | a preprocessor that fails leaves an engine that destroy_siren cannot end |
| | DestroyEnds | the request thread reads a message it has freed (`siren_proxy.cpp:374`) and misses its DESTROY; a full package queue drops it; with room for one answer the engine blocks writing its last one |
| `voice_departs`, VoiceService | SessionIsLive | session_id is stored after the session has ended (`VoiceService.cpp:223`) |
| | TriggerOfItsUtterance | the data of a wake word outlives its utterance and is sent with the next (126) |
| | EndsAreShown | a request that was rejected keeps the failure of a later one from the application (288) |
| | OneReader | the reader of an earlier connection takes results of the new one (314) |
| | StartedStreams | the state says STARTED although the stream failed to start (47) |
| | FinishedAsrNotCancelled, CancelPassedOn | asr_finished is set after the set_siren_state whose cancel it is to explain (293, 243): a finished request is cancelled, and a cancel of the next is not passed on |
| `activation_departs`, VoiceActivation | WordsAreUnique | two callers add the same word between its test and its insertion (`vt_word_manager.cpp:31`) |
| | BuiltinIsKept | the first word added replaces the built-in one in the engine |
| | ListIsInForce | the engine refuses a list (`vt_word_manager.cpp:270-273`): the call returns -1 and the list stays changed (47, 282) |
| | RetryReachesEngine | the word of a refused call is in the list: adding it again returns -1 without asking the engine (31), though `vsys_activation.h:86` has one -1 for every failure |
| | WordIsKnown | a word the engine found is looked up after it was removed |
| | WakeIsWhole | control() and a wake word write `need_asr` and `awaked` without a lock (`voice_activation.cpp:244`): a wake word can end up half undone |
| | CancelsOpenStream | reset_asr clears `canceled` before it tests it (321): a stream that is cancelled already is cancelled again |
| | FreeReturns | the destructor notifies without the mutex (`event_hub.cpp:22`): its notification can be lost and the join never returns |

## 5. Not modelled

- config(), options and the strings inside requests and results: payload. JNI and Java
  bindings, the pro services, Android apps, codecs, signal processing and vendored
  libraries: glue, or numeric code without state to speak of. The pro build's
  service is a variant of the VoiceService that is modelled.
- SDK: set_arg/get_arg and size of StreamQueue; PendingQueue and PendingStreamQueue, which
  nothing instantiates; the traces of the SPEECH_STATISTIC build; two callers of
  put_text() that get the same id because next_id_ is incremented outside the lock;
  `SpeechImpl` has one session and no spurious wakeups (`tts_departs` shows what they do to
  the common wait_op_finish).
- blacksiren: steering requests, get_vt_word, the monitor and UDP agent, recordings to files,
  the parameters of a wake word, the death of the engine's process.
- VoiceService: the word calls, which pass through to siren, its configuration and
  the microphone functions of siren_control.cpp, which are the external microphone of `Siren`.
- vsys-activation: the cutting of the input into frames and the bytes carried from one
  call to the next (`voice_activation.cpp:311,563`), beam forming, conversions of samples
  and phonemes, get_vt_words, the events that only inform.
- Undefined behaviour of unlocked containers (see section 2).

## 6. What is proved

TLAPS checks eight modules. None of the facts depends on the bounds or on what may go wrong
except where it says so.

| theorem, module | states | for |
|---|---|---|
| `TypeCorrect`, TtsImplProofs | Spec => []TypeOK | any callers, bounds, sessions and faults (`TtsAssumption`) |
| `Invariance` | []IInv, the inductive invariant | one session without spurious wakeups |
| `OneAtATime`, `PollNeverAsserts`, `RequestsAreKept`, `NoThreadOversleeps`, `NoVoiceIsLost` | []OneInFlight, []PollAsserts, []NoRequestLost, []SleepersIdle, []NoVoiceLost | the same |
| `CancelsAreHonoured` | CancelHonoured, an action property | the same |
| `PromiseIsKept` | KeepsPromise: `TtsImpl` implements `TtsPromise` | the same |
| `TypeCorrect`, SpeechImplProofs | []TypeOK | any callers, bounds, faults, any mix of texts and voices (`SpeechAssumption`) |
| `Invariance` | []IInv, the inductive invariant | `Orderly`: voices only, or texts of one caller |
| `OneAtATime`, `NoneIsMixed`, `PollNeverAsserts`, `RequestsAreKept`, `EndsOnce` | []OneInFlight, [](StartsAlone /\ OwnOperation), []PollAsserts, []NoRequestLost, []OneTerminal | the same |
| `CancelsAreHonoured` | CancelHonoured, an action property | texts of one caller |
| `NoThreadOversleeps` | []SleepersIdle | `Orderly`, packets of valid types |
| `UplinkInOrder` | []UplinkOrder | `Orderly`, as long as no message is lost on its way to the server |
| `ResultsAreComplete` | []ResultsComplete | `Orderly`, any faults |
| `QueueTypes`, `QueueFront`, SdkCommonProofs | []QueueTypeOK, []ErasedTagAtFront | any ids, payloads, errors and length of the list (`QueueAssumption`) |
| `QueueContainers` | []ContainersAgree | the same |
| `QueueImplements` | ImplementsFifo: `StreamQueue` implements `StreamFifoSpec` | the same |
| `OneSocketAtATime`, SdkCommonProofs | []OneLink | `Tidy`: one session, or sessions released only when ready and quiet; any faults |
| `NoLostWakeup` | []NobodySleepsOnWork | any sessions, releases, packets and faults |
| `CountersNeverDrift`, LFQueueProofs | []CountersExact | any producers, slots and pushes |
| `PromiseIsKept`, LFQueueProofs | KeepsPromise: LFQueue implements `LFQueueSpec` | any producers, slots and pushes |
| `TypeCorrect`, SirenProofs | []TypeOK | any calls, capacities and faults (`BoundsAssumption`, `CallsAssumption`) |
| `NothingOutlivesDestroy` | []QuietOnceDestroyed | the same |
| `RequestsArrive` | Spec /\ []Room => []RequestsTakeEffect | the same, as long as neither queue of the engine is full |
| `MicrophoneStaysClosed`, VoiceServiceProofs | []ClosedStaysClosed | any bounds and faults |
| `SessionsEndByTheirOwn` | SessionEndsByItsOwn, an action property | the same |
| `WordsStayInForce`, VoiceActivationProofs | []WordsInForce: the engine has the list unless it refused the last one | any callers, words, calls and refusals |
| `CodNeverAsserts`, `KeepsStreamsWhole` | []CodAsserts, []StreamsAreWhole | any lengths with `TooLong < MaxIn` (`MaxInAssumption`) |
| `PairsStreams`, `StopsData` | []StreamsPaired, []SleepStopsData | the same, any settings (`EnablesAssumption`) |

The assumptions are necessary: `tts_departs.cfg`, `conn_departs.cfg` and
`speech_departs.cfg` show what a second session, a spurious wakeup or a text
beside an open voice does without them.

**The lemmas of the SDK.** `SdkLemmas` says once what each operator of `StreamFifo` and of
`OpCtl` keeps, of any ids, payloads and errors: which streams there are before and after,
which data and which state of them change, which operation is current and with which status.
`TtsImplProofs` and `SpeechImplProofs` use it.

**StreamQueue.** ContainersAgree counts the tags, which says too little to be inductive: end()
writes where the tag of an id is, and that no other item is touched needs to know where
the others are. The invariant `QInv` says there is a layout g, the place of
each tag in the list, increasing, the last at the end (`Laid`); the data of stream k
are the items between g[k - 1] and g[k] (`StreamAt`, `Read`). And an erased stream has
no data (`Vacant`), or pop() would unlink a data item for REMOVED and ERROR. TLC finds it true on the
instances of `stream_queue` and `stream_three`. Each method has a lemma
about the list (`Inserted`, `CutOut`, `Appended`, `Cleared`, ...) that gives the new layout and
the streams read from it, and a step (`StreamStep`, `EraseStep`, ..., one for each return of
pop()) that says QInv is kept and that the streams change, and the answer is, as the action of
`StreamFifoSpec` says. `Agreement` counts the tags of a layout. Nothing is assumed of the
callers: ids may be used again, and erased, ended or streamed to when they are not there.

**TtsImpl.** PollAsserts is not inductive. That the front stream is that of the front
operation after a pop needs that the streams are, in order, those of the
operations (`StreamInv`), that operations are numbered in order (`OrderInv`) and
that a new operation has a number of its own (`FreshInv`). That a new stream is appended
last needs that only the last operation is unfinished, hence OneInFlight, which
is preserved because the sending thread is where it starts a request only when
none is current (`SenderInv`). The proof of a step
(`PrepareInv`, `SpeakInv`, `CancelInv`, `ReleaseInv`, `PollInv`, `SendInv`, `AnswerInv`, `RecvInv`)
combines the lemmas, one per group of actions.

NoRequestLost follows from a ledger (`LedgerInv`): the requests that have ended are those
that wait nowhere, and only the front operation was heard of without being over.
CancelHonoured needs that a request that cancel() has returned for is marked in the queue or a
cancelled operation until it has ended (`DropInv`), SleepersIdle one condition for each
condition variable (`SleepInv`). NoVoiceLost needs the network: packets arrive in
the order they were sent and each belongs to a request that was sent once (`PacketInv`,
`SentInv`, in `NetInv`); then what was returned of a request and what its stream holds are the
first packets sent (`Fits`), and the others are on their way (`Awaits`); `DataInv` says so of
every stream. The refinement uses all of it (`FullInv`): a step of speak() adds the next
request, a step of poll() delivers the result the promise allows next, since
the front stream is that of the first request that has not ended and its data continue what was
returned; every other step leaves `asked` and `heard` alone.

**SpeechImpl.** Texts and voices are in two queues, and a voice is sent in many requests, the
first of which makes its operation, to which the others are handed without a look at the id.
With both kinds in use a text can come between them, and then neither StartsAlone nor
OwnOperation holds (`speech_departs`); with texts from two threads the ids need not be in order, as
put_text() reads next_id_ without the lock. `Orderly` excludes both; the instances of
all passing runs satisfy it. The invariant then is one of order. What the
sending thread has begun with is `Passed`: it comes before all that is queued, but for the
rest of a voice that is being sent; an operation is moreover not younger than the
request in hand (`Behind`). The queues are in the order of their ids (`QueueInv`), so are the
operations, of which two have the same id only when the first is cancelled
(`OpOrder`), and the streams, each with its operation (`ResponseOrder`, `StreamInv`). The current
operation is the last, and that of the request in hand, or of the voice at the front
(`SenderInv`): hence OneInFlight, OwnOperation and PollAsserts.

NoRequestLost needs that the rest of a voice, which do_ctl_change_op drops when there is no
operation, is dropped only for voices that were started before (`StartInv`), for which a
voice that erase_req() fails must have been started (`FailedInv`). OneTerminal needs that only what
the application cancels is cancelled (`BlameInv`), that results are of requests that have passed
(`HeardInv`) and that a request that has ended is no operation any more (`EndInv`). CancelHonoured
needs that a text for which cancel() has returned is cancelled wherever it is and is not to come any
more (`GoneInv`); for voices it is model-checked nowhere and false, since a cancelled voice
goes on answering until its REMOVED is taken. SleepersIdle needs that poll() sleeps on nothing or
on a CANCELLED (`PollSleeps`), which it reads and sleeps on under one lock (`MutexInv`), and
that packets have valid types (`NetInv`), since gen_result_by_resp() adds to the streams
and returns before its notify for the others.

UplinkOrder needs an account of each voice: the packets the server has, the one in the hands of
the sending thread and those in the queue are 1, 2, ... up to the number put (`RestInv`, kept by
what a step does to the queue, `TurnStep`), and what the server has last is of the
current operation (`CurSent`) and of nothing that is still to begin (`WirePassed`, `HandEnds`);
`Ready` says that the next message follows the last one. A message that connection_.send()
reports as sent and that never arrives would leave a gap, which the assumption excludes.
ResultsComplete needs another account, of each answer: what the client has made of it so far,
with the packet in its hands and those in the list added one by one, is all that the server has
answered, and nothing comes behind a last packet (`Tally`); what poll() has returned and what
the stream holds is START and that first part (`Shown`). An operation keeps both up from START to
END (`CountInv`), a request that was not sent has no answer to count (`QuietInv`), and
what has ended with END is whole for good, since the server has done with it (`WholeInv`).
Lost messages, failures and cancels do not matter here: they end a request otherwise.

**SpeechConnection.** OneLink needs that the work thread leaves the hub only when
no socket is left, and that a socket it has just asked for is told by the stage, although
three threads write it: onDisconnection runs only for a socket that is closing, onError only
for none and in the work thread (`HandInv`), so that nobody can set the stage to INIT
between the dial and the hub (`DialInv`). `ReadyInv` says that a session released when
ready leaves nothing to the next.

**LFQueue.** The invariant counts tickets: a ticket is given to one push
(`Tickets`), so that an increment adds exactly one to the pushes counted of a slot
(`Incremented`) and a decrement one to its pops (`Decremented`); the other steps count
nothing (`PusherMoves`, `PopperMoves`, `PushBegins`). The refinement rests on the counters
being exact. An item is in one place (`Owned`). A push drops its item only when its slot has
two pushes more than pops, and two tickets of a slot are Slots apart, so that more than Slots
pushes await their pop (`Crowded`). Until then nothing is dropped, and the item in the slot of
the consumer is the next one, because a later item of that slot would be Slots ahead
(`TakesNext`). Every unit by which a counter stands above one is a dropped push that no failed
pop has made up for yet (`Balance`), which bounds the failed pops by the dropped pushes.

**Siren.** Nothing outlives destroy_siren because of who has waited for whom: the caller for its
two threads and the engine, the engine's main thread for its two (`JoinInv`); because DESTROY is
the last request, so that nothing is on its way once it was read (`DestroyInv`), and because its
answer is written once, while somebody reads (`FarewellInv`). A start that fails is answered once
too (`AnswerInv`) and asks nothing of the engine (`FailInv`). RequestsTakeEffect is proved for the state
from the order of the requests in transit, none of which is missing (`StateInv`), and for the words
from where the youngest list is (`WordsInv`). Both lose a request when `LFQueue::push` finds
its queue full, which `Room` excludes.

**VoiceService.** A reader's last result is of a request that is finished, unless the
reader is of an earlier connection (`LastIsFinished`), and a voice is started only
while there is no session (`NoSessionAtStart`).

**VoiceActivation.** After an accepted call, a change that the engine has not been told of belongs to
a caller that has not returned (`ChangeUnderWay`); after a refusal nothing is claimed until the next
accepted call, which passes on the whole list, earlier refused changes included; a paused recorder belongs to a stream that is cancelled
(`PausedIsCanceled`), which each of the seven steps of a frame keeps. For the streams the events are
words of an automaton with the states open and closed: those that wait in the event
thread lead from what the application has seen to what the frames have made
(`Flows`, `Paired`), whatever control() does in between. What was sent of a voice is what the
recorder has given out (`Whole`), which it never does beyond what it has coded (`Lengths`); a
voice lasts until the VAD ends it (`Voiced`); and after a SLEEP only a wake word asks for data
(`Slept`).

Every invariant, action property and refinement of the passing runs is a theorem. Model-checked
only: what must eventually happen (EveryRequestEnds, LinkComesBack, MuteLinkDropped,
ReleaseEnds, PutIsTaken, DestroyEnds, StreamFlows, SessionEnds, StreamsEnd), since
liveness under fairness is out of the prover's reach. NoEmbrace and RemoveReturns are
false (section 4).

## 7. Plan

Done: `StreamFifo`, `StreamFifoSpec`, `StreamQueue`; `OpCtl`, `TtsImpl`, `TtsPromise`;
`SpeechConnection`; `SpeechImpl`; `LFQueueSpec`, `LFQueue`; `SirenChannel`,
`SirenProxy`, `SirenBase`, `Siren`; `VoiceService`; `VtWordManager`, `EventHub`,
`VoiceActivation`; the proofs of section 6.

To come: send and recv of TtsImpl composed with `SpeechConnection`; the death of the
engine's process; the carried bytes of vsys-activation's input.
