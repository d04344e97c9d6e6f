------------------------ MODULE VoiceActivationProofs ------------------------
(***************************************************************************)
(* Five facts about vsys-activation that hold for any number of callers,   *)
(* words, calls and frames.  Two are about what it keeps: the engine has   *)
(* the words of the list unless it refused the last call                   *)
(* (vt_word_manager.cpp), and r2mem_cod is never asked for data while it   *)
(* is paused (legacy/r2mem_cod.cpp).  Three are about the stream it sends  *)
(* (voice_activation.cpp, processfrm and control): with the local VAD it   *)
(* arrives well formed, it carries the whole voice, and a SLEEP stops it.  *)
(***************************************************************************)
EXTENDS VoiceActivation, SequenceTheorems, TLAPS

(* What the first two need to know of the types. *)
Shape ==
  /\ wpc \in [Callers -> [at : WordSteps, word : Words \cup {Builtin}]]
  /\ cod \in [in : Int, cur : Int, pausedAt : Int]

(* After an accepted call, a change of the list that the engine has not    *)
(* been told of is still on its way: the caller that made it has not       *)
(* returned.  A refusal ends that, since the caller returns.               *)
ChangeUnderWay ==
  accepted => engineWords = ToSet(word_infos) \/ \E c \in Callers : wpc[c].at = "sync"

(* A paused recorder belongs to a stream that was cancelled. *)
PausedIsCanceled == paused(cod) => canceled

Inv == Shape /\ ChangeUnderWay /\ PausedIsCanceled

---------------------------------------------------------------------------
(* The initial state: no call, no pause (voice_activation.cpp:28-32). *)
LEMMA InitInv == Init => Inv
<1> SUFFICES ASSUME Init PROVE Inv
  OBVIOUS
<1>1. Shape
  BY DEF Init, WordsInit, Idle, WordSteps, Shape
<1>2. ChangeUnderWay
  BY DEF Init, WordsInit, ChangeUnderWay
<1>3. PausedIsCanceled
  BY DEF Init, PausedIsCanceled, paused
<1> QED
  BY <1>1, <1>2, <1>3 DEF Inv

(* The callers of add_vt_word and remove_vt_word keep the list and the     *)
(* engine in step (vt_word_manager.cpp:26-58).                             *)
LEMMA WordsStep ==
  ASSUME Shape, ChangeUnderWay, NEW c \in Callers, words(c)
  PROVE  /\ wpc' \in [Callers -> [at : WordSteps, word : Words \cup {Builtin}]]
         /\ ChangeUnderWay'
<1> USE DEF Shape, WordSteps, At
<1>1. CASE \E w \in Words : add_vt_word(c, w)
  <2> PICK w \in Words : add_vt_word(c, w)
    BY <1>1
  <2>1. wpc' \in [Callers -> [at : WordSteps, word : Words \cup {Builtin}]]
    BY DEF add_vt_word
  <2>2. \A d \in Callers : wpc[d].at = "sync" => wpc'[d].at = "sync"
    BY DEF add_vt_word
  <2> QED
    BY <2>1, <2>2 DEF add_vt_word, ChangeUnderWay
<1>2. CASE save_vt_word(c)
  <2>1. wpc' \in [Callers -> [at : WordSteps, word : Words \cup {Builtin}]]
    BY <1>2 DEF save_vt_word, Idle
  <2>2. \/ wpc'[c].at = "sync"
        \/ word_infos' = word_infos /\ \A d \in Callers : wpc[d].at = "sync" => wpc'[d].at = "sync"
    BY <1>2 DEF save_vt_word, Idle
  <2>3. UNCHANGED <<engineWords, accepted>>
    BY <1>2 DEF save_vt_word
  <2> QED
    BY <2>1, <2>2, <2>3 DEF ChangeUnderWay
<1>3. CASE \E w \in Words : remove_vt_word(c, w)
  <2> PICK w \in Words : remove_vt_word(c, w)
    BY <1>3
  <2>1. wpc' \in [Callers -> [at : WordSteps, word : Words \cup {Builtin}]]
    BY DEF remove_vt_word, Erased
  <2>2. \/ wpc'[c].at = "sync"
        \/ word_infos' = word_infos /\ \A d \in Callers : wpc[d].at = "sync" => wpc'[d].at = "sync"
    BY DEF remove_vt_word, Erased
  <2> QED
    BY <2>1, <2>2 DEF remove_vt_word, ChangeUnderWay
<1>4. CASE sync_vt_word(c)
  <2>1. wpc' \in [Callers -> [at : WordSteps, word : Words \cup {Builtin}]]
    BY <1>4 DEF sync_vt_word, Idle
  <2>2. accepted' => engineWords' = ToSet(word_infos) /\ word_infos' = word_infos
    BY <1>4 DEF sync_vt_word
  <2> QED
    BY <2>1, <2>2 DEF ChangeUnderWay
<1> QED
  BY <1>1, <1>2, <1>3, <1>4 DEF words

(* The operations of the recorder (legacy/r2mem_cod.cpp:69-115) keep its   *)
(* type, and say what becomes of a pause.                                  *)
LEMMA CodOps ==
  ASSUME NEW c \in [in : Int, cur : Int, pausedAt : Int], NEW n \in Int
  PROVE  /\ cod_reset(c) \in [in : Int, cur : Int, pausedAt : Int] /\ ~paused(cod_reset(c))
         /\ cod_pause(c) \in [in : Int, cur : Int, pausedAt : Int]
         /\ cod_process(c, n) \in [in : Int, cur : Int, pausedAt : Int]
         /\ paused(cod_process(c, n)) = paused(c)
<1>1. c.in \in Int /\ c.cur \in Int /\ c.pausedAt \in Int
  OBVIOUS
<1>2. cod_reset(c) = [in |-> 0, cur |-> 0, pausedAt |-> -1]
  BY DEF cod_reset
<1>3. cod_pause(c) = [in |-> c.in, cur |-> 0, pausedAt |-> c.in]
  BY DEF cod_pause
<1>4. PICK m \in Int : cod_process(c, n) = [in |-> m, cur |-> c.cur, pausedAt |-> c.pausedAt]
  <2>1. (IF c.in + n < MaxIn THEN c.in + n ELSE MaxIn) \in Int
    BY <1>1, MaxInAssumption
  <2>2. \A m \in Int : [c EXCEPT !.in = m] = [in |-> m, cur |-> c.cur, pausedAt |-> c.pausedAt]
    OBVIOUS
  <2> QED
    BY <2>1, <2>2 DEF cod_process
<1>5. ~paused(cod_reset(c))
  BY <1>2 DEF paused
<1>6. paused(cod_process(c, n)) = paused(c)
  BY <1>4 DEF paused
<1> QED
  BY <1>1, <1>2, <1>3, <1>4, <1>5, <1>6

(* Each step of processfrm keeps the recorder paused only while the stream *)
(* is cancelled (voice_activation.cpp:331-465).                            *)
LEMMA FrameStep ==
  ASSUME Shape, PausedIsCanceled, processfrm
  PROVE  cod' \in [in : Int, cur : Int, pausedAt : Int] /\ PausedIsCanceled'
<1> USE DEF Shape, PausedIsCanceled
<1>1. CASE frm_detect
  <2>1. \/ cod' = cod /\ canceled' = canceled
        \/ cod' = cod_reset(cod)
    BY <1>1 DEF frm_detect, flags
  <2>2. cod_reset(cod) \in [in : Int, cur : Int, pausedAt : Int] /\ ~paused(cod_reset(cod))
    BY CodOps
  <2> QED
    BY <2>1, <2>2
<1>2. CASE frm_info
  BY <1>2 DEF frm_info, flags
<1>3. CASE frm_vad
  BY <1>3, CodOps DEF frm_vad
<1>4. CASE frm_woken
  BY <1>4 DEF frm_woken
<1>5. CASE frm_out
  <2>1. CASE ~vad_flag
    BY <1>5, <2>1 DEF frm_out
  <2>2. CASE vad_flag
    <3>1. PICK n \in 0 .. MaxIn, silent \in BOOLEAN :
            /\ canceled' = (canceled \/ silent)
            /\ cod' = IF silent THEN cod_pause(cod_process(cod, n)) ELSE cod_process(cod, n)
      BY <1>5, <2>2 DEF frm_out
    <3>2. cod_process(cod, n) \in [in : Int, cur : Int, pausedAt : Int]
          /\ paused(cod_process(cod, n)) = paused(cod)
      <4>1. n \in Int
        OBVIOUS
      <4> QED
        BY <4>1, CodOps
    <3>3. cod_pause(cod_process(cod, n)) \in [in : Int, cur : Int, pausedAt : Int]
      BY <3>2, CodOps
    <3>4. CASE silent
      BY <3>1, <3>3, <3>4
    <3>5. CASE ~silent
      BY <3>1, <3>2, <3>5
    <3> QED
      BY <3>4, <3>5
  <2> QED
    BY <2>1, <2>2
<1>6. CASE frm_cancel
  BY <1>6, CodOps DEF frm_cancel
<1>7. CASE frm_rest
  <2>1. PICK resumes \in BOOLEAN, has \in BOOLEAN :
          /\ canceled' = (canceled /\ ~resumes)
          /\ cod' = [in |-> cod.in, cur |-> IF has THEN cod_coded(cod) ELSE cod.cur,
                     pausedAt |-> IF resumes THEN -1 ELSE cod.pausedAt]
    BY <1>7 DEF frm_rest
  <2>2. cod_coded(cod) \in Int
    BY DEF cod_coded
  <2>3. cod' \in [in : Int, cur : Int, pausedAt : Int]
    BY <2>1, <2>2
  <2>4. CASE resumes
    BY <2>1, <2>3, <2>4 DEF paused
  <2>5. CASE ~resumes
    BY <2>1, <2>3, <2>5 DEF paused
  <2> QED
    BY <2>4, <2>5
<1> QED
  BY <1>1, <1>2, <1>3, <1>4, <1>5, <1>6, <1>7 DEF processfrm

(* Every step keeps the invariant. *)
LEMMA StepInv == Inv /\ [Next]_vars => Inv'
<1> SUFFICES ASSUME Inv, [Next]_vars PROVE Inv'
  OBVIOUS
<1> USE DEF Inv
<1>1. CASE processfrm
  <2>1. wordVars' = wordVars
    BY <1>1 DEF processfrm, frm_detect, frm_info, frm_vad, frm_woken, frm_out, frm_cancel, frm_rest
  <2>2. ChangeUnderWay' /\ wpc' = wpc
    BY <2>1 DEF ChangeUnderWay, wordVars
  <2> QED
    BY <1>1, <2>2, FrameStep DEF Shape
<1>2. CASE \E c \in Callers : change(c)
  <2>1. PICK c \in Callers : words(c) /\ UNCHANGED flags
    BY <1>2 DEF change
  <2>2. cod' = cod /\ canceled' = canceled
    BY <2>1 DEF flags
  <2> QED
    BY <2>1, <2>2, WordsStep DEF Shape, PausedIsCanceled
<1>3. CASE control \/ callback \/ free \/ destroy \/ UNCHANGED vars
  <2>1. UNCHANGED <<wordVars, cod, canceled>>
    BY <1>3 DEF control, control_awake, control_sleep, control_slept, callback, free, destroy,
       flags, vars
  <2> QED
    BY <2>1 DEF Shape, ChangeUnderWay, PausedIsCanceled, wordVars
<1> QED
  BY <1>1, <1>2, <1>3 DEF Next

---------------------------------------------------------------------------
(* Once every call has returned the engine listens for the words of the    *)
(* list unless it refused the last one: no interleaving of the callers     *)
(* loses a change, and an accepted call makes up for the ones refused      *)
(* before it (vt_word_manager.cpp:36, 57, 270).                            *)
THEOREM WordsStayInForce == Spec => []WordsInForce
<1>1. Inv => WordsInForce
  BY DEF Inv, ChangeUnderWay, WordsInForce
<1> QED
  BY <1>1, InitInv, StepInv, PTL DEF Spec

(* No assertion of r2mem_cod fails: data is asked of a recorder that runs, *)
(* and a pause ends by a resumption or a reset (legacy/r2mem_cod.cpp:93,   *)
(* 119).                                                                   *)
THEOREM CodNeverAsserts == Spec => []CodAsserts
<1>1. Inv => CodAsserts
  BY DEF Inv, PausedIsCanceled, CodAsserts
<1> QED
  BY <1>1, InitInv, StepInv, PTL DEF Spec

---------------------------------------------------------------------------
(* What the stream needs to know of the types of a frame's state.          *)
FrameTypes ==
  /\ vad_enable \in BOOLEAN
  /\ frm \in {"idle", "info", "vad", "woken", "out", "cancel", "rest", "off"}
  /\ cur = [type |-> cur.type, kind |-> cur.kind, off |-> cur.off] /\ cur.off \in BOOLEAN
  /\ vad_flag \in BOOLEAN /\ has_vad \in BOOLEAN /\ need_asr \in BOOLEAN /\ awaked \in BOOLEAN
  /\ canceled \in BOOLEAN /\ data_output \in BOOLEAN
  /\ ctl \in {"idle", "sleep"} /\ asleep \in {"no", "asked", "frame", "overtaken"}
  /\ client \in {"closed", "open"} /\ sent \in Nat

(* After a SLEEP nothing asks for data but a wake word under way           *)
(* (need_asr and awaked, voice_activation.cpp:243-246, 380-381), and the   *)
(* frame after it has stopped the stream before it sends (423-426).        *)
Slept ==
  /\ asleep \in {"asked", "frame"} => ~need_asr /\ (awaked => frm = "woken")
  /\ ctl = "sleep" /\ awaked => frm = "woken" \/ asleep = "overtaken"
  /\ asleep = "frame" /\ frm = "rest" => ~data_output \/ canceled
  /\ ~lateData

(* r2mem_cod has given out at most what it has coded, and nothing of what  *)
(* comes after a pause (legacy/r2mem_cod.cpp:69-115).                      *)
Lengths ==
  /\ cod \in [in : 0 .. MaxIn, cur : Nat, pausedAt : Int]
  /\ cod.cur <= cod_coded(cod)
  /\ paused(cod) => cod.cur = 0
(* What was sent of the stream is what r2mem_cod has given out of the      *)
(* voice: nothing before the start, everything at the end, and with the    *)
(* local VAD only while a voice lasts (voice_activation.cpp:397-463).      *)
Whole ==
  /\ frm = "off" => ~vad_flag
  /\ vad_flag /\ ~data_output => cod.cur = 0
  /\ vad_flag /\ data_output /\ ~canceled => sent = cod.cur
  /\ vad_enable /\ data_output => vad_flag
  /\ ~cutShort

(* The stream is open for the producer.                                    *)
Open == data_output /\ ~canceled
(* A voice lasts until the step after the VAD ends it, and one that has    *)
(* not started a stream was not cancelled (voice_activation.cpp:346-395).  *)
Voiced ==
  /\ frm \in {"idle", "info", "vad"} => ~cur.off
  /\ vad_flag => has_vad \/ cur.off
  /\ vad_enable /\ vad_flag /\ ~data_output => ~canceled

(* How the stream is after an event ...                                    *)
Leaves(e) == IF e \in {"VAD_START", "VAD_DATA"} THEN "open" ELSE "closed"
(* ... how it must be before it ...                                        *)
Fits(e, st) ==
  /\ e = "VAD_START" => st = "closed"
  /\ e \in {"VAD_DATA", "VAD_END"} => st = "open"
(* ... and the events of a queue, one after the other.                     *)
Flows(q, from, to) ==
  /\ q \in Seq(StreamEvents)
  /\ \A i \in 1 .. Len(q) : Fits(q[i], IF i = 1 THEN from ELSE Leaves(q[i - 1]))
  /\ to = IF Len(q) = 0 THEN from ELSE Leaves(q[Len(q)])
(* With the local VAD the events that wait (event_hub.cpp) take the stream *)
(* from what the application has seen of it to what the producer has made. *)
Paired ==
  vad_enable => ~misordered /\ Flows(voice_events, client, IF Open THEN "open" ELSE "closed")

(* The inductive invariant of the stream.                                  *)
StreamInv == FrameTypes /\ Slept /\ Lengths /\ Whole /\ Voiced /\ Paired

(* Nothing has been heard or sent (voice_activation.cpp:28-32).            *)
LEMMA InitStream == Init => StreamInv
<1> SUFFICES ASSUME Init PROVE StreamInv
  OBVIOUS
<1>1. /\ vad_enable \in BOOLEAN /\ frm = "idle" /\ cur = NoFrame /\ ctl = "idle"
      /\ ~vad_flag /\ ~has_vad /\ ~need_asr /\ ~awaked /\ ~canceled /\ ~data_output
      /\ cod = [in |-> 0, cur |-> 0, pausedAt |-> -1] /\ asleep = "no" /\ sent = 0
      /\ ~cutShort /\ ~lateData /\ client = "closed" /\ ~misordered /\ voice_events = <<>>
  BY EnablesAssumption DEF Init, HubInit
<1>2. /\ vad_flag \in BOOLEAN /\ has_vad \in BOOLEAN /\ need_asr \in BOOLEAN /\ awaked \in BOOLEAN
      /\ canceled \in BOOLEAN /\ data_output \in BOOLEAN
  BY DEF Init
<1>3. FrameTypes
  BY <1>1, <1>2 DEF FrameTypes, NoFrame
<1>4. Slept /\ Whole /\ Voiced
  BY <1>1 DEF Slept, Whole, Voiced, NoFrame
<1>5. Lengths
  <2>1. cod \in [in : 0 .. MaxIn, cur : Nat, pausedAt : Int]
    BY <1>1, MaxInAssumption
  <2>2. cod.in = 0 /\ cod.cur = 0 /\ cod.pausedAt = -1
    BY <1>1
  <2> QED
    BY <2>1, <2>2 DEF Lengths, cod_coded, paused
<1>6. Paired
  BY <1>1 DEF Paired, Flows, Open
<1> QED
  BY <1>3, <1>4, <1>5, <1>6 DEF StreamInv

(* What r2mem_cod's operations do to its lengths (legacy/r2mem_cod.cpp).   *)
LEMMA Recorder ==
  ASSUME NEW c \in [in : 0 .. MaxIn, cur : Nat, pausedAt : Int], c.cur <= cod_coded(c),
         NEW n \in 0 .. MaxIn
  PROVE  /\ cod_reset(c) = [in |-> 0, cur |-> 0, pausedAt |-> -1]
         /\ cod_pause(c) = [in |-> c.in, cur |-> 0, pausedAt |-> c.in]
         /\ cod_process(c, n) \in [in : 0 .. MaxIn, cur : Nat, pausedAt : Int]
         /\ cod_process(c, n).cur = c.cur /\ c.cur <= cod_coded(cod_process(c, n))
         /\ paused(cod_process(c, n)) = paused(c)
         /\ c.in \in 0 .. MaxIn /\ c.cur \in Nat /\ cod_coded(c) \in Nat
<1>1. c.in \in 0 .. MaxIn /\ c.cur \in Nat /\ c.pausedAt \in Int
  OBVIOUS
<1>2. PICK m \in 0 .. MaxIn :
        /\ cod_process(c, n) = [in |-> m, cur |-> c.cur, pausedAt |-> c.pausedAt]
        /\ c.in <= m
  <2>1. (IF c.in + n < MaxIn THEN c.in + n ELSE MaxIn) \in 0 .. MaxIn
        /\ c.in <= (IF c.in + n < MaxIn THEN c.in + n ELSE MaxIn)
    BY <1>1, MaxInAssumption
  <2>2. \A m : [c EXCEPT !.in = m] = [in |-> m, cur |-> c.cur, pausedAt |-> c.pausedAt]
    OBVIOUS
  <2> QED
    BY <2>1, <2>2 DEF cod_process
<1>3. paused(cod_process(c, n)) = paused(c)
  BY <1>2 DEF paused
<1>4. cod_process(c, n) \in [in : 0 .. MaxIn, cur : Nat, pausedAt : Int]
  BY <1>1, <1>2
<1>5. cod_coded(c) \in Nat /\ cod_coded(c) <= cod_coded(cod_process(c, n))
  BY <1>1, <1>2, MaxInAssumption DEF cod_coded
<1>6. cod_coded(cod_process(c, n)) \in Nat
  BY <1>4, MaxInAssumption DEF cod_coded
<1>7. c.cur <= cod_coded(cod_process(c, n))
  BY <1>1, <1>5, <1>6
<1>8. cod_process(c, n).cur = c.cur
  BY <1>2
<1> QED
  BY <1>1, <1>3, <1>4, <1>5, <1>7, <1>8 DEF cod_reset, cod_pause

(* The last part of a frame (voice_activation.cpp:428-463) by what it      *)
(* decides: the stream resumes, data is sent, the voice ends; what of the  *)
(* stream was sent before and after, and the events of the part.           *)
Resuming ==
  frm = "rest" /\ data_output /\ vad_enable /\ canceled /\ awaked /\ isneedresume(cod)
Carried ==
  /\ frm = "rest" /\ data_output /\ (canceled => Resuming)
  /\ getdatalen(cod) > 0 /\ (cur.type = "none" \/ cur.off)
Ending == cur.off /\ vad_enable /\ data_output /\ (canceled => Resuming)
SentBefore == IF Resuming THEN 0 ELSE sent
SentAfter == IF Carried THEN SentBefore + getdatalen(cod) ELSE SentBefore
RestEvents ==
  (IF Resuming THEN <<"VAD_START">> ELSE <<>>) \o (IF Carried THEN <<"VAD_DATA">> ELSE <<>>)
  \o (IF Ending THEN <<"VAD_END">> ELSE <<>>)

(* frm_rest in these words.                                                *)
LEMMA RestEffect ==
  ASSUME frm_rest, canceled \in BOOLEAN
  PROVE  /\ canceled' = (canceled /\ ~Resuming)
         /\ cod' = [in |-> cod.in, cur |-> IF Carried THEN cod_coded(cod) ELSE cod.cur,
                    pausedAt |-> IF Resuming THEN -1 ELSE cod.pausedAt]
         /\ Send(RestEvents)
         /\ sent' = (IF cur.off THEN 0 ELSE SentAfter)
         /\ cutShort' = (cutShort \/ (Ending /\ SentAfter # cod_coded(cod)))
         /\ lateData' = (lateData \/ (Carried /\ asleep = "frame"))
<1>2. canceled' = (canceled /\ ~Resuming)
  BY DEF frm_rest, Resuming
<1>3. cod' = [in |-> cod.in, cur |-> IF Carried THEN cod_coded(cod) ELSE cod.cur,
              pausedAt |-> IF Resuming THEN -1 ELSE cod.pausedAt]
  BY DEF frm_rest, Resuming, Carried
<1>4. Send(RestEvents)
  BY DEF frm_rest, Resuming, Carried, Ending, Ends, RestEvents
<1>5. sent' = (IF cur.off THEN 0 ELSE SentAfter)
  BY DEF frm_rest, Resuming, Carried, SentAfter, SentBefore
<1>6. cutShort' = (cutShort \/ (Ending /\ SentAfter # cod_coded(cod)))
  BY DEF frm_rest, Resuming, Carried, Ending, Ends, SentAfter, SentBefore
<1>7. lateData' = (lateData \/ (Carried /\ asleep = "frame"))
  BY DEF frm_rest, Resuming, Carried
<1> QED
  BY <1>2, <1>3, <1>4, <1>5, <1>6, <1>7

(* The state the invariant reads.                                          *)
streamVars == <<config, frame, flags, ctl, history, seen, voice_events>>

(* Changes of the words and the hub's end leave the stream alone.          *)
LEMMA StreamUnchanged == StreamInv /\ UNCHANGED streamVars => StreamInv'
<1> SUFFICES ASSUME StreamInv, UNCHANGED streamVars PROVE StreamInv'
  OBVIOUS
<1> USE DEF StreamInv, streamVars, config, frame, flags, history, seen
<1>1. FrameTypes'
  BY DEF FrameTypes
<1>2. Slept'
  BY DEF Slept
<1>3. Lengths'
  BY DEF Lengths
<1>4. Whole'
  BY DEF Whole
<1>5. Voiced'
  BY DEF Voiced
<1>6. Paired'
  BY DEF Paired, Open
<1> QED
  BY <1>1, <1>2, <1>3, <1>4, <1>5, <1>6

(* A wake word in the middle of a SLEEP is marked as overtaken before it   *)
(* sets need_asr; the cancellation of the next frame stops the data.       *)
LEMMA SleptStep == StreamInv /\ (processfrm \/ control) => Slept'
<1> SUFFICES ASSUME StreamInv, processfrm \/ control PROVE Slept'
  OBVIOUS
<1> USE DEF StreamInv, FrameTypes, Slept
<1>1. CASE frm_detect
  BY <1>1 DEF frm_detect, flags
<1>2. CASE frm_info
  BY <1>2 DEF frm_info, flags, history
<1>3. CASE frm_vad
  BY <1>3 DEF frm_vad, history
<1>4. CASE frm_woken
  BY <1>4 DEF frm_woken
<1>5. CASE frm_out
  BY <1>5 DEF frm_out
<1>6. CASE frm_cancel
  <2>1. ASSUME asleep = "frame", data_output, ~canceled PROVE Cancels
    BY <1>6, <2>1 DEF frm_cancel, Cancels
  <2>2. asleep = "frame" => ~data_output' \/ canceled'
    BY <1>6, <2>1 DEF frm_cancel
  <2> QED
    BY <1>6, <2>2 DEF frm_cancel
<1>7. CASE frm_rest
  <2>1. /\ frm' = "idle" /\ need_asr' = (need_asr /\ ~(cur.off /\ vad_enable))
        /\ frm # "woken" /\ UNCHANGED <<awaked, ctl, asleep>>
    BY <1>7 DEF frm_rest
  <2>2. ASSUME asleep = "frame" PROVE ~Carried
    BY <2>1, <2>2 DEF Carried, Resuming
  <2>3. lateData' = (lateData \/ (Carried /\ asleep = "frame"))
    BY <1>7, RestEffect
  <2> QED
    BY <2>1, <2>2, <2>3
<1>8. CASE control
  BY <1>8 DEF control, control_awake, control_sleep, control_slept, frame, history
<1> QED
  BY <1>1, <1>2, <1>3, <1>4, <1>5, <1>6, <1>7, <1>8 DEF processfrm

(* Each step of a frame and of control() keeps Voiced.                     *)
LEMMA VoicedStep == StreamInv /\ (processfrm \/ control) => Voiced'
<1> SUFFICES ASSUME StreamInv, processfrm \/ control PROVE Voiced'
  OBVIOUS
<1> USE DEF StreamInv, FrameTypes, Voiced
<1>1. CASE frm_detect
  <2>1. cur'.off = FALSE
    BY <1>1 DEF frm_detect, NoFrame
  <2> QED
    BY <1>1, <2>1 DEF frm_detect, flags, config
<1>2. CASE frm_info
  <2>1. cur'.off = cur.off
    BY <1>2 DEF frm_info
  <2> QED
    BY <1>2, <2>1 DEF frm_info, flags, config
<1>3. CASE frm_vad
  <2>1. PICK on, off \in BOOLEAN :
          /\ off => has_vad \/ on
          /\ cur' = [cur EXCEPT !.off = off]
          /\ has_vad' = ((has_vad \/ on) /\ ~off)
          /\ IF on
             THEN vad_flag' = TRUE /\ canceled' = FALSE /\ data_output' = FALSE
             ELSE UNCHANGED <<vad_flag, canceled, data_output>>
    BY <1>3 DEF frm_vad
  <2>2. cur'.off = off
    BY <2>1
  <2>3. frm' \notin {"idle", "info", "vad"} /\ vad_enable' = vad_enable
    BY <1>3 DEF frm_vad, config
  <2> QED
    BY <1>3, <2>1, <2>2, <2>3 DEF frm_vad
<1>4. CASE frm_woken
  BY <1>4 DEF frm_woken, config
<1>5. CASE frm_out
  BY <1>5 DEF frm_out, config
<1>6. CASE frm_cancel
  BY <1>6 DEF frm_cancel, config
<1>7. CASE frm_rest
  <2>1. /\ cur'.off = FALSE /\ vad_flag' = (vad_flag /\ ~cur.off) /\ has_vad' = has_vad
        /\ data_output' = (data_output /\ ~cur.off) /\ vad_enable' = vad_enable
    BY <1>7 DEF frm_rest, NoFrame, config
  <2>2. canceled' = (canceled /\ ~Resuming)
    BY <1>7, RestEffect
  <2> QED
    BY <2>1, <2>2
<1>8. CASE control
  BY <1>8 DEF control, control_awake, control_sleep, control_slept, frame, config
<1> QED
  BY <1>1, <1>2, <1>3, <1>4, <1>5, <1>6, <1>7, <1>8 DEF processfrm

(* Each step keeps r2mem_cod's lengths: they grow, pause or start again.   *)
LEMMA LengthsStep == Inv /\ StreamInv /\ (processfrm \/ control) => Lengths'
<1> SUFFICES ASSUME Inv, StreamInv, processfrm \/ control PROVE Lengths'
  OBVIOUS
<1> USE DEF StreamInv
<1> DEFINE Good(c) == /\ c \in [in : 0 .. MaxIn, cur : Nat, pausedAt : Int]
                      /\ c.cur <= cod_coded(c)
                      /\ paused(c) => c.cur = 0
<1>1. Good(cod)
  BY DEF Lengths
<1>2. Good(cod_reset(cod))
  <2>1. cod_reset(cod) = [in |-> 0, cur |-> 0, pausedAt |-> -1]
    BY DEF cod_reset
  <2>2. cod_reset(cod) \in [in : 0 .. MaxIn, cur : Nat, pausedAt : Int]
    BY <2>1, MaxInAssumption
  <2> QED
    BY <2>1, <2>2 DEF cod_coded, paused
<1>3. ASSUME NEW c \in [in : 0 .. MaxIn, cur : Nat, pausedAt : Int], c.cur <= cod_coded(c)
      PROVE  Good(cod_pause(c))
  <2>1. cod_pause(c) = [in |-> c.in, cur |-> 0, pausedAt |-> c.in]
    BY DEF cod_pause
  <2>2. c.in \in 0 .. MaxIn
    OBVIOUS
  <2>3. cod_pause(c) \in [in : 0 .. MaxIn, cur : Nat, pausedAt : Int]
    BY <2>1, <2>2, MaxInAssumption
  <2>4. cod_pause(c).cur = 0 /\ cod_pause(c).in = c.in
    BY <2>1
  <2> QED
    BY <2>2, <2>3, <2>4, MaxInAssumption DEF cod_coded
<1>4. ASSUME NEW n \in 0 .. MaxIn
      PROVE  Good(cod_process(cod, n)) /\ Good(cod_pause(cod_process(cod, n)))
  <2>1. Good(cod_process(cod, n))
    BY <1>1, Recorder
  <2> QED
    BY <1>3, <2>1
<1>5. SUFFICES Good(cod')
  BY DEF Lengths, cod_coded, paused
<1> HIDE DEF Good
<1>6. CASE frm_detect
  BY <1>1, <1>2, <1>6 DEF frm_detect, flags
<1>7. CASE frm_vad
  BY <1>1, <1>2, <1>7 DEF frm_vad
<1>8. CASE frm_out
  BY <1>1, <1>4, <1>8 DEF frm_out
<1>9. CASE frm_cancel
  <2>1. cod' = cod \/ cod' = cod_pause(cod)
    BY <1>9 DEF frm_cancel
  <2>2. Good(cod_pause(cod))
    BY <1>1, <1>3 DEF Good
  <2> QED
    BY <1>1, <2>1, <2>2
<1>10. CASE frm_rest
  <2>1. cod' = [in |-> cod.in, cur |-> IF Carried THEN cod_coded(cod) ELSE cod.cur,
                pausedAt |-> IF Resuming THEN -1 ELSE cod.pausedAt]
    BY <1>10, RestEffect DEF FrameTypes
  <2>2. /\ cod.in \in 0 .. MaxIn /\ cod.cur \in Nat /\ cod.pausedAt \in Int
        /\ cod_coded(cod) \in Nat
    BY <1>1, Recorder DEF Good
  <2>3. cod' \in [in : 0 .. MaxIn, cur : Nat, pausedAt : Int]
    BY <2>1, <2>2
  <2>4. cod'.in = cod.in /\ cod'.cur \in {cod.cur, cod_coded(cod)}
    BY <2>1
  <2>5. cod'.cur <= cod_coded(cod')
    BY <1>1, <2>2, <2>4 DEF Good, cod_coded
  <2>6. ASSUME paused(cod') PROVE cod'.cur = 0
    <3>1. ~Resuming /\ cod'.pausedAt = cod.pausedAt
      BY <2>1, <2>6 DEF paused
    <3>2. paused(cod)
      BY <2>6, <3>1 DEF paused
    <3>3. canceled
      BY <3>2 DEF Lengths, Inv, PausedIsCanceled
    <3>4. ~Carried
      BY <3>1, <3>3 DEF Carried
    <3> QED
      BY <1>1, <2>1, <3>2, <3>4 DEF Good
  <2> QED
    BY <2>3, <2>5, <2>6 DEF Good
<1>11. CASE frm_info \/ frm_woken \/ control
  BY <1>1, <1>11 DEF frm_info, frm_woken, control, control_awake, control_sleep, control_slept,
     flags
<1> QED
  BY <1>6, <1>7, <1>8, <1>9, <1>10, <1>11 DEF processfrm

(* Each step keeps the types.                                              *)
LEMMA TypesStep == Inv /\ StreamInv /\ (processfrm \/ control \/ callback) => FrameTypes'
<1> SUFFICES ASSUME Inv, StreamInv, processfrm \/ control \/ callback PROVE FrameTypes'
  OBVIOUS
<1> USE DEF StreamInv, FrameTypes
<1>1. vad_enable' = vad_enable
  BY DEF processfrm, frm_detect, frm_info, frm_vad, frm_woken, frm_out, frm_cancel, frm_rest,
     control, control_awake, control_sleep, control_slept, callback, config
<1>2. CASE frm_detect
  <2>1. \E k : cur' = [NoFrame EXCEPT !.kind = k]
    BY <1>2 DEF frm_detect, NoFrame
  <2>2. cur' = [type |-> cur'.type, kind |-> cur'.kind, off |-> cur'.off] /\ cur'.off \in BOOLEAN
    BY <2>1 DEF NoFrame
  <2>3. /\ vad_flag' \in BOOLEAN /\ has_vad' \in BOOLEAN /\ need_asr' \in BOOLEAN
        /\ awaked' \in BOOLEAN /\ canceled' \in BOOLEAN /\ data_output' \in BOOLEAN
    BY <1>2 DEF frm_detect, flags
  <2>4. sent' \in Nat /\ asleep' \in {"no", "asked", "frame", "overtaken"}
        /\ frm' \in {"info", "vad"} /\ UNCHANGED <<ctl, client>>
    BY <1>2 DEF frm_detect, seen
  <2> QED
    BY <1>1, <2>2, <2>3, <2>4
<1>3. CASE frm_info
  <2>1. PICK t : cur' = [cur EXCEPT !.type = t]
    BY <1>3 DEF frm_info
  <2>2. cur' = [type |-> cur'.type, kind |-> cur'.kind, off |-> cur'.off] /\ cur'.off \in BOOLEAN
    BY <2>1
  <2> QED
    BY <1>1, <1>3, <2>2 DEF frm_info, flags, history, seen
<1>4. CASE frm_vad
  <2>1. PICK on, off \in BOOLEAN :
          /\ cur' = [cur EXCEPT !.off = off] /\ has_vad' = ((has_vad \/ on) /\ ~off)
          /\ IF on
             THEN vad_flag' = TRUE /\ canceled' = FALSE /\ data_output' = FALSE
                  /\ awaked' = (cur.type = "awake")
             ELSE UNCHANGED <<vad_flag, canceled, data_output, awaked>>
    BY <1>4 DEF frm_vad
  <2>2. cur' = [type |-> cur'.type, kind |-> cur'.kind, off |-> cur'.off] /\ cur'.off \in BOOLEAN
    BY <2>1
  <2>3. /\ vad_flag' \in BOOLEAN /\ has_vad' \in BOOLEAN
        /\ awaked' \in BOOLEAN /\ canceled' \in BOOLEAN /\ data_output' \in BOOLEAN
    BY <2>1
  <2>4. frm' \in {"woken", "out"} /\ UNCHANGED <<need_asr, ctl, asleep, client, sent>>
    BY <1>4 DEF frm_vad, history, seen
  <2> QED
    BY <1>1, <2>2, <2>3, <2>4
<1>5. CASE frm_woken
  BY <1>1, <1>5 DEF frm_woken, seen
<1>6. CASE frm_out
  <2>1. canceled' \in BOOLEAN /\ data_output' \in BOOLEAN /\ sent' \in Nat
        /\ frm' \in {"off", "cancel"}
    BY <1>6 DEF frm_out
  <2>2. UNCHANGED <<cur, vad_flag, has_vad, need_asr, awaked, ctl, asleep, client>>
    BY <1>6 DEF frm_out, seen
  <2> QED
    BY <1>1, <2>1, <2>2
<1>7. CASE frm_cancel
  <2>1. canceled' \in BOOLEAN /\ data_output' \in BOOLEAN /\ sent' \in Nat
        /\ vad_flag' \in BOOLEAN /\ frm' = "rest"
    <3>1. CASE data_output /\ ~canceled /\ Cancels
      BY <1>7, <3>1 DEF frm_cancel
    <3>2. CASE ~(data_output /\ ~canceled /\ Cancels)
      BY <1>7, <3>2 DEF frm_cancel
    <3> QED
      BY <3>1, <3>2
  <2>2. UNCHANGED <<cur, has_vad, need_asr, awaked, ctl, asleep, client>>
    BY <1>7 DEF frm_cancel, seen
  <2> QED
    BY <1>1, <2>1, <2>2
<1>8. CASE frm_rest
  <2>1. cur' = NoFrame /\ frm' = "idle"
        /\ UNCHANGED <<has_vad, awaked, ctl, asleep, client>>
    BY <1>8 DEF frm_rest, seen
  <2>2. vad_flag' \in BOOLEAN /\ need_asr' \in BOOLEAN /\ data_output' \in BOOLEAN
    BY <1>8 DEF frm_rest
  <2>3. canceled' \in BOOLEAN
    BY <1>8, RestEffect
  <2>4. sent' \in Nat
    <3>1. Carried => getdatalen(cod) \in Nat
      <4>1. cod_coded(cod) \in Nat /\ cod.cur \in Nat
        BY Recorder DEF Lengths
      <4> QED
        BY <4>1 DEF Carried, getdatalen
    <3>2. SentBefore \in Nat
      BY DEF SentBefore
    <3>3. SentAfter \in Nat
      BY <3>1, <3>2 DEF SentAfter
    <3> QED
      BY <1>8, <3>3, RestEffect
  <2> QED
    BY <1>1, <2>1, <2>2, <2>3, <2>4 DEF NoFrame
<1>9. CASE control
  BY <1>1, <1>9 DEF control, control_awake, control_sleep, control_slept, frame, history, seen
<1>10. CASE callback
  <2>1. client' \in {"closed", "open"}
    BY <1>10 DEF callback
  <2> QED
    BY <1>1, <1>10, <2>1 DEF callback, frame, flags, history
<1> QED
  BY <1>2, <1>3, <1>4, <1>5, <1>6, <1>7, <1>8, <1>9, <1>10 DEF processfrm

(* The recorder and the count of what was sent start together, with the    *)
(* stream or its resumption, and the end sends what is left                *)
(* (voice_activation.cpp:428-463).                                         *)
LEMMA WholeStep == Inv /\ StreamInv /\ (processfrm \/ control) => Whole'
<1> SUFFICES ASSUME Inv, StreamInv, processfrm \/ control PROVE Whole'
  OBVIOUS
<1> USE DEF StreamInv, FrameTypes, Whole
<1>r. cod_reset(cod).cur = 0 /\ \A c : cod_pause(c).cur = 0
  BY DEF cod_reset, cod_pause
<1>p. \A n \in 0 .. MaxIn : cod_process(cod, n).cur = cod.cur
  BY Recorder DEF Lengths
<1>1. CASE frm_detect
  <2>1. vad_enable' = vad_enable /\ frm' \notin {"idle", "rest"} /\ cutShort' = cutShort
    BY <1>1 DEF frm_detect, config
  <2>2. CASE UNCHANGED flags /\ det' = "none"
    BY <1>1, <2>1, <2>2 DEF frm_detect, flags
  <2>3. CASE ~(UNCHANGED flags /\ det' = "none")
    <3>1. /\ vad_flag' = FALSE /\ canceled' = FALSE /\ cod' = cod_reset(cod)
          /\ data_output' = (data_output /\ ~vad_enable)
      BY <1>1, <2>3 DEF frm_detect
    <3> QED
      BY <1>r, <2>1, <3>1
  <2> QED
    BY <2>2, <2>3
<1>2. CASE frm_info
  BY <1>2 DEF frm_info, flags, config, history
<1>3. CASE frm_vad
  BY <1>3, <1>r DEF frm_vad, config, history
<1>4. CASE frm_woken
  BY <1>4 DEF frm_woken, config
<1>5. CASE frm_out
  <2>1. CASE ~vad_flag
    BY <1>5, <2>1 DEF frm_out, config
  <2>2. CASE vad_flag
    <3>1. PICK starts \in BOOLEAN, silent \in BOOLEAN, n \in 0 .. MaxIn :
            /\ starts => ~data_output
            /\ silent => ~data_output
            /\ data_output' = (data_output \/ starts \/ silent)
            /\ canceled' = (canceled \/ silent)
            /\ cod' = IF silent THEN cod_pause(cod_process(cod, n)) ELSE cod_process(cod, n)
            /\ sent' = IF starts THEN 0 ELSE sent
      BY <1>5, <2>2 DEF frm_out
    <3>2. frm' = "cancel" /\ UNCHANGED <<vad_flag, vad_enable, cutShort>>
      BY <1>5, <2>2 DEF frm_out, config
    <3>3. cod'.cur = IF silent THEN 0 ELSE cod.cur
      BY <1>r, <1>p, <3>1
    <3>4. vad_flag' /\ ~data_output' => cod'.cur = 0
      BY <2>2, <3>1, <3>2, <3>3
    <3>5. vad_flag' /\ data_output' /\ ~canceled' => sent' = cod'.cur
      <4>1. CASE starts
        BY <2>2, <3>1, <3>3, <4>1
      <4>2. CASE ~starts
        BY <2>2, <3>1, <3>3, <4>2
      <4> QED
        BY <4>1, <4>2
    <3>6. vad_enable' /\ data_output' => vad_flag'
      BY <2>2, <3>2
    <3> QED
      BY <3>2, <3>4, <3>5, <3>6
  <2> QED
    BY <2>1, <2>2
<1>6. CASE frm_cancel
  BY <1>6, <1>r DEF frm_cancel, config
<1>7. CASE frm_rest
  <2>1. /\ canceled' = (canceled /\ ~Resuming)
        /\ cod'.cur = (IF Carried THEN cod_coded(cod) ELSE cod.cur)
        /\ sent' = (IF cur.off THEN 0 ELSE SentAfter)
        /\ cutShort' = (cutShort \/ (Ending /\ SentAfter # cod_coded(cod)))
    BY <1>7, RestEffect
  <2>2. /\ vad_flag' = (vad_flag /\ ~cur.off) /\ data_output' = (data_output /\ ~cur.off)
        /\ vad_enable' = vad_enable /\ frm' = "idle" /\ frm \in {"rest", "off"}
    BY <1>7 DEF frm_rest, config
  <2>3. cod_coded(cod) \in Nat /\ cod.cur \in Nat /\ cod.cur <= cod_coded(cod)
    BY Recorder DEF Lengths
  <2>4. vad_flag /\ data_output /\ (canceled => Resuming) => SentBefore = cod.cur
    <3>1. Resuming => cod.cur = 0
      BY DEF Resuming, isneedresume, Lengths
    <3> QED
      BY <3>1 DEF SentBefore
  <2>5. vad_flag /\ data_output /\ (canceled => Resuming) =>
          SentAfter = IF Carried THEN cod_coded(cod) ELSE cod.cur
    BY <2>3, <2>4 DEF SentAfter, getdatalen
  <2>6. Ending => SentAfter = cod_coded(cod)
    <3> SUFFICES ASSUME Ending PROVE SentAfter = cod_coded(cod)
      OBVIOUS
    <3>1. vad_flag /\ data_output /\ (canceled => Resuming) /\ cur.off /\ frm = "rest"
      BY <2>2 DEF Ending
    <3>2. ~Carried => cod.cur = cod_coded(cod)
      BY <2>3, <3>1 DEF Carried, getdatalen
    <3> QED
      BY <2>5, <3>1, <3>2
  <2>7. vad_flag' /\ ~data_output' => cod'.cur = 0
    BY <2>1, <2>2 DEF Carried
  <2>8. vad_flag' /\ data_output' /\ ~canceled' => sent' = cod'.cur
    BY <2>1, <2>2, <2>5
  <2> QED
    BY <2>1, <2>2, <2>6, <2>7, <2>8
<1>8. CASE control
  <2>1. UNCHANGED <<frm, cur, vad_flag, data_output, canceled, cod, sent, cutShort, vad_enable>>
    BY <1>8 DEF control, control_awake, control_sleep, control_slept, frame, config, history
  <2> QED
    BY <2>1
<1> QED
  BY <1>1, <1>2, <1>3, <1>4, <1>5, <1>6, <1>7, <1>8 DEF processfrm

(* An event that fits may be appended ...                                  *)
LEMMA FlowMaybe ==
  ASSUME NEW q, NEW from, NEW to, Flows(q, from, to),
         NEW b \in BOOLEAN, NEW e \in StreamEvents, b => Fits(e, to)
  PROVE  Flows(q \o (IF b THEN <<e>> ELSE <<>>), from, IF b THEN Leaves(e) ELSE to)
<1>1. q \in Seq(StreamEvents)
  BY DEF Flows
<1>2. CASE ~b
  <2>1. q \o <<>> = q
    BY <1>1
  <2> QED
    BY <1>2, <2>1
<1>3. CASE b
  <2> DEFINE r == q \o <<e>>
  <2>1. /\ r \in Seq(StreamEvents) /\ Len(q) \in Nat /\ Len(r) = Len(q) + 1
        /\ r[Len(r)] = e /\ \A i \in 1 .. Len(q) : r[i] = q[i]
    BY <1>1
  <2>2. ASSUME NEW i \in 1 .. Len(r)
        PROVE  Fits(r[i], IF i = 1 THEN from ELSE Leaves(r[i - 1]))
    <3>1. CASE i \in 1 .. Len(q)
      <4>1. r[i] = q[i] /\ (i # 1 => r[i - 1] = q[i - 1])
        BY <2>1, <3>1
      <4> QED
        BY <3>1, <4>1 DEF Flows
    <3>2. CASE i = Len(q) + 1
      <4>1. to = IF i = 1 THEN from ELSE Leaves(q[i - 1])
        BY <2>1, <3>2 DEF Flows
      <4>2. r[i] = e /\ (i # 1 => r[i - 1] = q[i - 1])
        BY <2>1, <3>2
      <4> QED
        BY <1>3, <4>1, <4>2
    <3> QED
      BY <2>1, <3>1, <3>2
  <2>3. Len(r) # 0 /\ Leaves(r[Len(r)]) = Leaves(e)
    BY <2>1
  <2> HIDE DEF r
  <2>4. Flows(r, from, Leaves(e))
    BY <2>1, <2>2, <2>3 DEF Flows
  <2> QED
    BY <1>3, <2>4 DEF r
<1> QED
  BY <1>2, <1>3

(* ... and the first one fits what the application sees.                   *)
LEMMA FlowNext ==
  ASSUME NEW q, NEW from, NEW to, Flows(q, from, to), q # <<>>
  PROVE  /\ Head(q) \in StreamEvents /\ Fits(Head(q), from)
         /\ Flows(Tail(q), Leaves(Head(q)), to)
<1>1. q \in Seq(StreamEvents)
  BY DEF Flows
<1> DEFINE r == Tail(q)
<1>2. /\ r \in Seq(StreamEvents) /\ Len(q) \in Nat \ {0} /\ Len(r) = Len(q) - 1
      /\ \A i \in 1 .. Len(q) - 1 : r[i] = q[i + 1]
      /\ Head(q) = q[1] /\ q[1] \in StreamEvents
  BY <1>1
<1> HIDE DEF r
<1>3. Fits(q[1], from)
  BY <1>2 DEF Flows
<1>4. ASSUME NEW i \in 1 .. Len(r)
      PROVE  Fits(r[i], IF i = 1 THEN Leaves(q[1]) ELSE Leaves(r[i - 1]))
  <2>1. i + 1 \in 1 .. Len(q) /\ r[i] = q[i + 1] /\ (i # 1 => r[i - 1] = q[i])
    BY <1>2
  <2>2. Fits(q[i + 1], Leaves(q[i]))
    <3>1. Fits(q[i + 1], IF i + 1 = 1 THEN from ELSE Leaves(q[(i + 1) - 1]))
      BY <2>1 DEF Flows
    <3>2. i + 1 # 1 /\ (i + 1) - 1 = i
      OBVIOUS
    <3> QED
      BY <3>1, <3>2
  <2> QED
    BY <2>1, <2>2
<1>5. to = IF Len(r) = 0 THEN Leaves(q[1]) ELSE Leaves(r[Len(r)])
  <2>1. to = Leaves(q[Len(q)])
    BY <1>2 DEF Flows
  <2>2. Len(r) = 0 => Len(q) = 1
    BY <1>2
  <2>3. Len(r) # 0 => r[Len(r)] = q[Len(q)]
    BY <1>2
  <2> QED
    BY <2>1, <2>2, <2>3
<1>6. Flows(r, Leaves(q[1]), to)
  BY <1>2, <1>4, <1>5 DEF Flows
<1> QED
  BY <1>2, <1>3, <1>6 DEF r

(* send_voice_event appends (event_hub.cpp).                               *)
LEMMA SendAppends ==
  ASSUME NEW q, voice_events = q, q \in Seq(StreamEvents), NEW events, Send(events)
  PROVE  voice_events' = q \o events
<1>1. CASE events = <<>>
  BY <1>1 DEF Send
<1>2. CASE events # <<>>
  BY <1>2 DEF Send
<1> QED
  BY <1>1, <1>2

(* The stream as the producer has made it.                                 *)
Now == IF Open THEN "open" ELSE "closed"

(* The events of frm_rest may be appended one after the other.             *)
LEMMA ConcatThree ==
  ASSUME voice_events \in Seq(StreamEvents), NEW a \in Seq(StreamEvents),
         NEW b \in Seq(StreamEvents), NEW c \in Seq(StreamEvents)
  PROVE  voice_events \o ((a \o b) \o c) = ((voice_events \o a) \o b) \o c
<1> DEFINE ab == a \o b
<1>1. ab \in Seq(StreamEvents)
  OBVIOUS
<1>2. (voice_events \o a) \o b = voice_events \o ab
  BY ConcatAssociative
<1> HIDE DEF ab
<1>3. (voice_events \o ab) \o c = voice_events \o (ab \o c)
  BY <1>1, ConcatAssociative
<1> QED
  BY <1>2, <1>3 DEF ab

(* A start after a cancellation, data and an end only while the stream is  *)
(* open, and no data after its end (voice_activation.cpp:428-463).         *)
LEMMA RestFlows ==
  ASSUME StreamInv, vad_enable, frm_rest
  PROVE  Flows(voice_events', client, Now')
<1> USE DEF StreamInv, FrameTypes
<1>1. Flows(voice_events, client, Now)
  BY DEF Paired, Now
<1>2. /\ vad_flag' = (vad_flag /\ ~cur.off) /\ data_output' = (data_output /\ ~cur.off)
      /\ frm \in {"rest", "off"}
  BY DEF frm_rest
<1>3. canceled' = (canceled /\ ~Resuming) /\ Send(RestEvents)
  BY RestEffect
<1> DEFINE s1 == IF Resuming THEN "open" ELSE Now
           s2 == IF Carried THEN "open" ELSE s1
           s3 == IF Ending THEN "closed" ELSE s2
           q1 == voice_events \o (IF Resuming THEN <<"VAD_START">> ELSE <<>>)
           q2 == q1 \o (IF Carried THEN <<"VAD_DATA">> ELSE <<>>)
           q3 == q2 \o (IF Ending THEN <<"VAD_END">> ELSE <<>>)
<1>b. Resuming \in BOOLEAN /\ Carried \in BOOLEAN /\ Ending \in BOOLEAN
  BY DEF Resuming, Carried, Ending
<1>4. Flows(q1, client, s1)
  <2>1. Resuming => Fits("VAD_START", Now)
    BY DEF Resuming, Fits, Now, Open
  <2>2. Leaves("VAD_START") = "open" /\ "VAD_START" \in StreamEvents
    BY DEF Leaves, StreamEvents
  <2>3. Flows(q1, client, IF Resuming THEN Leaves("VAD_START") ELSE Now)
    BY <1>1, <1>b, <2>1, <2>2, FlowMaybe
  <2> QED
    BY <2>2, <2>3
<1> HIDE DEF q1
<1>5. Flows(q2, client, s2)
  <2>1. Carried => Fits("VAD_DATA", s1)
    BY DEF Carried, Fits, Now, Open
  <2>2. Leaves("VAD_DATA") = "open" /\ "VAD_DATA" \in StreamEvents
    BY DEF Leaves, StreamEvents
  <2> HIDE DEF s1
  <2>3. Flows(q2, client, IF Carried THEN Leaves("VAD_DATA") ELSE s1)
    BY <1>4, <1>b, <2>1, <2>2, FlowMaybe
  <2> QED
    BY <2>2, <2>3
<1> HIDE DEF q2
<1>6. Flows(q3, client, s3)
  <2>1. Ending => Fits("VAD_END", s2)
    BY DEF Ending, Fits, Now, Open
  <2>2. Leaves("VAD_END") = "closed" /\ "VAD_END" \in StreamEvents
    BY DEF Leaves, StreamEvents
  <2> HIDE DEF s2
  <2>3. Flows(q3, client, IF Ending THEN Leaves("VAD_END") ELSE s2)
    BY <1>5, <1>b, <2>1, <2>2, FlowMaybe
  <2> QED
    BY <2>2, <2>3
<1>7. s3 = Now'
  <2>1. Carried => data_output /\ (canceled => Resuming)
    BY DEF Carried
  <2>2. Resuming => data_output /\ canceled
    BY DEF Resuming
  <2>3. Ending = (cur.off /\ data_output /\ (canceled => Resuming))
    BY DEF Ending
  <2>4. Now' = IF data_output' /\ ~canceled' THEN "open" ELSE "closed"
    BY DEF Now, Open
  <2>5. Now = IF data_output /\ ~canceled THEN "open" ELSE "closed"
    BY DEF Now, Open
  <2> HIDE DEF Now
  <2> QED
    BY <1>2, <1>3, <2>1, <2>2, <2>3, <2>4, <2>5
<1>8. voice_events' = q3
  <2> DEFINE a == IF Resuming THEN <<"VAD_START">> ELSE <<>>
             b == IF Carried THEN <<"VAD_DATA">> ELSE <<>>
             c == IF Ending THEN <<"VAD_END">> ELSE <<>>
  <2>0. \A e \in StreamEvents : <<e>> \in Seq(StreamEvents) /\ <<>> \in Seq(StreamEvents)
    OBVIOUS
  <2>1. a \in Seq(StreamEvents) /\ b \in Seq(StreamEvents) /\ c \in Seq(StreamEvents)
    <3>1. {"VAD_START", "VAD_DATA", "VAD_END"} \subseteq StreamEvents
      BY DEF StreamEvents
    <3> QED
      BY <2>0, <3>1
  <2>2. voice_events \in Seq(StreamEvents)
    BY <1>1 DEF Flows
  <2>3. voice_events' = voice_events \o ((a \o b) \o c)
    BY <1>3, <2>2, SendAppends DEF RestEvents
  <2>4. q3 = ((voice_events \o a) \o b) \o c
    BY DEF q1, q2
  <2> HIDE DEF a, b, c, q3
  <2>5. voice_events \o ((a \o b) \o c) = ((voice_events \o a) \o b) \o c
    BY <2>1, <2>2, ConcatThree, Zenon
  <2> QED
    BY <2>3, <2>4, <2>5, Zenon
<1> QED
  BY <1>6, <1>7, <1>8

(* A frame's earlier steps start a closed stream and cancel an open one    *)
(* (voice_activation.cpp:318-327, 397-427); control() sends nothing.       *)
LEMMA PairedStep == StreamInv /\ (processfrm \/ control) => Paired'
<1> SUFFICES ASSUME StreamInv, processfrm \/ control, vad_enable'
             PROVE  ~misordered' /\ Flows(voice_events', client', Now')
  BY DEF Paired, Now
<1> USE DEF StreamInv, FrameTypes
<1>1. vad_enable /\ UNCHANGED <<client, misordered>>
  BY DEF processfrm, frm_detect, frm_info, frm_vad, frm_woken, frm_out, frm_cancel, frm_rest,
     control, control_awake, control_sleep, control_slept, config, seen
<1>2. ~misordered /\ Flows(voice_events, client, Now) /\ voice_events \in Seq(StreamEvents)
  BY <1>1 DEF Paired, Now, Flows
<1>3. SUFFICES Flows(voice_events', client, Now')
  BY <1>1, <1>2
<1>4. ASSUME voice_events' = voice_events, Open' = Open PROVE Flows(voice_events', client, Now')
  BY <1>2, <1>4 DEF Now
<1>5. ASSUME NEW b \in BOOLEAN, NEW e \in StreamEvents, b => Fits(e, Now),
             Send(IF b THEN <<e>> ELSE <<>>), Now' = IF b THEN Leaves(e) ELSE Now
      PROVE  Flows(voice_events', client, Now')
  <2>1. voice_events' = voice_events \o (IF b THEN <<e>> ELSE <<>>)
    BY <1>2, <1>5, SendAppends
  <2>2. Flows(voice_events \o (IF b THEN <<e>> ELSE <<>>), client, IF b THEN Leaves(e) ELSE Now)
    BY <1>2, <1>5, FlowMaybe
  <2> QED
    BY <1>5, <2>1, <2>2
<1>6. "VAD_CANCEL" \in StreamEvents /\ Leaves("VAD_CANCEL") = "closed" /\ Fits("VAD_CANCEL", Now)
  BY DEF StreamEvents, Leaves, Fits
<1>7. "VAD_START" \in StreamEvents /\ Leaves("VAD_START") = "open" /\ Fits("VAD_START", "closed")
  BY DEF StreamEvents, Leaves, Fits
<1>8. CASE frm_detect
  <2>1. CASE UNCHANGED <<flags, voice_events>>
    BY <1>4, <2>1 DEF Open, flags
  <2>2. CASE ~UNCHANGED <<flags, voice_events>>
    <3>1. /\ Send(IF data_output THEN <<"VAD_CANCEL">> ELSE <<>>)
          /\ data_output' = (data_output /\ ~vad_enable)
      BY <1>8, <2>2 DEF frm_detect
    <3>2. Now' = IF data_output THEN Leaves("VAD_CANCEL") ELSE Now
      BY <1>1, <1>6, <3>1 DEF Now, Open
    <3> QED
      BY <1>5, <1>6, <3>1, <3>2
  <2> QED
    BY <2>1, <2>2
<1>9. CASE frm_vad
  <2>1. PICK on, off \in BOOLEAN :
          /\ on => ~has_vad
          /\ IF on
             THEN canceled' = FALSE /\ data_output' = FALSE
             ELSE UNCHANGED <<canceled, data_output>>
    BY <1>9 DEF frm_vad
  <2>2. on => ~data_output
    BY <1>1, <1>9, <2>1 DEF frm_vad, Whole, Voiced
  <2>3. Open' = Open
    BY <2>1, <2>2 DEF Open
  <2>4. voice_events' = voice_events
    BY <1>9 DEF frm_vad, hubVars
  <2> QED
    BY <1>4, <2>3, <2>4
<1>10. CASE frm_out
  <2>1. CASE ~vad_flag
    BY <1>4, <1>10, <2>1 DEF frm_out, Open
  <2>2. CASE vad_flag
    <3>1. PICK starts \in BOOLEAN, silent \in BOOLEAN :
            /\ starts => ~data_output /\ ~silent
            /\ silent => ~data_output
            /\ data_output' = (data_output \/ starts \/ silent)
            /\ canceled' = (canceled \/ silent)
            /\ Send(IF starts THEN <<"VAD_START">> ELSE <<>>)
      BY <1>10, <2>2 DEF frm_out
    <3>2. ~data_output => ~canceled
      BY <1>1, <2>2 DEF Voiced
    <3>3. Now' = IF starts THEN Leaves("VAD_START") ELSE Now
      BY <1>7, <3>1, <3>2 DEF Now, Open
    <3>4. starts => Fits("VAD_START", Now)
      BY <1>7, <3>1 DEF Now, Open
    <3> QED
      BY <1>5, <1>7, <3>1, <3>3, <3>4
  <2> QED
    BY <2>1, <2>2
<1>11. CASE frm_cancel
  <2> DEFINE b == data_output /\ ~canceled /\ Cancels
  <2>0. b \in BOOLEAN
    OBVIOUS
  <2>1. CASE ~b
    BY <1>4, <1>11, <2>1 DEF frm_cancel, Open
  <2>2. CASE b
    <3>1. canceled' = TRUE /\ Send(<<"VAD_CANCEL">>)
      BY <1>11, <2>2 DEF frm_cancel
    <3>2. Now' = "closed"
      BY <3>1 DEF Now, Open
    <3>3. Send(IF TRUE THEN <<"VAD_CANCEL">> ELSE <<>>)
          /\ Now' = IF TRUE THEN Leaves("VAD_CANCEL") ELSE Now
      BY <1>6, <3>1, <3>2
    <3> QED
      BY <1>5, <1>6, <3>3
  <2> QED
    BY <2>1, <2>2
<1>12. CASE frm_rest
  BY <1>1, <1>12, RestFlows
<1>13. CASE frm_info \/ frm_woken
  <2>1. voice_events' = voice_events /\ data_output' = data_output /\ canceled' = canceled
    BY <1>13 DEF frm_info, frm_woken, flags, hubVars
  <2> QED
    BY <1>4, <2>1 DEF Open
<1>14. CASE control
  <2>1. voice_events' = voice_events /\ data_output' = data_output /\ canceled' = canceled
    BY <1>14 DEF control, control_awake, control_sleep, control_slept, hubVars
  <2> QED
    BY <1>4, <2>1 DEF Open
<1> QED
  BY <1>8, <1>9, <1>10, <1>11, <1>12, <1>13, <1>14 DEF processfrm

(* The hub's thread hands over the first event (event_hub.cpp).            *)
LEMMA CallbackStep == StreamInv /\ callback => StreamInv'
<1> SUFFICES ASSUME StreamInv, callback PROVE StreamInv'
  OBVIOUS
<1> USE DEF StreamInv
<1>1. UNCHANGED <<config, frame, flags, ctl, history>>
  BY DEF callback
<1>2. client' \in {"closed", "open"}
  BY DEF callback, FrameTypes
<1>3. FrameTypes'
  BY <1>1, <1>2 DEF FrameTypes, config, frame, flags, history
<1>4. Slept' /\ Lengths'
  BY <1>1 DEF Slept, Lengths, frame, flags, history
<1>5. Whole' /\ Voiced'
  BY <1>1 DEF Whole, Voiced, config, frame, flags, history
<1>6. Paired'
  <2> SUFFICES ASSUME vad_enable PROVE ~misordered' /\ Flows(voice_events', client', Now)
    BY <1>1 DEF Paired, Now, Open, config, flags
  <2>1. ~misordered /\ Flows(voice_events, client, Now)
    BY DEF Paired, Now
  <2>2. CASE ~Called
    <3>1. voice_events' = voice_events
      BY <2>2 DEF callback, thread_loop, hub_test, hub_block
    <3>2. client' = client
      BY <2>2 DEF callback
    <3>3. misordered' = misordered \/ ~misordered'
      BY <2>2 DEF callback
    <3> QED
      BY <2>1, <3>1, <3>2, <3>3
  <2>3. CASE Called
    <3>1. hub_test
      BY <2>3 DEF callback, thread_loop, hub_block, Called
    <3>2. voice_events # <<>> /\ voice_events' = Tail(voice_events)
      BY <2>3, <3>1 DEF hub_test, Called
    <3> DEFINE e == Head(voice_events)
    <3>3. e \in StreamEvents /\ Fits(e, client) /\ Flows(Tail(voice_events), Leaves(e), Now)
      BY <2>1, <3>2, FlowNext
    <3>4. misordered' = (misordered \/ (e = "VAD_START" /\ client = "open")
                           \/ (e \in {"VAD_DATA", "VAD_END"} /\ client = "closed"))
      BY <2>3 DEF callback
    <3>5. client' = CASE e = "none" -> client
                      [] e \in {"VAD_START", "VAD_DATA"} -> "open"
                      [] OTHER -> "closed"
      BY <2>3 DEF callback
    <3> HIDE DEF e
    <3>6. client' = Leaves(e)
      BY <3>3, <3>5 DEF StreamEvents, Leaves
    <3>7. ~misordered'
      BY <2>1, <3>3, <3>4 DEF Fits
    <3> QED
      BY <3>2, <3>3, <3>6, <3>7
  <2> QED
    BY <2>2, <2>3
<1> QED
  BY <1>3, <1>4, <1>5, <1>6

(* Every step of the library keeps the stream's invariant.                 *)
LEMMA StreamStep == Inv /\ StreamInv /\ [Next]_vars => StreamInv'
<1> SUFFICES ASSUME Inv, StreamInv, [Next]_vars PROVE StreamInv'
  OBVIOUS
<1>1. CASE processfrm \/ control
  BY <1>1, TypesStep, SleptStep, VoicedStep, LengthsStep, WholeStep, PairedStep DEF StreamInv
<1>2. CASE callback
  BY <1>2, CallbackStep
<1>3. CASE \E c \in Callers : change(c)
  <2>1. UNCHANGED streamVars
    BY <1>3 DEF change, streamVars, hubVars
  <2> QED
    BY <2>1, StreamUnchanged
<1>4. CASE free \/ destroy
  <2>1. UNCHANGED streamVars
    BY <1>4 DEF free, destroy, hub_exit, hub_destroy, hub_notify, hub_join, streamVars
  <2> QED
    BY <2>1, StreamUnchanged
<1>5. CASE UNCHANGED vars
  <2>1. UNCHANGED streamVars
    BY <1>5 DEF vars, streamVars, hubVars
  <2> QED
    BY <2>1, StreamUnchanged
<1> QED
  BY <1>1, <1>2, <1>3, <1>4, <1>5 DEF Next

(* The stream's invariant holds.                                           *)
LEMMA StreamInvariance == Spec => []StreamInv
<1> QED
  BY InitInv, StepInv, InitStream, StreamStep, PTL DEF Spec

(* With the local VAD the application sees whole streams: a start, data,   *)
(* then an end or a cancel, whatever control() does in between and however *)
(* late the hub's thread calls (voice_activation.cpp:397-463).             *)
THEOREM PairsStreams == Spec => []StreamsPaired
<1>1. StreamInv => StreamsPaired
  BY DEF StreamInv, Paired, StreamsPaired
<1> QED
  BY <1>1, StreamInvariance, PTL

(* A stream carries its voice from the beginning and to the end, the part  *)
(* before a resumption included (legacy/r2mem_cod.cpp:84).                 *)
THEOREM KeepsStreamsWhole == Spec => []StreamsAreWhole
<1>1. StreamInv => StreamsAreWhole
  BY DEF StreamInv, Whole, StreamsAreWhole
<1> QED
  BY <1>1, StreamInvariance, PTL

(* After a SLEEP no data is sent from the second frame on, unless a wake   *)
(* word comes, during it or later, or AWAKE (voice_activation.cpp:243-246, *)
(* 423-426).                                                               *)
THEOREM StopsData == Spec => []SleepStopsData
<1>1. StreamInv => SleepStopsData
  BY DEF StreamInv, Slept, SleepStopsData
<1> QED
  BY <1>1, StreamInvariance, PTL
==============================================================================
