--------------------------- MODULE VoiceActivation ---------------------------
(***************************************************************************)
(* vsys-activation: one thread feeds frames to process() (voice_activation *)
(* .cpp, processfrm and legacy/r2mem_cod.cpp), others call control() and   *)
(* change the trigger words (module VtWordManager), and the thread of      *)
(* module EventHub calls the application.  control() writes need_asr and   *)
(* awaked without a lock, so it interleaves with the steps of a frame.     *)
(*                                                                         *)
(* The engines are external: r2_vbv_process reports a word it knows,       *)
(* alone, followed by a command or by silence; the VAD reports the start   *)
(* and the end of voice and is made to start by a wake word.  The events   *)
(* that only inform (VAD_COMING, VT_INFO, LOCAL_*, HOTWORD) and the        *)
(* samples are left out; lengths count frames of r2mem_cod.                *)
(***************************************************************************)
EXTENDS VtWordManager, EventHub, Integers

CONSTANTS
  VadEnables,  (* values of vad_enable to consider                         *)
  Types,       (* word types to consider for the words added               *)
  TooLong,     (* m_iShield_TooLong                                        *)
  Resume,      (* m_iShield_Resume                                         *)
  MaxIn,       (* bound: frames r2mem_cod counts                           *)
  MaxBacklog   (* bound: events waiting when process() is called           *)

ASSUME MaxInAssumption == TooLong \in Nat /\ Resume \in Nat /\ MaxIn \in Nat /\ TooLong < MaxIn

ASSUME EnablesAssumption == VadEnables \subseteq BOOLEAN

VARIABLES
  vad_enable, wordType,
  frm,          (* the step of processfrm                                  *)
  det,          (* the word detected, or none                              *)
  cur,          (* locals of processfrm                                    *)
  vad_flag, has_vad, need_asr, awaked, canceled, data_output,
  cod,          (* r2mem_cod: m_iLen_In, m_iLen_Out_Cur, m_iLen_Pause if   *)
                (* m_bPaused, else -1                                      *)
  ctl,          (* control()                                               *)
  sent,         (* history: frames of data sent of the stream that is open *)
  cutShort,     (* history: a VAD_END came before all of its data          *)
  asleep,       (* history: SLEEP since the last wake; frame: and a frame  *)
  lateData,     (* history: data was sent a frame after a SLEEP            *)
  client,       (* history: the stream as the application sees it          *)
  misordered    (* history: the application saw data or an end without a   *)
                (* start, or a start twice                                 *)

config == <<vad_enable, wordType>>
flags == <<vad_flag, has_vad, need_asr, awaked, canceled, data_output, cod>>
frame == <<frm, det, cur>>
history == <<sent, cutShort, asleep, lateData>>
seen == <<client, misordered>>
vars == <<wordVars, hubVars, config, frame, flags, ctl, history, seen>>

AllTypes == {"awake", "sleep", "hotword"}
Kinds == {"pre", "cmd", "nocmd"}
NoFrame == [type |-> "none", kind |-> "pre", off |-> FALSE]

TypeOK ==
  /\ WordsTypeOK /\ HubTypeOK
  /\ vad_enable \in BOOLEAN /\ wordType \in [Words \cup {Builtin} -> AllTypes]
  /\ frm \in {"idle", "info", "vad", "woken", "out", "cancel", "rest", "off"}
  /\ det \in Words \cup {Builtin, "none"}
  /\ cur \in [type : AllTypes \cup {"none"}, kind : Kinds, off : BOOLEAN]
  /\ {vad_flag, has_vad, need_asr, awaked, canceled, data_output} \subseteq BOOLEAN
  /\ cod \in [in : 0 .. MaxIn, cur : 0 .. MaxIn, pausedAt : -1 .. MaxIn]
  /\ ctl \in {"idle", "sleep"}
  /\ sent \in 0 .. MaxIn /\ cutShort \in BOOLEAN
  /\ asleep \in {"no", "asked", "frame", "overtaken"} /\ lateData \in BOOLEAN
  /\ client \in {"closed", "open"} /\ misordered \in BOOLEAN

Init ==
  /\ WordsInit /\ HubInit
  /\ vad_enable \in VadEnables
  /\ \E t \in Types : wordType = [w \in Words \cup {Builtin} |-> IF w = Builtin THEN "awake" ELSE t]
  /\ frm = "idle" /\ det = "none" /\ cur = NoFrame
  /\ vad_flag = FALSE /\ has_vad = FALSE /\ need_asr = FALSE /\ awaked = FALSE
  /\ canceled = FALSE /\ data_output = FALSE
  /\ cod = [in |-> 0, cur |-> 0, pausedAt |-> -1]
  /\ ctl = "idle" /\ sent = 0 /\ cutShort = FALSE /\ asleep = "no" /\ lateData = FALSE
  /\ client = "closed" /\ misordered = FALSE

---------------------------------------------------------------------------
(* r2mem_cod.  The last frame is only coded when more comes after it.      *)
(* Mutant: the pause is not undone. *)
cod_reset_paused(c) == [in |-> 0, cur |-> 0, pausedAt |-> c.pausedAt]
(* Mutant: the next stream does not start from the beginning. *)
cod_reset_cur(c) == [in |-> 0, cur |-> c.cur, pausedAt |-> -1]
cod_reset(c) == [in |-> 0, cur |-> 0, pausedAt |-> -1]
cod_pause(c) == [in |-> c.in, cur |-> 0, pausedAt |-> c.in]
cod_process(c, n) == [c EXCEPT !.in = IF c.in + n < MaxIn THEN c.in + n ELSE MaxIn]
cod_coded(c) == IF c.in = 0 THEN 0 ELSE c.in - 1
getdatalen(c) == cod_coded(c) - c.cur
(* Mutant: no voice is too long. *)
istoolong_never(c) == FALSE
istoolong(c) == c.in > TooLong
paused(c) == c.pausedAt >= 0
isneedresume(c) == paused(c) /\ c.in < TooLong /\ c.in - c.pausedAt > Resume

---------------------------------------------------------------------------
(* processfrm: do_activation; a word resets everything ... *)
frm_detect ==
  /\ frm = "idle" /\ ~thread_exit /\ Len(voice_events) <= MaxBacklog
  /\ \/ /\ frm' = "vad" /\ det' = "none" /\ cur' = NoFrame
        /\ UNCHANGED <<flags, voice_events, hub>>
     \/ /\ frm' = "info"
        /\ det' \in engineWords
        /\ \E k \in Kinds : cur' = [NoFrame EXCEPT !.kind = k]
        /\ vad_flag' = FALSE /\ awaked' = FALSE /\ canceled' = FALSE /\ need_asr' = FALSE
        /\ has_vad' = FALSE /\ cod' = cod_reset(cod)
        /\ Send(IF data_output THEN <<"VAD_CANCEL">> ELSE <<>>)
        /\ data_output' = (data_output /\ ~vad_enable)
  /\ asleep' = IF asleep = "asked" THEN "frame" ELSE asleep
  /\ sent' = IF det' = "none" THEN sent ELSE 0
  /\ UNCHANGED <<wordVars, thread_exit, dying, config, ctl, cutShort, lateData, seen>>

(* ... and is looked up, without the lock, in what the engine has by now. *)
frm_info ==
  /\ frm = "info" /\ frm' = "vad"
  /\ \E t \in IF det \in engineWords THEN {wordType[det]} ELSE AllTypes : cur' = [cur EXCEPT !.type = t]
  /\ UNCHANGED <<wordVars, hubVars, config, det, flags, ctl, history, seen>>

(* check_voice_activity and the start of a voice ... *)
frm_vad ==
  /\ frm = "vad"
  /\ \E on, off \in BOOLEAN :
       /\ on => ~has_vad
       /\ cur.type = "awake" => on
       /\ off => has_vad \/ on
       /\ cur' = [cur EXCEPT !.off = off]
       /\ has_vad' = ((has_vad \/ on) /\ ~off)
       /\ IF on
          THEN /\ vad_flag' = TRUE /\ canceled' = FALSE /\ data_output' = FALSE
               /\ awaked' = (cur.type = "awake") /\ cod' = cod_reset(cod)
          ELSE UNCHANGED <<vad_flag, canceled, data_output, awaked, cod>>
       /\ frm' = IF cur.type = "awake" THEN "woken" ELSE "out"
  /\ UNCHANGED <<wordVars, hubVars, config, det, need_asr, ctl, history, seen>>

frm_woken ==
  /\ frm = "woken" /\ frm' = "out"
  /\ need_asr' = TRUE /\ asleep' = IF ctl = "sleep" THEN "overtaken" ELSE "no"
  /\ UNCHANGED <<wordVars, hubVars, config, det, cur, vad_flag, has_vad, awaked, canceled, data_output,
                 cod, ctl, sent, cutShort, lateData, seen>>

(* ... the start of the stream: with a command at once, with silence after *)
(* the word not before isneedresume ...                                    *)
frm_out ==
  /\ frm = "out"
  /\ IF ~vad_flag
     THEN frm' = "off" /\ UNCHANGED <<data_output, canceled, cod, sent, voice_events, hub>>
     ELSE LET word == cur.type # "none"
              starts == ~data_output /\ IF word /\ cur.kind # "pre" THEN cur.kind = "cmd"
                                        ELSE need_asr /\ ~awaked
              silent == ~data_output /\ word /\ cur.kind = "nocmd" IN
          \E n \in 0 .. MaxIn :
            /\ frm' = "cancel"
            /\ data_output' = (data_output \/ starts \/ silent)
            /\ canceled' = (canceled \/ silent)
            /\ cod' = IF silent THEN cod_pause(cod_process(cod, n)) ELSE cod_process(cod, n)
            /\ Send(IF starts THEN <<"VAD_START">> ELSE <<>>)
            /\ sent' = IF starts THEN 0 ELSE sent
  /\ UNCHANGED <<wordVars, thread_exit, dying, config, det, cur, vad_flag, has_vad, need_asr,
                 awaked, ctl, cutShort, asleep, lateData, seen>>

(* Mutant: a SLEEP does not stop the stream. *)
Cancels_awake == vad_enable /\ istoolong(cod)
Cancels == (vad_enable /\ istoolong(cod)) \/ (~awaked /\ ~need_asr)

(* ... its cancellation, too long or unwanted ... *)
frm_cancel ==
  /\ frm = "cancel" /\ frm' = "rest"
  /\ IF data_output /\ ~canceled /\ Cancels
     THEN /\ canceled' = TRUE /\ cod' = cod_pause(cod)
          /\ vad_flag' = (vad_flag /\ vad_enable)
          /\ data_output' = vad_enable
          /\ sent' = 0 /\ Send(<<"VAD_CANCEL">>)
     ELSE UNCHANGED <<canceled, cod, vad_flag, data_output, sent, voice_events, hub>>
  /\ UNCHANGED <<wordVars, thread_exit, dying, config, det, cur, has_vad, need_asr, awaked, ctl,
                 cutShort, asleep, lateData, seen>>

(* Mutant: the end of a cancelled stream is reported. *)
Ends_always(off, over) == off /\ vad_enable /\ data_output
Ends(off, over) == off /\ vad_enable /\ data_output /\ ~over

(* ... its resumption, its data, and the end of the voice. *)
frm_rest ==
  /\ frm \in {"rest", "off"} /\ frm' = "idle"
  /\ LET in == frm = "rest"
         resumes == in /\ data_output /\ vad_enable /\ canceled /\ awaked /\ isneedresume(cod)
         over == canceled /\ ~resumes
         has == in /\ data_output /\ ~over /\ getdatalen(cod) > 0 /\ (cur.type = "none" \/ cur.off)
         ends == Ends(cur.off, over)
         before == IF resumes THEN 0 ELSE sent
         after == IF has THEN before + getdatalen(cod) ELSE before IN
     /\ canceled' = over
     /\ cod' = [in |-> cod.in, cur |-> IF has THEN cod_coded(cod) ELSE cod.cur,
                pausedAt |-> IF resumes THEN -1 ELSE cod.pausedAt]
     /\ Send((IF resumes THEN <<"VAD_START">> ELSE <<>>) \o (IF has THEN <<"VAD_DATA">> ELSE <<>>)
             \o (IF ends THEN <<"VAD_END">> ELSE <<>>))
     /\ sent' = IF cur.off THEN 0 ELSE after
     /\ cutShort' = (cutShort \/ (ends /\ after # cod_coded(cod)))
     /\ lateData' = (lateData \/ (has /\ asleep = "frame"))
  /\ vad_flag' = (vad_flag /\ ~cur.off)
  /\ need_asr' = (need_asr /\ ~(cur.off /\ vad_enable))
  /\ data_output' = (data_output /\ ~cur.off)
  /\ det' = "none" /\ cur' = NoFrame
  /\ UNCHANGED <<wordVars, thread_exit, dying, config, has_vad, awaked, ctl, asleep, seen>>

processfrm == frm_detect \/ frm_info \/ frm_vad \/ frm_woken \/ frm_out \/ frm_cancel \/ frm_rest

---------------------------------------------------------------------------
(* control, by any thread: one SLEEP at a time, AWAKE also between its two  *)
(* writes.                                                                 *)
control_awake ==
  /\ ~thread_exit
  /\ need_asr' = TRUE /\ asleep' = IF asleep = "overtaken" THEN asleep ELSE "no"
  /\ UNCHANGED <<wordVars, hubVars, config, frame, vad_flag, has_vad, awaked, canceled, data_output, cod,
                 ctl, sent, cutShort, lateData, seen>>

control_sleep ==
  /\ ctl = "idle" /\ ~thread_exit
  /\ awaked' = FALSE /\ ctl' = "sleep"
  /\ UNCHANGED <<wordVars, hubVars, config, frame, vad_flag, has_vad, need_asr, canceled, data_output, cod,
                 history, seen>>

control_slept ==
  /\ ctl = "sleep"
  /\ need_asr' = FALSE /\ ctl' = "idle" /\ asleep' = IF asleep = "overtaken" THEN "no" ELSE "asked"
  /\ UNCHANGED <<wordVars, hubVars, config, frame, vad_flag, has_vad, awaked, canceled, data_output, cod,
                 sent, cutShort, lateData, seen>>

control == control_awake \/ control_sleep \/ control_slept

(* The callers of the words. *)
change(c) ==
  /\ ~thread_exit /\ words(c)
  /\ UNCHANGED <<hubVars, config, frame, flags, ctl, history, seen>>

(* The thread of the hub, as the application sees its calls; the histories *)
(* follow the stream with the local VAD, without it no end is reported.    *)
callback ==
  /\ thread_loop
  /\ LET e == IF vad_enable /\ Called THEN Head(voice_events) ELSE "none" IN
     /\ misordered' = (misordered \/ (e = "VAD_START" /\ client = "open")
                         \/ (e \in {"VAD_DATA", "VAD_END"} /\ client = "closed"))
     /\ client' = CASE e = "none" -> client
                    [] e \in {"VAD_START", "VAD_DATA"} -> "open"
                    [] OTHER -> "closed"
  /\ UNCHANGED <<wordVars, config, frame, flags, ctl, history>>

(* VsysActivation_Free, when no call is under way. *)
free ==
  /\ frm = "idle" /\ ctl = "idle" /\ \A c \in Callers : wpc[c].at = "idle"
  /\ hub_exit
  /\ UNCHANGED <<wordVars, config, frame, flags, ctl, history, seen>>

destroy == hub_destroy /\ UNCHANGED <<wordVars, config, frame, flags, ctl, history, seen>>

Next ==
  \/ processfrm
  \/ control
  \/ \E c \in Callers : change(c)
  \/ callback
  \/ free
  \/ destroy

Spec == Init /\ [][Next]_vars

(* Frames keep coming until the instance is freed, voice has data again    *)
(* and again, and the hub's thread runs ...                                *)
FairSpec ==
  /\ Spec
  /\ WF_vars(processfrm) /\ SF_vars(frm_out /\ cod'.in > cod.in)
  /\ WF_vars(callback)

(* ... and every call that began goes on, that of Free included.           *)
FairCallsSpec ==
  /\ FairSpec
  /\ WF_vars(\E c \in Callers : change(c) /\ wordCalls' = wordCalls)
  /\ WF_vars(destroy)

---------------------------------------------------------------------------
(* With the local VAD the application sees whole streams: a start, data,   *)
(* then an end or a cancel, whatever control() does in between             *)
(* (voice_activation.cpp:397-463); without it no end is reported.          *)
StreamsPaired == vad_enable => ~misordered

(* The asserts of r2mem_cod: no data is asked of a paused one              *)
(* (legacy/r2mem_cod.cpp:93, 119).                                         *)
CodAsserts == frm = "rest" /\ vad_flag /\ data_output /\ ~canceled => ~paused(cod)

(* A stream carries its voice from the beginning and to the end, the part  *)
(* before a resumption included (legacy/r2mem_cod.cpp:84).                 *)
StreamsAreWhole ==
  /\ frm = "idle" /\ data_output /\ ~canceled /\ vad_flag => sent = cod.cur
  /\ ~cutShort

(* After a SLEEP no data is sent from the second frame on, unless a wake   *)
(* word comes, during it or later, or AWAKE (voice_activation.cpp:243-246, *)
(* 423-426).                                                               *)
SleepStopsData == ~lateData

(* With the local VAD every stream the application has seen start ends, or *)
(* the instance is freed (voice_activation.cpp:419, 459).                  *)
StreamsEnd == (client = "open" /\ vad_enable) ~> (client = "closed" \/ thread_exit)

---------------------------------------------------------------------------
(* What does not hold; see activation_departs.cfg.                         *)

(* Only a stream that has started is cancelled: reset_asr clears canceled  *)
(* before it tests it (voice_activation.cpp:321, 327).                     *)
CancelsOpenStream ==
  [][hub = "test" /\ Called /\ voice_events' = Tail(voice_events) /\ Head(voice_events) = "VAD_CANCEL"
     => client = "open"]_vars

(* The word found is the word looked up (voice_activation.cpp:338, 344). *)
WordIsKnown == frm = "info" => det \in engineWords

(* A wake and a SLEEP leave all of the one or all of the other: each makes *)
(* two writes (voice_activation.cpp:244-245, 380-381).                     *)
WakeIsWhole == frm = "out" /\ cur.type = "awake" /\ ctl = "idle" => awaked = need_asr

(* Free returns (event_hub.cpp:22-25). *)
FreeReturns == (dying # "no") ~> (dying = "done")
==============================================================================
