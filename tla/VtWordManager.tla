---------------------------- MODULE VtWordManager ----------------------------
(***************************************************************************)
(* The trigger words of vsys-activation (vt_word_manager.cpp): a list      *)
(* guarded by vt_mutex, copied to the engine after every change.  Each of  *)
(* has_vt_word, save_vt_word and sync_vt_word takes the mutex of its own,  *)
(* so the calls of several threads interleave between them.  The engine    *)
(* may refuse a list: the caller gets -1 and word_infos stays changed.     *)
(***************************************************************************)
EXTENDS Naturals, Sequences, FiniteSets, SequencesExt

CONSTANTS
  Words,         (* the words users add                                    *)
  Callers,       (* threads that add and remove                            *)
  MaxWordCalls   (* bound: calls of add_vt_word and remove_vt_word         *)

Builtin == "builtin" (* the word enter_vbv gives the engine                *)

VARIABLES
  word_infos,
  engineWords,   (* the words the engine listens for                       *)
  wpc,           (* what each caller does                                  *)
  wordCalls,
  accepted       (* history: the last sync_vt_word has been accepted       *)

wordVars == <<word_infos, engineWords, wpc, wordCalls, accepted>>

WordSteps == {"idle", "save", "sync", "spin"}

WordsTypeOK ==
  /\ word_infos \in Seq(Words)
  /\ engineWords \subseteq Words \cup {Builtin}
  /\ wpc \in [Callers -> [at : WordSteps, word : Words \cup {Builtin}]]
  /\ wordCalls \in 0 .. MaxWordCalls
  /\ accepted \in BOOLEAN

Idle == [at |-> "idle", word |-> Builtin]

WordsInit ==
  /\ word_infos = <<>> /\ engineWords = {Builtin}
  /\ wpc = [c \in Callers |-> Idle] /\ wordCalls = 0 /\ accepted = FALSE

(* A caller that searches for ever does so under vt_mutex. *)
VtMutexFree == \A c \in Callers : wpc[c].at # "spin"

At(c, step, w) == wpc' = [wpc EXCEPT ![c] = [at |-> step, word |-> w]]

(* add_vt_word: has_vt_word ...  A type that is not valid returns -1 like  *)
(* a word that exists.                                                     *)
add_vt_word(c, w) ==
  /\ wpc[c].at = "idle" /\ wordCalls < MaxWordCalls /\ VtMutexFree
  /\ wordCalls' = wordCalls + 1
  /\ IF w \in ToSet(word_infos) THEN UNCHANGED wpc ELSE At(c, "save", w)
  /\ UNCHANGED <<word_infos, engineWords, accepted>>

(* ... save_vt_word: the phones of the word are found and it is stored, or *)
(* vt_word_formation fails and the call ends ...                           *)
save_vt_word(c) ==
  /\ wpc[c].at = "save"
  /\ \/ /\ VtMutexFree
        /\ word_infos' = Append(word_infos, wpc[c].word)
        /\ At(c, "sync", wpc[c].word)
     \/ wpc' = [wpc EXCEPT ![c] = Idle] /\ UNCHANGED word_infos
  /\ UNCHANGED <<engineWords, wordCalls, accepted>>

(* Mutant: the removal is not passed on. *)
Erased_unsynced == "idle"
(* What follows the removal of a word that was found. *)
Erased == "sync"

(* remove_vt_word: the iterator is never advanced, so only the first word  *)
(* is found and any other one makes the loop endless.                      *)
remove_vt_word(c, w) ==
  /\ wpc[c].at = "idle" /\ wordCalls < MaxWordCalls /\ VtMutexFree
  /\ wordCalls' = wordCalls + 1
  /\ IF word_infos = <<>>
     THEN UNCHANGED <<word_infos, wpc>>
     ELSE IF Head(word_infos) = w
          THEN word_infos' = Tail(word_infos) /\ At(c, Erased, w)
          ELSE At(c, "spin", w) /\ UNCHANGED word_infos
  /\ UNCHANGED <<engineWords, accepted>>

(* sync_vt_word: the copy and r2_vbv_setwords, under vt_mutex.  An engine  *)
(* that refuses is taken to keep the words it had.                         *)
sync_vt_word(c) ==
  /\ wpc[c].at = "sync" /\ VtMutexFree
  /\ \/ engineWords' = ToSet(word_infos) /\ accepted' = TRUE
     \/ accepted' = FALSE /\ UNCHANGED engineWords
  /\ wpc' = [wpc EXCEPT ![c] = Idle]
  /\ UNCHANGED <<word_infos, wordCalls>>

words(c) ==
  \/ \E w \in Words : add_vt_word(c, w) \/ remove_vt_word(c, w)
  \/ save_vt_word(c)
  \/ sync_vt_word(c)

(* Once every call has returned the engine listens for the words of the    *)
(* list unless it refused the last one, whatever the order of the callers: *)
(* an accepted call also makes up for the changes refused before it, of    *)
(* whichever caller (vt_word_manager.cpp:36, 57, 270).                     *)
WordsInForce ==
  accepted /\ (\A c \in Callers : wpc[c].at = "idle") => engineWords = ToSet(word_infos)

---------------------------------------------------------------------------
(* What does not hold; see activation_departs.cfg.                         *)

(* A word is there once: two callers pass has_vt_word before either saves  *)
(* (vt_word_manager.cpp:31, 35).                                           *)
WordsAreUnique == IsInjective(word_infos)

(* The removal of a word returns 0 or -1 (include/vsys_activation.h:96). *)
RemoveReturns == \A c \in Callers : (wpc[c].at = "spin") ~> (wpc[c].at = "idle")

(* The engine listens for the list once every call has returned: not after *)
(* a refusal, since word_infos is changed before and not put back          *)
(* (vt_word_manager.cpp:47, 270-273, 282).                                 *)
ListIsInForce ==
  word_infos # <<>> /\ (\A c \in Callers : wpc[c].at = "idle") => engineWords = ToSet(word_infos)

(* A word that was not taken can be added again: not after a refusal,      *)
(* has_vt_word finds it (vt_word_manager.cpp:31).                          *)
RetryReachesEngine ==
  [][\A c \in Callers, w \in Words :
       add_vt_word(c, w) /\ w \notin engineWords /\ (\A d \in Callers : wpc[d].at = "idle")
       => wpc'[c].at = "save"]_wordVars

(* Adding a word does not take the built-in one away (vt_word_manager.cpp  *)
(* :270, voice_activation.cpp:201).                                        *)
BuiltinIsKept == Builtin \in engineWords
==============================================================================
