----------------------------- MODULE TtsPromise -----------------------------
(***************************************************************************)
(* What the text-to-speech SDK promises a client that polls: the requests  *)
(* are answered one after the other in the order speak() numbered them;    *)
(* each gets START, its voice packets in order and END, or is cut short,   *)
(* at any point, by one CANCELLED or ERROR; nothing follows that.          *)
(***************************************************************************)
EXTENDS Naturals, Sequences

CONSTANTS MaxId, MaxChunks, Errors

VARIABLES
  asked,   (* number of requests accepted                                  *)
  heard    (* the results returned by poll() for each of them              *)

promiseVars == <<asked, heard>>

Results == [type : {"START", "DATA", "END", "CANCELLED", "ERROR"},
            voice : 0 .. MaxChunks, err : Errors]

Over(h) == h # <<>> /\ h[Len(h)].type \in {"END", "CANCELLED", "ERROR"}

(* r may follow the results h. *)
MayFollow(h, r) ==
  /\ ~Over(h)
  /\ \/ h = <<>> /\ r.type = "START"
     \/ h # <<>> /\ r.type = "DATA" /\ r.voice = Len(h)
     \/ h # <<>> /\ r.type = "END"
     \/ r.type \in {"CANCELLED", "ERROR"}

PromiseInit == asked = 0 /\ heard = [i \in 1 .. MaxId |-> <<>>]

Ask == asked < MaxId /\ asked' = asked + 1 /\ UNCHANGED heard

Tell(i, r) ==
  /\ i <= asked
  /\ \A j \in 1 .. i - 1 : Over(heard[j])
  /\ MayFollow(heard[i], r)
  /\ heard' = [heard EXCEPT ![i] = Append(@, r)]
  /\ UNCHANGED asked

PromiseNext == Ask \/ \E i \in 1 .. MaxId, r \in Results : Tell(i, r)

PromiseSpec == PromiseInit /\ [][PromiseNext]_promiseVars

=============================================================================
