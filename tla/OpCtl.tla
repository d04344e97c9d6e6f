-------------------------------- MODULE OpCtl --------------------------------
(***************************************************************************)
(* OperationController (common/op_ctl.h): the operations whose outcome the *)
(* client has not polled yet, oldest first, and the current one, the one   *)
(* being exchanged with the server.  current_op_ points into the list: it  *)
(* is kept as an index, 0 for NULL.  Every method is an action on these    *)
(* variables; its callers hold the owner's resp_mutex_ unless said so.     *)
(*                                                                         *)
(* Time is kept per operation: idle once NOOP_TIMEOUT has passed since     *)
(* begin_timepoint, silent once NORESP_TIMEOUT has passed since            *)
(* lastest_recv_timepoint.                                                 *)
(***************************************************************************)
EXTENDS Naturals, Sequences

VARIABLES
  operations,  (* operations_                                              *)
  current,     (* current_op_: an index into operations, or 0              *)
  op_cond      (* a thread sleeps in op_cond_                              *)

ctlVars == <<operations, current, op_cond>>

Status == {"START", "STREAMING", "END", "CANCELLED", "ERROR"}
NoError == "none"

Operation(I, E) == [id : I, status : Status, error : E \cup {NoError},
                    calc : BOOLEAN, idle : BOOLEAN, silent : BOOLEAN]

NewOp(id, status) == [id |-> id, status |-> status, error |-> NoError,
                      calc |-> FALSE, idle |-> FALSE, silent |-> FALSE]

CtlInit == operations = <<>> /\ current = 0 /\ op_cond = FALSE

(* Mutant: an operation cancelled before it was sent is forgotten. *)
new_op_forgets(id, status) ==
  /\ operations' = IF status = "CANCELLED" THEN operations
                   ELSE Append(operations, NewOp(id, status))
  /\ current' = IF status = "START" THEN Len(operations) + 1 ELSE current
  /\ UNCHANGED op_cond

new_op(id, status) ==
  /\ operations' = Append(operations, NewOp(id, status))
  /\ current' = IF status = "START" THEN Len(operations) + 1 ELSE current
  /\ UNCHANGED op_cond

Failed(op, err) == [op EXCEPT !.status = "ERROR", !.error = err]

(* Mutant: the sending thread is not notified. *)
set_op_error_silent(err) ==
  IF current = 0 THEN UNCHANGED ctlVars
  ELSE /\ operations' = [operations EXCEPT ![current] = Failed(@, err)]
       /\ current' = 0
       /\ UNCHANGED op_cond

set_op_error(err) ==
  IF current = 0 THEN UNCHANGED ctlVars
  ELSE /\ operations' = [operations EXCEPT ![current] = Failed(@, err)]
       /\ current' = 0
       /\ op_cond' = FALSE

(* The status finish_op leaves behind. *)
Finished(status) == IF status \in {"CANCELLED", "ERROR"} THEN status ELSE "END"

finish_op ==
  IF current = 0 THEN UNCHANGED ctlVars
  ELSE /\ operations' = [operations EXCEPT ![current].status = Finished(@)]
       /\ current' = 0
       /\ op_cond' = FALSE

IsCurrent(id) == current # 0 /\ operations[current].id = id

(* Mutant: an operation whose answer is complete is left alone. *)
HitUnfinished(id, i) == (id = 0 \/ operations[i].id = id) /\ operations[i].status # "END"

(* id <= 0 cancels every operation; otherwise the first one with that id. *)
Hit(id, i) ==
  \/ id = 0
  \/ operations[i].id = id /\ \A j \in 1 .. i - 1 : operations[j].id # id

CancelsCurrent(id) ==
  current # 0 /\ \E i \in 1 .. Len(operations) :
                   Hit(id, i) /\ operations[i].id = operations[current].id

cancel_op(id) ==
  /\ operations' = [i \in 1 .. Len(operations) |->
                      IF Hit(id, i) THEN [operations[i] EXCEPT !.status = "CANCELLED"]
                      ELSE operations[i]]
  /\ current' = IF CancelsCurrent(id) THEN 0 ELSE current
  /\ op_cond' = (op_cond /\ ~CancelsCurrent(id))

(* remove_front_op: an operation only leaves the list when it is over, and  *)
(* then it is not current (OneInFlight); the index follows the others.      *)
remove_front_op ==
  /\ operations' = IF operations = <<>> THEN <<>> ELSE Tail(operations)
  /\ current' = IF current = 0 THEN 0 ELSE current - 1
  /\ UNCHANGED op_cond

(* The operation once refresh_op_time has run on it. *)
Refreshed(op, recv) == [op EXCEPT !.calc = TRUE, !.idle = FALSE,
                                  !.silent = IF recv THEN FALSE ELSE @]

refresh_op_time(recv) ==
  /\ operations' = IF current = 0 THEN operations
                   ELSE [operations EXCEPT ![current] = Refreshed(@, recv)]
  /\ UNCHANGED <<current, op_cond>>

(* op_timeout() = 0 *)
Expired == current # 0 /\ operations[current].calc
                       /\ (operations[current].idle \/ operations[current].silent)

(* The clock.  begin_timepoint is only read once calc_op_timeout is set.   *)
GrowsIdle ==
  /\ current # 0 /\ operations[current].calc /\ ~operations[current].idle
  /\ operations' = [operations EXCEPT ![current].idle = TRUE]
  /\ UNCHANGED <<current, op_cond>>

GrowsSilent ==
  /\ current # 0 /\ ~operations[current].silent
  /\ operations' = [operations EXCEPT ![current].silent = TRUE]
  /\ UNCHANGED <<current, op_cond>>

=============================================================================
