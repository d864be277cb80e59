---------------------------- MODULE MCTaskRelay ----------------------------
(* Model values for TaskRelay. *)
EXTENDS TaskRelay

CONSTANTS f1, h1, v1, ask, answer, note

MCTaskIds == {f1} \X {"request", "response"}
MCActors == {f1, h1}
MCMessages == {ask, answer, note}

=============================================================================
