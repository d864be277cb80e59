--------------------------- MODULE MCTaskForward ---------------------------
(* Model values for TaskForward. *)
EXTENDS TaskForward

CONSTANTS t1, a1, a2, a3, ask, answer

MCActors == TaskIds \X Agents
MCMessages == {ask, answer}

=============================================================================
