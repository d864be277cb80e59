---------------------------- MODULE MCMsgStream ----------------------------
(* Model values for MsgStream. *)
EXTENDS MsgStream, TLC

CONSTANTS ch1, ch2

\* Enough commits to ch1 to fill a buffer of one and drop a notification.
MCMaxVer == ch1 :> 2 @@ ch2 :> 1

=============================================================================
