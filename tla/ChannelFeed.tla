---------------------------- MODULE ChannelFeed ----------------------------
(***************************************************************************)
(* What the message stream promises its readers, without buffers,          *)
(* registries or notifications: whoever follows one channel and stays      *)
(* learns of every commit to it, unless a read of the list fails.  MsgStream*)
(* implements it.                                                          *)
(***************************************************************************)
EXTENDS Naturals

CONSTANTS Channels, Global, Clients

VARIABLES
  ver,     \* commits per channel
  open,    \* the clients whose stream is open
  sub,     \* what an open client follows: a channel, or Global
  known,   \* the version of each channel the client knows of
  failed   \* the client's last read failed

vars == <<ver, open, sub, known, failed>>

Topics == Channels \cup {Global}

Init ==
  /\ ver = [ch \in Channels |-> 0]
  /\ open = {}
  /\ sub = [c \in Clients |-> Global]
  /\ known = [c \in Clients |-> [ch \in Channels |-> 0]]
  /\ failed = [c \in Clients |-> FALSE]

Publish(ch) ==
  /\ ver' = [ver EXCEPT ![ch] = @ + 1]
  /\ UNCHANGED <<open, sub, known, failed>>

Open(c, t) ==
  /\ c \notin open
  /\ open' = open \cup {c}
  /\ sub' = [sub EXCEPT ![c] = t]
  /\ known' = [known EXCEPT ![c] = ver]
  /\ UNCHANGED <<ver, failed>>

\* A client learns of channels it follows, and then of their last commit.
Learn(c, ch) ==
  /\ c \in open
  /\ sub[c] \in {ch, Global}
  /\ known' = [known EXCEPT ![c][ch] = ver[ch]]
  /\ failed' = IF sub[c] = Global THEN failed ELSE [failed EXCEPT ![c] = FALSE]
  /\ UNCHANGED <<ver, open, sub>>

Fail(c) ==
  /\ c \in open
  /\ sub[c] # Global
  /\ failed' = [failed EXCEPT ![c] = TRUE]
  /\ UNCHANGED <<ver, open, sub, known>>

\* The client is gone, and with it all the portal knew of it.
Close(c) ==
  /\ c \in open
  /\ open' = open \ {c}
  /\ sub' = [sub EXCEPT ![c] = Global]
  /\ known' = [known EXCEPT ![c] = [ch \in Channels |-> 0]]
  /\ failed' = [failed EXCEPT ![c] = FALSE]
  /\ UNCHANGED ver

Next ==
  \/ \E ch \in Channels : Publish(ch)
  \/ \E c \in Clients, t \in Topics : Open(c, t)
  \/ \E c \in Clients, ch \in Channels : Learn(c, ch)
  \/ \E c \in Clients : Fail(c) \/ Close(c)

SafeSpec == Init /\ [][Next]_vars

\* The follower of ch is behind, and nothing has failed it.
Owed(c, ch) == c \in open /\ sub[c] = ch /\ known[c][ch] < ver[ch] /\ ~failed[c]

\* What is owed is paid: the client catches up, or it closes, or a read fails.
Spec ==
  /\ SafeSpec
  /\ \A c \in Clients, ch \in Channels :
       WF_vars(Owed(c, ch) /\ (Learn(c, ch) \/ Fail(c) \/ Close(c)))

=============================================================================
