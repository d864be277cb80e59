----------------------------- MODULE MsgStream -----------------------------
(***************************************************************************)
(* The message stream of the portal: GET /api/messages/stream.             *)
(*                                                                         *)
(* Every goroutine that changes a task_logs row (createTaskWithID,         *)
(* updateTaskStatus, appendMessage) calls notifyMsgStream after the commit.*)
(* A subscriber is one running handleMessageStream: it owns a buffered     *)
(* channel of capacity 4, registered in msgStreamConns under the           *)
(* channel_id it asked for ("" for every channel).  A notification is a    *)
(* non-blocking send, so it is dropped when the buffer is full.            *)
(*                                                                         *)
(* A row's content is abstracted to the number of commits its channel has  *)
(* had: ver[ch].  What a subscriber was shown is the version it was shown. *)
(***************************************************************************)
EXTENDS Naturals, Sequences, FiniteSets

CONSTANTS
  Channels,    \* channel ids that occur in task_logs
  Global,      \* the channel_id "" of a subscriber to every channel
  Clients,     \* slots for running handleMessageStream handlers
  Writers,     \* goroutines that commit a row and then notify
  QCap,        \* capacity of a subscriber's buffer (4 in the code)
  MaxVer,      \* bound: commits to each channel
  ReadMayFail  \* whether ListByChannel may return an error

ASSUME ChannelsAssumption == Global \notin Channels
ASSUME QCapAssumption == QCap \in Nat \ {0}
ASSUME MaxVerAssumption == MaxVer \in [Channels -> Nat]
ASSUME ReadMayFailAssumption == ReadMayFail \in BOOLEAN

VARIABLES
  ver,     \* [Channels -> Nat]: commits to the channel's task_logs rows
  conns,   \* msgStreamConns: channel id (or Global) -> registered clients
  cpc,     \* client handler: "off", "live" (in select), "woken", "leaving"
  sub,     \* the channel_id the client asked for
  queue,   \* the client's buffered channel
  got,     \* the value a woken client has received
  seen,    \* history: the version of each channel the client knows of
  missed,  \* history: the client's last ListByChannel failed
  wpc,     \* writer: "idle", "committed", "notifying" (holds msgStreamMu.RLock)
  wch,     \* the channel the writer committed to
  todo     \* subscribers the notifying writer has still to offer to

clientVars == <<cpc, sub, queue, got, seen, missed>>
writerVars == <<wpc, wch, todo>>
vars == <<ver, conns, cpc, sub, queue, got, seen, missed, wpc, wch, todo>>

Topics == Channels \cup {Global}

(* Operators whose names start with Bad are seeded faults: each replaces the*)
(* definition after it to show that the properties can see such a bug.     *)

(* msgStreamMu is read-locked while some writer runs notifyMsgStream.      *)
BadReadLocked == FALSE
ReadLocked == \E w \in Writers : wpc[w] = "notifying"

TypeOK ==
  /\ ver \in [Channels -> Nat]
  /\ conns \in [Topics -> SUBSET Clients]
  /\ cpc \in [Clients -> {"off", "live", "woken", "leaving"}]
  /\ sub \in [Clients -> Topics]
  /\ queue \in [Clients -> Seq(Channels)]
  /\ got \in [Clients -> Topics]
  /\ seen \in [Clients -> [Channels -> Nat]]
  /\ missed \in [Clients -> BOOLEAN]
  /\ wpc \in [Writers -> {"idle", "committed", "notifying"}]
  /\ wch \in [Writers -> Topics]
  /\ todo \in [Writers -> SUBSET Clients]

Init ==
  /\ ver = [ch \in Channels |-> 0]
  /\ conns = [t \in Topics |-> {}]
  /\ cpc = [c \in Clients |-> "off"]
  /\ sub = [c \in Clients |-> Global]
  /\ queue = [c \in Clients |-> <<>>]
  /\ got = [c \in Clients |-> Global]
  /\ seen = [c \in Clients |-> [ch \in Channels |-> 0]]
  /\ missed = [c \in Clients |-> FALSE]
  /\ wpc = [w \in Writers |-> "idle"]
  /\ wch = [w \in Writers |-> Global]
  /\ todo = [w \in Writers |-> {}]

-----------------------------------------------------------------------------
(* Writers.                                                                *)

(* A row of channel ch is inserted or updated.                             *)
Commit(w, ch) ==
  /\ wpc[w] = "idle"
  /\ ver[ch] < MaxVer[ch]
  /\ ver' = [ver EXCEPT ![ch] = @ + 1]
  /\ wpc' = [wpc EXCEPT ![w] = "committed"]
  /\ wch' = [wch EXCEPT ![w] = ch]
  /\ UNCHANGED <<conns, clientVars, todo>>

(* The subscribers of the channel, and those of every channel.             *)
BadRecipients(ch) == conns[Global]
Recipients(ch) == conns[ch] \cup conns[Global]

(* notifyMsgStream takes the read lock: the maps cannot change until it    *)
(* returns, so the subscribers it will offer to are fixed here.            *)
BeginNotify(w) ==
  /\ wpc[w] = "committed"
  /\ wpc' = [wpc EXCEPT ![w] = "notifying"]
  /\ todo' = [todo EXCEPT ![w] = Recipients(wch[w])]
  /\ UNCHANGED <<ver, conns, clientVars, wch>>

BadHasRoom(c) == Len(queue[c]) + 1 < QCap
HasRoom(c) == Len(queue[c]) < QCap

(* What is sent: the channel that changed, not the receiver's channel_id.  *)
Notice(w, c) == wch[w]

(* One non-blocking send.  Subscribers of the channel come before global   *)
(* ones; within a map the order is arbitrary.                              *)
Offer(w, c) ==
  /\ wpc[w] = "notifying"
  /\ c \in todo[w]
  /\ sub[c] = Global => \A d \in todo[w] : sub[d] = Global
  /\ queue' = IF HasRoom(c) THEN [queue EXCEPT ![c] = Append(@, Notice(w, c))]
                          ELSE queue
  /\ todo' = [todo EXCEPT ![w] = @ \ {c}]
  /\ UNCHANGED <<ver, conns, cpc, sub, got, seen, missed, wpc, wch>>

EndNotify(w) ==
  /\ wpc[w] = "notifying"
  /\ todo[w] = {}
  /\ wpc' = [wpc EXCEPT ![w] = "idle"]
  /\ wch' = [wch EXCEPT ![w] = Global]
  /\ UNCHANGED <<ver, conns, clientVars, todo>>

-----------------------------------------------------------------------------
(* Subscribers.                                                            *)

(* A request arrives; the handler makes its channel and registers it.  No  *)
(* snapshot is sent: the client knows what it fetched by then.             *)
Subscribe(c, t) ==
  /\ cpc[c] = "off"
  /\ ~ReadLocked
  /\ conns' = [conns EXCEPT ![t] = @ \cup {c}]
  /\ cpc' = [cpc EXCEPT ![c] = "live"]
  /\ sub' = [sub EXCEPT ![c] = t]
  /\ queue' = [queue EXCEPT ![c] = <<>>]
  /\ seen' = [seen EXCEPT ![c] = ver]
  /\ UNCHANGED <<ver, got, missed, writerVars>>

(* The select receives from the buffer.                                    *)
Receive(c) ==
  /\ cpc[c] = "live"
  /\ queue[c] # <<>>
  /\ got' = [got EXCEPT ![c] = Head(queue[c])]
  /\ queue' = [queue EXCEPT ![c] = Tail(@)]
  /\ cpc' = [cpc EXCEPT ![c] = "woken"]
  /\ UNCHANGED <<ver, conns, sub, seen, missed, writerVars>>

(* sendChannelMessages re-reads the channel's list and writes it out.      *)
SendMessages(c) ==
  /\ cpc[c] = "woken"
  /\ sub[c] # Global
  /\ seen' = [seen EXCEPT ![c][sub[c]] = ver[sub[c]]]
  /\ missed' = [missed EXCEPT ![c] = FALSE]
  /\ cpc' = [cpc EXCEPT ![c] = "live"]
  /\ got' = [got EXCEPT ![c] = Global]
  /\ UNCHANGED <<ver, conns, sub, queue, writerVars>>

(* ListByChannel fails: sendChannelMessages returns and nothing is sent.   *)
ReadFails(c) ==
  /\ ReadMayFail
  /\ cpc[c] = "woken"
  /\ sub[c] # Global
  /\ missed' = [missed EXCEPT ![c] = TRUE]
  /\ cpc' = [cpc EXCEPT ![c] = "live"]
  /\ got' = [got EXCEPT ![c] = Global]
  /\ UNCHANGED <<ver, conns, sub, queue, seen, writerVars>>

(* A global subscriber is sent the id of the channel that changed.         *)
SendNotice(c) ==
  /\ cpc[c] = "woken"
  /\ sub[c] = Global
  /\ seen' = [seen EXCEPT ![c][got[c]] = ver[got[c]]]
  /\ cpc' = [cpc EXCEPT ![c] = "live"]
  /\ got' = [got EXCEPT ![c] = Global]
  /\ UNCHANGED <<ver, conns, sub, queue, missed, writerVars>>

(* The client goes away: the select takes req.Context().Done().            *)
Disconnect(c) ==
  /\ cpc[c] = "live"
  /\ cpc' = [cpc EXCEPT ![c] = "leaving"]
  /\ UNCHANGED <<ver, conns, sub, queue, got, seen, missed, writerVars>>

BadRemaining(c) == [conns EXCEPT ![Global] = @ \ {c}]
Remaining(c) == [conns EXCEPT ![sub[c]] = @ \ {c}]

(* The deferred removeMsgStreamConn; the handler's locals are gone.        *)
Unsubscribe(c) ==
  /\ cpc[c] = "leaving"
  /\ ~ReadLocked
  /\ conns' = Remaining(c)
  /\ cpc' = [cpc EXCEPT ![c] = "off"]
  /\ sub' = [sub EXCEPT ![c] = Global]
  /\ queue' = [queue EXCEPT ![c] = <<>>]
  /\ seen' = [seen EXCEPT ![c] = [ch \in Channels |-> 0]]
  /\ missed' = [missed EXCEPT ![c] = FALSE]
  /\ UNCHANGED <<ver, got, writerVars>>

-----------------------------------------------------------------------------
WriterStep(w) ==
  \/ BeginNotify(w)
  \/ \E c \in Clients : Offer(w, c)
  \/ EndNotify(w)

HandlerStep(c) ==
  \/ Receive(c)
  \/ SendMessages(c)
  \/ ReadFails(c)
  \/ SendNotice(c)

Next ==
  \/ \E w \in Writers : WriterStep(w) \/ \E ch \in Channels : Commit(w, ch)
  \/ \E c \in Clients : HandlerStep(c) \/ Disconnect(c) \/ Unsubscribe(c)
  \/ \E c \in Clients, t \in Topics : Subscribe(c, t)

Spec == Init /\ [][Next]_vars

(* Goroutines that can run do run: a notifying writer never blocks, and a  *)
(* handler blocks only on its select.  A pending Lock of an RWMutex holds  *)
(* back new readers, so a leaving handler gets it although notifiers come  *)
(* and go.  Nothing is assumed of commits, subscriptions, disconnections.  *)
FairSpec ==
  /\ Spec
  /\ \A w \in Writers : WF_vars(WriterStep(w))
  /\ \A c \in Clients : WF_vars(HandlerStep(c)) /\ SF_vars(Unsubscribe(c))

-----------------------------------------------------------------------------
(* Properties.                                                             *)

Stale(c, ch) == seen[c][ch] < ver[ch]

(* Some writer has committed to ch and has not yet offered to c.           *)
OfferDue(c, ch) ==
  \E w \in Writers :
    /\ wch[w] = ch
    /\ wpc[w] = "committed" \/ (wpc[w] = "notifying" /\ c \in todo[w])

(* No lost wake-up: a subscriber of one channel that has not been shown    *)
(* the channel's last commit has a notification in its buffer, is about to *)
(* re-read the list, or will still be offered one - although a full buffer *)
(* drops notifications (notifyMsgStream's default branch).  The exception  *)
(* is a re-read that failed, after which nothing is queued again.          *)
NoLostWakeup ==
  \A c \in Clients :
    cpc[c] = "live" /\ sub[c] # Global /\ Stale(c, sub[c]) /\ ~missed[c]
      => queue[c] # <<>> \/ OfferDue(c, sub[c])

(* The registry holds exactly the running handlers, each under its own     *)
(* channel: no entry survives its handler (removeMsgStreamConn).           *)
RegistryExact ==
  \A c \in Clients, t \in Topics :
    c \in conns[t] <=> cpc[c] # "off" /\ sub[c] = t

(* A notifier never sends on the buffer of a handler that has returned, so *)
(* a reused slot never receives what was meant for its predecessor.        *)
OffersOnlyToRegistered ==
  \A w \in Writers : \A c \in todo[w] :
    cpc[c] # "off" /\ sub[c] \in {wch[w], Global}

(* The stream implements the feed: buffers that drop, the registry and its *)
(* lock, and the gap between a commit and its notification are invisible.  *)
Feed == INSTANCE ChannelFeed
  WITH open <- {c \in Clients : cpc[c] # "off"}, known <- seen, failed <- missed

FeedSafe == Feed!SafeSpec
FeedSpec == Feed!Spec

=============================================================================
