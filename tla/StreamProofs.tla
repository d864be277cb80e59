---------------------------- MODULE StreamProofs ----------------------------
(***************************************************************************)
(* Proofs about the portal's two event streams, for any number of clients, *)
(* writers and requests and for any buffer capacity and place limit.       *)
(*                                                                         *)
(* The message stream (MsgStream): every invariant that TLC checks, and    *)
(* that it implements ChannelFeed.                                         *)
(*                                                                         *)
(* The log streams (LogStreams): their types, that streamTracker counts    *)
(* exactly the running handlers, and that the lines a client is shown are  *)
(* in order and, at the end of the log, complete.                          *)
(***************************************************************************)
EXTENDS MsgStream, LogStreams, FiniteSetTheorems, SequenceTheorems, TLAPS

(* What the writers and the woken handlers hold.                           *)
WritersHold ==
  \A w \in Writers :
    /\ wpc[w] # "idle" => wch[w] \in Channels
    /\ wpc[w] # "notifying" => todo[w] = {}

WokenByChannel == \A c \in Clients : cpc[c] = "woken" => got[c] \in Channels

Typed == TypeOK /\ WritersHold /\ WokenByChannel

Registered == Typed /\ RegistryExact /\ OffersOnlyToRegistered

IInv == Registered /\ NoLostWakeup

LEMMA AppendNotEmpty ==
  ASSUME NEW S, NEW q \in Seq(S), NEW e \in S
  PROVE Append(q, e) # <<>>
<1>1. Len(Append(q, e)) = Len(q) + 1 /\ Len(q) \in Nat
  OBVIOUS
<1>2. Len(<<>>) = 0
  OBVIOUS
<1> QED
  BY <1>1, <1>2

-----------------------------------------------------------------------------
(* Types.                                                                  *)

LEMMA TypedInit == Init => Typed
  BY ChannelsAssumption
  DEF Init, Typed, TypeOK, WritersHold, WokenByChannel, Topics

LEMMA TypedCommit ==
  ASSUME Typed, NEW w \in Writers, NEW ch \in Channels, Commit(w, ch)
  PROVE Typed'
  BY DEF Typed, TypeOK, WritersHold, WokenByChannel, Topics, Commit, clientVars

LEMMA TypedWriterStep ==
  ASSUME Typed, NEW w \in Writers, WriterStep(w)
  PROVE Typed'
<1> USE DEF Typed, TypeOK, WritersHold, WokenByChannel, Topics
<1>1. CASE BeginNotify(w)
  <2>1. Recipients(wch[w]) \in SUBSET Clients
    BY DEF Recipients
  <2> QED
    BY <1>1, <2>1 DEF BeginNotify, clientVars
<1>2. CASE \E c \in Clients : Offer(w, c)
  <2>1. PICK c \in Clients : Offer(w, c)
    BY <1>2
  <2>2. wch[w] \in Channels
    BY <2>1 DEF Offer
  <2>3. Append(queue[c], wch[w]) \in Seq(Channels)
    BY <2>2
  <2>4. queue' \in [Clients -> Seq(Channels)]
    BY <2>1, <2>3 DEF Offer, Notice
  <2>5. todo' \in [Writers -> SUBSET Clients]
    BY <2>1 DEF Offer
  <2> QED
    BY <2>1, <2>4, <2>5 DEF Offer
<1>3. CASE EndNotify(w)
  BY <1>3 DEF EndNotify, clientVars
<1> QED
  BY <1>1, <1>2, <1>3 DEF WriterStep

LEMMA TypedSubscribe ==
  ASSUME Typed, NEW c \in Clients, NEW t \in Topics, Subscribe(c, t)
  PROVE Typed'
  BY DEF Typed, TypeOK, WritersHold, WokenByChannel, Topics, Subscribe, writerVars

LEMMA TypedHandlerStep ==
  ASSUME Typed, NEW c \in Clients, HandlerStep(c)
  PROVE Typed'
<1> USE DEF Typed, TypeOK, WritersHold, WokenByChannel, Topics
<1>1. CASE Receive(c)
  <2>1. Head(queue[c]) \in Channels /\ Tail(queue[c]) \in Seq(Channels)
    BY <1>1 DEF Receive
  <2> QED
    BY <1>1, <2>1 DEF Receive, writerVars
<1>2. CASE SendMessages(c)
  BY <1>2 DEF SendMessages, writerVars
<1>3. CASE ReadFails(c)
  BY <1>3 DEF ReadFails, writerVars
<1>4. CASE SendNotice(c)
  BY <1>4 DEF SendNotice, writerVars
<1> QED
  BY <1>1, <1>2, <1>3, <1>4 DEF HandlerStep

LEMMA TypedLeave ==
  ASSUME Typed, NEW c \in Clients, Disconnect(c) \/ Unsubscribe(c)
  PROVE Typed'
<1> USE DEF Typed, TypeOK, WritersHold, WokenByChannel, Topics
<1>1. CASE Disconnect(c)
  BY <1>1 DEF Disconnect, writerVars
<1>2. CASE Unsubscribe(c)
  <2>1. conns' \in [Topics -> SUBSET Clients]
    BY <1>2 DEF Unsubscribe, Remaining
  <2>2. queue' \in [Clients -> Seq(Channels)]
    BY <1>2 DEF Unsubscribe
  <2>3. seen' \in [Clients -> [Channels -> Nat]]
    BY <1>2 DEF Unsubscribe
  <2> QED
    BY <1>2, <2>1, <2>2, <2>3 DEF Unsubscribe, writerVars
<1> QED
  BY <1>1, <1>2

LEMMA TypedStutter ==
  ASSUME Typed, UNCHANGED vars
  PROVE Typed'
  BY DEF Typed, TypeOK, WritersHold, WokenByChannel, vars

LEMMA TypedNext == Typed /\ [Next]_vars => Typed'
  BY TypedCommit, TypedWriterStep, TypedSubscribe, TypedHandlerStep, TypedLeave, TypedStutter
  DEF Next

-----------------------------------------------------------------------------
(* The registry and the offers that rest on it.                            *)

LEMMA RegisteredInit == Init => Registered
  BY TypedInit DEF Init, Registered, RegistryExact, OffersOnlyToRegistered, Topics

(* A writer's step changes neither the registry nor a handler; the offers  *)
(* it starts with are taken from the registry.                             *)
LEMMA RegisteredWriter ==
  ASSUME Registered, Typed',
         NEW w \in Writers, WriterStep(w) \/ \E ch \in Channels : Commit(w, ch)
  PROVE Registered'
<1> USE DEF Registered, Typed, TypeOK, Topics
<1>1. RegistryExact'
  BY DEF WriterStep, Commit, BeginNotify, Offer, EndNotify, clientVars, RegistryExact
<1>2. OffersOnlyToRegistered'
  <2>1. CASE \E ch \in Channels : Commit(w, ch)
    BY <2>1 DEF Commit, clientVars, WritersHold, OffersOnlyToRegistered
  <2>2. CASE BeginNotify(w)
    BY <2>2 DEF BeginNotify, Recipients, clientVars, WritersHold, RegistryExact,
                OffersOnlyToRegistered
  <2>3. CASE \E c \in Clients : Offer(w, c)
    BY <2>3 DEF Offer, OffersOnlyToRegistered
  <2>4. CASE EndNotify(w)
    BY <2>4 DEF EndNotify, clientVars, OffersOnlyToRegistered
  <2> QED
    BY <2>1, <2>2, <2>3, <2>4 DEF WriterStep
<1> QED
  BY <1>1, <1>2

(* Between them, Subscribe and Unsubscribe keep the registry exact; and no *)
(* handler leaves while a writer still has offers to make.                 *)
LEMMA RegisteredClient ==
  ASSUME Registered, Typed', NEW c \in Clients,
         \/ HandlerStep(c) \/ Disconnect(c) \/ Unsubscribe(c)
         \/ \E t \in Topics : Subscribe(c, t)
  PROVE Registered'
<1> USE DEF Registered, Typed, TypeOK, Topics
<1>1. CASE HandlerStep(c) \/ Disconnect(c)
  BY <1>1 DEF HandlerStep, Receive, SendMessages, ReadFails, SendNotice, Disconnect,
              writerVars, RegistryExact, OffersOnlyToRegistered
<1>2. CASE Unsubscribe(c)
  <2>1. RegistryExact'
    BY <1>2 DEF Unsubscribe, Remaining, RegistryExact
  <2>2. \A w \in Writers : todo[w] = {}
    BY <1>2 DEF Unsubscribe, ReadLocked, WritersHold
  <2>3. OffersOnlyToRegistered'
    BY <1>2, <2>2 DEF Unsubscribe, writerVars, OffersOnlyToRegistered
  <2> QED
    BY <2>1, <2>3
<1>3. CASE \E t \in Topics : Subscribe(c, t)
  <2>1. PICK t \in Topics : Subscribe(c, t)
    BY <1>3
  <2>2. RegistryExact'
    BY <2>1 DEF Subscribe, RegistryExact
  <2>3. OffersOnlyToRegistered'
    BY <2>1 DEF Subscribe, writerVars, OffersOnlyToRegistered
  <2> QED
    BY <2>2, <2>3
<1> QED
  BY <1>1, <1>2, <1>3

LEMMA RegisteredNext == Registered /\ [Next]_vars => Registered'
<1> SUFFICES ASSUME Registered, [Next]_vars
             PROVE  Registered'
  OBVIOUS
<1>1. Typed'
  BY TypedNext DEF Registered
<1>2. CASE UNCHANGED vars
  BY <1>1, <1>2 DEF Registered, RegistryExact, OffersOnlyToRegistered, vars
<1> QED
  BY <1>1, <1>2, RegisteredWriter, RegisteredClient DEF Next

-----------------------------------------------------------------------------
(* No wake-up is lost.                                                     *)

(* NoLostWakeup speaks of one client; this is what it says of client c.    *)
Served(c) ==
  cpc[c] = "live" /\ sub[c] # Global /\ Stale(c, sub[c]) /\ ~missed[c]
    => queue[c] # <<>> \/ OfferDue(c, sub[c])

(* A commit makes a subscriber stale and an offer due in one step.         *)
LEMMA ServedCommit ==
  ASSUME Registered, NEW c \in Clients, Served(c),
         NEW w \in Writers, NEW ch \in Channels, Commit(w, ch)
  PROVE Served(c)'
  BY DEF Registered, Typed, TypeOK, Topics, Served, Stale, OfferDue, Commit, clientVars

(* An offer that is due stays due until it is made; making it leaves the   *)
(* buffer nonempty, because a full buffer is not empty.                    *)
LEMMA ServedWriter ==
  ASSUME Registered, NEW c \in Clients, Served(c), NEW w \in Writers, WriterStep(w)
  PROVE Served(c)'
<1> USE DEF Registered, Typed, TypeOK, Topics
<1>1. CASE BeginNotify(w)
  <2>1. cpc[c] = "live" /\ sub[c] = wch[w] => c \in todo'[w]
    BY <1>1 DEF BeginNotify, Recipients, RegistryExact
  <2> QED
    BY <1>1, <2>1 DEF BeginNotify, clientVars, Served, Stale, OfferDue
<1>2. CASE \E d \in Clients : Offer(w, d)
  <2>1. PICK d \in Clients : Offer(w, d)
    BY <1>2
  <2>2. CASE d = c
    <3>1. CASE HasRoom(c)
      <4>1. queue'[c] = Append(queue[c], wch[w]) /\ wch[w] \in Channels
        BY <2>1, <2>2, <3>1 DEF Offer, Notice, WritersHold
      <4>2. Append(queue[c], wch[w]) # <<>>
        BY <4>1, AppendNotEmpty
      <4> QED
        BY <4>1, <4>2 DEF Served
    <3>2. CASE ~HasRoom(c)
      <4>1. queue'[c] = queue[c] /\ Len(queue[c]) > 0
        BY <2>1, <2>2, <3>2, QCapAssumption DEF Offer, HasRoom
      <4>2. queue[c] # <<>>
        BY <4>1
      <4> QED
        BY <4>1, <4>2 DEF Served
    <3> QED
      BY <3>1, <3>2
  <2>3. CASE d # c
    <3>1. queue'[c] = queue[c] /\ (c \in todo[w] => c \in todo'[w])
      BY <2>1, <2>3 DEF Offer
    <3>2. OfferDue(c, sub[c]) => OfferDue(c, sub[c])'
      BY <2>1, <3>1 DEF Offer, OfferDue
    <3> QED
      BY <2>1, <3>1, <3>2 DEF Offer, Served, Stale
  <2> QED
    BY <2>2, <2>3
<1>3. CASE EndNotify(w)
  <2>1. OfferDue(c, sub[c]) => OfferDue(c, sub[c])'
    BY <1>3 DEF EndNotify, OfferDue, clientVars
  <2> QED
    BY <1>3, <2>1 DEF EndNotify, Served, Stale, clientVars
<1> QED
  BY <1>1, <1>2, <1>3 DEF WriterStep

(* What a handler does, its own or another one: it wakes, re-reads, fails  *)
(* to, leaves, or starts with the versions of that moment.                 *)
LEMMA ServedClient ==
  ASSUME Registered, NEW c \in Clients, Served(c), NEW d \in Clients,
         \/ HandlerStep(d) \/ Disconnect(d) \/ Unsubscribe(d)
         \/ \E t \in Topics : Subscribe(d, t)
  PROVE Served(c)'
<1> USE DEF Registered, Typed, TypeOK, Topics, Served, Stale, OfferDue, writerVars
<1>1. CASE Receive(d)
  BY <1>1 DEF Receive
<1>2. CASE SendMessages(d)
  BY <1>2 DEF SendMessages
<1>3. CASE ReadFails(d)
  BY <1>3 DEF ReadFails
<1>4. CASE SendNotice(d)
  BY <1>4 DEF SendNotice
<1>5. CASE Disconnect(d)
  BY <1>5 DEF Disconnect
<1>6. CASE Unsubscribe(d)
  BY <1>6 DEF Unsubscribe
<1>7. CASE \E t \in Topics : Subscribe(d, t)
  BY <1>7 DEF Subscribe
<1> QED
  BY <1>1, <1>2, <1>3, <1>4, <1>5, <1>6, <1>7 DEF HandlerStep

LEMMA ServedNext ==
  ASSUME Registered, NEW c \in Clients, Served(c), [Next]_vars
  PROVE Served(c)'
<1>1. CASE UNCHANGED vars
  BY <1>1 DEF vars, Served, Stale, OfferDue
<1> QED
  BY <1>1, ServedCommit, ServedWriter, ServedClient DEF Next

-----------------------------------------------------------------------------
(* The theorems on invariants.                                             *)

(* The invariant of the whole: NoLostWakeup is inductive only beside the   *)
(* exact registry, from which a writer takes those it must offer to.       *)
LEMMA IInvInvariant == Spec => []IInv
<1>1. Init => IInv
  BY RegisteredInit DEF Init, IInv, NoLostWakeup
<1>2. IInv /\ [Next]_vars => IInv'
  BY RegisteredNext, ServedNext DEF IInv, NoLostWakeup, Served
<1> QED
  BY <1>1, <1>2, PTL DEF Spec

(* Every variable keeps its type (the handlers and writers of channels.go).*)
THEOREM Types == Spec => []TypeOK
<1>1. IInv => TypeOK
  BY DEF IInv, Registered, Typed
<1> QED
  BY <1>1, IInvInvariant, PTL

(* addMsgStreamConn and the deferred removeMsgStreamConn keep the registry *)
(* equal to the set of running handlers.                                   *)
THEOREM Registry == Spec => []RegistryExact
<1>1. IInv => RegistryExact
  BY DEF IInv, Registered
<1> QED
  BY <1>1, IInvInvariant, PTL

(* notifyMsgStream, under the read lock, never sends to a handler that has *)
(* returned.                                                               *)
THEOREM Offers == Spec => []OffersOnlyToRegistered
<1>1. IInv => OffersOnlyToRegistered
  BY DEF IInv, Registered
<1> QED
  BY <1>1, IInvInvariant, PTL

(* Dropping a notification when the buffer is full loses no wake-up of a   *)
(* subscriber of one channel, whatever the capacity.                       *)
THEOREM WakeupsAreNotLost == Spec => []NoLostWakeup
<1>1. IInv => NoLostWakeup
  BY DEF IInv
<1> QED
  BY <1>1, IInvInvariant, PTL

-----------------------------------------------------------------------------
(* MsgStream implements ChannelFeed.                                       *)

LEMMA FeedInit == Init => Feed!Init
  BY DEF Init, Feed!Init

(* A commit is published; what the writer does next is invisible.          *)
LEMMA FeedWriter ==
  ASSUME Registered, NEW w \in Writers,
         WriterStep(w) \/ \E ch \in Channels : Commit(w, ch)
  PROVE [Feed!Next]_(Feed!vars)
<1>1. CASE \E ch \in Channels : Commit(w, ch)
  <2>1. PICK ch \in Channels : Commit(w, ch)
    BY <1>1
  <2>2. Feed!Publish(ch)
    BY <2>1 DEF Commit, clientVars, Feed!Publish
  <2> QED
    BY <2>2 DEF Feed!Next
<1>2. CASE WriterStep(w)
  BY <1>2 DEF WriterStep, BeginNotify, Offer, EndNotify, clientVars, Feed!vars
<1> QED
  BY <1>1, <1>2

(* Waking and leaving are invisible; reading, failing and telling are the  *)
(* feed's steps.                                                           *)
LEMMA FeedHandler ==
  ASSUME Registered, NEW c \in Clients, HandlerStep(c) \/ Disconnect(c)
  PROVE [Feed!Next]_(Feed!vars)
<1> USE DEF Registered, Typed, TypeOK, Topics
<1>1. CASE Receive(c) \/ Disconnect(c)
  BY <1>1 DEF Receive, Disconnect, Feed!vars
<1>2. CASE SendMessages(c)
  <2>1. sub[c] \in Channels
    BY <1>2 DEF SendMessages
  <2>2. Feed!Learn(c, sub[c])
    BY <1>2 DEF SendMessages, Feed!Learn
  <2> QED
    BY <2>1, <2>2 DEF Feed!Next
<1>3. CASE ReadFails(c)
  <2>1. Feed!Fail(c)
    BY <1>3 DEF ReadFails, Feed!Fail
  <2> QED
    BY <2>1 DEF Feed!Next
<1>4. CASE SendNotice(c)
  <2>1. got[c] \in Channels
    BY <1>4 DEF SendNotice, WokenByChannel
  <2>2. Feed!Learn(c, got[c])
    BY <1>4 DEF SendNotice, Feed!Learn
  <2> QED
    BY <2>1, <2>2 DEF Feed!Next
<1> QED
  BY <1>1, <1>2, <1>3, <1>4 DEF HandlerStep

(* Streams open and close as the feed's do.                                *)
LEMMA FeedOpenClose ==
  ASSUME Registered, NEW c \in Clients,
         Unsubscribe(c) \/ \E t \in Topics : Subscribe(c, t)
  PROVE Feed!Next
<1> USE DEF Registered, Typed, TypeOK, Topics
<1>1. CASE Unsubscribe(c)
  <2>1. Feed!Close(c)
    BY <1>1 DEF Unsubscribe, Feed!Close
  <2> QED
    BY <2>1 DEF Feed!Next
<1>2. CASE \E t \in Topics : Subscribe(c, t)
  <2>1. PICK t \in Topics : Subscribe(c, t)
    BY <1>2
  <2>2. Feed!Open(c, t)
    BY <2>1 DEF Subscribe, Feed!Open
  <2> QED
    BY <2>2 DEF Feed!Next, Feed!Topics
<1> QED
  BY <1>1, <1>2

(* handleMessageStream, its registry and its dropping notifications give   *)
(* their clients what ChannelFeed promises, as far as safety goes.         *)
THEOREM ImplementsFeed == Spec => FeedSafe
<1>1. IInv /\ [Next]_vars => [Feed!Next]_(Feed!vars)
  <2> SUFFICES ASSUME IInv, [Next]_vars
               PROVE  [Feed!Next]_(Feed!vars)
    OBVIOUS
  <2>1. CASE UNCHANGED vars
    BY <2>1 DEF vars, Feed!vars
  <2> QED
    BY <2>1, FeedWriter, FeedHandler, FeedOpenClose DEF Next, IInv
<1> QED
  BY <1>1, FeedInit, IInvInvariant, PTL DEF Spec, FeedSafe, Feed!SafeSpec

-----------------------------------------------------------------------------
(* The log streams.                                                       *)

(* A goroutine that is about to hand on a line has one.                    *)
Held ==
  \A r \in Requests :
    /\ hpc[r] = "emit" => event[r] \in Lines
    /\ copy[r] = "write" => written[r] \in Lines
    /\ \A o \in Origins : scan[r][o] = "send" => text[r][o] \in Lines

Sound == LogTypeOK /\ Held

(* The handlers that hold a place.                                         *)
Holders == {r \in Requests : hpc[r] \in Holding}

(* They are finitely many, whatever Requests is: only a step adds one.     *)
Counted == IsFiniteSet(Holders) /\ CountsExact

CountInv == Sound /\ Counted

-----------------------------------------------------------------------------
(* Types, one lemma per group of actions.                                  *)

LEMMA SoundInit == LogInit => Sound
BY LimitsAssumption, CapsAssumption
   DEF LogInit, Sound, LogTypeOK, Held, Phases, Holding, NoLine, Lines, Origins

LEMMA SoundTracker ==
  ASSUME Sound, NEW r \in Requests, Acquire(r) \/ Refuse(r) \/ Release(r)
  PROVE  Sound'
<1> USE DEF Sound, LogTypeOK, Held, Phases, Holding, Goto, pipeVars, copyVars, scanVars, trackerVars
<1>u. UserOf(r) \in Users
  BY DEF Users
<1>1. CASE Acquire(r)
  BY <1>1, <1>u, LimitsAssumption DEF Acquire, LimitReached
<1>2. CASE Refuse(r)
  BY <1>2 DEF Refuse
<1>3. CASE Release(r)
  <2>1. userStreams' \in [Users -> 0 .. MaxPerUser]
    BY <1>3, <1>u, LimitsAssumption DEF Release, GiveBack
  <2>2. globalCount' \in 0 .. MaxGlobal
    BY <1>3, LimitsAssumption DEF Release
  <2> QED
    BY <1>3, <2>1, <2>2 DEF Release
<1> QED
  BY <1>1, <1>2, <1>3

LEMMA SoundHandler ==
  ASSUME Sound, NEW r \in Requests,
         \/ LookupFails(r) \/ Connect(r) \/ Expire(r) \/ Finish(r)
         \/ OpenFails(r) \/ OpenLogs(r) \/ LinesClosed(r) \/ CopyDone(r) \/ Cancelled(r)
  PROVE  Sound'
<1> USE DEF Sound, LogTypeOK, Held, Phases, Holding, Goto, Return, pipeVars, copyVars, scanVars, trackerVars
<1>1. CASE LookupFails(r) \/ Connect(r) \/ Expire(r) \/ Finish(r)
  BY <1>1 DEF LookupFails, Connect, Expire, Finish
<1>2. CASE OpenFails(r) \/ LinesClosed(r) \/ Cancelled(r)
  BY <1>2 DEF OpenFails, LinesClosed, Cancelled
<1>3. CASE OpenLogs(r)
  BY <1>3 DEF OpenLogs
<1>4. CASE CopyDone(r)
  BY <1>4 DEF CopyDone
<1> QED
  BY <1>1, <1>2, <1>3, <1>4

LEMMA SoundLines ==
  ASSUME Sound, NEW r \in Requests, TakeLine(r) \/ Emit(r)
  PROVE  Sound'
<1> USE DEF Sound, LogTypeOK, Held, Phases, Holding, Goto, Return, copyVars, scanVars, trackerVars
<1>1. CASE TakeLine(r)
  <2>1. lines[r] \in Seq(Lines) /\ lines[r] # <<>>
    BY <1>1 DEF TakeLine
  <2>2. Head(lines[r]) \in Lines /\ Tail(lines[r]) \in Seq(Lines)
    BY <2>1
  <2>3. Len(Tail(lines[r])) <= LineCap
    BY <2>1, CapsAssumption
  <2>4. lines' \in [Requests -> Seq(Lines)] /\ \A q \in Requests : Len(lines'[q]) <= LineCap
    BY <1>1, <2>2, <2>3 DEF TakeLine
  <2>5. CASE hpc' = [hpc EXCEPT ![r] = "emit"] /\ event' = [event EXCEPT ![r] = Head(lines[r])]
             /\ UNCHANGED why
    BY <1>1, <2>2, <2>4, <2>5 DEF TakeLine
  <2>6. CASE Return(r, "loop", "limit") /\ UNCHANGED event
    BY <1>1, <2>4, <2>6 DEF TakeLine
  <2> QED
    BY <1>1, <2>5, <2>6 DEF TakeLine
<1>2. CASE Emit(r)
  <2>1. event[r] \in Lines
    BY <1>2 DEF Emit
  <2> QED
    BY <1>2, <2>1 DEF Emit
<1> QED
  BY <1>1, <1>2

LEMMA SoundCopy ==
  ASSUME Sound, NEW r \in Requests,
         LogEnds(r) \/ CopyInterrupted(r) \/ CloseLines(r) \/ \E o \in Origins : CopyLine(r, o)
  PROVE  Sound'
<1> USE DEF Sound, LogTypeOK, Held, Phases, Holding, copyVars, scanVars, trackerVars
<1>1. CASE LogEnds(r) \/ CopyInterrupted(r)
  <2>1. PICK result \in {"eof", "failed"} : CopyEnds(r, result)
    BY <1>1 DEF LogEnds, CopyInterrupted
  <2> QED
    BY <2>1 DEF CopyEnds
<1>2. CASE CloseLines(r)
  BY <1>2 DEF CloseLines
<1>3. CASE \E o \in Origins : CopyLine(r, o)
  <2>1. PICK o \in Origins : CopyLine(r, o)
    BY <1>3
  <2>2. printed[r] \in [Origins -> Nat]
    OBVIOUS
  <2>3. [origin |-> o, n |-> printed[r][o] + 1] \in Lines
    BY <2>2 DEF Lines
  <2>4. printed' \in [Requests -> [Origins -> Nat]]
    BY <2>1, <2>2 DEF CopyLine
  <2> QED
    BY <2>1, <2>3, <2>4 DEF CopyLine
<1> QED
  BY <1>1, <1>2, <1>3

LEMMA SoundScanner ==
  ASSUME Sound, NEW r \in Requests, NEW o \in Origins,
         ScannerStep(r, o) \/ ScanTooLong(r, o)
  PROVE  Sound'
<1> USE DEF Sound, LogTypeOK, Held, Phases, Holding, copyVars, scanVars, trackerVars
<1>1. CASE ScanLine(r, o)
  <2>1. written[r] \in Lines
    BY <1>1 DEF ScanLine
  <2> QED
    BY <1>1, <2>1 DEF ScanLine
<1>2. CASE ScanEnds(r, o)
  BY <1>2 DEF ScanEnds
<1>3. CASE ScanTooLong(r, o)
  BY <1>3 DEF ScanTooLong
<1>4. CASE SendLine(r, o)
  <2>1. text[r][o] \in Lines /\ lines[r] \in Seq(Lines)
    BY <1>4 DEF SendLine
  <2>2. Append(lines[r], text[r][o]) \in Seq(Lines)
        /\ Len(Append(lines[r], text[r][o])) = Len(lines[r]) + 1
    BY <2>1
  <2>3. lines' \in [Requests -> Seq(Lines)] /\ \A q \in Requests : Len(lines'[q]) <= LineCap
    BY <1>4, <2>1, <2>2, CapsAssumption DEF SendLine
  <2> QED
    BY <1>4, <2>3 DEF SendLine
<1>5. CASE DropLine(r, o)
  BY <1>5 DEF DropLine, Quit
<1> QED
  BY <1>1, <1>2, <1>3, <1>4, <1>5 DEF ScannerStep

LEMMA SoundNext == Sound /\ [LogNext]_logVars => Sound'
<1> SUFFICES ASSUME Sound, [LogNext]_logVars PROVE Sound'
  OBVIOUS
<1>1. CASE UNCHANGED logVars
  BY <1>1 DEF logVars, trackerVars, copyVars, scanVars, Sound, LogTypeOK, Held
<1>2. CASE LogNext
  <2>1. PICK r \in Requests :
          \/ Acquire(r) \/ Refuse(r)
          \/ LogHandlerStep(r) \/ Expire(r)
          \/ LogEnds(r) \/ CopyInterrupted(r) \/ CloseLines(r)
          \/ \E o \in Origins : CopyLine(r, o) \/ ScannerStep(r, o) \/ ScanTooLong(r, o)
    BY <1>2 DEF LogNext
  <2> QED
    BY <2>1, SoundTracker, SoundHandler, SoundLines, SoundCopy, SoundScanner DEF LogHandlerStep
<1> QED
  BY <1>1, <1>2

(* No count ever passes its limit (maxPerUser, maxGlobal), no channel its  *)
(* capacity, and every variable stays in its domain.                       *)
THEOREM StreamTypes == LogSpec => []LogTypeOK
<1>1. LogSpec => []Sound
  BY SoundInit, SoundNext, PTL DEF LogSpec
<1> QED
  BY <1>1, PTL DEF Sound

-----------------------------------------------------------------------------
(* The counts.  A step takes a place, gives one back, or touches neither   *)
(* the counters nor the set of holders.                                    *)

LEMMA StreamsAreHolders ==
  ASSUME NEW u \in Users
  PROVE  /\ Streams(u) = {q \in Holders : UserOf(q) = u}
         /\ Streams(u)' = {q \in Holders' : UserOf(q) = u}
BY DEF Streams, Holders

LEMMA CountsInit == LogInit => Counted
<1> SUFFICES ASSUME LogInit PROVE Counted
  OBVIOUS
<1>1. Holders = {}
  BY DEF LogInit, Holders, Holding
<1>2. \A u \in Users : Streams(u) = {}
  BY <1>1, StreamsAreHolders
<1>3. IsFiniteSet({}) /\ Cardinality({}) = 0
  BY FS_EmptySet
<1>4. globalCount = Cardinality(Holders) /\ \A u \in Users : userStreams[u] = Cardinality(Streams(u))
  BY <1>1, <1>2, <1>3 DEF LogInit
<1> QED
  BY <1>1, <1>3, <1>4 DEF Counted, CountsExact, Holders

LEMMA CountsKept ==
  ASSUME Counted, UNCHANGED trackerVars, Holders' = Holders
  PROVE  Counted'
<1>1. \A u \in Users : Streams(u)' = Streams(u)
  BY StreamsAreHolders
<1>2. userStreams' = userStreams /\ globalCount' = globalCount
  BY DEF trackerVars
<1>3. \A u \in Users : userStreams'[u] = Cardinality(Streams(u)')
  BY <1>1, <1>2 DEF Counted, CountsExact
<1>4. globalCount' = Cardinality(Holders')
  BY <1>2 DEF Counted, CountsExact, Holders
<1> QED
  BY <1>3, <1>4 DEF Counted, CountsExact, Holders

LEMMA PlaceTaken ==
  ASSUME Sound, Counted, NEW r \in Requests, Acquire(r)
  PROVE  Counted'
<1>u. UserOf(r) \in Users
  BY DEF Users
<1>1. r \notin Holders /\ Holders' = Holders \cup {r}
  BY DEF Acquire, Goto, Holders, Holding, Sound, LogTypeOK
<1>2. IsFiniteSet(Holders') /\ Cardinality(Holders') = Cardinality(Holders) + 1
  BY <1>1, FS_AddElement DEF Counted
<1>3. globalCount' = Cardinality(Holders')
  BY <1>2 DEF Counted, CountsExact, Holders, Acquire
<1>4. ASSUME NEW u \in Users
      PROVE  userStreams'[u] = Cardinality(Streams(u)')
  <2>1. Streams(u) \subseteq Holders
    BY StreamsAreHolders
  <2>2. IsFiniteSet(Streams(u))
    BY <2>1, FS_Subset DEF Counted
  <2>3. userStreams[u] = Cardinality(Streams(u))
    BY DEF Counted, CountsExact
  <2>4. CASE u = UserOf(r)
    <3>1. r \notin Streams(u) /\ Streams(u)' = Streams(u) \cup {r}
      BY <1>1, <2>4, StreamsAreHolders
    <3>2. Cardinality(Streams(u)') = Cardinality(Streams(u)) + 1
      BY <2>2, <3>1, FS_AddElement
    <3>3. userStreams'[u] = userStreams[u] + 1
      BY <2>4 DEF Acquire, Sound, LogTypeOK
    <3> QED
      BY <2>3, <3>2, <3>3
  <2>5. CASE u # UserOf(r)
    <3>1. Streams(u)' = Streams(u)
      BY <1>1, <2>5, StreamsAreHolders
    <3>2. userStreams'[u] = userStreams[u]
      BY <1>u, <2>5 DEF Acquire, Sound, LogTypeOK
    <3> QED
      BY <2>3, <3>1, <3>2
  <2> QED
    BY <2>4, <2>5
<1> QED
  BY <1>2, <1>3, <1>4 DEF Counted, CountsExact, Holders

(* The decrements are not cut off at zero: the holder itself is counted.   *)
LEMMA PlaceReturned ==
  ASSUME Sound, Counted, NEW r \in Requests, Release(r)
  PROVE  Counted'
<1>u. UserOf(r) \in Users
  BY DEF Users
<1>1. r \in Holders /\ Holders' = Holders \ {r}
  BY DEF Release, Goto, Holders, Holding, Sound, LogTypeOK
<1>2. IsFiniteSet(Holders') /\ Cardinality(Holders') = Cardinality(Holders) - 1
  BY <1>1, FS_RemoveElement DEF Counted
<1>c. Cardinality(Holders) \in Nat /\ Cardinality(Holders') \in Nat
  BY <1>2, FS_CardinalityType DEF Counted
<1>3. globalCount' = Cardinality(Holders')
  <2>1. globalCount = Cardinality(Holders)
    BY DEF Counted, CountsExact, Holders
  <2> QED
    BY <1>2, <1>c, <2>1 DEF Release
<1>4. ASSUME NEW u \in Users
      PROVE  userStreams'[u] = Cardinality(Streams(u)')
  <2>1. Streams(u) \subseteq Holders
    BY StreamsAreHolders
  <2>2. IsFiniteSet(Streams(u))
    BY <2>1, FS_Subset DEF Counted
  <2>3. userStreams[u] = Cardinality(Streams(u))
    BY DEF Counted, CountsExact
  <2>4. CASE u = UserOf(r)
    <3>1. r \in Streams(u) /\ Streams(u)' = Streams(u) \ {r}
      BY <1>1, <2>4, StreamsAreHolders
    <3>2. /\ IsFiniteSet(Streams(u)')
          /\ Cardinality(Streams(u)') = Cardinality(Streams(u)) - 1
      BY <2>2, <3>1, FS_RemoveElement
    <3>3. Cardinality(Streams(u)) \in Nat /\ Cardinality(Streams(u)') \in Nat
      BY <2>2, <3>2, FS_CardinalityType
    <3>4. userStreams'[u] = IF userStreams[u] > 0 THEN userStreams[u] - 1 ELSE 0
      BY <2>4 DEF Release, GiveBack, Sound, LogTypeOK
    <3> QED
      BY <2>3, <3>2, <3>3, <3>4
  <2>5. CASE u # UserOf(r)
    <3>1. Streams(u)' = Streams(u)
      BY <1>1, <2>5, StreamsAreHolders
    <3>2. userStreams'[u] = userStreams[u]
      BY <1>u, <2>5 DEF Release, GiveBack, Sound, LogTypeOK
    <3> QED
      BY <2>3, <3>1, <3>2
  <2> QED
    BY <2>4, <2>5
<1> QED
  BY <1>2, <1>3, <1>4 DEF Counted, CountsExact, Holders

LEMMA CountsHandler ==
  ASSUME Sound, NEW r \in Requests, Refuse(r) \/ (LogHandlerStep(r) /\ ~Release(r)) \/ Expire(r)
  PROVE  UNCHANGED trackerVars /\ Holders' = Holders
<1>1. UNCHANGED trackerVars
  BY DEF Refuse, Expire, LogHandlerStep, LookupFails, Connect, OpenFails, OpenLogs, TakeLine, Emit,
         LinesClosed, CopyDone, Cancelled, Finish, trackerVars
<1>2. /\ \A q \in Requests \ {r} : hpc'[q] = hpc[q]
      /\ hpc[r] \in Holding <=> hpc'[r] \in Holding
  BY DEF Refuse, Expire, LogHandlerStep, LookupFails, Connect, OpenFails, OpenLogs, TakeLine, Emit,
         LinesClosed, CopyDone, Cancelled, Finish, Goto, Return, Holding, Sound, LogTypeOK
<1> QED
  BY <1>1, <1>2 DEF Holders

LEMMA CountsGoroutines ==
  ASSUME NEW r \in Requests,
         \/ LogEnds(r) \/ CopyInterrupted(r) \/ CloseLines(r)
         \/ \E o \in Origins : CopyLine(r, o) \/ ScannerStep(r, o) \/ ScanTooLong(r, o)
  PROVE  UNCHANGED trackerVars /\ Holders' = Holders
<1>1. UNCHANGED trackerVars /\ UNCHANGED hpc
  BY DEF LogEnds, CopyInterrupted, CopyEnds, CloseLines, CopyLine, ScannerStep, ScanLine,
         ScanEnds, SendLine, DropLine, ScanTooLong, trackerVars
<1> QED
  BY <1>1 DEF Holders

LEMMA CountsNext == Sound /\ Counted /\ [LogNext]_logVars => Counted'
<1> SUFFICES ASSUME Sound, Counted, [LogNext]_logVars PROVE Counted'
  OBVIOUS
<1>1. CASE UNCHANGED logVars
  <2>1. UNCHANGED trackerVars /\ UNCHANGED hpc
    BY <1>1 DEF logVars
  <2> QED
    BY <2>1, CountsKept DEF Holders
<1>2. CASE LogNext
  <2>1. PICK r \in Requests :
          \/ Acquire(r) \/ Refuse(r)
          \/ LogHandlerStep(r) \/ Expire(r)
          \/ LogEnds(r) \/ CopyInterrupted(r) \/ CloseLines(r)
          \/ \E o \in Origins : CopyLine(r, o) \/ ScannerStep(r, o) \/ ScanTooLong(r, o)
    BY <1>2 DEF LogNext
  <2>2. CASE Acquire(r)
    BY <2>2, PlaceTaken
  <2>3. CASE Release(r)
    BY <2>3, PlaceReturned
  <2>4. CASE Refuse(r) \/ (LogHandlerStep(r) /\ ~Release(r)) \/ Expire(r)
    BY <2>4, CountsHandler, CountsKept
  <2>5. CASE \/ LogEnds(r) \/ CopyInterrupted(r) \/ CloseLines(r)
             \/ \E o \in Origins : CopyLine(r, o) \/ ScannerStep(r, o) \/ ScanTooLong(r, o)
    BY <2>5, CountsGoroutines, CountsKept
  <2> QED
    BY <2>1, <2>2, <2>3, <2>4, <2>5
<1> QED
  BY <1>1, <1>2

(* streamTracker counts exactly the handlers that run, for each user and in*)
(* all: no return of StreamContainerLogs keeps a place or returns it twice.*)
THEOREM CountsAreExact == LogSpec => []CountsExact
<1>1. LogInit => CountInv
  BY SoundInit, CountsInit DEF CountInv
<1>2. CountInv /\ [LogNext]_logVars => CountInv'
  BY SoundNext, CountsNext DEF CountInv
<1>3. CountInv => CountsExact
  BY DEF CountInv, Counted
<1> QED
  BY <1>1, <1>2, <1>3, PTL DEF LogSpec

-----------------------------------------------------------------------------
(* The order of the lines.  A request's pipeline are the lines its handler *)
(* has shown, holds, and will find in the channel, the oldest first.       *)

Pending(r) == IF hpc[r] = "emit" THEN <<event[r]>> ELSE <<>>
Pipeline(r) == (shown[r] \o Pending(r)) \o lines[r]

(* Lines of an origin that were printed and have not reached the pipeline. *)
Writing(r, o) == IF copy[r] = "write" /\ written[r].origin = o THEN 1 ELSE 0
Sending(r, o) == IF scan[r][o] = "send" THEN 1 ELSE 0
Arrived(r, o) == printed[r][o] - Writing(r, o) - Sending(r, o)

(* The lines of origin o in s are the first m.                             *)
Upto(s, o, m) ==
  /\ \A k \in 1 .. m : \E j \in 1 .. Len(s) : s[j] = [origin |-> o, n |-> k]
  /\ \A j \in 1 .. Len(s) : s[j].origin = o => s[j].n <= m

Below(s, o, m) == \A j \in 1 .. Len(s) : s[j].origin = o => s[j].n <= m

(* While its scanner runs every line of an origin is in the pipeline, with *)
(* the scanner or with StdCopy, in this order; a scanner that has ended    *)
(* leaves the pipeline as it is.                                           *)
Flow(r, o) ==
  /\ Ended(r, o) => Below(Pipeline(r), o, printed[r][o])
  /\ ~Ended(r, o) =>
       /\ Arrived(r, o) \in Nat
       /\ Upto(Pipeline(r), o, Arrived(r, o))
       /\ scan[r][o] = "send" => text[r][o] = [origin |-> o, n |-> Arrived(r, o) + 1]
       /\ Writing(r, o) = 1 => written[r].n = printed[r][o]

ShownInOrder(r) == InOrder(shown[r]) /\ \A o \in Origins : Below(shown[r], o, printed[r][o])

OrderedAt(r) ==
  /\ ReaderClosed(r) => ShownInOrder(r)
  /\ ~ReaderClosed(r) => InOrder(Pipeline(r)) /\ \A o \in Origins : Flow(r, o)

OpenedAt(r) ==
  /\ hpc[r] \in {"idle", "lookup", "open"} =>
       copy[r] = "off" /\ \A o \in Origins : scan[r][o] = "off"
  /\ closed[r] => ScannersEnded(r)
  /\ \A o \in Origins : scan[r][o] = "ended" /\ ~ctxDone[r] => copy[r] = "ended"

(* No line is lost unless the request was cancelled or a scanner gave up.  *)
InFlight(r) == (IF copy[r] = "write" THEN 1 ELSE 0) + Sending(r, "stdout") + Sending(r, "stderr")

CompleteAt(r) ==
  ~ReaderClosed(r) /\ ~ctxDone[r] /\ (\A o \in Origins : scan[r][o] # "cut")
    => Len(Pipeline(r)) + InFlight(r) = printed[r]["stdout"] + printed[r]["stderr"]

PipeInv == \A r \in Requests : OpenedAt(r) /\ OrderedAt(r) /\ CompleteAt(r)

-----------------------------------------------------------------------------
(* Sequences of lines.                                                     *)

LEMMA LineFields ==
  ASSUME NEW x \in Lines
  PROVE  x.origin \in Origins /\ x.n \in Nat \ {0} /\ x = [origin |-> x.origin, n |-> x.n]
BY DEF Lines

LEMMA AppendedLine ==
  ASSUME NEW s \in Seq(Lines), NEW x \in Lines
  PROVE  /\ Append(s, x) \in Seq(Lines)
         /\ Len(s) \in Nat /\ Len(Append(s, x)) = Len(s) + 1
         /\ \A i \in 1 .. Len(s) : Append(s, x)[i] = s[i]
         /\ Append(s, x)[Len(s) + 1] = x
         /\ \A i \in 1 .. Len(s) : s[i] \in Lines
OBVIOUS

LEMMA FirstAndRest ==
  ASSUME NEW s \in Seq(Lines), s # <<>>
  PROVE  s = <<Head(s)>> \o Tail(s)
<1>1. Len(s) \in Nat \ {0}
  BY EmptySeq
<1>2. s = SubSeq(s, 1, Len(s))
  BY SubSeqFull
<1>3. SubSeq(s, 1, Len(s)) = <<s[1]>> \o SubSeq(s, 2, Len(s))
  BY <1>1, SubSeqRecursiveFirst
<1>4. Head(s) = s[1]
  OBVIOUS
<1> QED
  BY <1>2, <1>3, <1>4, TailIsSubSeq

LEMMA HandedOn ==
  ASSUME NEW s \in Seq(Lines), NEW q \in Seq(Lines), q # <<>>
  PROVE  (s \o <<Head(q)>>) \o Tail(q) = s \o q
<1>1. <<Head(q)>> \in Seq(Lines) /\ Tail(q) \in Seq(Lines)
  BY HeadTailProperties
<1>2. (s \o <<Head(q)>>) \o Tail(q) = s \o (<<Head(q)>> \o Tail(q))
  BY <1>1, ConcatAssociative
<1>3. q = <<Head(q)>> \o Tail(q)
  BY FirstAndRest
<1> QED
  BY <1>2, <1>3, Zenon

LEMMA AppendedAtEnd ==
  ASSUME NEW s \in Seq(Lines), NEW q \in Seq(Lines), NEW x \in Lines
  PROVE  s \o Append(q, x) = Append(s \o q, x)
<1>1. <<x>> \in Seq(Lines) /\ s \o q \in Seq(Lines)
  BY ConcatProperties
<1>2. Append(q, x) = q \o <<x>> /\ Append(s \o q, x) = (s \o q) \o <<x>>
  BY <1>1, AppendIsConcat
<1>3. (s \o q) \o <<x>> = s \o (q \o <<x>>)
  BY <1>1, ConcatAssociative
<1> QED
  BY <1>2, <1>3, Zenon

LEMMA InOrderAppend ==
  ASSUME NEW s \in Seq(Lines), NEW x \in Lines, InOrder(s), Upto(s, x.origin, x.n - 1)
  PROVE  InOrder(Append(s, x))
<1> DEFINE t == Append(s, x)
<1>1. /\ Len(s) \in Nat /\ Len(t) = Len(s) + 1
      /\ \A i \in 1 .. Len(s) : t[i] = s[i]
      /\ t[Len(s) + 1] = x
      /\ \A i \in 1 .. Len(s) : s[i] \in Lines
  BY AppendedLine
<1>2. SUFFICES ASSUME NEW i \in 1 .. Len(t)
               PROVE  LET before == {t[j] : j \in 1 .. i - 1}
                      IN  /\ \A k \in 1 .. t[i].n - 1 : [origin |-> t[i].origin, n |-> k] \in before
                          /\ \A y \in before : y.origin = t[i].origin => y.n < t[i].n
  BY DEF InOrder
<1>3. CASE i \in 1 .. Len(s)
  <2>1. {t[j] : j \in 1 .. i - 1} = {s[j] : j \in 1 .. i - 1} /\ t[i] = s[i]
    BY <1>1, <1>3
  <2> QED
    BY <1>3, <2>1 DEF InOrder
<1>4. CASE i = Len(s) + 1
  <2>1. {t[j] : j \in 1 .. i - 1} = {s[j] : j \in 1 .. Len(s)} /\ t[i] = x
    BY <1>1, <1>4
  <2>2. x.n \in Nat
    BY DEF Lines
  <2>3. \A k \in 1 .. x.n - 1 : [origin |-> x.origin, n |-> k] \in {s[j] : j \in 1 .. Len(s)}
    BY DEF Upto
  <2>4. \A j \in 1 .. Len(s) : s[j].n \in Nat
    BY <1>1 DEF Lines
  <2>5. \A j \in 1 .. Len(s) : s[j].origin = x.origin => s[j].n < x.n
    BY <2>2, <2>4 DEF Upto
  <2> QED
    BY <2>1, <2>3, <2>5
<1> QED
  BY <1>1, <1>3, <1>4

LEMMA InOrderPrefix ==
  ASSUME NEW s \in Seq(Lines), NEW t \in Seq(Lines), InOrder(s \o t)
  PROVE  InOrder(s)
<1>1. /\ Len(s) \in Nat /\ Len(t) \in Nat /\ Len(s \o t) = Len(s) + Len(t)
      /\ \A i \in 1 .. Len(s) : (s \o t)[i] = s[i]
  BY ConcatProperties, LenProperties
<1>2. SUFFICES ASSUME NEW i \in 1 .. Len(s)
               PROVE  LET before == {s[j] : j \in 1 .. i - 1}
                      IN  /\ \A k \in 1 .. s[i].n - 1 : [origin |-> s[i].origin, n |-> k] \in before
                          /\ \A y \in before : y.origin = s[i].origin => y.n < s[i].n
  BY DEF InOrder
<1>3. {s[j] : j \in 1 .. i - 1} = {(s \o t)[j] : j \in 1 .. i - 1} /\ (s \o t)[i] = s[i]
  BY <1>1
<1> QED
  BY <1>1, <1>3 DEF InOrder

LEMMA UptoAppend ==
  ASSUME NEW s \in Seq(Lines), NEW o, NEW m \in Nat, NEW x \in Lines, Upto(s, o, m),
         x.origin # o
  PROVE  Upto(Append(s, x), o, m)
BY AppendedLine DEF Upto

LEMMA UptoNext ==
  ASSUME NEW s \in Seq(Lines), NEW o, NEW m \in Nat, Upto(s, o, m),
         [origin |-> o, n |-> m + 1] \in Lines
  PROVE  Upto(Append(s, [origin |-> o, n |-> m + 1]), o, m + 1)
<1> DEFINE x == [origin |-> o, n |-> m + 1]
           t == Append(s, x)
<1>1. /\ Len(s) \in Nat /\ Len(t) = Len(s) + 1
      /\ \A i \in 1 .. Len(s) : t[i] = s[i]
      /\ t[Len(s) + 1] = x
      /\ \A i \in 1 .. Len(s) : s[i] \in Lines
  BY AppendedLine
<1>2. ASSUME NEW k \in 1 .. m + 1
      PROVE  \E j \in 1 .. Len(t) : t[j] = [origin |-> o, n |-> k]
  <2>1. CASE k \in 1 .. m
    BY <1>1, <2>1 DEF Upto
  <2>2. CASE k = m + 1
    BY <1>1, <2>2
  <2> QED
    BY <2>1, <2>2
<1>3. ASSUME NEW j \in 1 .. Len(t), t[j].origin = o
      PROVE  t[j].n <= m + 1
  <2>1. CASE j \in 1 .. Len(s)
    <3>1. s[j].n \in Nat /\ s[j].n <= m
      BY <1>1, <1>3, <2>1 DEF Upto, Lines
    <3> QED
      BY <1>1, <2>1, <3>1
  <2>2. CASE j = Len(s) + 1
    BY <1>1, <2>2
  <2> QED
    BY <1>1, <2>1, <2>2
<1> QED
  BY <1>2, <1>3 DEF Upto

LEMMA BelowAppend ==
  ASSUME NEW s \in Seq(Lines), NEW o, NEW m, NEW x \in Lines, Below(s, o, m), x.origin # o
  PROVE  Below(Append(s, x), o, m)
BY AppendedLine DEF Below

LEMMA BelowGrows ==
  ASSUME NEW s \in Seq(Lines), NEW o, NEW m \in Nat, NEW k \in Nat, m <= k, Below(s, o, m)
  PROVE  Below(s, o, k)
<1>1. SUFFICES ASSUME NEW j \in 1 .. Len(s), s[j].origin = o
               PROVE  s[j].n <= k
  BY DEF Below
<1>2. s[j].n \in Nat
  BY ElementOfSeq, LineFields
<1>3. s[j].n <= m
  BY <1>1 DEF Below
<1> QED
  BY <1>2, <1>3

LEMMA BelowPrefix ==
  ASSUME NEW s \in Seq(Lines), NEW t \in Seq(Lines), NEW o, NEW m, Below(s \o t, o, m)
  PROVE  Below(s, o, m)
<1>1. /\ Len(s) \in Nat /\ Len(t) \in Nat /\ Len(s \o t) = Len(s) + Len(t)
      /\ \A i \in 1 .. Len(s) : (s \o t)[i] = s[i]
  BY ConcatProperties, LenProperties
<1> QED
  BY <1>1 DEF Below

LEMMA PipelineType ==
  ASSUME Sound, NEW r \in Requests
  PROVE  /\ shown[r] \in Seq(Lines) /\ lines[r] \in Seq(Lines) /\ Pending(r) \in Seq(Lines)
         /\ shown[r] \o Pending(r) \in Seq(Lines)
         /\ Pipeline(r) \in Seq(Lines)
         /\ Len(Pipeline(r)) = Len(shown[r]) + Len(Pending(r)) + Len(lines[r])
<1>1. shown[r] \in Seq(Lines) /\ lines[r] \in Seq(Lines)
  BY DEF Sound, LogTypeOK
<1>2. Pending(r) \in Seq(Lines)
  BY DEF Sound, Held, Pending
<1> QED
  BY <1>1, <1>2, ConcatProperties DEF Pipeline

(* Whatever the phase, what was shown is in order.                         *)
LEMMA OrderOfShown ==
  ASSUME Sound, NEW r \in Requests, OrderedAt(r)
  PROVE  ShownInOrder(r)
<1>1. SUFFICES ASSUME ~ReaderClosed(r), InOrder(Pipeline(r)), \A o \in Origins : Flow(r, o)
               PROVE  ShownInOrder(r)
  BY DEF OrderedAt
<1>2. InOrder(shown[r])
  BY <1>1, PipelineType, InOrderPrefix DEF Pipeline
<1>3. ASSUME NEW o \in Origins
      PROVE  Below(shown[r], o, printed[r][o])
  <2>1. printed[r][o] \in Nat
    BY DEF Sound, LogTypeOK
  <2>2. Below(Pipeline(r), o, printed[r][o])
    <3>1. CASE Ended(r, o)
      BY <1>1, <3>1 DEF Flow
    <3>2. CASE ~Ended(r, o)
      <4>1. Arrived(r, o) \in Nat /\ Arrived(r, o) <= printed[r][o]
        <5>1. Arrived(r, o) \in Nat
          BY <1>1, <3>2 DEF Flow
        <5>2. Writing(r, o) \in Nat /\ Sending(r, o) \in Nat
          BY DEF Writing, Sending
        <5> QED
          BY <2>1, <5>1, <5>2 DEF Arrived
      <4>2. Below(Pipeline(r), o, Arrived(r, o))
        BY <1>1, <3>2 DEF Flow, Upto, Below
      <4> QED
        BY <2>1, <4>1, <4>2, BelowGrows, PipelineType
    <3> QED
      BY <3>1, <3>2
  <2> QED
    BY <2>2, PipelineType, BelowPrefix DEF Pipeline
<1> QED
  BY <1>2, <1>3 DEF ShownInOrder

-----------------------------------------------------------------------------
(* Steps: a step moves one request only.                                   *)

PipeAt(r) == OpenedAt(r) /\ OrderedAt(r) /\ CompleteAt(r)

\* Nothing of request q changes but its place in the limits.
Stays(q) ==
  /\ hpc'[q] = hpc[q] /\ ctxDone'[q] = ctxDone[q]
  /\ copy'[q] = copy[q] /\ written'[q] = written[q] /\ printed'[q] = printed[q]
  /\ scan'[q] = scan[q] /\ text'[q] = text[q]
  /\ lines'[q] = lines[q] /\ closed'[q] = closed[q] /\ event'[q] = event[q]
  /\ shown'[q] = shown[q]

\* The line on its way to the pipeline, and what was printed, stay.
FlowStays(r) ==
  /\ copy'[r] = copy[r] /\ written'[r] = written[r] /\ printed'[r] = printed[r]
  /\ scan'[r] = scan[r] /\ text'[r] = text[r]

LEMMA FlowKept ==
  ASSUME NEW r \in Requests, OrderedAt(r), CompleteAt(r), FlowStays(r),
         Pipeline(r)' = Pipeline(r), ~ReaderClosed(r), ~ReaderClosed(r)',
         ctxDone'[r] \in {ctxDone[r], TRUE}
  PROVE  OrderedAt(r)' /\ CompleteAt(r)'
<1>1. \A o \in Origins :
        /\ Writing(r, o)' = Writing(r, o) /\ Sending(r, o)' = Sending(r, o)
        /\ Arrived(r, o)' = Arrived(r, o) /\ Ended(r, o)' = Ended(r, o)
  BY DEF FlowStays, Writing, Sending, Arrived, Ended
<1>2. \A o \in Origins : Flow(r, o)'
  BY <1>1 DEF OrderedAt, Flow, FlowStays, Upto, Below
<1>3. InOrder(Pipeline(r))'
  BY DEF OrderedAt, InOrder
<1>4. InFlight(r)' = InFlight(r)
  BY <1>1 DEF InFlight, FlowStays, Origins
<1>5. CompleteAt(r)'
  BY <1>4 DEF CompleteAt, FlowStays
<1> QED
  BY <1>2, <1>3, <1>5 DEF OrderedAt

LEMMA ShownKept ==
  ASSUME Sound, NEW r \in Requests, OrderedAt(r), ReaderClosed(r)',
         shown'[r] = shown[r], printed'[r] = printed[r]
  PROVE  OrderedAt(r)' /\ CompleteAt(r)'
<1>1. ShownInOrder(r)
  BY OrderOfShown
<1>2. ShownInOrder(r)'
  BY <1>1 DEF ShownInOrder, InOrder, Below
<1> QED
  BY <1>2 DEF OrderedAt, CompleteAt

LEMMA PipeFrame ==
  ASSUME Sound, NEW q \in Requests, PipeAt(q), Stays(q)
  PROVE  PipeAt(q)'
<1>1. OpenedAt(q)'
  BY DEF PipeAt, OpenedAt, Stays, ScannersEnded, Ended
<1>2. Pipeline(q)' = Pipeline(q) /\ FlowStays(q)
  BY DEF Stays, Pipeline, Pending, FlowStays
<1>3. ReaderClosed(q)' = ReaderClosed(q) /\ ctxDone'[q] = ctxDone[q]
  BY DEF Stays, ReaderClosed
<1>4. CASE ReaderClosed(q)
  BY <1>1, <1>3, <1>4, ShownKept DEF PipeAt, Stays
<1>5. CASE ~ReaderClosed(q)
  BY <1>1, <1>2, <1>3, <1>5, FlowKept DEF PipeAt
<1> QED
  BY <1>4, <1>5

LEMMA PipeInit == LogInit => PipeInv
<1> SUFFICES ASSUME LogInit, NEW r \in Requests PROVE PipeAt(r)
  BY DEF PipeInv, PipeAt
<1>1. OpenedAt(r) /\ ~ReaderClosed(r)
  BY DEF LogInit, OpenedAt, ReaderClosed
<1>2. <<>> \in Seq(Lines) /\ Len(<<>>) = 0
  BY EmptySeq
<1>3. Pipeline(r) = <<>>
  BY <1>2, ConcatEmptySeq DEF LogInit, Pipeline, Pending
<1>4. InOrder(Pipeline(r))
  BY <1>2, <1>3 DEF InOrder
<1>5. ASSUME NEW o \in Origins
      PROVE  Flow(r, o)
  <2>1. Writing(r, o) = 0 /\ Sending(r, o) = 0 /\ printed[r][o] = 0 /\ ~Ended(r, o)
        /\ scan[r][o] # "send"
    BY DEF LogInit, Writing, Sending, Ended
  <2> QED
    BY <1>2, <1>3, <2>1 DEF Flow, Arrived, Upto
<1>6. CompleteAt(r)
  <2>1. InFlight(r) = 0 /\ printed[r]["stdout"] = 0 /\ printed[r]["stderr"] = 0
    BY DEF LogInit, InFlight, Sending, Origins
  <2> QED
    BY <1>2, <1>3, <2>1 DEF CompleteAt
<1> QED
  BY <1>1, <1>4, <1>5, <1>6 DEF PipeAt, OrderedAt

(* The handler: a line taken from the channel or shown stays in the        *)
(* pipeline, and whoever returns leaves what was shown as it is.           *)
LEMMA PipeEnter ==
  ASSUME Sound, NEW r \in Requests, PipeAt(r), Acquire(r) \/ Refuse(r) \/ Connect(r) \/ Expire(r)
  PROVE  PipeAt(r)'
<1> USE DEF Acquire, Refuse, Connect, Expire, Goto, pipeVars, copyVars, scanVars
<1>1. FlowStays(r) /\ shown' = shown /\ lines' = lines /\ event' = event /\ closed' = closed
  BY DEF FlowStays
<1>2. hpc[r] # "emit" \/ hpc'[r] = hpc[r]
  OBVIOUS
<1>3. hpc'[r] = "emit" => hpc'[r] = hpc[r]
  BY DEF Sound, LogTypeOK
<1>4. Pipeline(r)' = Pipeline(r)
  BY <1>1, <1>2, <1>3 DEF Pipeline, Pending
<1>5. ctxDone'[r] \in {ctxDone[r], TRUE}
  BY DEF Sound, LogTypeOK
<1>6. OpenedAt(r)'
  BY <1>1 DEF PipeAt, OpenedAt, ScannersEnded, Ended, FlowStays, Sound, LogTypeOK
<1>7. CASE ReaderClosed(r)
  <2>1. ReaderClosed(r)'
    BY <1>7 DEF ReaderClosed, Sound, LogTypeOK
  <2> QED
    BY <1>1, <1>6, <2>1, ShownKept DEF PipeAt, FlowStays
<1>8. CASE ~ReaderClosed(r)
  <2>1. ~ReaderClosed(r)'
    BY <1>8 DEF ReaderClosed, Sound, LogTypeOK
  <2> QED
    BY <1>1, <1>4, <1>5, <1>6, <1>8, <2>1, FlowKept DEF PipeAt
<1> QED
  BY <1>7, <1>8

LEMMA PipeLeave ==
  ASSUME Sound, NEW r \in Requests, PipeAt(r),
         \/ LookupFails(r) \/ Finish(r) \/ Release(r) \/ OpenFails(r)
         \/ LinesClosed(r) \/ CopyDone(r) \/ Cancelled(r)
         \/ (TakeLine(r) /\ Return(r, "loop", "limit"))
  PROVE  PipeAt(r)'
<1> USE DEF LookupFails, Finish, Release, OpenFails, LinesClosed, CopyDone, Cancelled, TakeLine,
            Goto, Return, pipeVars, copyVars, scanVars
<1>1. /\ copy' = copy /\ scan' = scan /\ closed' = closed /\ ctxDone'[r] \in {ctxDone[r], TRUE}
      /\ shown' = shown /\ printed' = printed
  BY DEF Sound, LogTypeOK
<1>2. hpc'[r] \in {"finish", "release", "returned"}
  BY DEF Sound, LogTypeOK
<1>3. OpenedAt(r)'
  BY <1>1, <1>2 DEF PipeAt, OpenedAt, ScannersEnded, Ended
<1> QED
  BY <1>1, <1>2, <1>3, ShownKept DEF PipeAt, ReaderClosed

LEMMA PipeOpenLogs ==
  ASSUME Sound, NEW r \in Requests, PipeAt(r), OpenLogs(r)
  PROVE  PipeAt(r)'
<1>1. /\ copy[r] = "off" /\ \A o \in Origins : scan[r][o] = "off"
      /\ copy'[r] = "read" /\ \A o \in Origins : scan'[r][o] = "scan"
      /\ hpc[r] = "open" /\ hpc'[r] = "loop"
  BY DEF PipeAt, OpenedAt, OpenLogs, Goto, Sound, LogTypeOK
<1>2. printed' = printed /\ written' = written /\ text' = text /\ ctxDone' = ctxDone
  BY DEF OpenLogs
<1>3. Pipeline(r)' = Pipeline(r)
  BY <1>1 DEF OpenLogs, Pipeline, Pending
<1>4. \A o \in Origins :
        /\ Writing(r, o) = 0 /\ Writing(r, o)' = 0 /\ Sending(r, o) = 0 /\ Sending(r, o)' = 0
        /\ ~Ended(r, o) /\ ~Ended(r, o)'
  BY <1>1 DEF Writing, Sending, Ended
<1>5. \A o \in Origins : Arrived(r, o)' = Arrived(r, o)
  BY <1>2, <1>4 DEF Arrived
<1>6. ~ReaderClosed(r) /\ ~ReaderClosed(r)'
  BY <1>1 DEF ReaderClosed
<1>7. \A o \in Origins : Flow(r, o)'
  BY <1>1, <1>2, <1>3, <1>4, <1>5, <1>6 DEF PipeAt, OrderedAt, Flow, Upto
<1>8. InOrder(Pipeline(r))'
  BY <1>3, <1>6 DEF PipeAt, OrderedAt, InOrder
<1>9. CompleteAt(r)'
  <2>1. InFlight(r)' = InFlight(r)
    BY <1>1, <1>4 DEF InFlight, Origins
  <2> QED
    BY <1>1, <1>2, <1>3, <1>6, <2>1 DEF PipeAt, CompleteAt
<1>10. OpenedAt(r)'
  <2>1. ~closed[r]
    BY <1>1, <1>4 DEF PipeAt, OpenedAt, ScannersEnded, Origins
  <2> QED
    BY <1>1, <2>1 DEF OpenedAt, OpenLogs
<1> QED
  BY <1>6, <1>7, <1>8, <1>9, <1>10 DEF PipeAt, OrderedAt

LEMMA PipeHand ==
  ASSUME Sound, NEW r \in Requests, PipeAt(r),
         \/ Emit(r)
         \/ TakeLine(r) /\ hpc' = [hpc EXCEPT ![r] = "emit"] /\ event' = [event EXCEPT ![r] = Head(lines[r])]
  PROVE  PipeAt(r)'
<1>1. /\ FlowStays(r) /\ ctxDone' = ctxDone /\ closed' = closed
      /\ hpc[r] \in {"loop", "emit"} /\ hpc'[r] \in {"loop", "emit"}
  BY DEF Emit, TakeLine, Goto, Return, FlowStays, copyVars, scanVars, Sound, LogTypeOK
<1>2. shown[r] \in Seq(Lines) /\ lines[r] \in Seq(Lines)
  BY PipelineType
<1>3. Pipeline(r)' = Pipeline(r)
  <2>1. CASE Emit(r)
    <3>1. /\ Pending(r) = <<event[r]>> /\ Pending(r)' = <<>>
          /\ shown'[r] = Append(shown[r], event[r]) /\ lines'[r] = lines[r] /\ event[r] \in Lines
      BY <2>1 DEF Emit, Goto, Pending, Sound, LogTypeOK, Held
    <3>2. Append(shown[r], event[r]) = shown[r] \o <<event[r]>>
      BY <1>2, <3>1, AppendIsConcat
    <3>3. shown[r] \o <<event[r]>> \in Seq(Lines)
      BY <1>2, <3>1, ConcatProperties
    <3> QED
      BY <3>1, <3>2, <3>3, ConcatEmptySeq DEF Pipeline
  <2>2. CASE TakeLine(r) /\ hpc' = [hpc EXCEPT ![r] = "emit"]
             /\ event' = [event EXCEPT ![r] = Head(lines[r])]
    <3>1. hpc[r] = "loop" /\ lines[r] # <<>> /\ shown'[r] = shown[r] /\ lines'[r] = Tail(lines[r])
      BY <2>2 DEF TakeLine, Goto, Return, Sound, LogTypeOK
    <3>2. Pending(r) = <<>> /\ Pending(r)' = <<Head(lines[r])>>
      BY <2>2, <3>1 DEF Pending, Sound, LogTypeOK
    <3>3. Head(lines[r]) \in Lines /\ Tail(lines[r]) \in Seq(Lines)
      BY <1>2, <3>1
    <3>6. (shown[r] \o <<Head(lines[r])>>) \o Tail(lines[r]) = shown[r] \o lines[r]
      BY <1>2, <3>1, HandedOn
    <3>7. shown[r] \o <<>> = shown[r]
      BY <1>2, ConcatEmptySeq
    <3>8. Pipeline(r) = shown[r] \o lines[r]
      BY <3>2, <3>7 DEF Pipeline
    <3>9. Pipeline(r)' = (shown[r] \o <<Head(lines[r])>>) \o Tail(lines[r])
      BY <3>1, <3>2 DEF Pipeline
    <3> QED
      BY <3>6, <3>8, <3>9
  <2> QED
    BY <2>1, <2>2
<1>4. ~ReaderClosed(r) /\ ~ReaderClosed(r)'
  BY <1>1 DEF ReaderClosed
<1>5. OpenedAt(r)'
  BY <1>1 DEF PipeAt, OpenedAt, ScannersEnded, Ended, FlowStays
<1> QED
  BY <1>1, <1>3, <1>4, <1>5, FlowKept DEF PipeAt

(* The goroutines.  After the reader is closed nothing is shown or printed.*)
LEMMA PipeCopyLine ==
  ASSUME Sound, NEW r \in Requests, NEW o \in Origins, PipeAt(r), CopyLine(r, o)
  PROVE  PipeAt(r)'
<1>1. /\ copy[r] = "read" /\ copy'[r] = "write" /\ ~ReaderClosed(r) /\ ~ReaderClosed(r)'
      /\ scan' = scan /\ text' = text /\ ctxDone' = ctxDone /\ closed' = closed /\ hpc' = hpc
      /\ written'[r] = [origin |-> o, n |-> printed[r][o] + 1]
      /\ printed'[r] = [printed[r] EXCEPT ![o] = @ + 1]
  BY DEF CopyLine, scanVars, ReaderClosed, Sound, LogTypeOK
<1>2. Pipeline(r)' = Pipeline(r)
  BY DEF CopyLine, Pipeline, Pending
<1>3. printed[r] \in [Origins -> Nat]
  BY DEF Sound, LogTypeOK
<1>4. ASSUME NEW c \in Origins
      PROVE  Flow(r, c)'
  <2>1. Flow(r, c)
    BY <1>1 DEF PipeAt, OrderedAt
  <2>2. Ended(r, c)' = Ended(r, c) /\ Sending(r, c)' = Sending(r, c) /\ Writing(r, c) = 0
    BY <1>1 DEF Ended, Sending, Writing
  <2>3. CASE c = o
    <3>1. printed'[r][c] = printed[r][c] + 1 /\ Writing(r, c)' = 1
      BY <1>1, <1>3, <2>3 DEF Writing
    <3>2. Arrived(r, c)' = Arrived(r, c)
      BY <1>3, <2>2, <3>1 DEF Arrived, Sending
    <3>3. CASE Ended(r, c)
      <4>1. Below(Pipeline(r), c, printed[r][c])
        BY <2>1, <3>3 DEF Flow
      <4>2. Below(Pipeline(r), c, printed[r][c] + 1)
        <5>1. printed[r][c] \in Nat /\ printed[r][c] + 1 \in Nat /\ printed[r][c] <= printed[r][c] + 1
          BY <1>3
        <5>2. Pipeline(r) \in Seq(Lines)
          BY PipelineType
        <5> QED
          BY <4>1, <5>1, <5>2, BelowGrows
      <4>3. Below(Pipeline(r), c, printed[r][c])'
        BY <1>2, <3>1, <4>2 DEF Below
      <4> QED
        BY <2>2, <3>3, <4>3 DEF Flow
    <3>4. CASE ~Ended(r, c)
      BY <1>1, <1>2, <2>1, <2>2, <2>3, <3>1, <3>2, <3>4 DEF Flow, Upto
    <3> QED
      BY <3>3, <3>4
  <2>4. CASE c # o
    <3>1. printed'[r][c] = printed[r][c] /\ Writing(r, c)' = 0
      BY <1>1, <1>3, <2>4 DEF Writing
    <3>2. Arrived(r, c)' = Arrived(r, c)
      BY <2>2, <3>1 DEF Arrived
    <3> QED
      BY <1>1, <1>2, <2>1, <2>2, <3>1, <3>2 DEF Flow, Upto, Below
  <2> QED
    BY <2>3, <2>4
<1>5. InOrder(Pipeline(r))'
  BY <1>1, <1>2 DEF PipeAt, OrderedAt, InOrder
<1>6. CompleteAt(r)'
  <2>1. InFlight(r)' = InFlight(r) + 1
    BY <1>1 DEF InFlight, Sending, Origins
  <2>2. printed'[r]["stdout"] + printed'[r]["stderr"] = printed[r]["stdout"] + printed[r]["stderr"] + 1
    BY <1>1, <1>3 DEF Origins
  <2>3. Len(Pipeline(r)) \in Nat /\ InFlight(r) \in Nat
    BY PipelineType, LenProperties DEF InFlight, Sending
  <2> QED
    BY <1>1, <1>2, <1>3, <2>1, <2>2, <2>3 DEF PipeAt, CompleteAt
<1>7. OpenedAt(r)'
  BY <1>1 DEF PipeAt, OpenedAt, ScannersEnded, Ended
<1> QED
  BY <1>1, <1>4, <1>5, <1>6, <1>7 DEF PipeAt, OrderedAt

LEMMA PipeCopyEnds ==
  ASSUME Sound, NEW r \in Requests, PipeAt(r), LogEnds(r) \/ CopyInterrupted(r)
  PROVE  PipeAt(r)'
<1>1. PICK result \in {"eof", "failed"} : CopyEnds(r, result)
  BY DEF LogEnds, CopyInterrupted
<1>2. /\ copy[r] = "read" /\ copy'[r] = "ended"
      /\ scan' = scan /\ text' = text /\ ctxDone' = ctxDone /\ closed' = closed /\ hpc' = hpc
      /\ written' = written /\ printed' = printed /\ shown' = shown
  BY <1>1 DEF CopyEnds, scanVars, Sound, LogTypeOK
<1>3. Pipeline(r)' = Pipeline(r) /\ ReaderClosed(r)' = ReaderClosed(r)
  BY <1>1 DEF CopyEnds, Pipeline, Pending, ReaderClosed
<1>4. OpenedAt(r)'
  BY <1>2 DEF PipeAt, OpenedAt, ScannersEnded, Ended
<1>5. CASE ReaderClosed(r)
  BY <1>2, <1>3, <1>4, <1>5, ShownKept DEF PipeAt
<1>6. CASE ~ReaderClosed(r)
  <2>1. \A o \in Origins :
          /\ Writing(r, o) = 0 /\ Writing(r, o)' = 0 /\ Sending(r, o)' = Sending(r, o)
          /\ Ended(r, o)' = Ended(r, o) /\ Arrived(r, o)' = Arrived(r, o)
    BY <1>2 DEF Writing, Sending, Ended, Arrived
  <2>2. \A o \in Origins : Flow(r, o)'
    BY <1>2, <1>3, <1>6, <2>1 DEF PipeAt, OrderedAt, Flow, Upto, Below
  <2>3. InOrder(Pipeline(r))'
    BY <1>3, <1>6 DEF PipeAt, OrderedAt, InOrder
  <2>4. InFlight(r)' = InFlight(r)
    BY <1>2, <2>1 DEF InFlight, Origins
  <2>5. CompleteAt(r)'
    BY <1>2, <1>3, <1>6, <2>4 DEF PipeAt, CompleteAt
  <2> QED
    BY <1>3, <1>4, <1>6, <2>2, <2>3, <2>5 DEF PipeAt, OrderedAt
<1> QED
  BY <1>5, <1>6

LEMMA PipeCloseLines ==
  ASSUME Sound, NEW r \in Requests, PipeAt(r), CloseLines(r)
  PROVE  PipeAt(r)'
<1>1. /\ FlowStays(r) /\ ctxDone' = ctxDone /\ hpc' = hpc /\ shown' = shown
      /\ closed'[r] /\ ScannersEnded(r)
  BY DEF CloseLines, FlowStays, copyVars, scanVars, Sound, LogTypeOK
<1>2. Pipeline(r)' = Pipeline(r) /\ ReaderClosed(r)' = ReaderClosed(r)
  BY DEF CloseLines, Pipeline, Pending, ReaderClosed
<1>3. OpenedAt(r)'
  BY <1>1 DEF PipeAt, OpenedAt, ScannersEnded, Ended, FlowStays
<1>4. CASE ReaderClosed(r)
  BY <1>1, <1>2, <1>3, <1>4, ShownKept DEF PipeAt, FlowStays
<1>5. CASE ~ReaderClosed(r)
  BY <1>1, <1>2, <1>3, <1>5, FlowKept DEF PipeAt
<1> QED
  BY <1>4, <1>5

(* A scanner that reads a line holds it until the channel has room.        *)
LEMMA PipeScanLine ==
  ASSUME Sound, NEW r \in Requests, NEW o \in Origins, PipeAt(r), ScanLine(r, o)
  PROVE  PipeAt(r)'
<1>1. /\ copy[r] = "write" /\ copy'[r] = "read" /\ written[r].origin = o
      /\ scan[r][o] = "scan" /\ scan'[r][o] = "send" /\ text'[r][o] = written[r]
      /\ \A c \in Origins \ {o} : scan'[r][c] = scan[r][c] /\ text'[r][c] = text[r][c]
      /\ ctxDone' = ctxDone /\ closed' = closed /\ hpc' = hpc
      /\ printed' = printed /\ shown' = shown
  BY DEF ScanLine, Sound, LogTypeOK
<1>2. Pipeline(r)' = Pipeline(r) /\ ReaderClosed(r)' = ReaderClosed(r)
  BY DEF ScanLine, Pipeline, Pending, ReaderClosed
<1>3. OpenedAt(r)'
  BY <1>1 DEF PipeAt, OpenedAt, ScannersEnded, Ended
<1>4. CASE ReaderClosed(r)
  BY <1>1, <1>2, <1>3, <1>4, ShownKept DEF PipeAt
<1>5. CASE ~ReaderClosed(r)
  <2>1. printed[r] \in [Origins -> Nat] /\ written[r] \in Lines
    BY <1>1 DEF Sound, LogTypeOK, Held
  <2>2. ASSUME NEW c \in Origins
        PROVE  Flow(r, c)'
    <3>1. Flow(r, c)
      BY <1>5 DEF PipeAt, OrderedAt
    <3>2. CASE c = o
      <4>1. /\ Writing(r, c) = 1 /\ Writing(r, c)' = 0 /\ Sending(r, c) = 0 /\ Sending(r, c)' = 1
            /\ ~Ended(r, c) /\ ~Ended(r, c)'
        BY <1>1, <3>2 DEF Writing, Sending, Ended
      <4>2. Arrived(r, c)' = Arrived(r, c) /\ Arrived(r, c) + 1 = printed[r][c]
        BY <1>1, <2>1, <4>1 DEF Arrived
      <4>3. written[r] = [origin |-> c, n |-> printed[r][c]]
        BY <1>1, <2>1, <3>1, <3>2, <4>1, LineFields DEF Flow
      <4> QED
        BY <1>1, <1>2, <3>1, <3>2, <4>1, <4>2, <4>3 DEF Flow, Upto
    <3>3. CASE c # o
      <4>1. /\ Writing(r, c) = 0 /\ Writing(r, c)' = 0 /\ Sending(r, c) = Sending(r, c)'
            /\ Ended(r, c)' = Ended(r, c)
        BY <1>1, <3>3 DEF Writing, Sending, Ended
      <4>2. Arrived(r, c)' = Arrived(r, c)
        BY <1>1, <4>1 DEF Arrived
      <4> QED
        BY <1>1, <1>2, <3>1, <3>3, <4>1, <4>2 DEF Flow, Upto, Below
    <3> QED
      BY <3>2, <3>3
  <2>3. InOrder(Pipeline(r))'
    BY <1>2, <1>5 DEF PipeAt, OrderedAt, InOrder
  <2>4. InFlight(r)' = InFlight(r)
    BY <1>1 DEF InFlight, Sending, Origins
  <2>5. CompleteAt(r)'
    BY <1>1, <1>2, <1>5, <2>4 DEF PipeAt, CompleteAt
  <2> QED
    BY <1>2, <1>3, <1>5, <2>2, <2>3, <2>5 DEF PipeAt, OrderedAt
<1> QED
  BY <1>4, <1>5

LEMMA PipeScanEnds ==
  ASSUME Sound, NEW r \in Requests, NEW o \in Origins, PipeAt(r),
         ScanEnds(r, o) \/ ScanTooLong(r, o) \/ DropLine(r, o)
  PROVE  PipeAt(r)'
<1>1. /\ Ended(r, o)'
      /\ \A c \in Origins \ {o} : scan'[r][c] = scan[r][c] /\ text'[r][c] = text[r][c]
      /\ ctxDone' = ctxDone /\ closed' = closed /\ hpc' = hpc
      /\ printed' = printed /\ shown' = shown
  BY DEF ScanEnds, ScanTooLong, DropLine, copyVars, Ended, Sound, LogTypeOK
<1>2. Pipeline(r)' = Pipeline(r) /\ ReaderClosed(r)' = ReaderClosed(r)
  BY DEF ScanEnds, ScanTooLong, DropLine, Pipeline, Pending, ReaderClosed
<1>3. \/ copy'[r] = copy[r] /\ written'[r] = written[r]
      \/ copy[r] = "write" /\ written[r].origin = o /\ copy'[r] = "read"
  BY DEF ScanEnds, ScanTooLong, DropLine, copyVars, Sound, LogTypeOK
<1>4. OpenedAt(r)'
  <2>1. hpc'[r] \notin {"idle", "lookup", "open"}
    BY DEF ScanEnds, ScanTooLong, DropLine, Quit, PipeAt, OpenedAt
  <2>2. closed'[r] => ScannersEnded(r)'
    BY <1>1 DEF PipeAt, OpenedAt, ScannersEnded, Ended
  <2>3. ASSUME NEW c \in Origins, scan'[r][c] = "ended", ~ctxDone'[r]
        PROVE  copy'[r] = "ended"
    <3>1. CASE ScanEnds(r, o)
      BY <3>1 DEF ScanEnds, copyVars
    <3>2. CASE ScanTooLong(r, o)
      <4>1. copy[r] = "write" /\ scan'[r][o] = "cut" /\ ctxDone' = ctxDone
        BY <3>2 DEF ScanTooLong, Sound, LogTypeOK
      <4>2. scan[r][c] = "ended" /\ ~ctxDone[r]
        BY <1>1, <2>3, <4>1
      <4> QED
        BY <4>1, <4>2 DEF PipeAt, OpenedAt
    <3>3. CASE DropLine(r, o)
      BY <2>3, <3>3 DEF DropLine, Quit
    <3> QED
      BY <3>1, <3>2, <3>3
  <2> QED
    BY <2>1, <2>2, <2>3 DEF OpenedAt
<1>5. CASE ReaderClosed(r)
  BY <1>1, <1>2, <1>4, <1>5, ShownKept DEF PipeAt
<1>6. CASE ~ReaderClosed(r)
  <2>0. printed[r] \in [Origins -> Nat]
    BY DEF Sound, LogTypeOK
  <2>1. ASSUME NEW c \in Origins
        PROVE  Flow(r, c)'
    <3>1. Flow(r, c)
      BY <1>6 DEF PipeAt, OrderedAt
    <3>2. CASE c = o
      <4>1. ~Ended(r, c)
        BY <3>2 DEF ScanEnds, ScanTooLong, DropLine, Quit, Ended
      <4>2. Arrived(r, c) \in Nat /\ Below(Pipeline(r), c, Arrived(r, c))
        BY <3>1, <4>1 DEF Flow, Upto, Below
      <4>3. Writing(r, c) \in Nat /\ Sending(r, c) \in Nat
        BY DEF Writing, Sending
      <4>4. Arrived(r, c) <= printed[r][c]
        BY <2>0, <4>2, <4>3 DEF Arrived
      <4>5. Below(Pipeline(r), c, printed[r][c])
        BY <2>0, <4>2, <4>4, BelowGrows, PipelineType
      <4> QED
        BY <1>1, <1>2, <3>2, <4>5 DEF Flow, Below
    <3>3. CASE c # o
      <4>1. /\ Writing(r, c)' = Writing(r, c) /\ Sending(r, c)' = Sending(r, c)
            /\ Ended(r, c)' = Ended(r, c)
        BY <1>1, <1>3, <3>3 DEF Writing, Sending, Ended
      <4>2. Arrived(r, c)' = Arrived(r, c)
        BY <1>1, <4>1 DEF Arrived
      <4>3. Writing(r, c) = 1 => written'[r] = written[r]
        BY <1>3, <3>3 DEF Writing
      <4> QED
        BY <1>1, <1>2, <3>1, <3>3, <4>1, <4>2, <4>3 DEF Flow, Upto, Below
    <3> QED
      BY <3>2, <3>3
  <2>2. InOrder(Pipeline(r))'
    BY <1>2, <1>6 DEF PipeAt, OrderedAt, InOrder
  <2>3. CompleteAt(r)'
    <3>1. CASE ScanEnds(r, o)
      <4>1. /\ copy' = copy /\ \A c \in Origins : Sending(r, c)' = Sending(r, c)
            /\ \A c \in Origins : scan'[r][c] # "cut" => scan[r][c] # "cut"
        BY <3>1 DEF ScanEnds, copyVars, Sending, Sound, LogTypeOK
      <4>2. InFlight(r)' = InFlight(r)
        BY <4>1 DEF InFlight, Origins
      <4> QED
        BY <1>1, <1>2, <1>6, <4>1, <4>2 DEF PipeAt, CompleteAt
    <3>2. CASE ScanTooLong(r, o)
      BY <3>2 DEF ScanTooLong, CompleteAt, Sound, LogTypeOK
    <3>3. CASE DropLine(r, o)
      BY <1>1, <3>3 DEF DropLine, Quit, CompleteAt
    <3> QED
      BY <3>1, <3>2, <3>3
  <2> QED
    BY <1>2, <1>4, <1>6, <2>1, <2>2, <2>3 DEF PipeAt, OrderedAt
<1> QED
  BY <1>5, <1>6

(* A line that enters the channel is the next of its origin.               *)
LEMMA PipeSendLine ==
  ASSUME Sound, NEW r \in Requests, NEW o \in Origins, PipeAt(r), SendLine(r, o)
  PROVE  PipeAt(r)'
<1>1. /\ scan[r][o] = "send" /\ scan'[r][o] = "scan"
      /\ \A c \in Origins \ {o} : scan'[r][c] = scan[r][c] /\ text'[r][c] = text[r][c]
      /\ ctxDone' = ctxDone /\ closed' = closed /\ hpc' = hpc
      /\ copy' = copy /\ written' = written
      /\ printed' = printed /\ shown' = shown /\ event' = event
      /\ lines'[r] = Append(lines[r], text[r][o])
      /\ text[r][o] \in Lines
  BY DEF SendLine, copyVars, Sound, LogTypeOK, Held
<1>2. ReaderClosed(r)' = ReaderClosed(r)
  BY <1>1 DEF ReaderClosed
<1>3. OpenedAt(r)'
  BY <1>1 DEF PipeAt, OpenedAt, ScannersEnded, Ended
<1>4. CASE ReaderClosed(r)
  BY <1>1, <1>2, <1>3, <1>4, ShownKept DEF PipeAt
<1>5. CASE ~ReaderClosed(r)
  <2> DEFINE x == text[r][o]
  <2>0. printed[r] \in [Origins -> Nat]
    BY DEF Sound, LogTypeOK
  <2>1. Pipeline(r)' = Append(Pipeline(r), x)
    <3>1. Pipeline(r)' = (shown[r] \o Pending(r)) \o Append(lines[r], x)
      BY <1>1 DEF Pipeline, Pending
    <3>2. shown[r] \o Pending(r) \in Seq(Lines) /\ lines[r] \in Seq(Lines)
      BY PipelineType
    <3>3. (shown[r] \o Pending(r)) \o Append(lines[r], x) = Append((shown[r] \o Pending(r)) \o lines[r], x)
      BY <1>1, <3>2, AppendedAtEnd
    <3> QED
      BY <3>1, <3>3 DEF Pipeline
  <2>2. Flow(r, o) /\ ~Ended(r, o) /\ Sending(r, o) = 1 /\ Sending(r, o)' = 0
    BY <1>1, <1>5 DEF PipeAt, OrderedAt, Ended, Sending
  <2>3. /\ Arrived(r, o) \in Nat /\ Upto(Pipeline(r), o, Arrived(r, o))
        /\ x = [origin |-> o, n |-> Arrived(r, o) + 1]
    BY <1>1, <2>2 DEF Flow
  <2>4. InOrder(Pipeline(r))'
    <3>1. InOrder(Pipeline(r)) /\ Upto(Pipeline(r), x.origin, x.n - 1)
      BY <1>5, <2>3 DEF PipeAt, OrderedAt
    <3>2. InOrder(Append(Pipeline(r), x))
      BY <1>1, <3>1, PipelineType, InOrderAppend
    <3> QED
      BY <2>1, <3>2
  <2>5. ASSUME NEW c \in Origins
        PROVE  Flow(r, c)'
    <3>0. Writing(r, c)' = Writing(r, c)
      BY <1>1 DEF Writing
    <3>1. CASE c = o
      <4>1. Arrived(r, c)' = Arrived(r, c) + 1
        <5>1. Writing(r, c) \in Nat
          BY DEF Writing
        <5> QED
          BY <1>1, <2>0, <2>2, <3>0, <3>1, <5>1 DEF Arrived
      <4>2. Upto(Append(Pipeline(r), x), c, Arrived(r, c) + 1)
        BY <1>1, <2>3, <3>1, PipelineType, UptoNext
      <4>3. Upto(Pipeline(r), c, Arrived(r, c))'
        BY <2>1, <4>1, <4>2 DEF Upto
      <4>4. ~Ended(r, c)' /\ scan'[r][c] # "send"
        BY <1>1, <3>1 DEF Ended
      <4> QED
        BY <1>1, <2>2, <2>3, <3>0, <3>1, <4>1, <4>3, <4>4 DEF Flow
    <3>2. CASE c # o
      <4>1. /\ Sending(r, c)' = Sending(r, c) /\ Ended(r, c)' = Ended(r, c)
            /\ Arrived(r, c)' = Arrived(r, c) /\ Flow(r, c) /\ x.origin # c
        BY <1>1, <1>5, <2>3, <3>0, <3>2 DEF Sending, Ended, Arrived, PipeAt, OrderedAt
      <4>2. CASE Ended(r, c)
        <5>1. Below(Append(Pipeline(r), x), c, printed[r][c])
          BY <1>1, <4>1, <4>2, PipelineType, BelowAppend DEF Flow
        <5> QED
          BY <1>1, <2>1, <4>1, <4>2, <5>1 DEF Flow, Below
      <4>3. CASE ~Ended(r, c)
        <5>1. Arrived(r, c) \in Nat /\ Upto(Pipeline(r), c, Arrived(r, c))
          BY <4>1, <4>3 DEF Flow
        <5>2. Upto(Append(Pipeline(r), x), c, Arrived(r, c))
          BY <1>1, <4>1, <5>1, PipelineType, UptoAppend
        <5>3. Upto(Pipeline(r), c, Arrived(r, c))'
          BY <2>1, <4>1, <5>2 DEF Upto
        <5> QED
          BY <1>1, <3>0, <3>2, <4>1, <4>3, <5>3 DEF Flow
      <4> QED
        BY <4>2, <4>3
    <3> QED
      BY <3>1, <3>2
  <2>6. CompleteAt(r)'
    <3>1. InFlight(r) = InFlight(r)' + 1 /\ InFlight(r)' \in Nat
      BY <1>1 DEF InFlight, Sending, Origins
    <3>2. Len(Pipeline(r)') = Len(Pipeline(r)) + 1 /\ Len(Pipeline(r)) \in Nat
      BY <1>1, <2>1, PipelineType, AppendedLine
    <3>3. (\A c \in Origins : scan'[r][c] # "cut") => \A c \in Origins : scan[r][c] # "cut"
      BY <1>1
    <3>4. SUFFICES ASSUME ~ctxDone'[r], \A c \in Origins : scan'[r][c] # "cut"
                   PROVE  Len(Pipeline(r)') + InFlight(r)' = printed'[r]["stdout"] + printed'[r]["stderr"]
      BY DEF CompleteAt
    <3>5. Len(Pipeline(r)) + InFlight(r) = printed[r]["stdout"] + printed[r]["stderr"]
      BY <1>1, <1>5, <3>3, <3>4 DEF PipeAt, CompleteAt
    <3> QED
      BY <1>1, <3>1, <3>2, <3>5
  <2> QED
    BY <1>2, <1>3, <1>5, <2>4, <2>5, <2>6 DEF PipeAt, OrderedAt
<1> QED
  BY <1>4, <1>5

LEMMA OthersStay ==
  ASSUME Sound, NEW r \in Requests, NEW q \in Requests, q # r,
         \/ Acquire(r) \/ Refuse(r) \/ LogHandlerStep(r) \/ Expire(r)
         \/ LogEnds(r) \/ CopyInterrupted(r) \/ CloseLines(r)
         \/ \E o \in Origins : CopyLine(r, o) \/ ScannerStep(r, o) \/ ScanTooLong(r, o)
  PROVE  Stays(q)
<1> USE DEF Stays, Goto, Return, pipeVars, copyVars, scanVars, Sound, LogTypeOK
<1>1. CASE Acquire(r) \/ Refuse(r) \/ Expire(r) \/ CloseLines(r)
  BY <1>1 DEF Acquire, Refuse, Expire, CloseLines
<1>2. CASE LookupFails(r) \/ Connect(r) \/ OpenFails(r) \/ OpenLogs(r)
  BY <1>2 DEF LookupFails, Connect, OpenFails, OpenLogs
<1>3. CASE TakeLine(r) \/ Emit(r)
  BY <1>3 DEF TakeLine, Emit
<1>4. CASE LinesClosed(r) \/ CopyDone(r) \/ Cancelled(r) \/ Finish(r) \/ Release(r)
  BY <1>4 DEF LinesClosed, CopyDone, Cancelled, Finish, Release
<1>5. CASE LogEnds(r) \/ CopyInterrupted(r)
  <2>1. PICK result \in {"eof", "failed"} : CopyEnds(r, result)
    BY <1>5 DEF LogEnds, CopyInterrupted
  <2> QED
    BY <2>1 DEF CopyEnds
<1>6. CASE \E o \in Origins : CopyLine(r, o)
  BY <1>6 DEF CopyLine
<1>7. CASE \E o \in Origins : ScanLine(r, o) \/ ScanEnds(r, o)
  BY <1>7 DEF ScanLine, ScanEnds
<1>8. CASE \E o \in Origins : SendLine(r, o) \/ DropLine(r, o)
  BY <1>8 DEF SendLine, DropLine
<1>9. CASE \E o \in Origins : ScanTooLong(r, o)
  BY <1>9 DEF ScanTooLong
<1> QED
  BY <1>1, <1>2, <1>3, <1>4, <1>5, <1>6, <1>7, <1>8, <1>9 DEF LogHandlerStep, ScannerStep

LEMMA PipeNext == Sound /\ PipeInv /\ [LogNext]_logVars => PipeInv'
<1> SUFFICES ASSUME Sound, PipeInv, [LogNext]_logVars, NEW q \in Requests PROVE PipeAt(q)'
  BY DEF PipeInv, PipeAt
<1>0. PipeAt(q)
  BY DEF PipeInv, PipeAt
<1>1. CASE UNCHANGED logVars
  <2>1. Stays(q)
    BY <1>1 DEF logVars, copyVars, scanVars, Stays
  <2> QED
    BY <1>0, <2>1, PipeFrame
<1>2. CASE LogNext
  <2>1. PICK r \in Requests :
          \/ Acquire(r) \/ Refuse(r)
          \/ LogHandlerStep(r) \/ Expire(r)
          \/ LogEnds(r) \/ CopyInterrupted(r) \/ CloseLines(r)
          \/ \E o \in Origins : CopyLine(r, o) \/ ScannerStep(r, o) \/ ScanTooLong(r, o)
    BY <1>2 DEF LogNext
  <2>2. CASE q # r
    BY <1>0, <2>1, <2>2, OthersStay, PipeFrame
  <2>3. CASE q = r
    <3>1. CASE Acquire(r) \/ Refuse(r) \/ Connect(r) \/ Expire(r)
      BY <1>0, <2>3, <3>1, PipeEnter
    <3>2. CASE TakeLine(r)
      <4>1. \/ hpc' = [hpc EXCEPT ![r] = "emit"] /\ event' = [event EXCEPT ![r] = Head(lines[r])]
            \/ Return(r, "loop", "limit")
        BY <3>2 DEF TakeLine, Goto
      <4> QED
        BY <1>0, <2>3, <3>2, <4>1, PipeHand, PipeLeave
    <3>3. CASE LogHandlerStep(r) /\ ~TakeLine(r) /\ ~Connect(r)
      BY <1>0, <2>3, <3>3, PipeLeave, PipeOpenLogs, PipeHand DEF LogHandlerStep
    <3>4. CASE LogEnds(r) \/ CopyInterrupted(r) \/ CloseLines(r)
      BY <1>0, <2>3, <3>4, PipeCopyEnds, PipeCloseLines
    <3>5. CASE \E o \in Origins : CopyLine(r, o) \/ ScannerStep(r, o) \/ ScanTooLong(r, o)
      BY <1>0, <2>3, <3>5, PipeCopyLine, PipeScanLine, PipeScanEnds, PipeSendLine DEF ScannerStep
    <3> QED
      BY <2>1, <3>1, <3>2, <3>3, <3>4, <3>5
  <2> QED
    BY <2>2, <2>3
<1> QED
  BY <1>1, <1>2

LEMMA PipeAlways == LogSpec => [](Sound /\ PipeInv)
<1>1. LogInit => Sound /\ PipeInv
  BY SoundInit, PipeInit
<1>2. (Sound /\ PipeInv) /\ [LogNext]_logVars => (Sound /\ PipeInv)'
  BY SoundNext, PipeNext
<1> QED
  BY <1>1, <1>2, PTL DEF LogSpec

(* The client sees the lines of each origin in the order the container     *)
(* printed them, without a gap or a repetition: no interleaving of StdCopy,*)
(* the two scanners and the handler loses or swaps one.                    *)
THEOREM LinesKeepOrder == LogSpec => []OrderKept
<1>1. Sound /\ PipeInv => OrderKept
  <2> SUFFICES ASSUME Sound, PipeInv, NEW r \in Requests
               PROVE  /\ InOrder(shown[r])
                      /\ \A i \in 1 .. Len(shown[r]) : shown[r][i].n <= printed[r][shown[r][i].origin]
    BY DEF OrderKept
  <2>1. ShownInOrder(r)
    BY OrderOfShown DEF PipeInv
  <2>2. ASSUME NEW i \in 1 .. Len(shown[r])
        PROVE  shown[r][i].n <= printed[r][shown[r][i].origin]
    <3>1. shown[r] \in Seq(Lines)
      BY PipelineType
    <3>2. shown[r][i].origin \in Origins
      BY <3>1, ElementOfSeq, LineFields
    <3> QED
      BY <2>1, <3>2 DEF ShownInOrder, Below
  <2> QED
    BY <2>1, <2>2 DEF ShownInOrder
<1> QED
  BY <1>1, PipeAlways, PTL

(* A stream that ends with "All lines processed", uncancelled and without  *)
(* an overlong line, has shown everything the container printed.           *)
THEOREM ClosedShowsAll == LogSpec => ClosedMeansAllShown
<1> DEFINE Step ==
      \A r \in Requests :
        /\ why'[r] = "closed" /\ why[r] = "none" /\ ~ctxDone[r]
        /\ \A o \in Origins : scan[r][o] # "cut"
        =>
          /\ copy[r] = "ended"
          /\ Len(shown[r]) = printed[r]["stdout"] + printed[r]["stderr"]
<1>1. ASSUME Sound, PipeInv, [LogNext]_logVars PROVE Step
  <2> SUFFICES ASSUME NEW q \in Requests,
                      why'[q] = "closed", why[q] = "none", ~ctxDone[q],
                      \A o \in Origins : scan[q][o] # "cut"
               PROVE  /\ copy[q] = "ended"
                      /\ Len(shown[q]) = printed[q]["stdout"] + printed[q]["stderr"]
    OBVIOUS
  <2>1. LinesClosed(q)
    <3>1. PICK r \in Requests :
            \/ Acquire(r) \/ Refuse(r)
            \/ LogHandlerStep(r) \/ Expire(r)
            \/ LogEnds(r) \/ CopyInterrupted(r) \/ CloseLines(r)
            \/ \E o \in Origins : CopyLine(r, o) \/ ScannerStep(r, o) \/ ScanTooLong(r, o)
      BY <1>1 DEF LogNext, logVars
    <3>2. why' # why
      OBVIOUS
    <3>3. \/ LinesClosed(r) \/ TakeLine(r) \/ OpenFails(r) \/ CopyDone(r) \/ Cancelled(r) \/ Release(r)
      BY <3>1, <3>2 DEF Acquire, Refuse, LogHandlerStep, Expire, LookupFails, Connect, OpenLogs, Emit,
           Finish, LogEnds, CopyInterrupted, CopyEnds, CloseLines, CopyLine, ScannerStep, ScanLine,
           ScanEnds, SendLine, DropLine, ScanTooLong
    <3>4. PICK cause : why' = [why EXCEPT ![r] = cause] /\ (cause = "closed" => LinesClosed(r))
      <4>1. done[r] # "closed"
        BY <1>1 DEF Sound, LogTypeOK
      <4>2. CASE LinesClosed(r)
        BY <4>2 DEF LinesClosed, Return
      <4>3. CASE TakeLine(r)
        <5>1. why' = [why EXCEPT ![r] = "limit"]
          BY <3>2, <4>3 DEF TakeLine, Return
        <5> QED
          BY <5>1
      <4>4. CASE OpenFails(r)
        BY <4>4 DEF OpenFails, Return
      <4>5. CASE CopyDone(r)
        BY <4>1, <4>5 DEF CopyDone, Return
      <4>6. CASE Cancelled(r)
        BY <4>6 DEF Cancelled, Return
      <4>7. CASE Release(r)
        BY <4>7 DEF Release
      <4> QED
        BY <3>3, <4>2, <4>3, <4>4, <4>5, <4>6, <4>7
    <3>5. q = r /\ cause = "closed"
      BY <3>4, <1>1 DEF Sound, LogTypeOK
    <3> QED
      BY <3>4, <3>5
  <2>2. hpc[q] = "loop" /\ lines[q] = <<>> /\ closed[q]
    BY <2>1 DEF LinesClosed, Return, Goto
  <2>3. \A o \in Origins : scan[q][o] = "ended"
    BY <1>1, <2>2 DEF PipeInv, OpenedAt, ScannersEnded, Ended
  <2>4. copy[q] = "ended"
    BY <1>1, <2>3 DEF PipeInv, OpenedAt, Origins
  <2>5. InFlight(q) = 0 /\ ~ReaderClosed(q)
    BY <2>2, <2>3, <2>4 DEF InFlight, Sending, ReaderClosed, Origins
  <2>6. Len(Pipeline(q)) = Len(shown[q]) /\ Len(shown[q]) \in Nat
    <3>0. Pending(q) = <<>> /\ lines[q] = <<>> /\ Len(<<>>) = 0
      BY <2>2, EmptySeq DEF Pending
    <3>1. Len(Pending(q)) = 0 /\ Len(lines[q]) = 0
      BY <3>0
    <3>2. Len(shown[q]) \in Nat
      BY <1>1, PipelineType, LenProperties
    <3>3. Len(Pipeline(q)) = Len(shown[q]) + Len(Pending(q)) + Len(lines[q])
      BY <1>1, PipelineType
    <3> QED
      BY <3>1, <3>2, <3>3
  <2>7. Len(Pipeline(q)) + InFlight(q) = printed[q]["stdout"] + printed[q]["stderr"]
    BY <1>1, <2>5 DEF PipeInv, CompleteAt
  <2> QED
    BY <2>4, <2>5, <2>6, <2>7
<1>2. Sound /\ PipeInv /\ [LogNext]_logVars => [Step]_logVars
  BY <1>1
<1> QED
  BY <1>2, PipeAlways, PTL DEF LogSpec, ClosedMeansAllShown

=============================================================================
