--------------------------- MODULE ChatCompletion ---------------------------
(***************************************************************************)
(* A chat completion: the portal takes the key, the host and the provider  *)
(* of an auth config, posts the conversation there, and relays the answer. *)
(* A Copilot key that is stale is renewed first; one that is refused is    *)
(* renewed and the post repeated once.  Meanwhile users edit the config,   *)
(* other requests renew its key, and the provider answers when and as it   *)
(* likes.                                                                  *)
(*                                                                         *)
(* Which model a request names, and so which config, is left open: the     *)
(* tables behind it are in ModelCatalog.  A line of an answer is a blank   *)
(* one, which ends an event, "data: [DONE]", or text.  Keys are numbered   *)
(* in the order in which GitHub issues them.                               *)
(***************************************************************************)
EXTENDS Naturals, Sequences, SequencesExt, ProviderRegistry

CONSTANTS
  Chats,
  Listers,     \* requests for the models of a Copilot config
  Configs,
  Forms,       \* rows that users store
  Hosts,
  CopilotName, \* under which the code looks up Copilot: "copilot"
  None,
  MaxKeys, MaxLines, MaxEdits

Secrets == {r.secret : r \in Forms} \cup {None}
ProviderNames == {r.provider : r \in Forms}

(* secret: the API key, or the GitHub login of a Copilot config.           *)
(* key: the Copilot key, 0 if there is none.                               *)
Rows == [copilot : BOOLEAN, provider : ProviderNames, host : Hosts, secret : Secrets, key : 0..MaxKeys]
NoConfig == [copilot |-> FALSE, provider |-> None, host |-> None, secret |-> None, key |-> 0]

ASSUME ChatAssumption ==
  /\ MaxKeys \in Nat /\ MaxLines \in Nat /\ MaxEdits \in Nat
  /\ Forms \subseteq Rows /\ \A r \in Forms : r.key = 0
  /\ Chats \cap Listers = {}
  /\ None \notin Hosts \cup ProviderNames

Requests == Chats \cup Listers

VARIABLES
  row,    \* table auth_configs
  issued, \* issued[n]: the login GitHub issued key n for
  stored, \* history: what rows have said
  edits,  \* number of edits
  pc,     \* request: next step
  at,     \* request: the config
  copy,   \* request: its copy of the row
  host,   \* chat: baseURL
  stream, \* chat: the request says stream = true
  posts,  \* chat: what it has posted, and the status of each answer
  resp,   \* chat: the answer it holds: status, lines received, end of the body
  reply   \* chat: status and lines written to the client, lines flushed

chatVars == <<pc, at, copy, host, stream, posts, resp, reply>>
tableVars == <<row, issued, stored, edits>>
vars == <<registryVars, tableVars, chatVars>>

Steps == {"idle", "auth", "exchange", "persist", "post", "posted", "relay", "read all", "done"}
Lines == {"text", "blank", "done"}
Upstream == {"ok", "refused", "failed"}
Statuses == Upstream \cup {"none", "bad request", "bad gateway", "unreadable"}
NoResp == [status |-> "none", lines |-> <<>>, end |-> "open"]
NoReply == [status |-> "none", lines |-> <<>>, shown |-> 0]

(* What a row says that a post must not mix: as whom, where, whose key.    *)
Said(r) == [provider |-> IF r.copilot THEN CopilotName ELSE r.provider, host |-> r.host, secret |-> r.secret]
Sayings == [provider : ProviderNames \cup {CopilotName}, host : Hosts, secret : Secrets]
Posts == [as : Providers \cup {Unknown}, host : Hosts, secret : Secrets, key : 0..MaxKeys,
          status : Upstream \cup {"none"}]

TypeOK ==
  /\ RegistryTypeOK
  /\ row \in [Configs -> Rows \cup {NoConfig}]
  /\ issued \in Seq(Secrets) /\ Len(issued) <= MaxKeys
  /\ stored \in [Configs -> SUBSET Sayings]
  /\ edits \in 0..MaxEdits
  /\ pc \in [Requests -> Steps]
  /\ at \in [Requests -> Configs \cup {None}]
  /\ copy \in [Requests -> Rows \cup {NoConfig}]
  /\ host \in [Chats -> Hosts \cup {None}]
  /\ stream \in [Chats -> BOOLEAN]
  /\ posts \in [Chats -> Seq(Posts)]
  /\ resp \in [Chats -> [status : Upstream \cup {"none"}, lines : Seq(Lines), end : {"open", "end", "cut"}]]
  /\ reply \in [Chats -> [status : Statuses, lines : Seq(Lines), shown : Nat]]

Init ==
  /\ RegistryInit
  /\ row = [c \in Configs |-> NoConfig]
  /\ issued = <<>>
  /\ stored = [c \in Configs |-> {}]
  /\ edits = 0
  /\ pc = [k \in Requests |-> "idle"]
  /\ at = [k \in Requests |-> None]
  /\ copy = [k \in Requests |-> NoConfig]
  /\ host = [k \in Chats |-> None]
  /\ stream = [k \in Chats |-> FALSE]
  /\ posts = [k \in Chats |-> <<>>]
  /\ resp = [k \in Chats |-> NoResp]
  /\ reply = [k \in Chats |-> NoReply]

-----------------------------------------------------------------------------
(* The registry is built before the portal serves.  Users then create,     *)
(* edit and delete configs.                                                *)

LoadProvider(n) == Visit(n) /\ UNCHANGED <<tableVars, chatVars>>

Store(c, r) ==
  /\ row' = [row EXCEPT ![c] = r]
  /\ stored' = [stored EXCEPT ![c] = @ \cup {Said(r)}]

Edit(c, r) ==
  /\ Loaded /\ edits < MaxEdits
  /\ edits' = edits + 1
  /\ Store(c, r)
  /\ UNCHANGED <<registryVars, issued, chatVars>>

(* The device flow: a login, and the first key issued for it.              *)
Login(c, r) ==
  /\ Loaded /\ edits < MaxEdits /\ Len(issued) < MaxKeys
  /\ r.copilot /\ r.secret # None
  /\ edits' = edits + 1
  /\ issued' = Append(issued, r.secret)
  /\ Store(c, [r EXCEPT !.key = Len(issued) + 1])
  /\ UNCHANGED <<registryVars, chatVars>>

DeleteConfig(c) ==
  /\ Loaded /\ row[c] # NoConfig
  /\ row' = [row EXCEPT ![c] = NoConfig]
  /\ UNCHANGED <<registryVars, issued, stored, edits, chatVars>>

-----------------------------------------------------------------------------
(* handleChatCompletions, resolveModel, resolveAuthForModel.               *)

Go(k, there) == pc' = [pc EXCEPT ![k] = there]

Forget(k) ==
  /\ Go(k, "done")
  /\ at' = [at EXCEPT ![k] = None]
  /\ copy' = [copy EXCEPT ![k] = NoConfig]
  /\ UNCHANGED <<registryVars, tableVars, host, stream, posts, resp, reply>>

(* http.Error: nothing has been written before.                            *)
Refuse(k, status) ==
  /\ Go(k, "done")
  /\ reply' = [reply EXCEPT ![k].status = status]
  /\ UNCHANGED <<registryVars, tableVars, at, copy, host, stream, posts, resp>>

Chat(k, c, streamed) ==
  /\ Loaded /\ pc[k] = "idle"
  /\ Go(k, "auth")
  /\ at' = [at EXCEPT ![k] = c]
  /\ stream' = [stream EXCEPT ![k] = streamed]
  /\ UNCHANGED <<registryVars, tableVars, copy, host, posts, resp, reply>>

(* handleCopilotModels.                                                    *)
ListModels(k, c) ==
  /\ Loaded /\ pc[k] = "idle"
  /\ Go(k, "auth")
  /\ at' = [at EXCEPT ![k] = c]
  /\ UNCHANGED <<registryVars, tableVars, copy, host, stream, posts, resp, reply>>

(* No such method, no JSON, no model, or a model without a config.         *)
Malformed(k) == Loaded /\ pc[k] = "idle" /\ Refuse(k, "bad request")

HasToken(r) == r.secret # None \/ (r.copilot /\ r.key # 0)
MayBeFresh(r) == ~r.copilot \/ r.secret = None \/ r.key # 0

(* ensureFreshCopilotToken renews a key that is missing or near its expiry *)
(* (left open), if there is a login to renew it with.                      *)
ReadAuth(k) ==
  LET r == row[at[k]]
  IN  /\ pc[k] = "auth" /\ HasToken(r)
      /\ copy' = [copy EXCEPT ![k] = r]
      /\ IF k \in Chats THEN host' = [host EXCEPT ![k] = r.host] ELSE r.copilot /\ UNCHANGED host
      /\ \/ MayBeFresh(r) /\ Go(k, "post")
         \/ r.copilot /\ r.secret # None /\ Go(k, "exchange")
      /\ UNCHANGED <<registryVars, tableVars, at, stream, posts, resp, reply>>

(* The config cannot be read, is gone, or holds no token.                  *)
NoAuth(k) == pc[k] = "auth" /\ Refuse(k, "bad request")

(* A request for the models stops when it has no config or no fresh key,   *)
(* and when it has fetched them; what it answers is left out.              *)
Listed(k) == pc[k] \in {"auth", "exchange", "post"} /\ Forget(k)

-----------------------------------------------------------------------------
(* refreshCopilotToken, before the first post or after it was refused.     *)

(* GitHub may name another host with the key.                              *)
Exchange(k, h) ==
  /\ pc[k] = "exchange" /\ copy[k].secret # None
  /\ Len(issued) < MaxKeys
  /\ issued' = Append(issued, copy[k].secret)
  /\ copy' = [copy EXCEPT ![k].key = Len(issued) + 1, ![k].host = h]
  /\ Go(k, "persist")
  /\ UNCHANGED <<registryVars, row, stored, edits, at, host, stream, posts, resp, reply>>

(* Writes the whole copy back; a failure is only logged.                   *)
Persist(k) ==
  /\ pc[k] = "persist"
  /\ Go(k, "post")
  /\ \/ row[at[k]] # NoConfig /\ Store(at[k], copy[k])
     \/ UNCHANGED <<row, stored>>
  /\ UNCHANGED <<registryVars, issued, edits, at, copy, host, stream, posts, resp, reply>>

(* An answer is passed on: the header of a streamed one is written at once.*)
Deliver(k, status) ==
  IF stream[k]
  THEN Go(k, "relay") /\ reply' = [reply EXCEPT ![k].status = status]
  ELSE Go(k, "read all") /\ UNCHANGED reply

(* Before the first post the old key serves, or the login itself; after it *)
(* the refused answer is passed on, whose body has been closed.            *)
ExchangeFails(k) ==
  /\ pc[k] = "exchange"
  /\ IF posts[k] = <<>> THEN Go(k, "post") /\ UNCHANGED reply ELSE Deliver(k, resp[k].status)
  /\ UNCHANGED <<registryVars, tableVars, at, copy, host, stream, posts, resp>>

-----------------------------------------------------------------------------
(* proxyChatCompletion.                                                    *)

BadPosted(k) == [as |-> Lookup(Said(copy[k]).provider), host |-> row[at[k]].host, secret |-> copy[k].secret,
                 key |-> copy[k].key, status |-> "none"]
(* The host is the one read before the key was renewed.                    *)
Posted(k) == [as |-> Lookup(Said(copy[k]).provider), host |-> host[k], secret |-> copy[k].secret,
              key |-> copy[k].key, status |-> "none"]

Post(k) ==
  /\ pc[k] = "post"
  /\ posts' = [posts EXCEPT ![k] = Append(@, Posted(k))]
  /\ Go(k, "posted")
  /\ UNCHANGED <<registryVars, tableVars, at, copy, host, stream, resp, reply>>

BadRetries(k, status) == copy[k].copilot /\ status = "refused"
Retries(k, status) == copy[k].copilot /\ status = "refused" /\ Len(posts[k]) = 1

(* The head of an answer: 200, 401 or 403, or another status.              *)
Answered(k, status) ==
  /\ pc[k] = "posted"
  /\ posts' = [posts EXCEPT ![k][Len(posts[k])].status = status]
  /\ IF Retries(k, status)
     THEN /\ resp' = [resp EXCEPT ![k] = [status |-> status, lines |-> <<>>, end |-> "cut"]]
          /\ Go(k, "exchange")
          /\ UNCHANGED reply
     ELSE /\ resp' = [resp EXCEPT ![k] = [status |-> status, lines |-> <<>>, end |-> "open"]]
          /\ Deliver(k, status)
  /\ UNCHANGED <<registryVars, tableVars, at, copy, host, stream>>

(* No connection, or none in time.                                         *)
PostFails(k) ==
  /\ pc[k] = "posted"
  /\ IF Len(posts[k]) = 1
     THEN Refuse(k, "bad gateway")
     ELSE /\ Deliver(k, resp[k].status)
          /\ UNCHANGED <<registryVars, tableVars, at, copy, host, stream, posts, resp>>

-----------------------------------------------------------------------------
(* The body arrives line by line, until it ends or is cut: by the network, *)
(* or by the client's timeout, which covers the body.                      *)

Receiving(k) == pc[k] \in {"relay", "read all"} /\ resp[k].end = "open"

Arrives(k, line) ==
  /\ Receiving(k) /\ Len(resp[k].lines) < MaxLines
  /\ resp' = [resp EXCEPT ![k].lines = Append(@, line)]
  /\ UNCHANGED <<registryVars, tableVars, pc, at, copy, host, stream, posts, reply>>

BodyEnds(k, end) ==
  /\ Receiving(k)
  /\ resp' = [resp EXCEPT ![k].end = end]
  /\ UNCHANGED <<registryVars, tableVars, pc, at, copy, host, stream, posts, reply>>

(* The server flushes what is left when the handler returns.               *)
Finish(k, status, lines) ==
  /\ Go(k, "done")
  /\ reply' = [reply EXCEPT ![k] = [status |-> status, lines |-> lines, shown |-> Len(lines)]]
  /\ UNCHANGED <<registryVars, tableVars, at, copy, host, stream, posts, resp>>

Unread(k) == Len(reply[k].lines) < Len(resp[k].lines)
NextLine(k) == resp[k].lines[Len(reply[k].lines) + 1]

BadFlushes(k) == FALSE
(* streamChatResponse flushes after each event; an error body is copied.   *)
Flushes(k) == resp[k].status = "ok" /\ NextLine(k) = "blank"

RelayLine(k) ==
  LET lines == Append(reply[k].lines, NextLine(k))
  IN  /\ pc[k] = "relay" /\ Unread(k)
      /\ IF resp[k].status = "ok" /\ NextLine(k) = "done"
         THEN Finish(k, "ok", Append(lines, "blank"))
         ELSE /\ reply' = [reply EXCEPT ![k].lines = lines,
                                        ![k].shown = IF Flushes(k) THEN Len(lines) ELSE @]
              /\ UNCHANGED <<registryVars, tableVars, pc, at, copy, host, stream, posts, resp>>

(* The scanner meets a line of more than 512 KB, or the client is gone.    *)
RelayStops(k) ==
  /\ pc[k] = "relay" /\ Unread(k) /\ resp[k].status = "ok"
  /\ Finish(k, reply[k].status, reply[k].lines)

BadOver(k) == resp[k].end = "end"
(* The loops end on any error of the body, its end being one.              *)
Over(k) == resp[k].end # "open"

RelayEnds(k) ==
  /\ pc[k] = "relay" /\ ~Unread(k) /\ Over(k)
  /\ Finish(k, reply[k].status, reply[k].lines)

(* io.ReadAll: the whole body, or an error.                                *)
ReadAll(k) ==
  /\ pc[k] = "read all"
  /\ \/ resp[k].end = "end" /\ Finish(k, resp[k].status, resp[k].lines)
     \/ resp[k].end = "cut" /\ Finish(k, "unreadable", <<>>)

-----------------------------------------------------------------------------
Renewal(k) == ReadAuth(k) \/ Persist(k) \/ \E h \in Hosts : Exchange(k, h)

Portal(k) ==
  \/ Renewal(k) \/ NoAuth(k) \/ ExchangeFails(k) \/ Post(k)
  \/ RelayLine(k) \/ RelayStops(k) \/ RelayEnds(k) \/ ReadAll(k)

Provider(k) ==
  \/ \E status \in Upstream : Answered(k, status)
  \/ \E line \in Lines : Arrives(k, line)
  \/ BodyEnds(k, "end")

Next ==
  \/ \E n \in Known : LoadProvider(n)
  \/ \E c \in Configs : DeleteConfig(c) \/ \E r \in Forms : Edit(c, r) \/ Login(c, r)
  \/ \E k \in Chats :
       \/ Portal(k) \/ Provider(k) \/ PostFails(k) \/ BodyEnds(k, "cut") \/ Malformed(k)
       \/ \E c \in Configs, streamed \in BOOLEAN : Chat(k, c, streamed)
  \/ \E k \in Listers : Renewal(k) \/ Listed(k) \/ \E c \in Configs : ListModels(k, c)

Spec == Init /\ [][Next]_vars

(* The handler runs on, and the timeouts of the http.Client go off however *)
(* silent the provider is.  Nothing is assumed of provider and users.      *)
FairSpec ==
  /\ Spec
  /\ \A k \in Chats : WF_vars(Portal(k)) /\ WF_vars(PostFails(k)) /\ WF_vars(BodyEnds(k, "cut"))

-----------------------------------------------------------------------------
(* Properties.                                                             *)

(* A conversation is posted at most twice, the second time only after      *)
(* Copilot refused the first, to the same host and with a key issued later *)
(* than the refused one and for the same login, whatever keys other chats  *)
(* have got meanwhile and whatever users have made of the config.          *)
RetriedOnce ==
  \A k \in Chats :
    /\ Len(posts[k]) <= 2
    /\ Len(posts[k]) = 2 =>
         LET first == posts[k][1]  second == posts[k][2]
         IN  /\ first.status = "refused" /\ first.as = Lookup(CopilotName)
             /\ second.key > first.key /\ issued[second.key] = first.secret
             /\ second = [first EXCEPT !.key = second.key, !.status = second.status]

(* What is posted under a key goes to a host, and with the headers of the  *)
(* provider, that the config had together with that key's login, although  *)
(* edits and renewals of the row fall between its reading and the posts.   *)
SentAsStored ==
  \A k \in Chats : \A i \in DOMAIN posts[k] : \E s \in stored[at[k]] :
    /\ posts[k][i].host = s.host /\ posts[k][i].secret = s.secret
    /\ \A p \in Providers : Means(s.provider, p) <=> posts[k][i].as = p

(* A stream is relayed up to "data: [DONE]" and closed with a blank line,  *)
(* an error's body as it is.                                               *)
Through(status, sent, came) ==
  \/ /\ IsPrefix(sent, came)
     /\ status = "ok" => \A i \in DOMAIN sent : sent[i] # "done"
  \/ /\ status = "ok"
     /\ \E n \in DOMAIN came :
          /\ came[n] = "done" /\ \A i \in 1 .. n - 1 : came[i] # "done"
          /\ sent = Append(SubSeq(came, 1, n), "blank")

(* The client is told one answer: status and lines are those of the last   *)
(* post that was answered, in order and up to [DONE] ...                   *)
OneAnswer(k) ==
  reply[k].status \in Upstream =>
    /\ resp[k].status = reply[k].status
    /\ IF stream[k] THEN Through(resp[k].status, reply[k].lines, resp[k].lines)
                    ELSE reply[k].lines = resp[k].lines /\ resp[k].end = "end"
    /\ LET answered == {i \in DOMAIN posts[k] : posts[k][i].status # "none"}
       IN  \E i \in answered : posts[k][i].status = reply[k].status /\ \A j \in answered : j <= i

(* ... and whenever the portal waits for more of a stream, the client has  *)
(* all the events that have come.                                          *)
NoneHeldBack(k) ==
  (pc[k] = "relay" /\ resp[k].status = "ok" /\ ~Unread(k)) =>
    \A i \in DOMAIN reply[k].lines : reply[k].lines[i] = "blank" => i <= reply[k].shown

Relayed == \A k \in Chats : OneAnswer(k) /\ NoneHeldBack(k)

(* Every chat gets an answer that ends, be the provider or GitHub silent.  *)
EveryChatEnds == \A k \in Chats : pc[k] = "auth" ~> (pc[k] = "done" /\ reply[k].status # "none")

=============================================================================
