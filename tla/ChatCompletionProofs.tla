------------------------ MODULE ChatCompletionProofs ------------------------
(***************************************************************************)
(* Proofs about ChatCompletion and the registry it looks providers up in,  *)
(* for every table of providers without ambiguous names, any number of     *)
(* chats, configs and keys.                                                *)
(***************************************************************************)
EXTENDS ChatCompletion, SequenceTheorems, TLAPS

(* The loop of init: every provider has its id, every name is a provider's *)
(* own, and a provider that has been visited has all of its names.         *)
Loading ==
  /\ \A p \in Providers : p \in DOMAIN registry /\ registry[p] = p
  /\ \A n \in DOMAIN registry : Means(n, registry[n])
  /\ \A p \in Providers \ unvisited : AliasesOf[p] \subseteq DOMAIN registry

(* Rows say what was stored, and hold keys that were issued.               *)
RowsStored ==
  \A c \in Configs : row[c] # NoConfig =>
    Said(row[c]) \in stored[c] /\ row[c].key <= Len(issued)

Working == {"exchange", "persist", "post"}

(* A request works on the copy of a row, with an issued key.               *)
Copied(k) ==
  /\ pc[k] # "idle" => Loaded
  /\ pc[k] \notin {"idle", "done"} => at[k] \in Configs
  /\ pc[k] \in Working => copy[k] \in Rows /\ copy[k].key <= Len(issued)

(* What a chat will send was stored as such.                               *)
Sent(k) == [provider |-> Said(copy[k]).provider, host |-> host[k], secret |-> copy[k].secret]

Holds(k) ==
  /\ at[k] \in Configs /\ copy[k] \in Rows /\ host[k] \in Hosts
  /\ copy[k].key <= Len(issued)
  /\ Sent(k) \in stored[at[k]]

(* A post differs from the next one the chat could make by its key.        *)
Alike(k, post) == /\ post.as = Lookup(Said(copy[k]).provider)
                  /\ post.host = host[k] /\ post.secret = copy[k].secret
                  /\ post.key <= copy[k].key

(* A retry carries a key issued since, for the login of the refused one.   *)
NewKey(k) == /\ copy[k].key > posts[k][1].key
             /\ copy[k].key \in DOMAIN issued /\ issued[copy[k].key] = copy[k].secret

(* After one post a chat works on only to retry.                           *)
Retrying(k) ==
  /\ copy[k].copilot /\ posts[k][1].status = "refused"
  /\ pc[k] \in {"persist", "post"} => NewKey(k)

Retried(k) ==
  /\ posts[k][1].status = "refused" /\ posts[k][1].as = Lookup(CopilotName)
  /\ posts[k][2].key > posts[k][1].key
  /\ posts[k][2].key \in DOMAIN issued /\ issued[posts[k][2].key] = posts[k][1].secret

Chatting(k) ==
  /\ pc[k] \in {"idle", "auth"} => posts[k] = <<>>
  /\ pc[k] \notin {"idle", "auth", "done"} \/ posts[k] # <<>> => Holds(k)
  /\ Len(posts[k]) <= 2
  /\ pc[k] \in Working => Len(posts[k]) <= 1
  /\ pc[k] = "posted" => Len(posts[k]) >= 1
  /\ \A i \in DOMAIN posts[k] : Alike(k, posts[k][i])
  /\ pc[k] \in Working /\ Len(posts[k]) = 1 => Retrying(k)
  /\ Len(posts[k]) = 2 => Retried(k)

IInv ==
  /\ TypeOK /\ Loading /\ RowsStored
  /\ \A k \in Requests : Copied(k)
  /\ \A k \in Chats : Chatting(k)

-----------------------------------------------------------------------------
(* The registry.                                                           *)

LEMMA LoadingSettles ==
  ASSUME RegistryTypeOK, Loading
  PROVE  Settled
BY Unambiguous DEF RegistryTypeOK, Loading, Settled, Loaded, Means, Known

(* A name is looked up as the provider it means, or as none.               *)
LEMMA LookupMeans ==
  ASSUME RegistryTypeOK, Loading, Loaded, NEW n, NEW p \in Providers
  PROVE  Means(n, p) <=> Lookup(n) = p
<1>1. CASE n \in Known
  BY <1>1, LoadingSettles, Unambiguous DEF Settled, Lookup, RegistryTypeOK
<1>2. CASE n \notin Known
  BY <1>2, Unambiguous DEF Lookup, RegistryTypeOK, Means, Known
<1> QED
  BY <1>1, <1>2

LEMMA LookupType ==
  ASSUME RegistryTypeOK, NEW n
  PROVE  Lookup(n) \in Providers \cup {Unknown}
BY DEF RegistryTypeOK, Lookup

LEMMA LoadingStep ==
  ASSUME RegistryTypeOK, Loading, NEW n \in Known, Visit(n)
  PROVE  RegistryTypeOK' /\ Loading'
<1> USE DEF RegistryTypeOK, Loading, Visit, Register, Means
<1>1. n \in DOMAIN registry /\ registry[n] \in Providers
  OBVIOUS
<1>2. /\ DOMAIN registry' = DOMAIN registry \cup AliasesOf[registry[n]]
      /\ \A m \in DOMAIN registry' :
           registry'[m] = IF m \in DOMAIN registry THEN registry[m] ELSE registry[n]
  BY <1>1
<1>3. RegistryTypeOK'
  BY <1>1, <1>2 DEF Known
<1>4. n \in unvisited => registry[n] = n
  OBVIOUS
<1> QED
  BY <1>1, <1>2, <1>3, <1>4

-----------------------------------------------------------------------------
(* What a step leaves as it was.                                           *)

(* Keys are only added, and what has been stored stays recorded.           *)
Grows ==
  /\ UNCHANGED registryVars
  /\ Len(issued) <= Len(issued')
  /\ \A i \in DOMAIN issued : i \in DOMAIN issued' /\ issued'[i] = issued[i]
  /\ \A c \in Configs : stored[c] \subseteq stored'[c]

LEMMA Types ==
  /\ MaxKeys \in Nat /\ MaxLines \in Nat /\ MaxEdits \in Nat
  /\ Forms \subseteq Rows /\ None \in Secrets /\ NoConfig \notin Rows /\ NoConfig.secret = None
  /\ ~NoConfig.copilot /\ NoConfig.key = 0
  /\ \A r \in Rows : Said(r) \in Sayings
BY ChatAssumption DEF Secrets, Rows, NoConfig, Said, Sayings

LEMMA StoredMore ==
  ASSUME NEW s \in [Configs -> SUBSET Sayings], NEW c \in Configs, NEW said \in Sayings
  PROVE  [s EXCEPT ![c] = @ \cup {said}] \in [Configs -> SUBSET Sayings]
OBVIOUS

LEMMA OneOrNone ==
  ASSUME NEW n \in Nat, n <= 1
  PROVE  n <= 2 /\ n # 2 /\ (n = 0 \/ n = 1)
OBVIOUS

LEMMA TwoOrOne ==
  ASSUME NEW n \in Nat, n >= 1, n <= 2
  PROVE  n = 1 \/ n = 2
OBVIOUS

LEMMA PostsOf ==
  ASSUME TypeOK, NEW k \in Chats
  PROVE  posts[k] \in Seq(Posts) /\ Len(posts[k]) \in Nat /\ DOMAIN posts[k] = 1..Len(posts[k])
BY DEF TypeOK

LEMMA CopiedKept ==
  ASSUME TypeOK, TypeOK', Grows, NEW k \in Requests, Copied(k),
         pc'[k] = pc[k], at'[k] = at[k], copy'[k] = copy[k]
  PROVE  Copied(k)'
BY ChatAssumption DEF TypeOK, Grows, Copied, Working, Loaded, registryVars, Rows

LEMMA HoldsKept ==
  ASSUME TypeOK, TypeOK', Grows, NEW k \in Chats, Holds(k),
         at'[k] = at[k], copy'[k] = copy[k], host'[k] = host[k]
  PROVE  Holds(k)'
BY ChatAssumption DEF TypeOK, Grows, Holds, Sent, Said, Rows

LEMMA ChattingKept ==
  ASSUME TypeOK, TypeOK', Grows, NEW k \in Chats, Chatting(k),
         pc'[k] = pc[k], at'[k] = at[k], copy'[k] = copy[k], host'[k] = host[k], posts'[k] = posts[k]
  PROVE  Chatting(k)'
<1>1. Holds(k) => Holds(k)'
  BY HoldsKept
<1>2. \A i \in DOMAIN posts[k] : Alike(k, posts[k][i])'
  BY DEF Chatting, Alike, Grows, Lookup, registryVars, Said
<1>3. NewKey(k) => NewKey(k)'
  BY DEF NewKey, Grows
<1>4. Retried(k) => Retried(k)'
  BY DEF Retried, Grows, Lookup, registryVars
<1> QED
  BY <1>1, <1>2, <1>3, <1>4 DEF Chatting, Retrying

LEMMA RowsKept ==
  ASSUME TypeOK, TypeOK', RowsStored, Grows, UNCHANGED row
  PROVE  RowsStored'
BY Types DEF TypeOK, RowsStored, Grows, Rows

LEMMA LoadingKept ==
  ASSUME Loading, Grows
  PROVE  Loading'
BY DEF Loading, Grows, registryVars, Means

LEMMA StillGrows ==
  ASSUME TypeOK, UNCHANGED <<registryVars, tableVars>>
  PROVE  Grows
BY DEF TypeOK, Grows, tableVars

LEMMA GrowsByKey ==
  ASSUME TypeOK, UNCHANGED registryVars, NEW s \in Secrets, issued' = Append(issued, s),
         \A c \in Configs : stored[c] \subseteq stored'[c]
  PROVE  /\ Grows /\ Len(issued') = Len(issued) + 1
         /\ Len(issued) + 1 \in DOMAIN issued' /\ issued'[Len(issued) + 1] = s
BY DEF TypeOK, Grows

-----------------------------------------------------------------------------
(* The steps.                                                              *)

LEMMA InvInit == Init => IInv
<1> SUFFICES ASSUME Init PROVE IInv
  OBVIOUS
<1> USE DEF Init
<1>1. RegistryTypeOK /\ Loading
  BY DEF RegistryInit, RegistryTypeOK, Loading, Known, Means
<1>2. TypeOK
  BY <1>1, Types DEF TypeOK, Steps, NoResp, NoReply, Statuses
<1>3. RowsStored /\ \A k \in Requests : Copied(k)
  BY DEF RowsStored, Copied, Working
<1>4. \A k \in Chats : Chatting(k)
  BY DEF Chatting, Requests, Working
<1> QED
  BY <1>1, <1>2, <1>3, <1>4 DEF IInv

LEMMA InvLoad ==
  ASSUME IInv, NEW n \in Known, LoadProvider(n)
  PROVE  IInv'
<1> USE DEF LoadProvider, tableVars, chatVars
<1>1. RegistryTypeOK' /\ Loading'
  BY LoadingStep DEF IInv, TypeOK
<1>2. TypeOK'
  BY <1>1 DEF IInv, TypeOK
<1>3. RowsStored'
  BY DEF IInv, RowsStored, Said
<1>4. ~Loaded
  BY DEF Visit, Loaded
<1>5. \A k \in Requests : pc[k] = "idle" /\ Copied(k)'
  BY <1>4 DEF IInv, Copied, Working
<1>6. \A k \in Chats : Chatting(k)'
  <2> SUFFICES ASSUME NEW k \in Chats PROVE Chatting(k)'
    OBVIOUS
  <2>1. pc'[k] = "idle" /\ posts'[k] = <<>>
    BY <1>5 DEF IInv, Chatting, Requests
  <2> QED
    BY <2>1 DEF Chatting, Working
<1> QED
  BY <1>1, <1>2, <1>3, <1>5, <1>6 DEF IInv

(* Users change tables and no request.                                     *)
LEMMA InvTables ==
  ASSUME IInv, Grows, TypeOK', RowsStored', UNCHANGED chatVars
  PROVE  IInv'
<1> USE DEF IInv, chatVars
<1>1. Loading'
  BY LoadingKept
<1>2. \A k \in Requests : Copied(k)'
  BY CopiedKept
<1>3. \A k \in Chats : Chatting(k)'
  BY ChattingKept
<1> QED
  BY <1>1, <1>2, <1>3

(* A row is written: by users, or back by a request.                       *)
LEMMA RowStored ==
  ASSUME TypeOK, RowsStored, NEW c \in Configs, NEW r \in Rows, Store(c, r),
         issued' \in Seq(Secrets), Len(issued) <= Len(issued'), r.key <= Len(issued')
  PROVE  /\ row' \in [Configs -> Rows \cup {NoConfig}]
         /\ stored' \in [Configs -> SUBSET Sayings]
         /\ \A d \in Configs : stored[d] \subseteq stored'[d]
         /\ RowsStored'
<1>1. Said(r) \in Sayings
  BY Types
<1>2. stored' \in [Configs -> SUBSET Sayings]
  BY <1>1, StoredMore DEF TypeOK, Store
<1>3. row' \in [Configs -> Rows \cup {NoConfig}]
  BY DEF TypeOK, Store
<1>4. \A d \in Configs : stored[d] \subseteq stored'[d]
  BY DEF TypeOK, Store
<1>5. Said(r) \in stored'[c] /\ row'[c] = r
  BY DEF TypeOK, Store
<1>6. \A d \in Configs \ {c} : row'[d] = row[d] /\ stored'[d] = stored[d]
  BY DEF TypeOK, Store
<1>7. \A d \in Configs : row[d] # NoConfig => row[d].key <= Len(issued')
  BY Types DEF TypeOK, RowsStored, Rows
<1>8. RowsStored'
  BY <1>5, <1>6, <1>7 DEF RowsStored
<1> QED
  BY <1>2, <1>3, <1>4, <1>8

LEMMA InvEdit ==
  ASSUME IInv, NEW c \in Configs, NEW r \in Forms, Edit(c, r)
  PROVE  IInv'
<1> USE Types DEF IInv, Edit
<1>1. r \in Rows /\ r.key <= Len(issued')
  BY ChatAssumption DEF TypeOK
<1>2. /\ row' \in [Configs -> Rows \cup {NoConfig}]
      /\ stored' \in [Configs -> SUBSET Sayings]
      /\ \A d \in Configs : stored[d] \subseteq stored'[d]
      /\ RowsStored'
  BY <1>1, RowStored DEF TypeOK
<1>3. TypeOK'
  BY <1>2 DEF TypeOK, RegistryTypeOK, registryVars, chatVars
<1>4. Grows
  BY <1>2 DEF TypeOK, Grows
<1> QED
  BY <1>2, <1>3, <1>4, InvTables

LEMMA InvLogin ==
  ASSUME IInv, NEW c \in Configs, NEW r \in Forms, Login(c, r)
  PROVE  IInv'
<1> USE Types DEF IInv, Login
<1> DEFINE new == [r EXCEPT !.key = Len(issued) + 1]
<1>0. Len(issued) + 1 \in 0..MaxKeys
  BY DEF TypeOK
<1>1. new \in Rows /\ r.secret \in Secrets /\ new.key = Len(issued) + 1
  BY <1>0 DEF Rows
<1>2. issued' \in Seq(Secrets) /\ Len(issued') = Len(issued) + 1
  BY <1>1 DEF TypeOK
<1>3. Store(c, new)
  OBVIOUS
<1> HIDE DEF new
<1>4. /\ row' \in [Configs -> Rows \cup {NoConfig}]
      /\ stored' \in [Configs -> SUBSET Sayings]
      /\ \A d \in Configs : stored[d] \subseteq stored'[d]
      /\ RowsStored'
  BY <1>1, <1>2, <1>3, RowStored DEF TypeOK
<1>5. Grows
  BY <1>1, <1>4, GrowsByKey
<1>6. edits' \in 0..MaxEdits /\ Len(issued') <= MaxKeys
  BY <1>0, <1>2 DEF TypeOK
<1>7. TypeOK'
  BY <1>2, <1>4, <1>6 DEF TypeOK, RegistryTypeOK, registryVars, chatVars
<1> QED
  BY <1>4, <1>5, <1>7, InvTables

LEMMA InvDelete ==
  ASSUME IInv, NEW c \in Configs, DeleteConfig(c)
  PROVE  IInv'
<1> USE Types DEF IInv, DeleteConfig
<1>1. TypeOK'
  BY DEF TypeOK, RegistryTypeOK, registryVars, chatVars
<1>2. Grows
  BY DEF TypeOK, Grows
<1>3. RowsStored'
  BY <1>2 DEF TypeOK, RowsStored, Said
<1> QED
  BY <1>1, <1>2, <1>3, InvTables

(* Every other step is one request's.                                      *)
Others(k) ==
  \A j \in Requests \ {k} : pc'[j] = pc[j] /\ at'[j] = at[j] /\ copy'[j] = copy[j]
OtherChats(k) ==
  \A j \in Chats \ {k} : host'[j] = host[j] /\ posts'[j] = posts[j]

LEMMA InvRequest ==
  ASSUME IInv, NEW k \in Requests, Grows, Others(k), OtherChats(k), TypeOK', RowsStored',
         Copied(k)', k \in Chats => Chatting(k)'
  PROVE  IInv'
<1> USE DEF IInv, Others, OtherChats
<1>1. Loading'
  BY LoadingKept
<1>2. \A j \in Requests : Copied(j)'
  BY CopiedKept
<1>3. \A j \in Chats : Chatting(j)'
  BY ChattingKept DEF Requests
<1> QED
  BY <1>1, <1>2, <1>3

(* One that changes no table.                                              *)
LEMMA InvQuiet ==
  ASSUME IInv, NEW k \in Requests, UNCHANGED <<registryVars, tableVars>>, Others(k), OtherChats(k),
         TypeOK', Copied(k)', k \in Chats => Chatting(k)'
  PROVE  IInv'
<1>1. Grows
  BY StillGrows DEF IInv
<1>2. RowsStored'
  BY <1>1, RowsKept DEF IInv, tableVars
<1> QED
  BY <1>1, <1>2, InvRequest

(* One that leaves a chat's copy and posts as they are, on its way out.    *)
LEMMA InvOn ==
  ASSUME IInv, NEW k \in Chats, UNCHANGED <<registryVars, tableVars, at, copy, host, posts>>,
         Others(k), TypeOK', pc'[k] \in {"relay", "read all", "done"},
         pc'[k] = "done" \/ pc[k] \notin {"idle", "auth", "done"}, Loaded
  PROVE  IInv'
<1> USE DEF IInv, Requests
<1>1. Grows
  BY StillGrows
<1>2. Copied(k)'
  BY DEF Copied, Working, Loaded, registryVars
<1>3. Chatting(k)'
  <2>1. Holds(k) => Holds(k)'
    BY <1>1, HoldsKept
  <2>2. \A i \in DOMAIN posts[k] : Alike(k, posts[k][i])'
    BY DEF Chatting, Alike, Lookup, registryVars, Said
  <2>3. Retried(k) => Retried(k)'
    BY DEF Retried, Lookup, registryVars, tableVars
  <2> QED
    BY <2>1, <2>2, <2>3 DEF Chatting, Working
<1> QED
  BY <1>2, <1>3, InvQuiet DEF OtherChats

-----------------------------------------------------------------------------
(* A request begins, and reads its config.                                 *)

LEMMA InvChat ==
  ASSUME IInv, NEW k \in Chats, NEW c \in Configs, NEW streamed \in BOOLEAN, Chat(k, c, streamed)
  PROVE  IInv'
<1> USE DEF IInv, Chat, Go, Requests
<1>1. TypeOK'
  BY DEF TypeOK, RegistryTypeOK, registryVars, tableVars, Steps
<1>2. Others(k) /\ OtherChats(k) /\ pc'[k] = "auth" /\ at'[k] = c /\ posts'[k] = <<>>
  BY DEF TypeOK, Others, OtherChats, Chatting
<1>3. Copied(k)' /\ Chatting(k)'
  BY <1>2 DEF Copied, Chatting, Working, Loaded, registryVars
<1> QED
  BY <1>1, <1>2, <1>3, InvQuiet

LEMMA InvListModels ==
  ASSUME IInv, NEW k \in Listers, NEW c \in Configs, ListModels(k, c)
  PROVE  IInv'
<1> USE DEF IInv, ListModels, Go, Requests
<1>1. TypeOK'
  BY DEF TypeOK, RegistryTypeOK, registryVars, tableVars, Steps
<1>2. Others(k) /\ OtherChats(k) /\ pc'[k] = "auth" /\ at'[k] = c /\ k \notin Chats
  BY ChatAssumption DEF TypeOK, Others, OtherChats
<1>3. Copied(k)'
  BY <1>2 DEF Copied, Working, Loaded, registryVars
<1> QED
  BY <1>1, <1>2, <1>3, InvQuiet

LEMMA InvListed ==
  ASSUME IInv, NEW k \in Listers, Listed(k)
  PROVE  IInv'
<1> USE DEF IInv, Listed, Forget, Go, Requests
<1>1. TypeOK'
  BY DEF TypeOK, RegistryTypeOK, registryVars, tableVars, Steps
<1>2. Others(k) /\ OtherChats(k) /\ pc'[k] = "done" /\ k \notin Chats
  BY ChatAssumption DEF TypeOK, Others, OtherChats
<1>3. Copied(k)'
  BY <1>2 DEF Copied, Working, Loaded, registryVars
<1> QED
  BY <1>1, <1>2, <1>3, InvQuiet

LEMMA InvReadAuth ==
  ASSUME IInv, NEW k \in Requests, ReadAuth(k)
  PROVE  IInv'
<1> DEFINE r == row[at[k]]
<1> USE DEF IInv, ReadAuth, Go
<1>1. /\ pc[k] = "auth" /\ at[k] \in Configs /\ Loaded
      /\ r \in Rows /\ Said(r) \in stored[at[k]] /\ r.key <= Len(issued)
  BY Types DEF Copied, HasToken, TypeOK, RowsStored
<1>2. pc' \in [Requests -> Steps] /\ copy' \in [Requests -> Rows \cup {NoConfig}]
  BY <1>1 DEF TypeOK, Steps
<1>3. host' \in [Chats -> Hosts \cup {None}]
  BY <1>1 DEF TypeOK, Rows
<1>4. TypeOK'
  BY <1>2, <1>3 DEF Answered, TypeOK, RegistryTypeOK, registryVars, tableVars
<1>5. /\ Others(k) /\ OtherChats(k)
      /\ pc'[k] \in {"post", "exchange"} /\ copy'[k] = r /\ at'[k] = at[k]
  BY DEF TypeOK, Others, OtherChats
<1>6. Copied(k)'
  BY <1>1, <1>5 DEF Copied, Working, Loaded, registryVars, tableVars
<1>7. ASSUME k \in Chats PROVE Chatting(k)'
  <2>1. host'[k] = r.host /\ posts'[k] = <<>> /\ r.host \in Hosts
    BY <1>1, <1>7 DEF TypeOK, Chatting, Rows
  <2>2. [provider |-> Said(r).provider, host |-> r.host, secret |-> r.secret] = Said(r)
    BY DEF Said
  <2>3. Holds(k)'
    BY <1>1, <1>5, <2>1, <2>2 DEF Holds, Sent, tableVars
  <2> QED
    BY <1>5, <2>1, <2>3 DEF Chatting, Working
<1> QED
  BY <1>4, <1>5, <1>6, <1>7, InvQuiet

-----------------------------------------------------------------------------
(* A key is renewed.                                                       *)

LEMMA InvExchange ==
  ASSUME IInv, NEW k \in Requests, NEW h \in Hosts, Exchange(k, h)
  PROVE  IInv'
<1> DEFINE new == [copy[k] EXCEPT !.key = Len(issued) + 1, !.host = h]
<1> USE DEF IInv, Exchange, Go
<1>1. /\ pc[k] = "exchange" /\ at[k] \in Configs /\ Loaded
      /\ copy[k] \in Rows /\ copy[k].key <= Len(issued) /\ copy[k].secret \in Secrets
  BY DEF Copied, Working, TypeOK, Rows
<1>2. Len(issued) + 1 \in 0..MaxKeys
  BY Types DEF TypeOK
<1>3. /\ new \in Rows /\ new.key = Len(issued) + 1 /\ new.secret = copy[k].secret
      /\ new.copilot = copy[k].copilot /\ new.provider = copy[k].provider
  BY <1>1, <1>2 DEF Rows
<1>4. /\ pc'[k] = "persist" /\ at'[k] = at[k] /\ copy'[k] = new
      /\ Others(k) /\ OtherChats(k) /\ UNCHANGED <<host, posts>>
  BY DEF TypeOK, Others, OtherChats
<1>5. copy' \in [Requests -> Rows \cup {NoConfig}] /\ pc' \in [Requests -> Steps]
  BY <1>3 DEF TypeOK, Steps
<1>6. issued' \in Seq(Secrets) /\ Len(issued') <= MaxKeys
  BY <1>1, <1>2 DEF TypeOK
<1> HIDE DEF new
<1>7. /\ Grows /\ Len(issued') = Len(issued) + 1
      /\ new.key \in DOMAIN issued' /\ issued'[new.key] = copy[k].secret
  BY <1>1, <1>3, GrowsByKey
<1>8. TypeOK'
  BY <1>5, <1>6 DEF TypeOK, RegistryTypeOK, registryVars
<1>9. RowsStored'
  BY <1>7, <1>8, RowsKept
<1>10. Copied(k)'
  BY <1>1, <1>3, <1>4, <1>7, Types DEF Copied, Working, Loaded, Grows, registryVars
<1>11. ASSUME k \in Chats PROVE Chatting(k)'
  <2>1. Holds(k) /\ (Len(posts[k]) = 1 => Retrying(k)) /\ Len(posts[k]) <= 1
    BY <1>1, <1>11 DEF Chatting, Working
  <2>2. Said(new).provider = Said(copy[k]).provider
    BY <1>3 DEF Said
  <2>3. Sent(k)' = Sent(k)
    BY <1>3, <1>4, <2>2 DEF Sent
  <2>4. Holds(k)'
    <3>1. at'[k] \in Configs /\ copy'[k] \in Rows /\ host'[k] \in Hosts /\ Sent(k) \in stored[at[k]]
      BY <1>3, <1>4, <2>1 DEF Holds
    <3>2. copy'[k].key <= Len(issued') /\ Sent(k)' \in stored'[at'[k]]
      BY <1>3, <1>4, <1>7, <2>3, <3>1 DEF Grows
    <3> QED
      BY <3>1, <3>2 DEF Holds
  <2>5. \A i \in DOMAIN posts[k] : Alike(k, posts[k][i]) /\ posts[k][i].key \in Nat
    <3>1. \A i \in DOMAIN posts[k] : posts[k][i] \in Posts
      BY <1>11 DEF TypeOK
    <3> QED
      BY <1>11, <3>1, Types DEF Chatting, Posts
  <2>6. \A i \in DOMAIN posts[k] : posts[k][i].key <= Len(issued)
    BY <1>1, <2>5, Types DEF Alike, Rows, TypeOK
  <2>7. (\A i \in DOMAIN posts[k] : Alike(k, posts[k][i]))'
    BY <1>3, <1>4, <1>7, <2>2, <2>5, <2>6 DEF Alike, Lookup, Grows, registryVars, TypeOK
  <2>8. Len(posts[k]) = 1 => Retrying(k)'
    BY <1>3, <1>4, <1>7, <1>11, <2>1, <2>5, <2>6 DEF Retrying, NewKey, TypeOK
  <2> QED
    <3>1. Len(posts[k]) \in Nat /\ Len(posts[k]) <= 1
      BY <1>11, <2>1, PostsOf
    <3>2. Len(posts[k]) <= 2 /\ Len(posts[k]) # 2
      BY <3>1, OneOrNone
    <3> HIDE DEF IInv, Exchange
    <3> QED
      BY <1>4, <2>4, <2>7, <2>8, <3>1, <3>2 DEF Chatting, Working
<1> QED
  BY <1>4, <1>7, <1>8, <1>9, <1>10, <1>11, InvRequest

LEMMA InvPersist ==
  ASSUME IInv, NEW k \in Requests, Persist(k)
  PROVE  IInv'
<1> USE DEF IInv, Persist, Go
<1>1. /\ pc[k] = "persist" /\ at[k] \in Configs /\ Loaded
      /\ copy[k] \in Rows /\ copy[k].key <= Len(issued)
  BY DEF Copied, Working
<1>2. /\ row' \in [Configs -> Rows \cup {NoConfig}]
      /\ stored' \in [Configs -> SUBSET Sayings]
      /\ \A d \in Configs : stored[d] \subseteq stored'[d]
      /\ RowsStored'
  <2>1. CASE Store(at[k], copy[k])
    BY <1>1, <2>1, RowStored DEF TypeOK
  <2>2. CASE UNCHANGED <<row, stored>>
    BY <2>2 DEF TypeOK, RowsStored, Said
  <2> QED
    BY <2>1, <2>2
<1>3. TypeOK'
  BY <1>2 DEF TypeOK, RegistryTypeOK, registryVars, Steps
<1>4. Grows
  BY <1>2 DEF TypeOK, Grows
<1>5. Others(k) /\ OtherChats(k) /\ pc'[k] = "post" /\ UNCHANGED <<at, copy, host, posts>>
  BY DEF TypeOK, Others, OtherChats
<1>6. Copied(k)'
  BY <1>1, <1>5 DEF Copied, Working, Loaded, registryVars
<1>7. ASSUME k \in Chats PROVE Chatting(k)'
  <2>1. Holds(k)' /\ Len(posts[k]) <= 1 /\ (Len(posts[k]) = 1 => Retrying(k))
    BY <1>1, <1>3, <1>4, <1>5, <1>7, HoldsKept DEF Chatting, Working
  <2>2. \A i \in DOMAIN posts[k] : Alike(k, posts[k][i])'
    BY <1>5, <1>7 DEF Chatting, Alike, Lookup, registryVars, Said
  <2>3. Retrying(k) => Retrying(k)'
    BY <1>1, <1>5 DEF Retrying, NewKey
  <2> QED
    BY <1>5, <1>7, <2>1, <2>2, <2>3 DEF Chatting, Working
<1> QED
  BY <1>2, <1>3, <1>4, <1>5, <1>6, <1>7, InvRequest

-----------------------------------------------------------------------------
(* The conversation is posted and answered.                                *)

LEMMA InvPost ==
  ASSUME IInv, NEW k \in Chats, Post(k)
  PROVE  IInv'
<1> USE DEF IInv, Post, Go, Requests
<1>1. /\ pc[k] = "post" /\ at[k] \in Configs /\ Loaded /\ Holds(k)
      /\ Len(posts[k]) <= 1 /\ (Len(posts[k]) = 1 => Retrying(k))
  BY DEF Copied, Chatting, Working
<1>2. Posted(k) \in Posts /\ Alike(k, Posted(k))
  <2>1. Lookup(Said(copy[k]).provider) \in Providers \cup {Unknown}
    BY LookupType DEF TypeOK
  <2>2. copy[k].secret \in Secrets /\ copy[k].key \in 0..MaxKeys
    BY <1>1 DEF Holds, Rows
  <2> QED
    BY <1>1, <2>1, <2>2, Types DEF Posts, Posted, Holds, Alike
<1>3. posts' = [posts EXCEPT ![k] = Append(posts[k], Posted(k))] /\ posts[k] \in Seq(Posts)
  BY DEF TypeOK
<1>4. posts' \in [Chats -> Seq(Posts)] /\ posts'[k] = Append(posts[k], Posted(k))
  BY <1>2, <1>3 DEF TypeOK
<1>5. TypeOK'
  BY <1>4 DEF TypeOK, RegistryTypeOK, registryVars, tableVars, Steps
<1>6. /\ Others(k) /\ OtherChats(k) /\ pc'[k] = "posted"
      /\ UNCHANGED <<registryVars, tableVars, at, copy, host>>
  BY DEF TypeOK, Others, OtherChats
<1>7. Copied(k)'
  BY <1>1, <1>6 DEF Copied, Working, Loaded, registryVars
<1>8. Chatting(k)'
  <2>1. Holds(k)'
    BY <1>1, <1>5, <1>6, HoldsKept, StillGrows
  <2>2. /\ Len(posts'[k]) = Len(posts[k]) + 1
        /\ \A i \in DOMAIN posts[k] : posts'[k][i] = posts[k][i]
        /\ posts'[k][Len(posts[k]) + 1] = Posted(k)
        /\ DOMAIN posts'[k] = DOMAIN posts[k] \cup {Len(posts[k]) + 1}
    BY <1>2, <1>3, <1>4
  <2>3. (\A i \in DOMAIN posts[k] : Alike(k, posts[k][i]))'
    <3>1. \A i \in DOMAIN posts'[k] : Alike(k, posts'[k][i])
      BY <1>2, <2>2 DEF Chatting
    <3>2. \A post : Alike(k, post) => Alike(k, post)'
      BY <1>6 DEF Alike, Lookup, registryVars, Said
    <3> QED
      BY <3>1, <3>2
  <2>4. Len(posts[k]) = 1 => Retried(k)'
    <3> SUFFICES ASSUME Len(posts[k]) = 1 PROVE Retried(k)'
      OBVIOUS
    <3>1. posts'[k][1] = posts[k][1] /\ posts'[k][2] = Posted(k) /\ Alike(k, posts[k][1])
      BY <1>3, <2>2 DEF Chatting
    <3>2. copy[k].copilot /\ posts[k][1].status = "refused" /\ NewKey(k)
      BY <1>1 DEF Retrying
    <3>3. Posted(k).key = copy[k].key /\ posts[k][1].secret = copy[k].secret
      BY <3>1 DEF Posted, Alike
    <3>4. posts[k][1].as = Lookup(CopilotName)
      BY <3>1, <3>2 DEF Alike, Said
    <3>5. Lookup(CopilotName)' = Lookup(CopilotName) /\ issued' = issued
      BY <1>6 DEF Lookup, registryVars, tableVars
    <3>6. /\ posts'[k][2].key > posts'[k][1].key /\ posts'[k][2].key \in DOMAIN issued
          /\ issued[posts'[k][2].key] = posts'[k][1].secret
      BY <3>1, <3>2, <3>3 DEF NewKey
    <3> QED
      BY <3>1, <3>2, <3>4, <3>5, <3>6 DEF Retried
  <2> QED
    <3>1. Len(posts[k]) \in Nat /\ Len(posts[k]) <= 1
      BY <1>1, PostsOf
    <3>2. Len(posts[k]) = 0 \/ Len(posts[k]) = 1
      BY <3>1, OneOrNone
    <3>3. Len(posts'[k]) >= 1 /\ Len(posts'[k]) <= 2 /\ (Len(posts'[k]) = 2 => Len(posts[k]) = 1)
      BY <2>2, <3>2
    <3> QED
      BY <1>6, <2>1, <2>2, <2>3, <2>4, <3>3 DEF Chatting, Working
<1> QED
  BY <1>5, <1>6, <1>7, <1>8, InvQuiet

LEMMA InvAnswered ==
  ASSUME IInv, NEW k \in Chats, NEW status \in Upstream, Answered(k, status)
  PROVE  IInv'
<1> DEFINE n == Len(posts[k])
<1> USE DEF IInv, Go, Deliver, Requests
<1>0. /\ pc[k] = "posted" /\ posts' = [posts EXCEPT ![k] = [posts[k] EXCEPT ![n].status = status]]
  BY DEF Answered
<1>1. /\ at[k] \in Configs /\ Loaded /\ Holds(k)
      /\ n \in DOMAIN posts[k] /\ n \in Nat /\ n >= 1 /\ n <= 2 /\ posts[k] \in Seq(Posts)
  <2>1. Copied(k) /\ Chatting(k) /\ posts[k] \in Seq(Posts)
    BY DEF TypeOK
  <2>2. n \in Nat /\ n >= 1 /\ n <= 2 /\ DOMAIN posts[k] = 1..n
    BY <1>0, <2>1, PostsOf DEF Chatting
  <2>3. at[k] \in Configs /\ Loaded /\ Holds(k)
    BY <1>0, <2>1 DEF Copied, Chatting
  <2>4. n \in 1..n
    BY <2>2
  <2> QED
    BY <2>1, <2>2, <2>3, <2>4
<1>2. /\ posts'[k] = [posts[k] EXCEPT ![n].status = status]
      /\ \A j \in Chats \ {k} : posts'[j] = posts[j]
      /\ posts' \in [Chats -> Seq(Posts)]
  <2>1. posts[k][n] \in Posts
    BY <1>1
  <2>2. [posts[k][n] EXCEPT !.status = status] \in Posts
    BY <2>1 DEF Posts
  <2>3. [posts[k] EXCEPT ![n].status = status] \in Seq(Posts)
    BY <1>1, <2>2
  <2> QED
    BY <1>0, <2>3 DEF TypeOK
<1>3. /\ resp' \in [Chats -> [status : Upstream \cup {"none"}, lines : Seq(Lines), end : {"open", "end", "cut"}]]
      /\ reply' \in [Chats -> [status : Statuses, lines : Seq(Lines), shown : Nat]]
      /\ pc' \in [Requests -> Steps]
  <2>1. PICK end \in {"open", "cut"} :
          resp' = [resp EXCEPT ![k] = [status |-> status, lines |-> <<>>, end |-> end]]
    BY DEF Answered
  <2>2. reply' = reply \/ reply' = [reply EXCEPT ![k].status = status]
    BY DEF Answered
  <2>3. pc' = [pc EXCEPT ![k] = pc'[k]] /\ pc'[k] \in Steps
    BY DEF Answered, TypeOK, Steps
  <2>4. resp' \in [Chats -> [status : Upstream \cup {"none"}, lines : Seq(Lines), end : {"open", "end", "cut"}]]
    BY <2>1 DEF TypeOK
  <2>5. reply' \in [Chats -> [status : Statuses, lines : Seq(Lines), shown : Nat]]
    <3>1. CASE reply' = reply
      BY <3>1 DEF TypeOK
    <3>2. CASE reply' = [reply EXCEPT ![k].status = status]
      BY <3>2 DEF TypeOK, Statuses
    <3> QED
      BY <2>2, <3>1, <3>2
  <2> QED
    BY <2>3, <2>4, <2>5 DEF TypeOK
<1>4. TypeOK'
  BY <1>2, <1>3 DEF Answered, TypeOK, RegistryTypeOK, registryVars, tableVars
<1>5. /\ Others(k) /\ OtherChats(k) /\ pc'[k] \in {"exchange", "relay", "read all"}
      /\ pc'[k] = "exchange" => Retries(k, status)
      /\ UNCHANGED <<registryVars, tableVars, at, copy, host>>
  BY <1>2 DEF Answered, TypeOK, Others, OtherChats
<1>6. Copied(k)'
  BY <1>1, <1>5 DEF Copied, Working, Loaded, registryVars, Holds, tableVars
<1>7. Chatting(k)'
  <2>1. Holds(k)'
    BY <1>1, <1>4, <1>5, HoldsKept, StillGrows
  <2>2. /\ DOMAIN posts'[k] = DOMAIN posts[k] /\ Len(posts'[k]) = n
        /\ posts'[k][n].status = status
        /\ \A i \in DOMAIN posts[k] : i # n => posts'[k][i] = posts[k][i]
        /\ \A i \in DOMAIN posts[k] : /\ posts'[k][i].as = posts[k][i].as
                                      /\ posts'[k][i].host = posts[k][i].host
                                      /\ posts'[k][i].secret = posts[k][i].secret
                                      /\ posts'[k][i].key = posts[k][i].key
    <3>1. posts[k][n] \in Posts
      BY <1>1
    <3> QED
      BY <1>1, <1>2, <3>1 DEF Posts
  <2>3. (\A i \in DOMAIN posts[k] : Alike(k, posts[k][i]))'
    <3>1. \A i \in DOMAIN posts[k] : Alike(k, posts[k][i])
      BY DEF Chatting
    <3>2. \A i \in DOMAIN posts'[k] : Alike(k, posts'[k][i])
      BY <2>2, <3>1 DEF Alike
    <3>3. \A post : Alike(k, post) => Alike(k, post)'
      BY <1>5 DEF Alike, Lookup, registryVars, Said
    <3> QED
      BY <3>2, <3>3
  <2>4. pc'[k] = "exchange" => n = 1 /\ Retrying(k)'
    BY <1>1, <1>5, <2>2 DEF Retrying, Retries
  <2>5. n = 2 => Retried(k)'
    <3> SUFFICES ASSUME n = 2 PROVE Retried(k)'
      OBVIOUS
    <3>1. Retried(k) /\ 1 \in DOMAIN posts[k] /\ 2 \in DOMAIN posts[k] /\ posts'[k][1] = posts[k][1]
      BY <1>1, <2>2 DEF Chatting
    <3>2. posts'[k][2].key = posts[k][2].key
      BY <2>2, <3>1
    <3>3. Lookup(CopilotName)' = Lookup(CopilotName) /\ issued' = issued
      BY <1>5 DEF Lookup, registryVars, tableVars
    <3> QED
      BY <3>1, <3>2, <3>3 DEF Retried
  <2>6. Len(posts'[k]) = n /\ n >= 1 /\ n <= 2
    BY <1>1, <2>2
  <2> HIDE DEF IInv
  <2> QED
    BY <1>5, <2>1, <2>3, <2>4, <2>5, <2>6 DEF Chatting, Working
<1> QED
  BY <1>4, <1>5, <1>6, <1>7, InvQuiet

(* No post after which the chat could go on: its copy and posts stay.      *)
LEMMA InvOver ==
  ASSUME IInv, NEW k \in Chats, TypeOK', Others(k),
         UNCHANGED <<registryVars, tableVars, at, copy, host, posts>>,
         pc'[k] \in {"relay", "read all", "done"},
         pc[k] \notin {"idle", "auth", "done"}
  PROVE  IInv'
BY InvOn DEF IInv, Copied, Requests

(* http.Error.                                                             *)
LEMMA InvRefuse ==
  ASSUME IInv, NEW k \in Chats, NEW status \in Statuses, Refuse(k, status), Loaded
  PROVE  IInv'
<1> USE DEF Refuse, Go, Requests
<1>1. TypeOK'
  BY DEF IInv, TypeOK, RegistryTypeOK, registryVars, tableVars, Steps
<1>2. Others(k) /\ pc'[k] = "done"
  BY DEF IInv, TypeOK, Others
<1> QED
  BY <1>1, <1>2, InvOn

Replies == [status : Statuses, lines : Seq(Lines), shown : Nat]

LEMMA DeliverType ==
  ASSUME IInv, NEW k \in Chats, NEW status \in Statuses, Deliver(k, status)
  PROVE  pc' \in [Requests -> Steps] /\ reply' \in [Chats -> Replies]
<1> USE DEF Deliver, Go, Requests, Replies
<1>1. pc \in [Requests -> Steps] /\ reply \in [Chats -> Replies]
  BY DEF IInv, TypeOK
<1>2. CASE stream[k]
  BY <1>1, <1>2 DEF Steps
<1>3. CASE ~stream[k]
  BY <1>1, <1>3 DEF Steps
<1> QED
  BY <1>2, <1>3

LEMMA StayType ==
  ASSUME IInv, NEW k \in Chats, Go(k, "post") /\ UNCHANGED reply
  PROVE  pc' \in [Requests -> Steps] /\ reply' \in [Chats -> Replies]
BY DEF Go, IInv, TypeOK, Requests, Steps, Replies

(* The first post is prepared, or the refused answer is passed on.         *)
LEMMA InvExchangeFails ==
  ASSUME IInv, NEW k \in Chats, ExchangeFails(k)
  PROVE  IInv'
<1> USE DEF ExchangeFails, Go, Deliver, Requests
<1>1. pc[k] = "exchange" /\ resp[k].status \in Statuses
  BY DEF IInv, TypeOK, Statuses
<1>2. TypeOK'
  <2>1. \/ Go(k, "post") /\ UNCHANGED reply
        \/ Deliver(k, resp[k].status)
    OBVIOUS
  <2>2. pc' \in [Requests -> Steps] /\ reply' \in [Chats -> Replies]
    BY <1>1, <2>1, DeliverType, StayType
  <2> QED
    BY <2>2 DEF IInv, TypeOK, RegistryTypeOK, registryVars, tableVars, Replies
<1>3. Others(k) /\ pc'[k] \in Steps
  BY DEF IInv, TypeOK, Others, Steps
<1>4. CASE posts[k] = <<>>
  <2>1. pc'[k] = "post" /\ posts'[k] = <<>>
    BY <1>4 DEF IInv, TypeOK
  <2>2. Copied(k)'
    BY <1>1, <2>1 DEF IInv, Copied, Working, Loaded, registryVars, tableVars
  <2>3. Holds(k)'
    BY <1>1, <1>2, HoldsKept, StillGrows DEF IInv, Chatting
  <2>4. Chatting(k)'
    BY <2>1, <2>3 DEF Chatting, Working
  <2> QED
    BY <1>2, <1>3, <2>2, <2>4, InvQuiet DEF OtherChats
<1>5. CASE posts[k] # <<>>
  <2>1. pc'[k] \in {"relay", "read all"}
    BY <1>5 DEF IInv, TypeOK
  <2> QED
    BY <1>1, <1>2, <1>3, <2>1, InvOver
<1> QED
  BY <1>4, <1>5

LEMMA InvPostFails ==
  ASSUME IInv, NEW k \in Chats, PostFails(k)
  PROVE  IInv'
<1> USE DEF PostFails, Go, Deliver, Requests
<1>1. pc[k] = "posted" /\ resp[k].status \in Statuses
  BY DEF IInv, TypeOK, Statuses
<1>2. CASE Len(posts[k]) = 1
  <2>1. Loaded /\ Refuse(k, "bad gateway") /\ "bad gateway" \in Statuses
    BY <1>1, <1>2 DEF IInv, Copied, Statuses
  <2> QED
    BY <2>1, InvRefuse
<1>3. CASE Len(posts[k]) # 1
  <2>1. pc' \in [Requests -> Steps] /\ pc'[k] \in {"relay", "read all"} /\ Others(k)
    BY <1>3 DEF IInv, TypeOK, Steps, Others
  <2>2. reply' \in [Chats -> Replies]
    <3>1. Deliver(k, resp[k].status)
      BY <1>3
    <3> QED
      BY <1>1, <3>1, DeliverType
  <2>3. TypeOK'
    BY <1>3, <2>1, <2>2 DEF IInv, TypeOK, RegistryTypeOK, registryVars, tableVars, Replies
  <2> QED
    BY <1>1, <1>3, <2>1, <2>3, InvOver
<1> QED
  BY <1>2, <1>3

-----------------------------------------------------------------------------
(* The body arrives and is passed on.                                      *)

LEMMA Lengths == \A S : \A s \in Seq(S) : Len(s) \in Nat
OBVIOUS

Resps == [status : Upstream \cup {"none"}, lines : Seq(Lines), end : {"open", "end", "cut"}]

LEMMA LineAdded ==
  ASSUME NEW f \in [Chats -> Resps], NEW k \in Chats, NEW line \in Lines
  PROVE  [f EXCEPT ![k].lines = Append(@, line)] \in [Chats -> Resps]
<1>1. Append(f[k].lines, line) \in Seq(Lines)
  BY DEF Resps
<1> QED
  BY <1>1 DEF Resps

LEMMA InvReceives ==
  ASSUME IInv, NEW k \in Chats,
         \/ \E line \in Lines : Arrives(k, line)
         \/ \E end \in {"end", "cut"} : BodyEnds(k, end)
  PROVE  IInv'
<1> USE DEF Arrives, BodyEnds, Receiving, Requests
<1>1. pc' = pc /\ reply' = reply /\ pc[k] \in {"relay", "read all"}
  OBVIOUS
<1>2. resp' \in [Chats -> Resps]
  <2>1. resp \in [Chats -> Resps] /\ resp[k].lines \in Seq(Lines)
    BY DEF IInv, TypeOK, Resps
  <2>2. ASSUME NEW line \in Lines, Arrives(k, line) PROVE resp' \in [Chats -> Resps]
    <3>1. resp' = [resp EXCEPT ![k].lines = Append(@, line)]
      BY <2>2
    <3> HIDE DEF Arrives, Receiving
    <3> QED
      BY <2>1, <3>1, LineAdded
  <2>3. ASSUME NEW end \in {"end", "cut"}, BodyEnds(k, end) PROVE resp' \in [Chats -> Resps]
    BY <2>1, <2>3 DEF Resps
  <2> QED
    BY <2>2, <2>3
<1>3. TypeOK'
  BY <1>1, <1>2 DEF IInv, TypeOK, RegistryTypeOK, registryVars, tableVars, Resps
<1> QED
  BY <1>1, <1>3, InvOver DEF Others

LEMMA InvFinish ==
  ASSUME IInv, NEW k \in Chats, NEW status \in Statuses, NEW lines \in Seq(Lines),
         Finish(k, status, lines), pc[k] \in {"relay", "read all"}
  PROVE  IInv'
<1> USE DEF Finish, Go, Requests
<1>1. reply' \in [Chats -> Replies]
  <2>1. Len(lines) \in Nat
    BY Lengths
  <2>2. [status |-> status, lines |-> lines, shown |-> Len(lines)] \in Replies
    BY <2>1 DEF Replies
  <2>3. reply \in [Chats -> Replies]
    BY DEF IInv, TypeOK, Replies
  <2> QED
    BY <2>2, <2>3
<1>2. pc' \in [Requests -> Steps] /\ pc'[k] = "done" /\ Others(k)
  BY DEF IInv, TypeOK, Steps, Others
<1>3. TypeOK'
  BY <1>1, <1>2 DEF IInv, TypeOK, RegistryTypeOK, registryVars, tableVars, Replies
<1> QED
  BY <1>2, <1>3, InvOver

LEMMA InvRelays ==
  ASSUME IInv, NEW k \in Chats, RelayLine(k) \/ RelayStops(k) \/ RelayEnds(k) \/ ReadAll(k)
  PROVE  IInv'
<1>1. /\ reply[k].lines \in Seq(Lines) /\ reply[k].status \in Statuses /\ reply[k].shown \in Nat
      /\ resp[k].lines \in Seq(Lines) /\ resp[k].status \in Statuses
  BY DEF IInv, TypeOK, Statuses
<1>2. "ok" \in Statuses /\ "unreadable" \in Statuses /\ "blank" \in Lines /\ <<>> \in Seq(Lines)
  BY DEF Statuses, Upstream, Lines
<1>3. CASE RelayStops(k) \/ RelayEnds(k)
  BY <1>1, <1>3, InvFinish DEF RelayStops, RelayEnds
<1>4. CASE ReadAll(k)
  BY <1>1, <1>2, <1>4, InvFinish DEF ReadAll
<1>5. CASE RelayLine(k)
  <2> DEFINE lines == Append(reply[k].lines, NextLine(k))
  <2>1. NextLine(k) \in Lines
    BY <1>1, <1>5 DEF RelayLine, Unread, NextLine
  <2>2. lines \in Seq(Lines) /\ Append(lines, "blank") \in Seq(Lines) /\ Len(lines) \in Nat
    BY <1>1, <1>2, <2>1
  <2> HIDE DEF lines
  <2>3. pc[k] = "relay"
    BY <1>5 DEF RelayLine
  <2>4. CASE Finish(k, "ok", Append(lines, "blank"))
    BY <1>2, <2>2, <2>3, <2>4, InvFinish
  <2>5. CASE /\ reply' = [reply EXCEPT ![k].lines = lines, ![k].shown = IF Flushes(k) THEN Len(lines) ELSE @]
             /\ UNCHANGED <<registryVars, tableVars, pc, at, copy, host, stream, posts, resp>>
    <3>1. reply' \in [Chats -> [status : Statuses, lines : Seq(Lines), shown : Nat]]
      <4>1. reply \in [Chats -> [status : Statuses, lines : Seq(Lines), shown : Nat]]
        BY DEF IInv, TypeOK
      <4>2. (IF Flushes(k) THEN Len(lines) ELSE reply[k].shown) \in Nat
        BY <2>2, <4>1
      <4> QED
        BY <2>2, <2>5, <4>1, <4>2
    <3>2. TypeOK'
      BY <2>5, <3>1 DEF IInv, TypeOK, RegistryTypeOK, registryVars, tableVars
    <3> QED
      BY <2>3, <2>5, <3>2, InvOver DEF Others
  <2> QED
    BY <1>5, <2>4, <2>5 DEF RelayLine, lines
<1> QED
  BY <1>3, <1>4, <1>5

-----------------------------------------------------------------------------
LEMMA InvNext ==
  ASSUME IInv, [Next]_vars
  PROVE  IInv'
<1>1. CASE \E n \in Known : LoadProvider(n)
  BY <1>1, InvLoad
<1>2. CASE \E c \in Configs : DeleteConfig(c) \/ \E r \in Forms : Edit(c, r) \/ Login(c, r)
  BY <1>2, InvDelete, InvEdit, InvLogin
<1>3. ASSUME NEW k \in Requests, Renewal(k) PROVE IInv'
  BY <1>3, InvReadAuth, InvPersist, InvExchange DEF Renewal
<1>4. ASSUME NEW k \in Chats, Portal(k) PROVE IInv'
  <2>1. ASSUME NoAuth(k) PROVE IInv'
    <3>1. Loaded /\ Refuse(k, "bad request") /\ "bad request" \in Statuses
      BY <2>1 DEF NoAuth, IInv, Copied, Statuses, Requests
    <3> QED
      BY <3>1, InvRefuse
  <2> QED
    BY <1>3, <1>4, <2>1, InvExchangeFails, InvPost, InvRelays DEF Portal, Requests
<1>5. ASSUME NEW k \in Chats, Provider(k) \/ BodyEnds(k, "cut") PROVE IInv'
  BY <1>5, InvAnswered, InvReceives DEF Provider
<1>6. ASSUME NEW k \in Chats, Malformed(k) PROVE IInv'
  <2>1. "bad request" \in Statuses
    BY DEF Statuses
  <2> QED
    BY <1>6, <2>1, InvRefuse DEF Malformed
<1>7. ASSUME NEW k \in Listers, Renewal(k) \/ Listed(k) \/ \E c \in Configs : ListModels(k, c)
      PROVE  IInv'
  BY <1>3, <1>7, InvListed, InvListModels DEF Requests
<1>8. ASSUME NEW k \in Chats, \E c \in Configs, streamed \in BOOLEAN : Chat(k, c, streamed)
      PROVE  IInv'
  BY <1>8, InvChat
<1>9. CASE UNCHANGED vars
  <2>1. TypeOK'
    BY <1>9 DEF IInv, TypeOK, RegistryTypeOK, vars, registryVars, tableVars, chatVars
  <2>2. Grows /\ RowsStored'
    BY <1>9, <2>1, StillGrows, RowsKept DEF IInv, vars, tableVars
  <2> QED
    BY <1>9, <2>1, <2>2, InvTables DEF vars
<1> QED
  BY <1>1, <1>2, <1>4, <1>5, <1>6, <1>7, <1>8, <1>9, InvPostFails DEF Next

(* What the proofs rest on, whatever chats, edits and renewals overlap.    *)
THEOREM Inductive == Spec => []IInv
<1> QED
  BY InvInit, InvNext, PTL DEF Spec

(* The tables, requests and answers keep their types.                      *)
THEOREM TypeCorrect == Spec => []TypeOK
<1>1. IInv => TypeOK
  BY DEF IInv
<1> QED
  BY <1>1, Inductive, PTL

(* The map built by init has every provider under all of its names and     *)
(* under no other, whatever order Go ranges over it in while it grows.     *)
THEOREM RegistrySettled == Spec => []Settled
<1>1. IInv => Settled
  BY LoadingSettles DEF IInv, TypeOK
<1> QED
  BY <1>1, Inductive, PTL

(* A conversation is posted at most twice, and again only with a newer key *)
(* of the same login after Copilot refused the first.                      *)
THEOREM RetriesOnce == Spec => []RetriedOnce
<1>1. ASSUME IInv PROVE RetriedOnce
  <2> SUFFICES ASSUME NEW k \in Chats
               PROVE  /\ Len(posts[k]) <= 2
                      /\ Len(posts[k]) = 2 =>
                           LET first == posts[k][1]  second == posts[k][2]
                           IN  /\ first.status = "refused" /\ first.as = Lookup(CopilotName)
                               /\ second.key > first.key /\ issued[second.key] = first.secret
                               /\ second = [first EXCEPT !.key = second.key, !.status = second.status]
    BY DEF RetriedOnce
  <2>1. Chatting(k) /\ posts[k] \in Seq(Posts)
    BY <1>1 DEF IInv, TypeOK
  <2>2. ASSUME Len(posts[k]) = 2
        PROVE  posts[k][2] = [posts[k][1] EXCEPT !.key = posts[k][2].key, !.status = posts[k][2].status]
    <3>1. posts[k][1] \in Posts /\ posts[k][2] \in Posts /\ 1 \in DOMAIN posts[k] /\ 2 \in DOMAIN posts[k]
      BY <2>1, <2>2
    <3>2. Alike(k, posts[k][1]) /\ Alike(k, posts[k][2])
      BY <2>1, <3>1 DEF Chatting
    <3> QED
      BY <3>1, <3>2 DEF Alike, Posts
  <2> QED
    BY <2>1, <2>2 DEF Chatting, Retried
<1> QED
  BY <1>1, Inductive, PTL

(* Host, provider and login of every post were once stored together.       *)
THEOREM SendsAsStored == Spec => []SentAsStored
<1>1. ASSUME IInv PROVE SentAsStored
  <2> SUFFICES ASSUME NEW k \in Chats, NEW i \in DOMAIN posts[k]
               PROVE  \E s \in stored[at[k]] :
                        /\ posts[k][i].host = s.host /\ posts[k][i].secret = s.secret
                        /\ \A p \in Providers : Means(s.provider, p) <=> posts[k][i].as = p
    BY DEF SentAsStored
  <2>1. Alike(k, posts[k][i]) /\ Holds(k) /\ Loaded
    <3>1. Chatting(k) /\ Copied(k) /\ posts[k] \in Seq(Posts)
      BY <1>1 DEF IInv, TypeOK, Requests
    <3>2. posts[k] # <<>>
      BY <3>1
    <3> QED
      BY <3>1, <3>2 DEF Chatting, Copied
  <2>2. /\ Sent(k) \in stored[at[k]] /\ Sent(k).host = host[k] /\ Sent(k).secret = copy[k].secret
        /\ Sent(k).provider = Said(copy[k]).provider
    BY <2>1 DEF Holds, Sent
  <2>3. \A p \in Providers : Means(Sent(k).provider, p) <=> Lookup(Sent(k).provider) = p
    BY <1>1, <2>1, LookupMeans DEF IInv, TypeOK
  <2> QED
    BY <2>1, <2>2, <2>3 DEF Alike
<1> QED
  BY <1>1, Inductive, PTL

-----------------------------------------------------------------------------
(* What the client is told.  A chat holds the last answer it got ...       *)
LastAnswer(k, i) ==
  /\ posts[k][i].status = resp[k].status
  /\ \A j \in DOMAIN posts[k] : posts[k][j].status # "none" => j <= i

Heard(k) ==
  /\ resp[k].status = "none" <=> \A i \in DOMAIN posts[k] : posts[k][i].status = "none"
  /\ resp[k].status # "none" => \E i \in DOMAIN posts[k] : LastAnswer(k, i)

(* ... and has relayed a part of it, every whole event included.           *)
Relaying(k) ==
  /\ stream[k] /\ reply[k].status = resp[k].status /\ resp[k].status \in Upstream
  /\ Len(reply[k].lines) <= Len(resp[k].lines)
  /\ \A i \in DOMAIN reply[k].lines :
       /\ reply[k].lines[i] = resp[k].lines[i]
       /\ resp[k].status = "ok" =>
            /\ reply[k].lines[i] # "done"
            /\ reply[k].lines[i] = "blank" => i <= reply[k].shown

Answering(k) ==
  /\ Heard(k)
  /\ pc[k] \notin {"relay", "done"} => reply[k] = NoReply
  /\ pc[k] = "read all" => ~stream[k] /\ resp[k].status \in Upstream
  /\ pc[k] = "relay" => Relaying(k)
  /\ pc[k] = "done" => OneAnswer(k)

Answers == \A k \in Chats : Answering(k)

LEMMA PrefixOf ==
  ASSUME NEW S, NEW s \in Seq(S), NEW t \in Seq(S), Len(s) <= Len(t),
         \A i \in DOMAIN s : s[i] = t[i]
  PROVE  IsPrefix(s, t)
<1>1. Len(s) \in Nat /\ Len(t) \in Nat /\ DOMAIN s = 1 .. Len(s) /\ \A i \in 1 .. Len(t) : t[i] \in S
  BY LenProperties
<1>2. /\ SubSeq(t, 1, Len(s)) \in Seq(S) /\ Len(SubSeq(t, 1, Len(s))) = Len(s)
      /\ \A i \in 1 .. Len(s) : SubSeq(t, 1, Len(s))[i] = t[i]
  BY <1>1
<1>3. SubSeq(t, 1, Len(s)) = s
  BY <1>1, <1>2, SeqEqual
<1>4. SubSeq(s, 1, Len(s)) = s
  BY SubSeqFull
<1> QED
  BY <1>3, <1>4 DEF IsPrefix

LEMMA ThroughDone ==
  ASSUME NEW came, NEW n \in DOMAIN came, came[n] = "done", \A i \in 1 .. n - 1 : came[i] # "done"
  PROVE  Through("ok", Append(SubSeq(came, 1, n), "blank"), came)
BY DEF Through

LEMMA TypesOf ==
  ASSUME TypeOK, NEW k \in Chats
  PROVE  /\ posts[k] \in Seq(Posts) /\ Len(posts[k]) \in Nat /\ DOMAIN posts[k] = 1 .. Len(posts[k])
         /\ resp[k].status \in Upstream \cup {"none"} /\ resp[k].lines \in Seq(Lines)
         /\ Len(resp[k].lines) \in Nat /\ DOMAIN resp[k].lines = 1 .. Len(resp[k].lines)
         /\ reply[k].lines \in Seq(Lines)
         /\ Len(reply[k].lines) \in Nat /\ DOMAIN reply[k].lines = 1 .. Len(reply[k].lines)
         /\ reply[k] \in [status : Statuses, lines : Seq(Lines), shown : Nat]
         /\ resp[k] \in [status : Upstream \cup {"none"}, lines : Seq(Lines), end : {"open", "end", "cut"}]
BY DEF TypeOK

(* What is relayed so far is one answer.                                   *)
LEMMA RelayingIsOneAnswer ==
  ASSUME TypeOK, NEW k \in Chats, Heard(k), Relaying(k)
  PROVE  OneAnswer(k)
<1>1. IsPrefix(reply[k].lines, resp[k].lines)
  BY TypesOf, PrefixOf DEF Relaying
<1>2. Through(resp[k].status, reply[k].lines, resp[k].lines)
  BY <1>1 DEF Through, Relaying
<1>3. resp[k].status # "none"
  BY DEF Relaying, Upstream
<1> QED
  BY <1>2, <1>3 DEF OneAnswer, Relaying, Heard, LastAnswer

LEMMA AnsweringStays ==
  ASSUME NEW k \in Chats, Answering(k), pc'[k] = pc[k], stream'[k] = stream[k], posts'[k] = posts[k],
         resp'[k] = resp[k], reply'[k] = reply[k]
  PROVE  Answering(k)'
BY DEF Answering, Heard, LastAnswer, Relaying, OneAnswer

LEMMA HeardStays ==
  ASSUME NEW k \in Chats, Heard(k), posts'[k] = posts[k], resp'[k].status = resp[k].status
  PROVE  Heard(k)'
BY DEF Heard, LastAnswer

LEMMA AnswersInit == Init => Answers
<1> SUFFICES ASSUME Init, NEW k \in Chats PROVE Answering(k)
  BY DEF Answers
<1>1. pc[k] = "idle" /\ posts[k] = <<>> /\ resp[k] = NoResp /\ reply[k] = NoReply
  BY DEF Init, Requests
<1>2. DOMAIN <<>> = {}
  OBVIOUS
<1> QED
  BY <1>1, <1>2 DEF Answering, Heard, NoResp

(* Steps that touch no answer.                                             *)
LEMMA AnsweringOn ==
  ASSUME IInv, NEW k \in Chats, Answering(k),
         \/ \E c \in Configs, streamed \in BOOLEAN : Chat(k, c, streamed)
         \/ Renewal(k)
         \/ ExchangeFails(k) /\ posts[k] = <<>>
  PROVE  Answering(k)'
<1>1. /\ pc[k] \in {"idle", "auth", "exchange", "persist"}
      /\ pc'[k] \in {"auth", "exchange", "persist", "post"}
      /\ posts' = posts /\ resp' = resp /\ reply' = reply
  BY DEF Chat, Renewal, ReadAuth, Exchange, Persist, ExchangeFails, Go, IInv, TypeOK, Requests
<1>2. Heard(k)'
  BY <1>1, HeardStays DEF Answering
<1> QED
  BY <1>1, <1>2 DEF Answering

LEMMA AnsweringPost ==
  ASSUME IInv, NEW k \in Chats, Answering(k), Post(k)
  PROVE  Answering(k)'
<1> DEFINE n == Len(posts[k])
<1>0. posts[k] \in Seq(Posts) /\ n \in Nat
  BY TypesOf DEF IInv
<1>1. /\ pc[k] = "post" /\ pc'[k] = "posted" /\ resp' = resp /\ reply' = reply
      /\ posts'[k] = Append(posts[k], Posted(k)) /\ Posted(k).status = "none"
  BY DEF Post, Go, IInv, TypeOK, Requests, Posted
<1>2. /\ DOMAIN posts[k] = 1 .. n /\ DOMAIN posts'[k] = 1 .. n + 1
      /\ \A i \in 1 .. n : posts'[k][i] = posts[k][i]
      /\ posts'[k][n + 1].status = "none"
  <2>1. posts'[k][n + 1] = Posted(k)
    BY <1>0, <1>1
  <2> QED
    BY <1>0, <1>1, <2>1
<1>n. n \in Nat
  BY <1>0
<1> HIDE DEF n
<1>3. Heard(k)'
  <2>0. \A i \in 1 .. n + 1 : i \in 1 .. n \/ i = n + 1
    BY <1>n
  <2>1. Heard(k) /\ \A i \in 1 .. n + 1 : i \in 1 .. n \/ i = n + 1
    BY <2>0 DEF Answering
  <2>2. \A i \in DOMAIN posts[k] : LastAnswer(k, i) => LastAnswer(k, i)'
    BY <1>1, <1>2, <2>1 DEF LastAnswer
  <2>3. DOMAIN posts[k] \subseteq DOMAIN posts'[k]
    BY <1>0, <1>2
  <2>4. (\A i \in DOMAIN posts'[k] : posts'[k][i].status = "none")
          <=> \A i \in DOMAIN posts[k] : posts[k][i].status = "none"
    BY <1>2, <2>1, <2>3
  <2> QED
    BY <1>1, <2>1, <2>2, <2>3, <2>4 DEF Heard
<1> QED
  BY <1>1, <1>3 DEF Answering

(* Nothing is written before an answer is passed on.                       *)
LEMMA AnsweringDelivers ==
  ASSUME IInv, NEW k \in Chats, Answering(k), pc[k] \in {"exchange", "posted"},
         Deliver(k, resp'[k].status), Heard(k)', stream' = stream,
         resp'[k].status \in Upstream, resp'[k].lines \in Seq(Lines)
  PROVE  Answering(k)'
<1>1. reply[k] = NoReply /\ pc \in [Requests -> Steps] /\ reply \in [Chats -> Replies]
  BY DEF Answering, IInv, TypeOK, Replies
<1>2. CASE stream[k]
  <2>1. /\ pc'[k] = "relay" /\ reply'[k].status = resp'[k].status
        /\ reply'[k].lines = <<>>
    BY <1>1, <1>2 DEF Deliver, Go, Requests, NoReply, Replies
  <2>2. Len(<<>>) = 0 /\ DOMAIN <<>> = {} /\ Len(resp'[k].lines) \in Nat
    BY LenProperties
  <2>3. Relaying(k)'
    BY <1>2, <2>1, <2>2 DEF Relaying
  <2> QED
    BY <2>1, <2>3 DEF Answering
<1>3. CASE ~stream[k]
  <2>1. pc'[k] = "read all" /\ reply' = reply
    BY <1>1, <1>3 DEF Deliver, Go, Requests
  <2> QED
    BY <1>1, <1>3, <2>1 DEF Answering
<1> QED
  BY <1>2, <1>3

LEMMA AnsweringAnswered ==
  ASSUME IInv, NEW k \in Chats, Answering(k), NEW status \in Upstream, Answered(k, status)
  PROVE  Answering(k)'
<1> DEFINE n == Len(posts[k])
<1>0. posts[k] \in Seq(Posts) /\ n \in Nat /\ DOMAIN posts[k] = 1 .. n
  BY TypesOf DEF IInv
<1>1. n >= 1 /\ pc[k] = "posted"
  BY DEF Answered, IInv, Chatting
<1>2. /\ DOMAIN posts'[k] = 1 .. n /\ posts'[k][n].status = status
  BY <1>0, <1>1 DEF Answered, IInv, TypeOK
<1>3. resp'[k].status = status /\ resp'[k].lines = <<>>
  BY DEF Answered, IInv, TypeOK
<1>4. status # "none"
  BY DEF Upstream
<1> HIDE DEF n
<1>5. Heard(k)'
  BY <1>0, <1>1, <1>2, <1>3, <1>4 DEF Heard, LastAnswer
<1>6. CASE Retries(k, status)
  <2>1. pc'[k] = "exchange" /\ reply' = reply
    BY <1>6 DEF Answered, Go, IInv, TypeOK, Requests
  <2> QED
    BY <1>1, <1>5, <2>1 DEF Answering
<1>7. CASE ~Retries(k, status)
  <2>1. Deliver(k, resp'[k].status) /\ stream' = stream
    BY <1>3, <1>7 DEF Answered
  <2>2. resp'[k].lines \in Seq(Lines)
    BY <1>3
  <2> QED
    BY <1>1, <1>3, <1>5, <2>1, <2>2, AnsweringDelivers
<1> QED
  BY <1>6, <1>7

(* The refused answer is there when its renewal or the second post fails.  *)
LEMMA AnsweringFails ==
  ASSUME IInv, NEW k \in Chats, Answering(k),
         \/ ExchangeFails(k) /\ posts[k] # <<>>
         \/ PostFails(k) /\ Len(posts[k]) # 1
  PROVE  Answering(k)'
<1>1. /\ pc[k] \in {"exchange", "posted"} /\ Deliver(k, resp[k].status)
      /\ posts' = posts /\ resp' = resp /\ stream' = stream
  BY DEF ExchangeFails, PostFails
<1>2. Heard(k)'
  BY <1>1, HeardStays DEF Answering
<1>3. posts[k] \in Seq(Posts) /\ Len(posts[k]) \in Nat /\ resp[k].lines \in Seq(Lines)
      /\ resp[k].status \in Upstream \cup {"none"}
  BY TypesOf DEF IInv
<1>n. Len(posts[k]) \in Nat /\ (posts[k] # <<>> => Len(posts[k]) # 0)
  BY <1>3, EmptySeq
<1>4. 1 \in DOMAIN posts[k] /\ posts[k][1].status = "refused"
  <2>1. Chatting(k)
    BY DEF IInv
  <2>2. CASE ExchangeFails(k) /\ posts[k] # <<>>
    <3>0. pc[k] = "exchange" /\ Len(posts[k]) <= 1
      BY <2>1, <2>2 DEF ExchangeFails, Chatting, Working
    <3>1. Len(posts[k]) = 1
      BY <1>n, <2>2, <3>0, OneOrNone
    <3> QED
      BY <1>3, <2>1, <3>0, <3>1 DEF Chatting, Working, Retrying
  <2>3. CASE PostFails(k) /\ Len(posts[k]) # 1
    <3>0. Len(posts[k]) >= 1 /\ Len(posts[k]) <= 2
      BY <2>1, <2>3 DEF PostFails, Chatting
    <3>1. Len(posts[k]) = 2
      BY <1>n, <2>3, <3>0, TwoOrOne
    <3> QED
      BY <1>3, <2>1, <3>1 DEF Chatting, Retried
  <2> QED
    BY <2>2, <2>3
<1>5. resp[k].status \in Upstream
  BY <1>3, <1>4 DEF Answering, Heard
<1> QED
  BY <1>1, <1>2, <1>3, <1>5, AnsweringDelivers

(* http.Error tells the client of no answer.                               *)
LEMMA AnsweringRefuse ==
  ASSUME IInv, NEW k \in Chats, Answering(k),
         NEW status \in {"bad request", "bad gateway"}, Refuse(k, status)
  PROVE  Answering(k)'
<1>1. pc'[k] = "done" /\ reply'[k].status = status /\ posts' = posts /\ resp' = resp
  BY DEF Refuse, Go, IInv, TypeOK, Requests
<1>2. Heard(k)'
  BY <1>1, HeardStays DEF Answering
<1> QED
  BY <1>1, <1>2 DEF Answering, OneAnswer, Upstream

(* The relay: one line more of the answer, [DONE], or the end.             *)
LEMMA AnsweringReceives ==
  ASSUME IInv, NEW k \in Chats, Answering(k),
         \/ \E line \in Lines : Arrives(k, line)
         \/ \E end \in {"end", "cut"} : BodyEnds(k, end)
  PROVE  Answering(k)'
<1>1. /\ pc[k] \in {"relay", "read all"} /\ pc' = pc /\ posts' = posts /\ stream' = stream
      /\ reply' = reply
  BY DEF Arrives, BodyEnds, Receiving
<1>2. /\ resp'[k].status = resp[k].status /\ Len(resp[k].lines) <= Len(resp'[k].lines)
      /\ \A i \in DOMAIN resp[k].lines : resp'[k].lines[i] = resp[k].lines[i]
      /\ Len(resp'[k].lines) \in Nat
  <2>0. resp \in [Chats -> Resps]
    BY DEF IInv, TypeOK, Resps
  <2>1. ASSUME NEW line \in Lines, Arrives(k, line)
        PROVE  <1>2!:
    <3>1. resp'[k].status = resp[k].status /\ resp'[k].lines = Append(resp[k].lines, line)
      BY <2>0, <2>1 DEF Arrives, Resps
    <3>2. resp[k].lines \in Seq(Lines)
      BY <2>0 DEF Resps
    <3>3. /\ Len(resp[k].lines) \in Nat /\ Len(Append(resp[k].lines, line)) = Len(resp[k].lines) + 1
          /\ \A i \in DOMAIN resp[k].lines : Append(resp[k].lines, line)[i] = resp[k].lines[i]
      BY <3>2
    <3> QED
      BY <3>1, <3>3
  <2>2. ASSUME NEW end \in {"end", "cut"}, BodyEnds(k, end)
        PROVE  <1>2!:
    <3>1. resp'[k].status = resp[k].status /\ resp'[k].lines = resp[k].lines
      BY <2>0, <2>2 DEF BodyEnds, Resps
    <3>2. Len(resp[k].lines) \in Nat
      BY TypesOf DEF IInv
    <3> QED
      BY <3>1, <3>2
  <2> QED
    BY <2>1, <2>2
<1>3. Heard(k)'
  BY <1>1, <1>2, HeardStays DEF Answering
<1>4. pc[k] = "relay" => Relaying(k)'
  <2>1. SUFFICES ASSUME Relaying(k) PROVE Relaying(k)'
    BY DEF Answering
  <2>2. /\ Len(reply[k].lines) \in Nat /\ Len(resp[k].lines) \in Nat
        /\ DOMAIN reply[k].lines = 1 .. Len(reply[k].lines)
        /\ DOMAIN resp[k].lines = 1 .. Len(resp[k].lines)
    BY TypesOf DEF IInv
  <2>3. Len(reply[k].lines) <= Len(resp'[k].lines)
    BY <1>2, <2>1, <2>2 DEF Relaying
  <2>4. DOMAIN reply[k].lines \subseteq DOMAIN resp[k].lines
    BY <2>1, <2>2 DEF Relaying
  <2>5. \A i \in DOMAIN reply[k].lines : reply[k].lines[i] = resp'[k].lines[i]
    BY <1>2, <2>1, <2>4 DEF Relaying
  <2> QED
    BY <1>1, <1>2, <2>1, <2>3, <2>5 DEF Relaying
<1> QED
  BY <1>1, <1>2, <1>3, <1>4 DEF Answering

LEMMA Finished ==
  ASSUME IInv, NEW k \in Chats, Answering(k), NEW status, NEW lines, Finish(k, status, lines)
  PROVE  /\ pc'[k] = "done" /\ posts' = posts /\ resp' = resp /\ stream' = stream
         /\ reply'[k].status = status /\ reply'[k].lines = lines
         /\ Heard(k)'
<1>1. /\ pc'[k] = "done" /\ posts' = posts /\ resp' = resp /\ stream' = stream
      /\ reply'[k].status = status /\ reply'[k].lines = lines
  BY DEF Finish, Go, IInv, TypeOK, Requests
<1> QED
  BY <1>1, HeardStays DEF Answering

LEMMA AnsweringEnds ==
  ASSUME IInv, NEW k \in Chats, Answering(k), RelayStops(k) \/ RelayEnds(k) \/ ReadAll(k)
  PROVE  Answering(k)'
<1>1. CASE RelayStops(k) \/ RelayEnds(k)
  <2>1. pc[k] = "relay" /\ Finish(k, reply[k].status, reply[k].lines)
    BY <1>1 DEF RelayStops, RelayEnds
  <2>2. OneAnswer(k)
    BY <2>1, RelayingIsOneAnswer DEF Answering, IInv
  <2>3. /\ pc'[k] = "done" /\ posts' = posts /\ resp' = resp /\ stream' = stream
        /\ reply'[k].status = reply[k].status /\ reply'[k].lines = reply[k].lines
        /\ Heard(k)'
    BY <2>1, Finished
  <2>4. OneAnswer(k)'
    BY <2>2, <2>3 DEF OneAnswer
  <2> QED
    BY <2>3, <2>4 DEF Answering
<1>2. CASE ReadAll(k)
  <2>1. /\ pc[k] = "read all" /\ ~stream[k] /\ Heard(k)
        /\ resp[k].status \in Upstream /\ resp[k].status # "none"
    BY <1>2 DEF ReadAll, Answering, Upstream
  <2>2. CASE resp[k].end = "end" /\ Finish(k, resp[k].status, resp[k].lines)
    <3>1. /\ pc'[k] = "done" /\ posts' = posts /\ resp' = resp /\ stream' = stream
          /\ reply'[k].status = resp[k].status /\ reply'[k].lines = resp[k].lines
          /\ Heard(k)'
      BY <2>2, Finished
    <3>2. OneAnswer(k)'
      BY <2>1, <2>2, <3>1 DEF OneAnswer, Heard, LastAnswer
    <3> QED
      BY <3>1, <3>2 DEF Answering
  <2>3. CASE Finish(k, "unreadable", <<>>)
    <3>1. pc'[k] = "done" /\ reply'[k].status = "unreadable" /\ Heard(k)'
      BY <2>3, Finished
    <3> QED
      BY <3>1 DEF Answering, OneAnswer, Upstream
  <2> QED
    BY <1>2, <2>2, <2>3 DEF ReadAll
<1> QED
  BY <1>1, <1>2

LEMMA AnsweringLine ==
  ASSUME IInv, NEW k \in Chats, Answering(k), RelayLine(k)
  PROVE  Answering(k)'
<1> DEFINE came == resp[k].lines
           old == reply[k].lines
           line == came[Len(old) + 1]
           new == Append(old, line)
<1>0. /\ came \in Seq(Lines) /\ Len(came) \in Nat /\ DOMAIN came = 1 .. Len(came)
      /\ old \in Seq(Lines) /\ Len(old) \in Nat /\ DOMAIN old = 1 .. Len(old)
  BY TypesOf DEF IInv
<1>1. pc[k] = "relay" /\ Len(old) < Len(came) /\ Heard(k) /\ Relaying(k)
  BY DEF RelayLine, Unread, Answering
<1>2. Len(old) + 1 \in DOMAIN came /\ line \in Lines
  BY <1>0, <1>1
<1>3. /\ new \in Seq(Lines) /\ Len(new) = Len(old) + 1 /\ Len(new) \in Nat
      /\ DOMAIN new = 1 .. Len(old) + 1
      /\ \A i \in DOMAIN old : new[i] = old[i]
      /\ new[Len(old) + 1] = line
      /\ \A i \in DOMAIN new : i \in DOMAIN old \/ i = Len(old) + 1
  BY <1>0, <1>2
<1>4. \A i \in DOMAIN new : new[i] = came[i]
  BY <1>1, <1>3 DEF Relaying
<1>5. CASE resp[k].status = "ok" /\ line = "done"
  <2>1. Finish(k, "ok", Append(new, "blank"))
    BY <1>5 DEF RelayLine, NextLine
  <2>2. /\ pc'[k] = "done" /\ posts' = posts /\ resp' = resp /\ stream' = stream
        /\ reply'[k].status = "ok" /\ reply'[k].lines = Append(new, "blank")
        /\ Heard(k)'
    BY <2>1, Finished
  <2>3. new = SubSeq(came, 1, Len(old) + 1)
    <3>1. /\ SubSeq(came, 1, Len(old) + 1) \in Seq(Lines)
          /\ Len(SubSeq(came, 1, Len(old) + 1)) = Len(old) + 1
          /\ \A i \in 1 .. Len(old) + 1 : SubSeq(came, 1, Len(old) + 1)[i] = came[i]
      BY <1>0, <1>2
    <3> QED
      BY <1>3, <1>4, <3>1, SeqEqual
  <2>4. \A i \in 1 .. Len(old) + 1 - 1 : came[i] # "done"
    BY <1>0, <1>1, <1>5 DEF Relaying
  <2>5. Through("ok", Append(new, "blank"), came)
    <3> DEFINE n == Len(old) + 1
    <3>1. n \in DOMAIN came /\ came[n] = "done" /\ \A i \in 1 .. n - 1 : came[i] # "done"
      BY <1>2, <1>5, <2>4
    <3> HIDE DEF n
    <3>2. Through("ok", Append(SubSeq(came, 1, n), "blank"), came)
      BY <3>1, ThroughDone
    <3> QED
      BY <2>3, <3>2 DEF n
  <2>6. OneAnswer(k)'
    BY <1>1, <1>5, <2>2, <2>5 DEF OneAnswer, Heard, LastAnswer, Relaying
  <2> QED
    BY <2>2, <2>6 DEF Answering
<1>6. CASE ~(resp[k].status = "ok" /\ line = "done")
  <2>1. /\ pc' = pc /\ posts' = posts /\ resp' = resp /\ stream' = stream
        /\ reply' = [reply EXCEPT ![k].lines = new,
                                  ![k].shown = IF Flushes(k) THEN Len(new) ELSE @]
    BY <1>6 DEF RelayLine, NextLine
  <2>2. reply[k] \in [status : Statuses, lines : Seq(Lines), shown : Nat]
        /\ reply \in [Chats -> [status : Statuses, lines : Seq(Lines), shown : Nat]]
    BY DEF IInv, TypeOK
  <2>3. /\ reply'[k].status = reply[k].status /\ reply'[k].lines = new
        /\ reply'[k].shown = IF Flushes(k) THEN Len(new) ELSE reply[k].shown
    BY <2>1, <2>2
  <2>4. ASSUME NEW i \in DOMAIN new, resp[k].status = "ok"
        PROVE  new[i] # "done" /\ (new[i] = "blank" => i <= reply'[k].shown)
    <3>1. CASE i \in DOMAIN old
      <4>1. new[i] # "done" /\ (new[i] = "blank" => i <= reply[k].shown)
        BY <1>1, <1>3, <2>4, <3>1 DEF Relaying
      <4>2. i <= Len(new) /\ i \in Nat
        BY <1>0, <1>3, <3>1
      <4> QED
        BY <2>3, <4>1, <4>2
    <3>2. CASE i = Len(old) + 1
      <4>1. new[i] # "done"
        BY <1>3, <1>6, <2>4, <3>2
      <4>2. new[i] = "blank" => Flushes(k)
        BY <1>3, <2>4, <3>2 DEF Flushes, NextLine
      <4> QED
        BY <1>0, <1>3, <2>3, <3>2, <4>1, <4>2
    <3> QED
      BY <1>3, <3>1, <3>2
  <2>5. Len(new) <= Len(came)
    BY <1>0, <1>1, <1>3
  <2>6. Relaying(k)'
    BY <1>1, <1>4, <2>1, <2>3, <2>4, <2>5 DEF Relaying
  <2>7. Heard(k)'
    BY <1>1, <2>1, HeardStays
  <2> QED
    BY <1>1, <2>1, <2>6, <2>7 DEF Answering
<1> QED
  BY <1>5, <1>6

-----------------------------------------------------------------------------
(* A step moves the answer of at most one chat.                            *)
AnswerStays(k) ==
  /\ pc'[k] = pc[k] /\ stream'[k] = stream[k] /\ posts'[k] = posts[k]
  /\ resp'[k] = resp[k] /\ reply'[k] = reply[k]

LEMMA RequestMoves ==
  ASSUME IInv, NEW r \in Requests, NEW k \in Chats, k # r,
         \/ Renewal(r) \/ Listed(r) \/ \E c \in Configs : ListModels(r, c)
  PROVE  AnswerStays(k)
<1> USE DEF Go, AnswerStays, IInv, TypeOK, Requests
<1>1. CASE Renewal(r)
  BY <1>1 DEF Renewal, ReadAuth, Persist, Exchange
<1>2. CASE Listed(r) \/ \E c \in Configs : ListModels(r, c)
  BY <1>2 DEF Listed, Forget, ListModels
<1> QED
  BY <1>1, <1>2

LEMMA RelayMoves ==
  ASSUME NEW r \in Chats, RelayLine(r), reply \in [Chats -> Replies]
  PROVE  \E answer : reply' = [reply EXCEPT ![r] = answer]
<1> DEFINE lines == Append(reply[r].lines, NextLine(r))
<1>1. \/ \E sent : Finish(r, "ok", sent)
      \/ \E n : reply' = [reply EXCEPT ![r].lines = lines, ![r].shown = n]
  BY DEF RelayLine
<1> HIDE DEF lines
<1>2. CASE \E sent : Finish(r, "ok", sent)
  BY <1>2 DEF Finish
<1>3. CASE \E n : reply' = [reply EXCEPT ![r].lines = lines, ![r].shown = n]
  BY <1>3
<1> QED
  BY <1>1, <1>2, <1>3

LEMMA ChatMoves ==
  ASSUME IInv, NEW r \in Chats, NEW k \in Chats, k # r,
         \/ Portal(r) \/ Provider(r) \/ PostFails(r) \/ BodyEnds(r, "cut") \/ Malformed(r)
         \/ \E c \in Configs, streamed \in BOOLEAN : Chat(r, c, streamed)
  PROVE  AnswerStays(k)
<1> USE DEF Go, Refuse, Deliver, AnswerStays, IInv, TypeOK, Requests
<1>1. CASE Renewal(r)
  BY <1>1, RequestMoves
<1>2. CASE NoAuth(r) \/ Malformed(r) \/ PostFails(r)
  BY <1>2 DEF NoAuth, Malformed, PostFails
<1>3. CASE ExchangeFails(r) \/ Post(r)
  BY <1>3 DEF ExchangeFails, Post
<1>4. CASE RelayStops(r) \/ RelayEnds(r) \/ ReadAll(r)
  BY <1>4 DEF RelayStops, RelayEnds, ReadAll, Finish
<1>5. CASE RelayLine(r)
  <2>1. PICK answer : reply' = [reply EXCEPT ![r] = answer]
    BY <1>5, RelayMoves DEF Replies
  <2>2. UNCHANGED <<stream, posts, resp>> /\ (pc' = pc \/ Go(r, "done"))
    BY <1>5 DEF RelayLine, Finish
  <2> QED
    BY <2>1, <2>2
<1>6. CASE \E status \in Upstream : Answered(r, status)
  <2>1. PICK status \in Upstream : Answered(r, status)
    BY <1>6
  <2>2. stream' = stream /\ posts'[k] = posts[k] /\ resp'[k] = resp[k]
    BY <2>1 DEF Answered
  <2>3. pc'[k] = pc[k] /\ reply'[k] = reply[k]
    BY <2>1 DEF Answered
  <2> QED
    BY <2>2, <2>3
<1>7. CASE (\E line \in Lines : Arrives(r, line)) \/ BodyEnds(r, "end") \/ BodyEnds(r, "cut")
  BY <1>7 DEF Arrives, BodyEnds
<1>8. CASE \E c \in Configs, streamed \in BOOLEAN : Chat(r, c, streamed)
  BY <1>8 DEF Chat
<1> QED
  BY <1>1, <1>2, <1>3, <1>4, <1>5, <1>6, <1>7, <1>8 DEF Portal, Provider

LEMMA AnsweringChat ==
  ASSUME IInv, NEW k \in Chats, Answering(k),
         \/ Portal(k) \/ Provider(k) \/ PostFails(k) \/ BodyEnds(k, "cut") \/ Malformed(k)
         \/ \E c \in Configs, streamed \in BOOLEAN : Chat(k, c, streamed)
  PROVE  Answering(k)'
<1>1. CASE Renewal(k) \/ \E c \in Configs, streamed \in BOOLEAN : Chat(k, c, streamed)
  BY <1>1, AnsweringOn
<1>2. CASE NoAuth(k) \/ Malformed(k)
  BY <1>2, AnsweringRefuse DEF NoAuth, Malformed
<1>3. CASE ExchangeFails(k)
  BY <1>3, AnsweringOn, AnsweringFails
<1>4. CASE PostFails(k)
  <2>1. CASE Len(posts[k]) = 1
    BY <1>4, <2>1, AnsweringRefuse DEF PostFails
  <2>2. CASE Len(posts[k]) # 1
    BY <1>4, <2>2, AnsweringFails
  <2> QED
    BY <2>1, <2>2
<1>5. CASE Post(k)
  BY <1>5, AnsweringPost
<1>6. CASE RelayLine(k) \/ RelayStops(k) \/ RelayEnds(k) \/ ReadAll(k)
  BY <1>6, AnsweringLine, AnsweringEnds
<1>7. CASE \E status \in Upstream : Answered(k, status)
  BY <1>7, AnsweringAnswered
<1>8. CASE (\E line \in Lines : Arrives(k, line)) \/ BodyEnds(k, "end") \/ BodyEnds(k, "cut")
  BY <1>8, AnsweringReceives
<1> QED
  BY <1>1, <1>2, <1>3, <1>4, <1>5, <1>6, <1>7, <1>8 DEF Portal, Provider

LEMMA AnswersNext == IInv /\ Answers /\ [Next]_vars => Answers'
<1> SUFFICES ASSUME IInv, Answers, [Next]_vars, NEW k \in Chats PROVE Answering(k)'
  BY DEF Answers
<1>0. Answering(k)
  BY DEF Answers
<1>1. CASE \/ \E n \in Known : LoadProvider(n)
           \/ \E c \in Configs : DeleteConfig(c) \/ \E r \in Forms : Edit(c, r) \/ Login(c, r)
           \/ UNCHANGED vars
  <2>1. AnswerStays(k)
    BY <1>1 DEF LoadProvider, DeleteConfig, Edit, Login, vars, chatVars, AnswerStays
  <2> QED
    BY <1>0, <2>1, AnsweringStays DEF AnswerStays
<1>2. ASSUME NEW r \in Chats,
             \/ Portal(r) \/ Provider(r) \/ PostFails(r) \/ BodyEnds(r, "cut") \/ Malformed(r)
             \/ \E c \in Configs, streamed \in BOOLEAN : Chat(r, c, streamed)
      PROVE  Answering(k)'
  <2>1. CASE k = r
    BY <1>0, <1>2, <2>1, AnsweringChat
  <2>2. CASE k # r
    BY <1>0, <1>2, <2>2, ChatMoves, AnsweringStays DEF AnswerStays
  <2> QED
    BY <2>1, <2>2
<1>3. ASSUME NEW r \in Listers, Renewal(r) \/ Listed(r) \/ \E c \in Configs : ListModels(r, c)
      PROVE  Answering(k)'
  <2>1. r \in Requests /\ k # r
    BY ChatAssumption DEF Requests
  <2> QED
    BY <1>0, <1>3, <2>1, RequestMoves, AnsweringStays DEF AnswerStays
<1> QED
  BY <1>1, <1>2, <1>3 DEF Next

(* A client is told one answer, that of the last post that was answered:   *)
(* its status, and its lines in order up to [DONE]; and while the portal   *)
(* waits for more of a stream it holds no finished event back.             *)
THEOREM RelaysOneAnswer == Spec => []Relayed
<1>1. Init => IInv /\ Answers
  BY InvInit, AnswersInit
<1>2. (IInv /\ Answers) /\ [Next]_vars => (IInv /\ Answers)'
  BY InvNext, AnswersNext
<1>3. ASSUME IInv, Answers PROVE Relayed
  <2> SUFFICES ASSUME NEW k \in Chats PROVE OneAnswer(k) /\ NoneHeldBack(k)
    BY DEF Relayed
  <2>1. Answering(k) /\ TypeOK
    BY <1>3 DEF Answers, IInv
  <2>2. OneAnswer(k)
    <3>1. CASE pc[k] = "done"
      BY <2>1, <3>1 DEF Answering
    <3>2. CASE pc[k] = "relay"
      BY <2>1, <3>2, RelayingIsOneAnswer DEF Answering
    <3>3. CASE pc[k] \notin {"relay", "done"}
      <4>1. reply[k].status = "none"
        <5>1. reply[k] = NoReply
          BY <2>1, <3>3 DEF Answering
        <5> QED
          BY <5>1 DEF NoReply
      <4>2. "none" \notin Upstream
        BY DEF Upstream
      <4> QED
        BY <4>1, <4>2, Zenon DEF OneAnswer
    <3> QED
      BY <3>1, <3>2, <3>3
  <2>3. NoneHeldBack(k)
    BY <2>1 DEF Answering, Relaying, NoneHeldBack
  <2> QED
    BY <2>2, <2>3
<1>4. IInv /\ Answers => Relayed
  BY <1>3
<1> QED
  BY <1>1, <1>2, <1>4, PTL DEF Spec

=============================================================================
