---------------------------- MODULE ModelCatalog ----------------------------
(***************************************************************************)
(* Auth configs, the models found through them, and the default model.     *)
(*                                                                         *)
(* A worker is a request about one auth config, or a chat that uses it,    *)
(* and the model discovery that the request leaves in the background.  It  *)
(* works on a copy of the row and writes whole rows back.  An editor is a  *)
(* request about models.                                                   *)
(*                                                                         *)
(* Credentials are what the code distinguishes: is there an API key typed  *)
(* by a user, which GitHub login do they hold, and for which login was the *)
(* Copilot key issued.  Whether a key is about to expire is left open.     *)
(***************************************************************************)

CONSTANTS
  Configs,
  Logins,      \* GitHub access tokens
  Names,       \* models that providers offer
  Workers,
  Editors,
  Forms,       \* what the frontend sends to update a config
  Owners       \* configs that a request about models may name, or None

None == "none"

ASSUME CatalogAssumption ==
  /\ None \notin Logins /\ None \notin Configs
  /\ Forms \subseteq {"sync", "typed", "blank"}
  /\ Owners \subseteq Configs \cup {None}

Types == {"bearer_token", "github_copilot_oauth"}
Credentials == [api_key : BOOLEAN, login : Logins \cup {None}, key : Logins \cup {None}]
Blank == [api_key |-> FALSE, login |-> None, key |-> None]
Typed == [Blank EXCEPT !.api_key = TRUE]
Granted(l) == [Blank EXCEPT !.login = l, !.key = l]

Rows == [type : Types, creds : Credentials]
NoConfig == [type |-> None, creds |-> Blank]

\* The id of a discovered model is its config's id and its name.
Models == Configs \X Names
ModelRows == [config : Configs \cup {None}, default : BOOLEAN]
NoModel == [config |-> "no row", default |-> FALSE]

VARIABLES
  config,  \* table auth_configs
  model,   \* table models
  pc,      \* worker: next step
  at,      \* worker: the config
  row,     \* worker: its copy of the config
  job,     \* worker: what it is doing
  left,    \* worker: discovered names still to be saved
  epc,     \* editor: next step
  item,    \* editor: the model
  edited,  \* editor: its copy of the model
  promote  \* editor: the request says isDefault = true

configVars == <<pc, at, row, job, left>>
editorVars == <<epc, item, edited, promote>>
vars == <<config, model, configVars, editorVars>>

Steps == {"idle", "save", "store", "drop models", "drop config", "discover", "token", "exchange",
          "persist", "fetch", "saving"}
Jobs == {None, "sync", "typed", "blank", "login", "first login", "delete", "discover", "chat", "retry"}
NoItem == <<None, None>>

TypeOK ==
  /\ config \in [Configs -> Rows \cup {NoConfig}]
  /\ model \in [Models -> ModelRows \cup {NoModel}]
  /\ pc \in [Workers -> Steps]
  /\ at \in [Workers -> Configs \cup {None}]
  /\ row \in [Workers -> Rows \cup {NoConfig}]
  /\ job \in [Workers -> Jobs]
  /\ left \in [Workers -> SUBSET Names]
  /\ epc \in [Editors -> {"idle", "write", "promote"}]
  /\ item \in [Editors -> Models \cup {NoItem}]
  /\ edited \in [Editors -> ModelRows \cup {NoModel}]
  /\ promote \in [Editors -> BOOLEAN]

Init ==
  /\ config = [c \in Configs |-> NoConfig]
  /\ model = [m \in Models |-> NoModel]
  /\ pc = [w \in Workers |-> "idle"]
  /\ at = [w \in Workers |-> None]
  /\ row = [w \in Workers |-> NoConfig]
  /\ job = [w \in Workers |-> None]
  /\ left = [w \in Workers |-> {}]
  /\ epc = [e \in Editors |-> "idle"]
  /\ item = [e \in Editors |-> NoItem]
  /\ edited = [e \in Editors |-> NoModel]
  /\ promote = [e \in Editors |-> FALSE]

-----------------------------------------------------------------------------
(* AuthConfigStore and ModelStore.                                         *)

Exists(c) == config[c] # NoConfig
HasModel(m) == model[m] # NoModel

\* UPDATE ... WHERE id = ?: a row that is gone stays gone.
BadStored(c, r) == r
Stored(c, r) == IF Exists(c) THEN r ELSE NoConfig
Update(c, r) == config' = [config EXCEPT ![c] = Stored(c, r)]

\* ModelStore.Create: an id that is taken is refused.
BadInserted(m, r) == r
Inserted(m, r) == IF HasModel(m) THEN model[m] ELSE r
InsertModel(m, r) == model' = [model EXCEPT ![m] = Inserted(m, r)]

-----------------------------------------------------------------------------
(* createAuthConfig, updateAuthConfig, deleteAuthConfig, handleCopilotToken*)

Go(w, there) == pc' = [pc EXCEPT ![w] = there]

Begin(w, c, what, there) ==
  /\ pc[w] = "idle"
  /\ Go(w, there)
  /\ at' = [at EXCEPT ![w] = c]
  /\ job' = [job EXCEPT ![w] = what]
  /\ left' = left

Finish(w) ==
  /\ Go(w, "idle")
  /\ at' = [at EXCEPT ![w] = None]
  /\ row' = [row EXCEPT ![w] = NoConfig]
  /\ job' = [job EXCEPT ![w] = None]
  /\ left' = [left EXCEPT ![w] = {}]

\* The answer is sent; what follows is the discovery goroutine.
Discover(w) ==
  /\ Go(w, "discover")
  /\ job' = [job EXCEPT ![w] = "discover"]
  /\ row' = [row EXCEPT ![w] = NoConfig]
  /\ UNCHANGED <<at, left>>

\* The next step of the same job on the same copy.
Goes(w, here, there) == pc[w] = here /\ Go(w, there) /\ UNCHANGED <<at, row, job, left>>

CreateAuthConfig(w, c) ==
  /\ ~Exists(c)
  /\ Begin(w, c, "discover", "discover")
  /\ config' = [config EXCEPT ![c] = [type |-> "bearer_token", creds |-> Typed]]
  /\ UNCHANGED <<model, row, editorVars>>

\* The frontend sends nothing ("sync"), a form with an API key, or one without.
Form(r, form) ==
  CASE form = "sync" -> r
    [] form = "typed" -> [type |-> "bearer_token", creds |-> Typed]
    [] form = "blank" -> [type |-> "bearer_token", creds |-> Blank]

UpdateAuthConfig(w, c, form) ==
  /\ Exists(c)
  /\ Begin(w, c, form, "save")
  /\ row' = [row EXCEPT ![w] = Form(config[c], form)]
  /\ UNCHANGED <<config, model, editorVars>>

SaveUpdate(w) ==
  /\ pc[w] = "save"
  /\ Update(at[w], row[w])
  /\ IF Exists(at[w]) THEN Discover(w) ELSE Finish(w)
  /\ UNCHANGED <<model, editorVars>>

DeleteAuthConfig(w, c) ==
  /\ Exists(c)
  /\ Begin(w, c, "delete", "drop models")
  /\ UNCHANGED <<config, model, row, editorVars>>

\* If this fails the config is deleted all the same.
DropModels(w) ==
  /\ Goes(w, "drop models", "drop config")
  /\ \/ model' = [m \in Models |-> IF model[m].config = at[w] THEN NoModel ELSE model[m]]
     \/ UNCHANGED model
  /\ UNCHANGED <<config, editorVars>>

DropConfig(w) ==
  /\ pc[w] = "drop config"
  /\ config' = [config EXCEPT ![at[w]] = NoConfig]
  /\ Finish(w)
  /\ UNCHANGED <<model, editorVars>>

\* GitHub has granted login l and issued a Copilot key for it.
CopilotToken(w, c, l) ==
  /\ Begin(w, c, IF Exists(c) THEN "login" ELSE "first login", "store")
  /\ row' = [row EXCEPT ![w] = [type |-> IF Exists(c) THEN config[c].type ELSE "github_copilot_oauth",
                               creds |-> Granted(l)]]
  /\ UNCHANGED <<config, model, editorVars>>

\* Update if the config was there, else Create, which refuses an id that is taken.
StoreToken(w) ==
  LET c == at[w]
  IN  /\ pc[w] = "store"
      /\ config' = [config EXCEPT ![c] =
           IF job[w] = "login" THEN Stored(c, row[w]) ELSE IF Exists(c) THEN @ ELSE row[w]]
      /\ IF Exists(c) <=> job[w] = "login" THEN Discover(w) ELSE Finish(w)
      /\ UNCHANGED <<model, editorVars>>

-----------------------------------------------------------------------------
(* discoverAndSaveModels, discoverModels, ensureFreshCopilotToken; a chat  *)
(* (resolveAuthForModel, proxyChatCompletion) stops before the models.     *)

Chat(w, c) ==
  /\ Begin(w, c, "chat", "discover")
  /\ UNCHANGED <<config, model, row, editorVars>>

ReadConfig(w) ==
  /\ pc[w] = "discover"
  /\ IF Exists(at[w])
     THEN Go(w, "token") /\ row' = [row EXCEPT ![w] = config[at[w]]] /\ UNCHANGED <<at, job, left>>
     ELSE Finish(w)
  /\ UNCHANGED <<config, model, editorVars>>

\* A bearer token, a Copilot key that is fresh, or one that cannot be renewed.
UseToken(w) ==
  /\ Goes(w, "token", "fetch")
  /\ \/ row[w].type = "bearer_token"
     \/ row[w].creds.login = None
     \/ row[w].creds.key # None
  /\ UNCHANGED <<config, model, editorVars>>

\* The Copilot key is missing or near its expiry.
RenewToken(w) ==
  /\ Goes(w, "token", "exchange")
  /\ row[w].type = "github_copilot_oauth" /\ row[w].creds.login # None
  /\ UNCHANGED <<config, model, editorVars>>

\* exchangeForCopilotAPIKey; without an answer the old tokens serve.
Exchange(w) ==
  /\ pc[w] = "exchange"
  /\ \/ /\ row[w].creds.login # None
        /\ Go(w, "persist")
        /\ row' = [row EXCEPT ![w].creds.key = row[w].creds.login]
     \/ Go(w, "fetch") /\ UNCHANGED row
  /\ UNCHANGED <<config, model, at, job, left, editorVars>>

BadRefreshed(w) == [config[at[w]] EXCEPT !.creds.key = row[w].creds.key]
Refreshed(w) == row[w]

\* refreshCopilotToken writes the row back; an error is only logged.
Persist(w) ==
  /\ Goes(w, "persist", "fetch")
  /\ Update(at[w], Refreshed(w))
  /\ UNCHANGED <<model, editorVars>>

HasToken(r) ==
  \/ r.type = "bearer_token" /\ r.creds.api_key
  \/ r.type = "github_copilot_oauth" /\ (r.creds.login # None \/ r.creds.key # None)

Fetched(w, names) ==
  /\ pc[w] = "fetch" /\ job[w] = "discover" /\ HasToken(row[w])
  /\ Go(w, "saving")
  /\ left' = [left EXCEPT ![w] = names]
  /\ row' = [row EXCEPT ![w] = NoConfig]
  /\ UNCHANGED <<config, model, at, job, editorVars>>

\* No answer, no models, or the answer to a chat.
NothingFetched(w) ==
  /\ pc[w] = "fetch"
  /\ Finish(w)
  /\ UNCHANGED <<config, model, editorVars>>

\* 401 or 403: refresh and try once more.
Rejected(w) ==
  /\ pc[w] = "fetch" /\ job[w] = "chat" /\ row[w].type = "github_copilot_oauth" /\ HasToken(row[w])
  /\ Go(w, "exchange")
  /\ job' = [job EXCEPT ![w] = "retry"]
  /\ UNCHANGED <<config, model, at, row, left, editorVars>>

\* A model that is there already is skipped.
SaveModel(w, n) ==
  /\ pc[w] = "saving"
  /\ n \in left[w]
  /\ InsertModel(<<at[w], n>>, [config |-> at[w], default |-> FALSE])
  /\ left' = [left EXCEPT ![w] = @ \ {n}]
  /\ UNCHANGED <<config, pc, at, row, job, editorVars>>

AllSaved(w) ==
  /\ pc[w] = "saving" /\ left[w] = {}
  /\ Finish(w)
  /\ UNCHANGED <<config, model, editorVars>>

-----------------------------------------------------------------------------
(* createModel, updateModel, deleteModel, deleteAllModels.                 *)

CreateModel(m, c) ==
  /\ ~HasModel(m)
  /\ InsertModel(m, [config |-> c, default |-> FALSE])
  /\ UNCHANGED <<config, configVars, editorVars>>

DeleteModel(m) ==
  /\ model' = [model EXCEPT ![m] = NoModel]
  /\ UNCHANGED <<config, configVars, editorVars>>

DeleteAllModels ==
  /\ model' = [m \in Models |-> NoModel]
  /\ UNCHANGED <<config, configVars, editorVars>>

Rest(e) ==
  /\ epc' = [epc EXCEPT ![e] = "idle"]
  /\ item' = [item EXCEPT ![e] = NoItem]
  /\ edited' = [edited EXCEPT ![e] = NoModel]
  /\ promote' = [promote EXCEPT ![e] = FALSE]

\* isDefault may be set, cleared or left out; the config may change.
UpdateModel(e, m, default, c) ==
  /\ epc[e] = "idle"
  /\ HasModel(m)
  /\ epc' = [epc EXCEPT ![e] = "write"]
  /\ item' = [item EXCEPT ![e] = m]
  /\ edited' = [edited EXCEPT ![e] = [config |-> c, default |-> IF default = "keep" THEN model[m].default
                                                             ELSE default = "true"]]
  /\ promote' = [promote EXCEPT ![e] = default = "true"]
  /\ UNCHANGED <<config, model, configVars>>

WriteModel(e) ==
  LET m == item[e]
  IN  /\ epc[e] = "write"
      /\ model' = [model EXCEPT ![m] = IF HasModel(m) THEN edited[e] ELSE NoModel]
      /\ IF HasModel(m) /\ promote[e]
         THEN epc' = [epc EXCEPT ![e] = "promote"] /\ UNCHANGED <<item, edited, promote>>
         ELSE Rest(e)
      /\ UNCHANGED <<config, configVars>>

\* SetDefault is one transaction, rolled back if the model is gone.
Commits(m) == HasModel(m)

BadDemoted(m) == model[m]
Demoted(m) == [config |-> model[m].config, default |-> FALSE]

SetDefault(e) ==
  /\ epc[e] = "promote"
  /\ model' = IF Commits(item[e])
              THEN [m \in Models |-> IF m = item[e] THEN [model[m] EXCEPT !.default = TRUE] ELSE Demoted(m)]
              ELSE model
  /\ Rest(e)
  /\ UNCHANGED <<config, configVars>>

-----------------------------------------------------------------------------
Request(w, c) ==
  \/ CreateAuthConfig(w, c) \/ DeleteAuthConfig(w, c) \/ Chat(w, c)
  \/ \E form \in Forms : UpdateAuthConfig(w, c, form)
  \/ \E l \in Logins : CopilotToken(w, c, l)

Step(w) ==
  \/ SaveUpdate(w) \/ DropModels(w) \/ DropConfig(w) \/ StoreToken(w)
  \/ ReadConfig(w) \/ UseToken(w) \/ RenewToken(w) \/ Exchange(w) \/ Persist(w)
  \/ NothingFetched(w) \/ Rejected(w) \/ AllSaved(w)
  \/ \E names \in SUBSET Names \ {{}} : Fetched(w, names)
  \/ \E n \in Names : SaveModel(w, n)

Edit(e) == WriteModel(e) \/ SetDefault(e)

Next ==
  \/ \E w \in Workers : Step(w) \/ \E c \in Configs : Request(w, c)
  \/ \E e \in Editors : Edit(e)
  \/ \E e \in Editors, m \in Models, default \in {"keep", "true", "false"}, c \in Owners :
       UpdateModel(e, m, default, c)
  \/ \E m \in Models : DeleteModel(m) \/ \E c \in Owners : CreateModel(m, c)
  \/ DeleteAllModels

Spec == Init /\ [][Next]_vars

-----------------------------------------------------------------------------
(* Properties.                                                             *)

(* A stored Copilot key was issued for the stored login, whatever logins,  *)
(* refreshes, updates and deletions overlap: the API would refuse another. *)
KeyOfLogin ==
  \A c \in Configs : config[c].creds.key \in {None, config[c].creds.login}

(* A deleted config comes back only by a request that has found it missing,*)
(* never by a refresh or an update that still holds a copy.                *)
OnlyCreationCreates ==
  [][\A c \in Configs :
       (~Exists(c) /\ config'[c] # NoConfig) =>
         \E w \in Workers : at'[w] = c /\ (pc[w] = "idle" \/ job[w] = "first login")]_vars

(* With one editor at a time at most one model is the default, between its *)
(* requests, whatever discoveries and deletions run beside it.             *)
OneDefault ==
  (\A e \in Editors : epc[e] = "idle") =>
    \A m, n \in Models : (model[m].default /\ model[n].default) => m = n

(* Only a request about models takes the default from a model that stays:  *)
(* discoveries meet models that users have edited.                         *)
DefaultKept ==
  [][\A m \in Models :
       (model[m].default /\ model'[m] # NoModel /\ ~model'[m].default) =>
         \E e \in Editors : epc[e] # "idle"]_vars

=============================================================================
