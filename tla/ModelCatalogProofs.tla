------------------------- MODULE ModelCatalogProofs -------------------------
(***************************************************************************)
(* Proofs about ModelCatalog for any number of configs, logins, models,    *)
(* workers and editors, save that the default is unique for one editor.    *)
(***************************************************************************)
EXTENDS ModelCatalog, TLAPS

(* A worker that is not idle works on a config.                            *)
Placed == \A w \in Workers : pc[w] # "idle" => at[w] \in Configs

TInv == TypeOK /\ Placed

LEMMA InitTyped == Init => TInv
  BY DEF Init, TInv, TypeOK, Placed, Steps, Jobs

LEMMA StutterTyped == TInv /\ UNCHANGED vars => TInv'
  BY DEF TInv, TypeOK, Placed, vars, configVars, editorVars

(* A request: the first step of a worker.                                  *)
LEMMA RequestTyped ==
  ASSUME TInv, NEW w \in Workers, NEW c \in Configs, Request(w, c)
  PROVE  TInv'
<1> USE DEF TInv, TypeOK, Placed, Begin, Go, editorVars
<1>1. CASE CreateAuthConfig(w, c)
  BY <1>1 DEF CreateAuthConfig, Rows, Types, Credentials, Typed, Blank, Jobs, Steps
<1>2. CASE DeleteAuthConfig(w, c)
  BY <1>2 DEF DeleteAuthConfig, Jobs, Steps
<1>3. CASE Chat(w, c)
  BY <1>3 DEF Chat, Jobs, Steps
<1>4. ASSUME NEW form \in Forms, UpdateAuthConfig(w, c, form)
      PROVE  TInv'
  <2>1. form \in {"sync", "typed", "blank"}
    BY CatalogAssumption
  <2>2. Form(config[c], form) \in Rows
    BY <1>4, <2>1 DEF UpdateAuthConfig, Exists, Form, Rows, Types, Credentials, Typed, Blank
  <2> QED
    BY <1>4, <2>1, <2>2 DEF UpdateAuthConfig, Jobs, Steps
<1>5. ASSUME NEW l \in Logins, CopilotToken(w, c, l)
      PROVE  TInv'
  <2> DEFINE r == [type |-> IF Exists(c) THEN config[c].type ELSE "github_copilot_oauth",
                   creds |-> Granted(l)]
  <2>1. Granted(l) \in Credentials
    BY DEF Granted, Credentials, Blank
  <2>2. r \in Rows
    BY <2>1 DEF Exists, Rows, Types
  <2>3. row' = [row EXCEPT ![w] = r] /\ UNCHANGED <<config, model, editorVars>>
    BY <1>5 DEF CopilotToken
  <2>4. pc' = [pc EXCEPT ![w] = "store"] /\ at' = [at EXCEPT ![w] = c] /\ left' = left
    BY <1>5 DEF CopilotToken
  <2>5. job' \in [Workers -> Jobs]
    BY <1>5 DEF CopilotToken, Jobs
  <2> HIDE DEF r
  <2> QED
    BY <2>2, <2>3, <2>4, <2>5 DEF Steps
<1> QED
  BY <1>1, <1>2, <1>3, <1>4, <1>5 DEF Request

(* A later step of a worker.                                               *)
LEMMA StepTyped ==
  ASSUME TInv, NEW w \in Workers, Step(w)
  PROVE  TInv'
<1> USE DEF TInv, TypeOK, Placed, Go, editorVars
<1>1. CASE SaveUpdate(w)
  BY <1>1 DEF SaveUpdate, Update, Stored, Discover, Finish, Jobs, Steps, Exists
<1>2. CASE DropModels(w)
  BY <1>2 DEF DropModels, Goes, Steps
<1>3. CASE DropConfig(w)
  BY <1>3 DEF DropConfig, Finish, Steps, Jobs
<1>4. CASE StoreToken(w)
  BY <1>4 DEF StoreToken, Stored, Discover, Finish, Jobs, Steps, Exists
<1>5. CASE ReadConfig(w)
  BY <1>5 DEF ReadConfig, Finish, Jobs, Steps, Exists
<1>6. CASE UseToken(w)
  BY <1>6 DEF UseToken, Goes, Steps
<1>7. CASE RenewToken(w)
  BY <1>7 DEF RenewToken, Goes, Steps
<1>8. CASE Exchange(w)
  <2>1. row' \in [Workers -> Rows \cup {NoConfig}]
    BY <1>8 DEF Exchange, Rows, Credentials, NoConfig, Blank
  <2> QED
    BY <1>8, <2>1 DEF Exchange, Steps
<1>9. CASE Persist(w)
  BY <1>9 DEF Persist, Goes, Update, Stored, Refreshed, Steps
<1>10. CASE NothingFetched(w)
  BY <1>10 DEF NothingFetched, Finish, Jobs, Steps
<1>11. CASE Rejected(w)
  BY <1>11 DEF Rejected, Jobs, Steps
<1>12. CASE AllSaved(w)
  BY <1>12 DEF AllSaved, Finish, Jobs, Steps
<1>13. ASSUME NEW names \in SUBSET Names \ {{}}, Fetched(w, names)
       PROVE  TInv'
  BY <1>13 DEF Fetched, Steps
<1>14. ASSUME NEW n \in Names, SaveModel(w, n)
       PROVE  TInv'
  <2>1. <<at[w], n>> \in Models /\ [config |-> at[w], default |-> FALSE] \in ModelRows
    BY <1>14 DEF SaveModel, Models, ModelRows
  <2>2. model' \in [Models -> ModelRows \cup {NoModel}]
    BY <1>14, <2>1 DEF SaveModel, InsertModel, Inserted
  <2> QED
    BY <1>14, <2>2 DEF SaveModel
<1> QED
  BY <1>1, <1>2, <1>3, <1>4, <1>5, <1>6, <1>7, <1>8, <1>9, <1>10, <1>11, <1>12, <1>13, <1>14
  DEF Step

(* A request about models.                                                 *)
LEMMA EditTyped ==
  ASSUME TInv, NEW e \in Editors, Edit(e)
  PROVE  TInv'
<1> USE DEF TInv, TypeOK, Placed, configVars
<1>1. CASE WriteModel(e)
  BY <1>1 DEF WriteModel, Rest
<1>2. CASE SetDefault(e)
  <2>1. model' \in [Models -> ModelRows \cup {NoModel}]
    <3>1. ASSUME NEW m \in Models
          PROVE  Demoted(m) \in ModelRows \cup {NoModel}
      <4>1. CASE model[m] \in ModelRows
        BY <4>1 DEF Demoted, ModelRows
      <4>2. CASE model[m] = NoModel
        <5>1. NoModel.config = "no row"
          BY DEF NoModel
        <5>2. Demoted(m) = NoModel
          BY <4>2, <5>1 DEF Demoted, NoModel
        <5> QED
          BY <5>2
      <4> QED
        BY <4>1, <4>2
    <3> DEFINE value(m) == IF m = item[e] THEN [model[m] EXCEPT !.default = TRUE] ELSE Demoted(m)
    <3>2. ASSUME NEW m \in Models, m = item[e], HasModel(item[e])
          PROVE  [model[m] EXCEPT !.default = TRUE] \in ModelRows
      <4>1. model[m] \in ModelRows
        BY <3>2 DEF HasModel
      <4> QED
        BY <4>1 DEF ModelRows
    <3>3. ASSUME HasModel(item[e]), NEW m \in Models
          PROVE  value(m) \in ModelRows \cup {NoModel}
      BY <3>1, <3>2, <3>3
    <3>4. model' = IF HasModel(item[e]) THEN [m \in Models |-> value(m)] ELSE model
      BY <1>2 DEF SetDefault, Commits
    <3> HIDE DEF value
    <3> QED
      BY <3>3, <3>4
  <2>2. /\ epc' = [epc EXCEPT ![e] = "idle"] /\ item' = [item EXCEPT ![e] = NoItem]
        /\ edited' = [edited EXCEPT ![e] = NoModel] /\ promote' = [promote EXCEPT ![e] = FALSE]
        /\ UNCHANGED <<config, configVars>>
    BY <1>2 DEF SetDefault, Rest
  <2> QED
    BY <2>1, <2>2
<1> QED
  BY <1>1, <1>2 DEF Edit

LEMMA UpdateModelTyped ==
  ASSUME TInv, NEW e \in Editors, NEW m \in Models, NEW default \in {"keep", "true", "false"},
         NEW c \in Owners, UpdateModel(e, m, default, c)
  PROVE  TInv'
<1> DEFINE r == [config |-> c, default |-> IF default = "keep" THEN model[m].default
                                           ELSE default = "true"]
<1>1. r \in ModelRows
  BY CatalogAssumption DEF TInv, TypeOK, UpdateModel, HasModel, ModelRows
<1>2. edited' = [edited EXCEPT ![e] = r]
  BY DEF UpdateModel
<1> HIDE DEF r
<1>3. epc' = [epc EXCEPT ![e] = "write"] /\ item' = [item EXCEPT ![e] = m]
  BY DEF UpdateModel
<1>4. promote' \in [Editors -> BOOLEAN] /\ UNCHANGED <<config, model, configVars>>
  BY DEF UpdateModel, TInv, TypeOK
<1> QED
  BY <1>1, <1>2, <1>3, <1>4 DEF TInv, TypeOK, Placed, configVars

LEMMA ModelsTyped ==
  ASSUME TInv,
         \/ \E m \in Models : DeleteModel(m) \/ \E c \in Owners : CreateModel(m, c)
         \/ DeleteAllModels
  PROVE  TInv'
<1>1. model' \in [Models -> ModelRows \cup {NoModel}]
  <2>1. ASSUME NEW m \in Models, DeleteModel(m)
        PROVE  model' \in [Models -> ModelRows \cup {NoModel}]
    BY <2>1 DEF DeleteModel, TInv, TypeOK
  <2>2. ASSUME NEW m \in Models, NEW c \in Owners, CreateModel(m, c)
        PROVE  model' \in [Models -> ModelRows \cup {NoModel}]
    <3>1. [config |-> c, default |-> FALSE] \in ModelRows
      BY CatalogAssumption DEF ModelRows
    <3> QED
      BY <2>2, <3>1 DEF CreateModel, InsertModel, Inserted, TInv, TypeOK
  <2>3. ASSUME DeleteAllModels
        PROVE  model' \in [Models -> ModelRows \cup {NoModel}]
    BY <2>3 DEF DeleteAllModels
  <2> QED
    BY <2>1, <2>2, <2>3
<1>2. UNCHANGED <<config, configVars, editorVars>>
  BY DEF DeleteModel, CreateModel, DeleteAllModels
<1> QED
  BY <1>1, <1>2 DEF TInv, TypeOK, Placed, configVars, editorVars

(* A worker that is busy has a config to be busy with.                     *)
LEMMA TypedAndPlaced == Spec => []TInv
<1>1. TInv /\ [Next]_vars => TInv'
  BY StutterTyped, RequestTyped, StepTyped, EditTyped, UpdateModelTyped, ModelsTyped DEF Next
<1> QED
  BY <1>1, InitTyped, PTL DEF Spec

(* Tables, copies and steps keep their types: no statement about a row     *)
(* that is gone leaves half a row behind.                                  *)
THEOREM CatalogTypes == Spec => []TypeOK
<1>1. TInv => TypeOK
  BY DEF TInv
<1> QED
  BY <1>1, TypedAndPlaced, PTL

-----------------------------------------------------------------------------
(* What is stored was somebody's copy: the copies must have own keys too.  *)
Own(r) == r.creds.key \in {None, r.creds.login}
OwnKeys ==
  /\ \A c \in Configs : Own(config[c])
  /\ \A w \in Workers : Own(row[w])

LEMMA FormsOwn ==
  /\ Own(NoConfig)
  /\ Own([type |-> "bearer_token", creds |-> Typed])
  /\ Own([type |-> "bearer_token", creds |-> Blank])
  /\ \A l \in Logins : \A t : Own([type |-> t, creds |-> Granted(l)])
  BY DEF Own, NoConfig, Typed, Blank, Granted

(* Storing one own copy and taking another leaves all of them own.         *)
LEMMA OwnPreserved ==
  ASSUME TInv, OwnKeys, NEW c, NEW w, NEW r, NEW s, Own(r), Own(s),
         config' \in {config, [config EXCEPT ![c] = r]},
         row' \in {row, [row EXCEPT ![w] = s]}
  PROVE  OwnKeys'
  BY DEF TInv, TypeOK, OwnKeys, Own

LEMMA RequestOwn ==
  ASSUME TInv, OwnKeys, NEW w \in Workers, NEW c \in Configs, Request(w, c)
  PROVE  OwnKeys'
<1>1. CASE CreateAuthConfig(w, c)
  <2>1. config' \in {config, [config EXCEPT ![c] = [type |-> "bearer_token", creds |-> Typed]]}
        /\ row' = row
    BY <1>1 DEF CreateAuthConfig
  <2> QED
    BY <2>1, FormsOwn, OwnPreserved
<1>2. CASE DeleteAuthConfig(w, c) \/ Chat(w, c)
  BY <1>2 DEF DeleteAuthConfig, Chat, OwnKeys, Own
<1>3. ASSUME NEW form \in Forms, UpdateAuthConfig(w, c, form)
      PROVE  OwnKeys'
  <2>1. Own(Form(config[c], form))
    BY FormsOwn, CatalogAssumption DEF Form, OwnKeys
  <2>2. config' = config /\ row' \in {row, [row EXCEPT ![w] = Form(config[c], form)]}
    BY <1>3 DEF UpdateAuthConfig
  <2> QED
    BY <2>1, <2>2, OwnPreserved
<1>4. ASSUME NEW l \in Logins, CopilotToken(w, c, l)
      PROVE  OwnKeys'
  <2> DEFINE t == IF Exists(c) THEN config[c].type ELSE "github_copilot_oauth"
             r == [type |-> t, creds |-> Granted(l)]
  <2>1. Own(r)
    BY FormsOwn
  <2>2. config' = config /\ row' \in {row, [row EXCEPT ![w] = r]}
    BY <1>4 DEF CopilotToken
  <2> HIDE DEF r
  <2> QED
    BY <2>1, <2>2, OwnPreserved
<1> QED
  BY <1>1, <1>2, <1>3, <1>4 DEF Request

LEMMA StepOwn ==
  ASSUME TInv, OwnKeys, NEW w \in Workers, Step(w)
  PROVE  OwnKeys'
<1>1. Own(row[w]) /\ Own(NoConfig)
  BY FormsOwn DEF OwnKeys
<1>2. CASE SaveUpdate(w) \/ StoreToken(w) \/ DropConfig(w) \/ Persist(w)
  <2>1. \E r \in {row[w], NoConfig} : config' \in {config, [config EXCEPT ![at[w]] = r]}
    BY <1>2 DEF SaveUpdate, StoreToken, DropConfig, Persist, Update, Stored, Refreshed, TInv, TypeOK
  <2>2. row' \in {row, [row EXCEPT ![w] = NoConfig]}
    BY <1>2 DEF SaveUpdate, StoreToken, DropConfig, Persist, Discover, Finish, Goes
  <2> QED
    BY <1>1, <2>1, <2>2, OwnPreserved
<1>3. CASE ReadConfig(w)
  <2>1. at[w] \in Configs
    BY <1>3 DEF ReadConfig, TInv, Placed
  <2>2. config' = config /\ \E s \in {config[at[w]], NoConfig} : row' \in {row, [row EXCEPT ![w] = s]}
    BY <1>3 DEF ReadConfig, Finish
  <2>3. Own(config[at[w]])
    BY <2>1 DEF OwnKeys
  <2> QED
    BY <1>1, <2>2, <2>3, OwnPreserved
<1>4. CASE Exchange(w)
  <2> DEFINE s == [row[w] EXCEPT !.creds.key = row[w].creds.login]
  <2>1. row[w] \in [type : Types \cup {None}, creds : Credentials]
    <3>1. Blank \in Credentials
      BY DEF Credentials, Blank
    <3>2. row[w] \in Rows \cup {NoConfig}
      BY DEF TInv, TypeOK
    <3> QED
      BY <3>1, <3>2 DEF Rows, NoConfig
  <2>2. s.creds.key = s.creds.login
    <3>1. s.creds = [row[w].creds EXCEPT !.key = row[w].creds.login]
      BY <2>1
    <3>2. row[w].creds \in Credentials
      BY <2>1
    <3> QED
      BY <3>1, <3>2 DEF Credentials
  <2>3. config' = config /\ row' \in {row, [row EXCEPT ![w] = s]}
    BY <1>4, <2>1 DEF Exchange, TInv, TypeOK
  <2>4. Own(s)
    BY <2>2 DEF Own
  <2> HIDE DEF s
  <2> QED
    BY <2>3, <2>4, OwnPreserved
<1>5. CASE \/ DropModels(w) \/ UseToken(w) \/ RenewToken(w) \/ NothingFetched(w) \/ Rejected(w)
           \/ AllSaved(w) \/ (\E names \in SUBSET Names \ {{}} : Fetched(w, names))
           \/ (\E n \in Names : SaveModel(w, n))
  <2>1. config' = config /\ row' \in {row, [row EXCEPT ![w] = NoConfig]}
    BY <1>5 DEF DropModels, UseToken, RenewToken, NothingFetched, Rejected, AllSaved, Fetched,
       SaveModel, Finish, Goes
  <2> QED
    BY <1>1, <2>1, OwnPreserved
<1> QED
  BY <1>2, <1>3, <1>4, <1>5 DEF Step

(* A stored Copilot key was issued for the stored login.  The invariant    *)
(* speaks of the copies as well: they are what later steps store.          *)
THEOREM KeysBelong == Spec => []KeyOfLogin
<1>1. Init => OwnKeys
  BY FormsOwn DEF Init, OwnKeys
<1>2. TInv /\ OwnKeys /\ [Next]_vars => OwnKeys'
  <2> SUFFICES ASSUME TInv, OwnKeys, [Next]_vars PROVE OwnKeys'
    OBVIOUS
  <2>1. CASE config' = config /\ row' = row
    BY <2>1 DEF OwnKeys, Own
  <2>2. ASSUME NEW e \in Editors, Edit(e) \/ \E m \in Models, default \in {"keep", "true", "false"}, c \in Owners : UpdateModel(e, m, default, c)
        PROVE  config' = config /\ row' = row
    BY <2>2 DEF Edit, WriteModel, SetDefault, UpdateModel, configVars
  <2>3. ASSUME (\E m \in Models : DeleteModel(m) \/ \E c \in Owners : CreateModel(m, c)) \/ DeleteAllModels
        PROVE  config' = config /\ row' = row
    BY <2>3 DEF DeleteModel, CreateModel, DeleteAllModels, configVars
  <2>4. UNCHANGED vars => config' = config /\ row' = row
    BY DEF vars, configVars
  <2> QED
    BY <2>1, <2>2, <2>3, <2>4, RequestOwn, StepOwn DEF Next
<1>3. OwnKeys => KeyOfLogin
  BY DEF OwnKeys, Own, KeyOfLogin
<1> QED
  BY <1>1, <1>2, <1>3, TypedAndPlaced, PTL DEF Spec

-----------------------------------------------------------------------------
(* One editor: what it is about to write back must not add a default, and  *)
(* two defaults are seen only while SetDefault is still to come.           *)
OneEditor == \A e, f \in Editors : e = f

Promoting(m) == \E e \in Editors : epc[e] = "promote" /\ item[e] = m

DefaultInv ==
  /\ \A m, n \in Models :
       (model[m].default /\ model[n].default) => (m = n \/ Promoting(m) \/ Promoting(n))
  /\ \A e \in Editors, m \in Models :
       (epc[e] = "write" /\ edited[e].default /\ ~promote[e] /\ model[m].default) => m = item[e]

LEMMA NoModelIsNoDefault == NoModel.default = FALSE
  BY DEF NoModel

(* Steps that only add models without the flag, or remove models.          *)
LEMMA DefaultsShrink ==
  ASSUME DefaultInv, UNCHANGED editorVars,
         \A m \in Models : model'[m].default => model[m].default
  PROVE  DefaultInv'
  BY DEF DefaultInv, Promoting, editorVars

LEMMA Inserting ==
  ASSUME TInv, NEW m, NEW r, r.default = FALSE, InsertModel(m, r), NEW n \in Models, model'[n].default
  PROVE  model[n].default
  BY DEF TInv, TypeOK, InsertModel, Inserted

LEMMA WorkerDefaults ==
  ASSUME TInv, DefaultInv, NEW w \in Workers, NEW c \in Configs, Step(w) \/ Request(w, c)
  PROVE  DefaultInv'
<1>1. CASE model' = model /\ UNCHANGED editorVars
  BY <1>1, DefaultsShrink
<1>2. CASE DropModels(w)
  <2>1. \A m \in Models : model'[m] \in {model[m], NoModel}
    BY <1>2 DEF DropModels, TInv, TypeOK
  <2> QED
    BY <1>2, <2>1, NoModelIsNoDefault, DefaultsShrink DEF DropModels
<1>3. ASSUME NEW n \in Names, SaveModel(w, n)
      PROVE  DefaultInv'
  <2> DEFINE r == [config |-> at[w], default |-> FALSE]
  <2>1. InsertModel(<<at[w], n>>, r) /\ UNCHANGED editorVars
    BY <1>3 DEF SaveModel
  <2>2. r.default = FALSE
    OBVIOUS
  <2> HIDE DEF r
  <2> QED
    BY <2>1, <2>2, Inserting, DefaultsShrink
<1>4. Request(w, c) => model' = model /\ UNCHANGED editorVars
  BY DEF Request, CreateAuthConfig, DeleteAuthConfig, Chat, UpdateAuthConfig, CopilotToken
<1>5. \/ model' = model /\ UNCHANGED editorVars
      \/ DropModels(w)
      \/ \E n \in Names : SaveModel(w, n)
  BY <1>4 DEF Step, SaveUpdate, DropConfig, StoreToken, ReadConfig, UseToken, RenewToken, Exchange,
     Persist, NothingFetched, Rejected, AllSaved, Fetched
<1> QED
  BY <1>1, <1>2, <1>3, <1>5

LEMMA ModelRequestDefaults ==
  ASSUME TInv, DefaultInv,
         \/ \E m \in Models : DeleteModel(m) \/ \E c \in Owners : CreateModel(m, c)
         \/ DeleteAllModels
  PROVE  DefaultInv'
<1>1. ASSUME NEW m \in Models, NEW c \in Owners, CreateModel(m, c)
      PROVE  DefaultInv'
  <2> DEFINE r == [config |-> c, default |-> FALSE]
  <2>1. InsertModel(m, r) /\ UNCHANGED editorVars
    BY <1>1 DEF CreateModel
  <2>2. r.default = FALSE
    OBVIOUS
  <2> HIDE DEF r
  <2> QED
    BY <2>1, <2>2, Inserting, DefaultsShrink
<1>2. ASSUME DeleteAllModels \/ \E m \in Models : DeleteModel(m)
      PROVE  DefaultInv'
  <2>1. \A m \in Models : model'[m] \in {model[m], NoModel}
    BY <1>2 DEF DeleteAllModels, DeleteModel, TInv, TypeOK
  <2> QED
    BY <1>2, <2>1, NoModelIsNoDefault, DefaultsShrink DEF DeleteAllModels, DeleteModel
<1> QED
  BY <1>1, <1>2

LEMMA UpdateModelDefaults ==
  ASSUME OneEditor, TInv, DefaultInv, NEW e \in Editors, NEW m \in Models,
         NEW default \in {"keep", "true", "false"}, NEW c \in Owners, UpdateModel(e, m, default, c)
  PROVE  DefaultInv'
<1> DEFINE flag == IF default = "keep" THEN model[m].default ELSE default = "true"
<1>1. epc[e] = "idle" /\ epc'[e] = "write" /\ item'[e] = m /\ model' = model
  BY DEF UpdateModel, TInv, TypeOK
<1>2. edited'[e].default = flag /\ (promote'[e] <=> default = "true")
  BY DEF UpdateModel, TInv, TypeOK
<1>3. \A n, p \in Models : (model[n].default /\ model[p].default) => n = p
  BY <1>1 DEF OneEditor, DefaultInv, Promoting
<1>4. (flag /\ ~promote'[e]) => model[m].default
  BY <1>2
<1> HIDE DEF flag
<1>5. \A n, p \in Models : (model'[n].default /\ model'[p].default) => n = p
  BY <1>1, <1>3
<1>6. ASSUME NEW f \in Editors, NEW n \in Models,
             epc'[f] = "write", edited'[f].default, ~promote'[f], model'[n].default
      PROVE  n = item'[f]
  <2>1. f = e
    BY DEF OneEditor
  <2>2. flag
    BY <1>2, <1>6, <2>1
  <2>3. model[m].default
    BY <1>4, <1>6, <2>1, <2>2
  <2>4. model[n].default
    BY <1>1, <1>6
  <2> QED
    BY <1>1, <1>3, <2>1, <2>3, <2>4
<1> QED
  BY <1>5, <1>6 DEF DefaultInv

LEMMA WriteModelDefaults ==
  ASSUME OneEditor, TInv, DefaultInv, NEW e \in Editors, WriteModel(e)
  PROVE  DefaultInv'
<1> DEFINE m == item[e]
<1>1. epc[e] = "write" /\ \A f \in Editors : f = e
  BY DEF WriteModel, OneEditor
<1>2. \A n, p \in Models : (model[n].default /\ model[p].default) => n = p
  BY <1>1 DEF DefaultInv, Promoting
<1>3. CASE HasModel(m) /\ promote[e]
  <2>1. epc'[e] = "promote" /\ item'[e] = m
    BY <1>3 DEF WriteModel, TInv, TypeOK
  <2>2. \A n \in Models : n # m => model'[n] = model[n]
    BY DEF WriteModel, TInv, TypeOK
  <2> QED
    BY <1>1, <1>2, <2>1, <2>2 DEF DefaultInv, Promoting
<1>4. CASE ~(HasModel(m) /\ promote[e])
  <2>1. epc'[e] = "idle"
    BY <1>4 DEF WriteModel, Rest, TInv, TypeOK
  <2>2. \A n \in Models : model'[n] = IF n # m THEN model[n] ELSE IF HasModel(m) THEN edited[e] ELSE NoModel
    BY DEF WriteModel, TInv, TypeOK
  <2>3. \A n, p \in Models : (model'[n].default /\ model'[p].default) => n = p
    <3>1. CASE HasModel(m) /\ edited[e].default
      <4>1. \A n \in Models : model[n].default => n = m
        BY <1>1, <1>4, <3>1 DEF DefaultInv
      <4> QED
        BY <2>2, <4>1
    <3>2. CASE ~(HasModel(m) /\ edited[e].default)
      BY <1>2, <2>2, <3>2, NoModelIsNoDefault
    <3> QED
      BY <3>1, <3>2
  <2> QED
    BY <1>1, <2>1, <2>3 DEF DefaultInv
<1> QED
  BY <1>3, <1>4

LEMMA SetDefaultDefaults ==
  ASSUME OneEditor, TInv, DefaultInv, NEW e \in Editors, SetDefault(e)
  PROVE  DefaultInv'
<1>1. \A f \in Editors : f = e
  BY DEF OneEditor
<1>2. epc[e] = "promote" /\ epc'[e] = "idle"
  BY DEF SetDefault, Rest, TInv, TypeOK
<1>3. \A n, p \in Models : (model'[n].default /\ model'[p].default) => n = p
  <2>1. CASE HasModel(item[e])
    <3>1. \A n \in Models : n # item[e] => model'[n] = Demoted(n)
      BY <2>1 DEF SetDefault, Commits
    <3>2. \A n \in Models : Demoted(n).default = FALSE
      BY DEF Demoted
    <3>3. \A n \in Models : model'[n].default => n = item[e]
      BY <3>1, <3>2
    <3> QED
      BY <3>3
  <2>2. CASE ~HasModel(item[e])
    <3>1. model' = model
      BY <2>2 DEF SetDefault, Commits
    <3>2. \A n \in Models : model[n].default => n # item[e]
      BY <2>2, NoModelIsNoDefault DEF HasModel
    <3> QED
      BY <1>1, <3>1, <3>2 DEF DefaultInv, Promoting
  <2> QED
    BY <2>1, <2>2
<1> QED
  BY <1>1, <1>2, <1>3 DEF DefaultInv

(* With one editor at most one model is the default between its requests,  *)
(* for any number of models and of discoveries and deletions beside it.    *)
THEOREM SingleDefault ==
  ASSUME OneEditor
  PROVE  Spec => []OneDefault
<1>1. Init => DefaultInv
  BY NoModelIsNoDefault DEF Init, DefaultInv
<1>2. TInv /\ DefaultInv /\ [Next]_vars => DefaultInv'
  <2> SUFFICES ASSUME TInv, DefaultInv, [Next]_vars PROVE DefaultInv'
    OBVIOUS
  <2>1. CASE UNCHANGED vars
    BY <2>1 DEF DefaultInv, Promoting, vars, editorVars
  <2>2. ASSUME NEW w \in Workers, Step(w)
        PROVE  DefaultInv'
    <3>1. at[w] \in Configs
      BY <2>2 DEF TInv, Placed, Step, SaveUpdate, DropModels, DropConfig, StoreToken, ReadConfig,
         UseToken, RenewToken, Exchange, Persist, NothingFetched, Rejected, AllSaved, Fetched,
         SaveModel, Goes
    <3> QED
      BY <2>2, <3>1, WorkerDefaults
  <2>3. ASSUME NEW e \in Editors, Edit(e)
        PROVE  DefaultInv'
    BY <2>3, WriteModelDefaults, SetDefaultDefaults DEF Edit
  <2> QED
    BY <2>1, <2>2, <2>3, WorkerDefaults, UpdateModelDefaults, ModelRequestDefaults DEF Next
<1>3. DefaultInv => OneDefault
  BY DEF DefaultInv, OneDefault, Promoting
<1> QED
  BY <1>1, <1>2, <1>3, TypedAndPlaced, PTL DEF Spec

-----------------------------------------------------------------------------
(* What single steps may do to a row.                                      *)

(* StoreToken creates only for a login that has found no config.           *)
Logging == \A w \in Workers : pc[w] = "store" => job[w] \in {"login", "first login"}

LEMMA LoggingStep ==
  ASSUME TInv, Logging, [Next]_vars
  PROVE  Logging'
<1> USE DEF TInv, TypeOK, Logging, Begin, Go, Goes
<1>1. CASE UNCHANGED <<pc, job>>
  BY <1>1
<1>2. ASSUME NEW w \in Workers, NEW c \in Configs, Request(w, c)
      PROVE  Logging'
  BY <1>2 DEF Request, CreateAuthConfig, DeleteAuthConfig, Chat, UpdateAuthConfig, CopilotToken
<1>3. ASSUME NEW w \in Workers, Step(w)
      PROVE  Logging'
  <2>1. pc' \in [Workers -> Steps] /\ pc'[w] # "store" /\ \A v \in Workers : v # w => pc'[v] = pc[v]
    BY <1>3 DEF Step, SaveUpdate, DropModels, DropConfig, StoreToken, ReadConfig, UseToken, RenewToken,
       Exchange, Persist, NothingFetched, Rejected, AllSaved, Fetched, SaveModel, Discover, Finish, Steps
  <2>2. \A v \in Workers : v # w => job'[v] = job[v]
    BY <1>3 DEF Step, SaveUpdate, DropModels, DropConfig, StoreToken, ReadConfig, UseToken, RenewToken,
       Exchange, Persist, NothingFetched, Rejected, AllSaved, Fetched, SaveModel, Discover, Finish
  <2> QED
    BY <2>1, <2>2
<1> QED
  BY <1>1, <1>2, <1>3 DEF Next, vars, configVars, Edit, WriteModel, SetDefault, UpdateModel, DeleteModel,
     CreateModel, DeleteAllModels

(* A deleted config comes back only by a request that found it missing.    *)
THEOREM CreationOnly == Spec => OnlyCreationCreates
<1> DEFINE Creates ==
      \A c \in Configs :
        (~Exists(c) /\ config'[c] # NoConfig) =>
          \E w \in Workers : at'[w] = c /\ (pc[w] = "idle" \/ job[w] = "first login")
<1>1. Init => Logging
  BY DEF Init, Logging
<1>2. TInv /\ Logging /\ [Next]_vars => [Creates]_vars
  <2> SUFFICES ASSUME TInv, Logging, Next,
                      NEW c \in Configs, ~Exists(c), config'[c] # NoConfig
               PROVE  \E w \in Workers : at'[w] = c /\ (pc[w] = "idle" \/ job[w] = "first login")
    OBVIOUS
  <2>1. config' # config
    BY DEF Exists
  <2>2. ASSUME NEW w \in Workers, NEW d \in Configs, Request(w, d)
        PROVE  at'[w] = c /\ pc[w] = "idle"
    <3>1. CreateAuthConfig(w, d)
      BY <2>1, <2>2 DEF Request, DeleteAuthConfig, Chat, UpdateAuthConfig, CopilotToken
    <3> QED
      BY <3>1 DEF CreateAuthConfig, Begin, Exists, TInv, TypeOK
  <2>3. ASSUME NEW w \in Workers, Step(w)
        PROVE  at'[w] = c /\ job[w] = "first login"
    <3>1. SaveUpdate(w) \/ DropConfig(w) \/ StoreToken(w) \/ Persist(w)
      BY <2>1, <2>3 DEF Step, DropModels, ReadConfig, UseToken, RenewToken, Exchange, NothingFetched,
         Rejected, AllSaved, Fetched, SaveModel
    <3>2. ~(SaveUpdate(w) \/ Persist(w) \/ DropConfig(w))
      BY DEF SaveUpdate, Persist, DropConfig, Update, Stored, Exists, TInv, TypeOK
    <3>3. StoreToken(w) /\ pc[w] = "store"
      BY <3>1, <3>2 DEF StoreToken
    <3>4. at[w] = c /\ job[w] # "login"
      BY <3>3 DEF StoreToken, Stored, Exists, TInv, TypeOK
    <3>5. at' = at
      BY <3>3, <3>4 DEF StoreToken, Discover
    <3> QED
      BY <3>3, <3>4, <3>5 DEF Logging
  <2> QED
    BY <2>1, <2>2, <2>3 DEF Next, Edit, WriteModel, SetDefault, UpdateModel, DeleteModel, CreateModel,
       DeleteAllModels
<1>3. [][Creates]_vars => OnlyCreationCreates
  BY DEF OnlyCreationCreates
<1> QED
  BY <1>1, <1>2, <1>3, LoggingStep, TypedAndPlaced, PTL DEF Spec

(* No discovery and no deletion takes the default flag from a model.       *)
THEOREM DefaultStays == Spec => DefaultKept
<1> DEFINE Keeps ==
      \A m \in Models :
        (model[m].default /\ model'[m] # NoModel /\ ~model'[m].default) =>
          \E e \in Editors : epc[e] # "idle"
<1>1. TInv /\ [Next]_vars => [Keeps]_vars
  <2> SUFFICES ASSUME TInv, Next, NEW m \in Models,
                      model[m].default, model'[m] # NoModel, ~model'[m].default
               PROVE  \E e \in Editors : epc[e] # "idle"
    OBVIOUS
  <2>1. model' # model
    OBVIOUS
  <2>2. ASSUME NEW k, NEW r, InsertModel(k, r)
        PROVE  FALSE
    <3>1. HasModel(m)
      BY NoModelIsNoDefault DEF HasModel
    <3> QED
      BY <2>2, <3>1 DEF InsertModel, Inserted, TInv, TypeOK
  <2>3. ASSUME NEW w \in Workers, Step(w) \/ \E c \in Configs : Request(w, c)
        PROVE  FALSE
    <3>1. DropModels(w) \/ \E n \in Names : SaveModel(w, n)
      BY <2>1, <2>3 DEF Request, CreateAuthConfig, DeleteAuthConfig, Chat, UpdateAuthConfig, CopilotToken,
         Step, SaveUpdate, DropConfig, StoreToken, ReadConfig, UseToken, RenewToken, Exchange, Persist,
         NothingFetched, Rejected, AllSaved, Fetched
    <3>2. ~DropModels(w)
      BY <2>1 DEF DropModels, TInv, TypeOK
    <3> QED
      BY <2>2, <3>1, <3>2 DEF SaveModel
  <2>4. ASSUME \/ \E k \in Models : DeleteModel(k) \/ \E c \in Owners : CreateModel(k, c)
               \/ DeleteAllModels
        PROVE  FALSE
    BY <2>2, <2>4 DEF DeleteModel, CreateModel, DeleteAllModels, TInv, TypeOK
  <2>5. ASSUME NEW e \in Editors, Edit(e)
        PROVE  epc[e] # "idle"
    BY <2>5 DEF Edit, WriteModel, SetDefault
  <2> QED
    BY <2>1, <2>3, <2>4, <2>5 DEF Next, UpdateModel
<1>2. [][Keeps]_vars => DefaultKept
  BY DEF DefaultKept
<1> QED
  BY <1>1, <1>2, TypedAndPlaced, PTL DEF Spec

=============================================================================
