--------------------------- MODULE IdentityFiles ---------------------------
(***************************************************************************)
(* AGENTS.md of one docker agent: its row in agent_identity_files and its  *)
(* file in the workspace volume, which the agent reads.  Users save it     *)
(* (updateIdentityFile); doStartAgent writes a default one when there is   *)
(* none (injectDefaultAgentsMD).  Each stores the row first and copies the *)
(* text into the container afterwards, and nobody locks both.              *)
(*                                                                         *)
(* Rows and volume outlive containers and agents: a volume is bound by the *)
(* agent's id, and the foreign key's ON DELETE CASCADE is not in force.    *)
(* One lifecycle request is at work at a time (AgentLifecycle has them in  *)
(* full); of it only what decides about the file is kept.  What the agent  *)
(* itself writes into its workspace is left out.                           *)
(***************************************************************************)
EXTENDS Naturals

CONSTANTS
  Savers,   \* requests PUT .../identity-files/AGENTS.md
  Starter,  \* the lifecycle request, which injects the default
  Texts,    \* contents a user may save
  Empty,    \* the empty content
  Default,  \* buildDefaultAgentsMD
  NoText    \* no row, no file

Writers == Savers \cup {Starter}
Contents == Texts \cup {Empty, Default}

ASSUME WritersAssumption == Starter \notin Savers
ASSUME ContentsAssumption ==
  NoText \notin Contents /\ Empty # Default /\ Empty \notin Texts /\ Default \notin Texts

VARIABLES
  row,        \* the row's content
  volume,     \* the file's content
  agent,      \* the agent's row: there, status, has a container id
  box,        \* a container has the agent's name
  pc,         \* writer: next step
  text,       \* writer: the content it saves
  found,      \* writer: CreateOrUpdate has found a row
  again,      \* the lifecycle request is a recreation
  late,       \* history: a user saved since the injection looked, or its look failed
  owner,      \* history: the last writer that stored the row
  fate,       \* history: what became of its copy into the container
  overlapped  \* history: another writer was between its row and its copy then

files == <<row, volume, late, owner, fate, overlapped>>
own == <<text, found>>
vars == <<files, agent, box, pc, own, again>>

NoAgent == [there |-> FALSE, status |-> "stopped", cid |-> FALSE]
Agent == [there : BOOLEAN, status : {"stopped", "running", "restarting", "recreating"}, cid : BOOLEAN]

TypeOK ==
  /\ row \in Contents \cup {NoText}
  /\ volume \in Contents \cup {NoText}
  /\ agent \in Agent
  /\ box \in BOOLEAN
  /\ pc \in [Writers -> {"idle", "find", "store", "reread", "copy",
                         "create", "boot", "check", "running", "restart", "remove"}]
  /\ text \in [Writers -> Contents]
  /\ found \in [Writers -> BOOLEAN]
  /\ again \in BOOLEAN
  /\ late \in BOOLEAN
  /\ owner \in Writers
  /\ fate \in {"none", "open", "synced", "skipped", "failed", "lost"}
  /\ overlapped \in BOOLEAN

Init ==
  /\ row = NoText
  /\ volume = NoText
  /\ agent = NoAgent
  /\ box = FALSE
  /\ pc = [w \in Writers |-> "idle"]
  /\ text = [w \in Writers |-> Default]
  /\ found = [w \in Writers |-> FALSE]
  /\ again = FALSE
  /\ late = FALSE
  /\ owner = Starter
  /\ fate = "none"
  /\ overlapped = FALSE

-----------------------------------------------------------------------------
Goto(w, here, there) == pc[w] = here /\ pc' = [pc EXCEPT ![w] = there]

(* Where a writer goes when it is done with the file: a save is answered,  *)
(* a start says "running".                                                 *)
Leave(w) == pc' = [pc EXCEPT ![w] = IF w = Starter THEN "running" ELSE "idle"]

Settle(w, end) == fate' = IF owner = w /\ fate = "open" THEN end ELSE fate

(* PUT for an agent that exists; a content over 16 KB is refused before.   *)
Put(s, t) ==
  /\ agent.there
  /\ Goto(s, "idle", "find")
  /\ text' = [text EXCEPT ![s] = t]
  /\ UNCHANGED <<files, agent, box, found, again>>

(* CreateOrUpdate: GetByAgentAndFilename, then INSERT or UPDATE.           *)
Find(w) ==
  /\ Goto(w, "find", "store")
  /\ found' = [found EXCEPT ![w] = row # NoText]
  /\ UNCHANGED <<files, agent, box, text, again>>

BetweenRowAndCopy(w) == pc[w] \in {"reread", "copy"}

Store(w) ==
  /\ found[w] \/ row = NoText
  /\ Goto(w, "store", IF w = Starter THEN "copy" ELSE "reread")
  /\ row' = text[w]
  /\ late' = (late \/ w # Starter)
  /\ owner' = w
  /\ fate' = "open"
  /\ overlapped' = (\E v \in Writers \ {w} : BetweenRowAndCopy(v))
  /\ UNCHANGED <<volume, agent, box, own, again>>

\* The error is only logged.
BadStoreFails(w) ==
  /\ pc[w] \in {"find", "store"}
  /\ pc' = [pc EXCEPT ![w] = IF w = Starter THEN "copy" ELSE "reread"]
  /\ UNCHANGED <<files, agent, box, own, again>>

(* The database fails, or UNIQUE refuses the second of two first saves.    *)
StoreFails(w) ==
  /\ pc[w] \in {"find", "store"}
  /\ Leave(w)
  /\ UNCHANGED <<files, agent, box, own, again>>

AgentUp == agent.there /\ agent.status = "running" /\ agent.cid

(* updateIdentityFile reads the agent again and copies only if it runs.    *)
Reread(s) ==
  /\ AgentUp
  /\ Goto(s, "reread", "copy")
  /\ UNCHANGED <<files, agent, box, own, again>>

(* "success" without a copy if the agent is down, a panic if it is gone,   *)
(* an error if its row cannot be read.                                     *)
SkipCopy(s) ==
  /\ Goto(s, "reread", "idle")
  /\ Settle(s, "skipped")
  /\ UNCHANGED <<row, volume, late, owner, overlapped, agent, box, own, again>>

(* WriteWorkspaceFile finds the container by its name, running or not.     *)
Copy(w) ==
  /\ box
  /\ pc[w] = "copy"
  /\ Leave(w)
  /\ volume' = text[w]
  /\ Settle(w, "synced")
  /\ UNCHANGED <<row, late, owner, overlapped, agent, box, own, again>>

(* No such container, Docker fails or the client hung up: only a warning.  *)
(* The file may have been written all the same.                            *)
CopyFails(w) ==
  /\ pc[w] = "copy"
  /\ Leave(w)
  /\ volume' = volume \/ (box /\ volume' = text[w])
  /\ Settle(w, "failed")
  /\ UNCHANGED <<row, late, owner, overlapped, agent, box, own, again>>

-----------------------------------------------------------------------------
(* The agent's lifecycle.                                                  *)

Lifecycle(here, there) == Goto(Starter, here, there) /\ UNCHANGED <<files, own>>

CreateAgent ==
  /\ ~agent.there
  /\ Lifecycle("idle", "idle")
  /\ agent' = [NoAgent EXCEPT !.there = TRUE]
  /\ UNCHANGED <<box, again>>

(* doStartAgent; an id whose container is gone, or cannot be inspected, is *)
(* forgotten.                                                              *)
StartAgent ==
  /\ agent.there
  /\ \/ agent.cid /\ box /\ Lifecycle("idle", "boot") /\ UNCHANGED agent
     \/ Lifecycle("idle", "create") /\ agent' = [agent EXCEPT !.cid = FALSE]
  /\ again' = FALSE
  /\ UNCHANGED box

(* The name must be free.                                                  *)
CreateContainer ==
  /\ ~box
  /\ Lifecycle("create", "boot")
  /\ box' = TRUE
  /\ agent' = [agent EXCEPT !.cid = TRUE]
  /\ UNCHANGED again

StartContainer ==
  /\ Lifecycle("boot", "check")
  /\ UNCHANGED <<agent, box, again>>

\* recreateAgent then says "stopped"; startAgent leaves the status alone.
StartFails ==
  /\ pc[Starter] \in {"create", "boot"}
  /\ pc' = [pc EXCEPT ![Starter] = "idle"]
  /\ agent' = IF again THEN [agent EXCEPT !.status = "stopped"] ELSE agent
  /\ UNCHANGED <<files, own, box, again>>

BadInjectDefault ==
  /\ Goto(Starter, "check", "find")
  /\ text' = [text EXCEPT ![Starter] = Default]
  /\ late' = FALSE
  /\ UNCHANGED <<row, volume, owner, fate, overlapped, agent, box, found, again>>

(* injectDefaultAgentsMD: only if there is no content yet.                 *)
InjectDefault ==
  /\ row \in {NoText, Empty}
  /\ Goto(Starter, "check", "find")
  /\ text' = [text EXCEPT ![Starter] = Default]
  /\ late' = FALSE
  /\ UNCHANGED <<row, volume, owner, fate, overlapped, agent, box, found, again>>

(* An error of the look is taken for "no row".                             *)
LookFails ==
  /\ Goto(Starter, "check", "find")
  /\ text' = [text EXCEPT ![Starter] = Default]
  /\ late' = TRUE
  /\ UNCHANGED <<row, volume, owner, fate, overlapped, agent, box, found, again>>

KeepContent ==
  /\ row \notin {NoText, Empty}
  /\ Lifecycle("check", "running")
  /\ UNCHANGED <<agent, box, again>>

SayRunning ==
  /\ Lifecycle("running", "idle")
  /\ agent' = [agent EXCEPT !.status = "running"]
  /\ UNCHANGED <<box, again>>

StopAgent ==
  /\ agent.there
  /\ Lifecycle("idle", "idle")
  /\ agent' = [agent EXCEPT !.status = "stopped"]
  /\ UNCHANGED <<box, again>>

RestartAgent ==
  /\ agent.cid
  /\ Lifecycle("idle", "restart")
  /\ agent' = [agent EXCEPT !.status = "restarting"]
  /\ UNCHANGED <<box, again>>

Restarted(status) ==
  /\ Lifecycle("restart", "idle")
  /\ agent' = [agent EXCEPT !.status = status]
  /\ UNCHANGED <<box, again>>

RecreateAgent ==
  /\ agent.cid
  /\ Lifecycle("idle", "remove")
  /\ agent' = [agent EXCEPT !.status = "recreating"]
  /\ again' = TRUE
  /\ UNCHANGED box

RemoveContainer ==
  /\ Lifecycle("remove", "create")
  /\ box' = FALSE
  /\ agent' = [agent EXCEPT !.cid = FALSE]
  /\ UNCHANGED again

\* Docker fails, or the database after the container is gone.
RemoveFails ==
  /\ Lifecycle("remove", "idle")
  /\ box' \in {FALSE, box}
  /\ agent' = [agent EXCEPT !.status = "stopped"]
  /\ UNCHANGED again

(* An update that needs a new container drops the old one; a deletion the  *)
(* agent, too.  Neither looks whether Docker has removed it, and then the  *)
(* statement on the row may fail.                                          *)
DropContainer(then) ==
  /\ agent.there
  /\ Lifecycle("idle", "idle")
  /\ box' \in {FALSE, box}
  /\ agent' \in {agent, then}
  /\ UNCHANGED again

UpdateAgent == agent.cid /\ DropContainer([agent EXCEPT !.cid = FALSE, !.status = "stopped"])
DeleteAgent == DropContainer(NoAgent)

(* The portal is killed; the agent's row stays as it is.                   *)
Crash ==
  /\ \E w \in Writers : pc[w] # "idle"
  /\ pc' = [w \in Writers |-> "idle"]
  /\ fate' = IF fate = "open" THEN "lost" ELSE fate
  /\ UNCHANGED <<row, volume, late, owner, overlapped, agent, box, own, again>>

Next ==
  \/ \E s \in Savers : (\E t \in Texts \cup {Empty} : Put(s, t)) \/ Reread(s) \/ SkipCopy(s)
  \/ \E w \in Writers : Find(w) \/ Store(w) \/ StoreFails(w) \/ Copy(w) \/ CopyFails(w)
  \/ CreateAgent \/ StartAgent \/ CreateContainer \/ StartContainer \/ StartFails
  \/ InjectDefault \/ LookFails \/ KeepContent \/ SayRunning \/ StopAgent
  \/ RestartAgent \/ (\E status \in {"running", "stopped"} : Restarted(status))
  \/ RecreateAgent \/ RemoveContainer \/ RemoveFails \/ UpdateAgent \/ DeleteAgent
  \/ Crash

Spec == Init /\ [][Next]_vars

-----------------------------------------------------------------------------
(* Properties.                                                             *)

(* Once the last text stored was also copied into the container, the agent *)
(* works with it, whatever happens to the agent, its container and the     *)
(* portal after that, until the next save: the one way to lose it is a     *)
(* writer that had stored an older text before and copies it afterwards.   *)
SyncedStays == fate = "synced" /\ ~overlapped => volume = row

(* The default is written "if not already set": it replaces a user's text  *)
(* only if that was saved after the injection looked for one, or if the    *)
(* look failed.                                                            *)
DefaultYields ==
  [][(row \in Texts /\ row' = Default) => late]_row

=============================================================================
