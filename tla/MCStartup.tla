----------------------------- MODULE MCStartup -----------------------------
(* Model values for Startup: no database, the first layout with a model    *)
(* store, and later ones that lack some of the columns.                    *)
EXTENDS Startup

CONSTANTS portal, migrate

Layout(ts, agentColumns, modelColumns) ==
  [tables |-> ts,
   columns |-> [t \in Tables |->
     CASE t = "agents" -> agentColumns [] t = "models" -> modelColumns [] OTHER -> {}]]

MCLayouts == {
  Layout({}, {}, {}),
  Layout({"agents", "channels", "task_logs"}, {}, {}),
  Layout(Tables \ {"agent_identity_files"}, {"agent_type", "model_id"}, {"provider"}),
  Layout(Tables, {"listen_port", "auth_config_id"}, {"auth_config_id"}) }

=============================================================================
