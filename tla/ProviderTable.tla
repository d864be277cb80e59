--------------------------- MODULE ProviderTable ---------------------------
(***************************************************************************)
(* The providers the portal knows, with what tells them apart here: the    *)
(* names they also answer to.  URLs, display names, headers and regions    *)
(* are left out.                                                           *)
(***************************************************************************)

(* The ids of the providers that have no alias, and of those that have.    *)
Plain == {
  "openai", "anthropic", "kimi-code", "deepseek", "mistral", "groq", "together", "fireworks",
  "perplexity", "cohere", "openrouter", "ollama", "lmstudio", "cloudflare", "qianfan", "custom" }

Aliased == {
  <<"github_copilot", {"copilot"}>>,
  <<"kimi", {"moonshot", "kimi-global", "moonshot-global"}>>,
  <<"glm", {"zhipu", "glm-global", "zhipu-global"}>>,
  <<"glm-cn", {"zhipu-cn", "bigmodel"}>>,
  <<"minimax", {"minimax-intl", "minimax-io", "minimax-global", "minimaxi"}>>,
  <<"minimax-cn", {"minimaxi-cn"}>>,
  <<"qwen", {"dashscope", "qwen-cn", "dashscope-cn"}>>,
  <<"qwen-intl", {"dashscope-intl", "qwen-international", "dashscope-international"}>>,
  <<"qwen-code", {"qwen-oauth"}>>,
  <<"xai", {"grok"}>>,
  <<"gemini", {"google"}>>,
  <<"zai", {"z.ai"}>> }

Ids == Plain \cup {entry[1] : entry \in Aliased}
Aliases == [id \in Ids |-> UNION {entry[2] : entry \in {a \in Aliased : a[1] = id}}]

(* What ProviderRegistry assumes of a part of the table, of all of it.     *)
ASSUME TableUnambiguous ==
  \A p, q \in Ids : /\ p \notin Aliases[q]
                    /\ p # q => Aliases[p] \cap Aliases[q] = {}

=============================================================================
