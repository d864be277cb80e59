-------------------------- MODULE MCChatCompletion --------------------------
(* Model values for ChatCompletion; its registry is a part of the table.   *)
EXTENDS ChatCompletion, ProviderTable

CONSTANTS h1, h2, u1, u2, k1, m1, c1

MCProviders == {"github_copilot", "zai"}
MCAliasesOf == [p \in MCProviders |-> Aliases[p]]

Copilot(h, u) == [copilot |-> TRUE, provider |-> "github_copilot", host |-> h, secret |-> u, key |-> 0]
Bearer(n, h, u) == [copilot |-> FALSE, provider |-> n, host |-> h, secret |-> u, key |-> 0]

MCForms == {Copilot(h1, u1), Bearer("z.ai", h2, u2)}

=============================================================================
