-------------------------- MODULE ProviderRegistry --------------------------
(***************************************************************************)
(* The map of providers that package initialisation builds: init ranges    *)
(* over Registry while it adds the aliases to it.  Go visits the entries   *)
(* in any order, and an entry that is added during the loop may be visited *)
(* or not.  Names are lower case, as every lookup makes them.              *)
(***************************************************************************)

CONSTANTS
  Providers, \* ids
  AliasesOf  \* other names of each

(* What stands for a provider that is none of them.                        *)
Unknown == "bearer"

ASSUME Unambiguous ==
  /\ Unknown \notin Providers
  /\ \A p, q \in Providers : /\ p \notin AliasesOf[q]
                             /\ p # q => AliasesOf[p] \cap AliasesOf[q] = {}

VARIABLES
  registry, \* name -> id of the provider it stands for
  unvisited \* entries of the literal that the loop has still to visit

registryVars == <<registry, unvisited>>

Known == Providers \cup UNION {AliasesOf[p] : p \in Providers}

RegistryTypeOK ==
  /\ unvisited \subseteq Providers
  /\ DOMAIN registry \subseteq Known
  /\ \A n \in DOMAIN registry : registry[n] \in Providers

RegistryInit ==
  /\ registry = [p \in Providers |-> p]
  /\ unvisited = Providers

(* Only names that are not in the map yet.                                 *)
Register(p) ==
  [n \in DOMAIN registry \cup AliasesOf[p] |-> IF n \in DOMAIN registry THEN registry[n] ELSE p]

(* The loop comes to an entry of the literal, or to one it has added.      *)
Visit(n) ==
  /\ unvisited # {}
  /\ n \in unvisited \/ n \in DOMAIN registry \ Providers
  /\ registry' = Register(registry[n])
  /\ unvisited' = unvisited \ {n}

Loaded == unvisited = {}

(* Get, and what GetAuthHeader and applyProviderHeaders fall back to.      *)
Lookup(n) == IF n \in DOMAIN registry THEN registry[n] ELSE Unknown

-----------------------------------------------------------------------------
(* A provider's own names.                                                 *)
Means(n, p) == n = p \/ n \in AliasesOf[p]

(* Once the loop is over every name of a provider leads to it and to no    *)
(* other, whatever the order of the visits.                                *)
Settled ==
  Loaded => \A p \in Providers : \A n \in Known :
              Means(n, p) <=> (n \in DOMAIN registry /\ registry[n] = p)

=============================================================================
