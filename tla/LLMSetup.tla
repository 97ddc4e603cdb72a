------------------------------ MODULE LLMSetup ------------------------------
(***************************************************************************)
(* From the configuration file and the command line to the client an agent *)
(* talks to: migrateLegacyLLMConfig (internal/config/config.go), the       *)
(* overrides of main (cmd/max-team/main.go), NewRouter and getProvider     *)
(* (internal/llm/router.go).  A loop over a Go map that breaks after its   *)
(* first turn takes any entry.                                             *)
(***************************************************************************)
CONSTANT Names  \* what the file and the command line may call a provider

\* "" is no name, and "flag" what the command line gives.
ASSUME NamesAssumption == Names \subseteq STRING \ {"", "flag"}

Clients == {"anthropic", "openai"}  \* the names NewRouter knows

None == [key |-> "", base |-> ""]
FromFile(n) == [key |-> n, base |-> n]   \* what the file says of provider n
Legacy == [key |-> "legacy", base |-> "legacy"]
Nobody == [n \in {} |-> None]
Only(name, settings) == [n \in {name} |-> settings]

VARIABLES
  flags,    \* --provider, --base-url and --api-key, "" when not given
  llm,      \* LLMConfig; provider, key and base are the legacy fields
  wants,    \* AgentConfig.Provider
  router,   \* Router.providers and Router.defaultProvider
  client,   \* what getProvider returns for the agent: a client's settings
  pc

vars == <<flags, llm, wants, router, client, pc>>

\* The file lists providers, or has the legacy fields, or both, or neither.
Init ==
  /\ flags \in [provider : Names \cup {""}, base : {"", "flag"}, key : {"", "flag"}]
  /\ \E listed \in SUBSET Names, default, provider \in Names \cup {""},
        legacy \in {None, Legacy} :
       llm = [providers |-> [n \in listed |-> FromFile(n)], default |-> default,
              provider |-> provider, key |-> legacy.key, base |-> legacy.base]
  /\ wants \in Names \cup {""}
  /\ router = [providers |-> Nobody, default |-> ""]
  /\ client = None
  /\ pc = "migrate"

FirstNamed(a, b, c) == IF a # "" THEN a ELSE IF b # "" THEN b ELSE c

MigrateLegacyLLMConfig ==
  /\ pc = "migrate"
  /\ LET name == FirstNamed(llm.provider, llm.default, "anthropic")
     IN  llm' = IF DOMAIN llm.providers # {} \/ llm.key = "" THEN llm
                ELSE [llm EXCEPT !.providers = Only(name, [key |-> llm.key, base |-> llm.base]),
                                 !.default = FirstNamed(@, name, name)]
  /\ pc' = "provider"
  /\ UNCHANGED <<flags, wants, router, client>>

OverrideProvider ==
  /\ pc = "provider"
  /\ llm' = [llm EXCEPT !.default = FirstNamed(flags.provider, @, "")]
  /\ wants' = FirstNamed(flags.provider, wants, "")
  /\ pc' = "base"
  /\ UNCHANGED <<flags, router, client>>

\* An entry of the map, overridden, becomes that of the default provider.
SetDefault(pcfg) ==
  [n \in {llm.default} \cup DOMAIN llm.providers |->
     IF n = llm.default THEN pcfg ELSE llm.providers[n]]

OverrideBase ==
  /\ pc = "base"
  /\ \/ flags.base = "" /\ UNCHANGED llm
     \/ /\ flags.base # ""
        /\ DOMAIN llm.providers = {}
        /\ llm' = [llm EXCEPT !.base = flags.base]
     \/ /\ flags.base # ""
        /\ \E n \in DOMAIN llm.providers :
             llm' = [llm EXCEPT !.base = flags.base,
                       !.providers = SetDefault([llm.providers[n] EXCEPT !.base = flags.base])]
  /\ pc' = "key"
  /\ UNCHANGED <<flags, wants, router, client>>

\* A mistake: the key is set only for an entry the file has for the default.
OverrideKey_ListedOnly ==
  /\ pc = "key"
  /\ llm' = IF flags.key # "" /\ llm.default \in DOMAIN llm.providers
            THEN [llm EXCEPT !.providers[llm.default].key = flags.key]
            ELSE llm
  /\ pc' = "router"
  /\ UNCHANGED <<flags, wants, router, client>>

OverrideKey ==
  /\ pc = "key"
  /\ \/ flags.key = "" /\ UNCHANGED llm
     \/ /\ flags.key # ""
        /\ DOMAIN llm.providers = {}
        /\ llm' = [llm EXCEPT !.key = flags.key]
     \/ /\ flags.key # ""
        /\ \E n \in DOMAIN llm.providers :
             llm' = [llm EXCEPT !.key = flags.key,
                       !.providers = SetDefault([llm.providers[n] EXCEPT !.key = flags.key])]
  /\ pc' = "router"
  /\ UNCHANGED <<flags, wants, router, client>>

Known == DOMAIN llm.providers \cap Clients

\* Other names are skipped; if that leaves none, the legacy fields do, under
\* any name.
NewRouter ==
  /\ pc = "router"
  /\ LET made == [n \in Known |-> llm.providers[n]]
         name == FirstNamed(llm.default, "anthropic", "")
     IN  IF Known = {} /\ llm.key # ""
         THEN router' = [providers |-> Only(name, [key |-> llm.key, base |-> llm.base]),
                         default |-> name]
         ELSE \E d \in IF llm.default = "" /\ Known # {} THEN Known ELSE {llm.default} :
                router' = [providers |-> made, default |-> d]
  /\ pc' = "serve"
  /\ UNCHANGED <<flags, llm, wants, client>>

\* A mistake: an agent whose provider has no client gets none.
GetProvider_NoFallback ==
  /\ pc = "serve"
  /\ LET name == IF wants # "" THEN wants ELSE router.default
     IN  client' = IF name \in DOMAIN router.providers THEN router.providers[name] ELSE None
  /\ pc' = "end"
  /\ UNCHANGED <<flags, llm, wants, router>>

\* None stands for "provider not found".
GetProvider ==
  /\ pc = "serve"
  /\ LET name == IF wants \in DOMAIN router.providers THEN wants ELSE router.default
     IN  client' = IF name \in DOMAIN router.providers THEN router.providers[name] ELSE None
  /\ pc' = "end"
  /\ UNCHANGED <<flags, llm, wants, router>>

Next ==
  \/ MigrateLegacyLLMConfig
  \/ OverrideProvider \/ OverrideBase \/ OverrideKey
  \/ NewRouter
  \/ GetProvider

Spec == Init /\ [][Next]_vars

-----------------------------------------------------------------------------
(* Correctness. *)

\* Where --api-key ends, whatever the file lists and whichever entry the loops
\* over the map meet first: in the client of every agent if no known provider is
\* listed, and otherwise in that of the default provider alone, who serves the
\* agents that want it or nobody known.  An agent that wants another listed
\* provider is served with the key of the file, and so is every agent when no
\* provider is the default: main puts the key under "" then, which NewRouter
\* skips.  Nobody serves only if the default is a name that NewRouter skips.
FlagKeyIsUsed ==
  pc = "end" /\ flags.key # "" =>
    /\ client.key = flags.key
         <=> Known = {} \/ (llm.default \in Clients /\ wants \notin Known \ {llm.default})
    /\ client = None
         <=> Known # {} /\ llm.default \notin Clients \cup {""} /\ wants \notin Known

\* Whatever provider an agent names, getProvider finds a client for it if the
\* default provider is a known one that the file lists, or if no known one is
\* listed and a legacy or flag key is there.
DefaultIsServed ==
  /\ pc = "end"
  /\ llm.default \in Known \/ (Known = {} /\ llm.key # "")
  => client # None

\* The client is that of the default provider, which has a name.
ServedByDefault == pc = "end" /\ llm.default # "" /\ wants \in {"", llm.default}

\* What README.md:52 promises: the command line takes precedence over the file.
FlagsTakePrecedence ==
  ServedByDefault /\ client # None /\ flags.base # "" => client.base = flags.base
=============================================================================
