--------------------------- MODULE LLMSetupProofs ---------------------------
(* Theorems about LLMSetup, for every set of names a file may use.           *)
EXTENDS LLMSetup, TLAPS

\* What a name, a key or an address can be.
Texts == Names \cup {"", "anthropic", "legacy", "flag"}

Settings == [key : Texts, base : Texts]

\* A map from names to settings.
Maps == UNION {[S -> Settings] : S \in SUBSET Texts}

TypesOK ==
  /\ flags \in [provider : Names \cup {""}, base : {"", "flag"}, key : {"", "flag"}]
  /\ llm \in [providers : Maps, default : Texts, provider : Texts, key : Texts, base : Texts]
  /\ wants \in Texts
  /\ router \in [providers : Maps, default : Texts]

\* Nothing that is configured looks like a client that is missing.
ListedOK == \A n \in DOMAIN llm.providers : llm.providers[n].key # ""

\* Before main has looked at --api-key nothing holds it.
FreshOK ==
  /\ pc = "migrate" => llm.key # "flag"
  /\ pc \in {"migrate", "provider", "base", "key"} =>
       \A n \in DOMAIN llm.providers : llm.providers[n].key # "flag"

\* Whatever entry the loop of main copied over that of the default provider, the
\* key of the command line is in it, and in no other.
KeyOK ==
  pc \in {"router", "serve", "end"} /\ flags.key # "" =>
    /\ llm.key = flags.key
    /\ DOMAIN llm.providers = {} \/ llm.default \in DOMAIN llm.providers
    /\ \A n \in DOMAIN llm.providers : llm.providers[n].key = flags.key <=> n = llm.default

\* A default that has a name stays the default.
RouterOK ==
  pc \in {"serve", "end"} =>
    /\ llm.default # "" => router.default = llm.default
    /\ llm.default = "" /\ Known # {} => router.default \in Known
    /\ IF Known = {} /\ llm.key # ""
       THEN router.providers = Only(router.default, [key |-> llm.key, base |-> llm.base])
       ELSE router.providers = [n \in Known |-> llm.providers[n]]

ClientOK ==
  pc = "end" =>
    LET name == IF wants \in DOMAIN router.providers THEN wants ELSE router.default
    IN  client = IF name \in DOMAIN router.providers THEN router.providers[name] ELSE None

\* The inductive invariant.
SetupOK == TypesOK /\ ListedOK /\ FreshOK /\ KeyOK /\ RouterOK /\ ClientOK

-----------------------------------------------------------------------------
(* Maps. *)

LEMMA MapOf ==
  ASSUME NEW S \in SUBSET Texts, NEW f \in [S -> Settings]
  PROVE  f \in Maps
  BY DEF Maps

LEMMA MapHolds ==
  ASSUME NEW f \in Maps
  PROVE  DOMAIN f \subseteq Texts /\ \A n \in DOMAIN f : f[n] \in Settings
  BY DEF Maps

LEMMA OnlyMap ==
  ASSUME NEW name \in Texts, NEW settings \in Settings
  PROVE  Only(name, settings) \in Maps
<1>1. Only(name, settings) \in [{name} -> Settings]
  BY DEF Only
<1>. QED
  BY <1>1, MapOf

LEMMA SetDefaultMap ==
  ASSUME TypesOK, NEW pcfg \in Settings
  PROVE  /\ SetDefault(pcfg) \in Maps
         /\ llm.default \in DOMAIN SetDefault(pcfg) /\ SetDefault(pcfg)[llm.default] = pcfg
         /\ \A n \in DOMAIN SetDefault(pcfg) :
              \/ SetDefault(pcfg)[n] = pcfg
              \/ n \in DOMAIN llm.providers /\ SetDefault(pcfg)[n] = llm.providers[n]
<1>1. llm.providers \in Maps /\ llm.default \in Texts
  BY DEF TypesOK
<1>2. /\ DOMAIN llm.providers \subseteq Texts
      /\ \A n \in DOMAIN llm.providers : llm.providers[n] \in Settings
  BY <1>1, MapHolds
<1>. DEFINE names == {llm.default} \cup DOMAIN llm.providers
<1>3. SetDefault(pcfg) \in [names -> Settings] /\ names \in SUBSET Texts
  BY <1>1, <1>2 DEF SetDefault
<1>4. SetDefault(pcfg) \in Maps
  BY <1>3, MapOf
<1>. QED
  BY <1>4 DEF SetDefault

-----------------------------------------------------------------------------

LEMMA InitSetup == Init => SetupOK
<1>. SUFFICES ASSUME Init PROVE SetupOK
  OBVIOUS
<1>. PICK listed \in SUBSET Names, default \in Names \cup {""}, provider \in Names \cup {""},
          legacy \in {None, Legacy} :
       llm = [providers |-> [n \in listed |-> FromFile(n)], default |-> default,
              provider |-> provider, key |-> legacy.key, base |-> legacy.base]
  BY DEF Init
<1>1. [n \in listed |-> FromFile(n)] \in [listed -> Settings] /\ listed \in SUBSET Texts
  BY NamesAssumption DEF FromFile, Settings, Texts
<1>2. [n \in listed |-> FromFile(n)] \in Maps
  BY <1>1, MapOf
<1>3. legacy.key \in Texts /\ legacy.base \in Texts
  <2>1. CASE legacy = None
    BY <2>1 DEF None, Texts
  <2>2. CASE legacy = Legacy
    BY <2>2 DEF Legacy, Texts
  <2>. QED
    BY <2>1, <2>2
<1>4. llm \in [providers : Maps, default : Texts, provider : Texts, key : Texts, base : Texts]
  BY <1>2, <1>3 DEF Texts
<1>5. router \in [providers : Maps, default : Texts]
  <2>1. Nobody \in [{} -> Settings]
    BY DEF Nobody
  <2>2. Nobody \in Maps
    BY <2>1, MapOf
  <2>. QED
    BY <2>2 DEF Init, Texts
<1>6. ListedOK
  BY NamesAssumption DEF ListedOK, FromFile
<1>7. FreshOK
  <2>1. llm.key # "flag"
    <3>1. None.key # "flag" /\ Legacy.key # "flag"
      BY DEF None, Legacy
    <3>2. llm.key = legacy.key
      OBVIOUS
    <3>. QED
      BY <3>1, <3>2
  <2>2. llm.providers = [n \in listed |-> FromFile(n)]
    OBVIOUS
  <2>3. \A n \in listed : FromFile(n).key # "flag"
    BY NamesAssumption DEF FromFile
  <2>. QED
    BY <2>1, <2>2, <2>3 DEF FreshOK
<1>. QED
  BY <1>4, <1>5, <1>6, <1>7 DEF Texts, Init, SetupOK, TypesOK, KeyOK, RouterOK, ClientOK

LEMMA MigrateSetup == SetupOK /\ MigrateLegacyLLMConfig => SetupOK'
<1>. SUFFICES ASSUME SetupOK, MigrateLegacyLLMConfig PROVE SetupOK'
  OBVIOUS
<1>. USE DEF SetupOK, KeyOK, RouterOK, ClientOK
<1>. DEFINE name == FirstNamed(llm.provider, llm.default, "anthropic")
            entry == [key |-> llm.key, base |-> llm.base]
<1>1. CASE llm' = llm
  BY <1>1 DEF MigrateLegacyLLMConfig, TypesOK, ListedOK, FreshOK
<1>2. CASE /\ llm.key # ""
           /\ llm' = [llm EXCEPT !.providers = Only(name, entry),
                                 !.default = FirstNamed(@, name, name)]
  <2>1. name \in Texts /\ entry \in Settings /\ FirstNamed(llm.default, name, name) \in Texts
    BY DEF TypesOK, FirstNamed, Settings, Texts
  <2>2. Only(name, entry) \in Maps
    BY <2>1, OnlyMap
  <2>3. TypesOK'
    BY <1>2, <2>1, <2>2 DEF MigrateLegacyLLMConfig, TypesOK
  <2>4. ListedOK'
    BY <1>2 DEF TypesOK, ListedOK, Only
  <2>5. FreshOK'
    <3>1. llm'.providers = Only(name, entry) /\ pc = "migrate" /\ pc' = "provider"
      BY <1>2 DEF MigrateLegacyLLMConfig, TypesOK
    <3>2. entry.key # "flag"
      BY <3>1 DEF FreshOK
    <3>3. \A n \in DOMAIN Only(name, entry) : Only(name, entry)[n] = entry
      BY DEF Only
    <3>. HIDE DEF name, entry
    <3>. QED
      BY <3>1, <3>2, <3>3 DEF FreshOK
  <2>. QED
    BY <2>3, <2>4, <2>5 DEF MigrateLegacyLLMConfig
<1>. QED
  BY <1>1, <1>2 DEF MigrateLegacyLLMConfig

LEMMA OverrideProviderSetup == SetupOK /\ OverrideProvider => SetupOK'
<1>. SUFFICES ASSUME SetupOK, OverrideProvider PROVE SetupOK'
  OBVIOUS
<1>1. /\ FirstNamed(flags.provider, llm.default, "") \in Texts
      /\ FirstNamed(flags.provider, wants, "") \in Texts
  BY DEF SetupOK, TypesOK, FirstNamed, Texts
<1>2. TypesOK' /\ ListedOK' /\ FreshOK'
  BY <1>1 DEF SetupOK, TypesOK, ListedOK, FreshOK, OverrideProvider
<1>. QED
  BY <1>2 DEF OverrideProvider, SetupOK, KeyOK, RouterOK, ClientOK

LEMMA OverrideBaseSetup == SetupOK /\ OverrideBase => SetupOK'
<1>. SUFFICES ASSUME SetupOK, OverrideBase PROVE TypesOK' /\ ListedOK' /\ FreshOK'
  BY DEF OverrideBase, SetupOK, KeyOK, RouterOK, ClientOK
<1>. USE DEF SetupOK
<1>1. CASE llm' = llm \/ llm' = [llm EXCEPT !.base = flags.base]
  <2>1. TypesOK' /\ ListedOK'
    BY <1>1 DEF OverrideBase, TypesOK, ListedOK, Texts
  <2>2. llm'.providers = llm.providers /\ pc = "base" /\ pc' = "key"
    BY <1>1 DEF OverrideBase, TypesOK
  <2>3. FreshOK'
    BY <2>2 DEF FreshOK
  <2>. QED
    BY <2>1, <2>3
<1>2. ASSUME NEW n \in DOMAIN llm.providers,
             llm' = [llm EXCEPT !.base = flags.base,
                       !.providers = SetDefault([llm.providers[n] EXCEPT !.base = flags.base])]
      PROVE  TypesOK' /\ ListedOK' /\ FreshOK'
  <2>. DEFINE pcfg == [llm.providers[n] EXCEPT !.base = flags.base]
  <2>1. llm.providers[n] \in Settings /\ llm.providers[n].key \notin {"", "flag"}
    BY MapHolds DEF OverrideBase, TypesOK, ListedOK, FreshOK
  <2>2. pcfg \in Settings /\ pcfg.key \notin {"", "flag"}
    BY <2>1 DEF TypesOK, Settings, Texts
  <2>. HIDE DEF pcfg
  <2>3. llm' = [llm EXCEPT !.base = flags.base, !.providers = SetDefault(pcfg)]
    BY <1>2 DEF pcfg
  <2>4. TypesOK'
    BY <2>2, <2>3, SetDefaultMap DEF OverrideBase, TypesOK, Texts
  <2>5. llm'.providers = SetDefault(pcfg)
    BY <2>3 DEF TypesOK
  <2>6. ListedOK' /\ FreshOK'
    <3>1. ASSUME NEW m \in DOMAIN SetDefault(pcfg)
          PROVE  SetDefault(pcfg)[m].key \notin {"", "flag"}
      BY <2>2, SetDefaultMap DEF OverrideBase, ListedOK, FreshOK
    <3>. QED
      BY <2>5, <3>1 DEF OverrideBase, ListedOK, FreshOK
  <2>. QED
    BY <2>4, <2>6
<1>. QED
  BY <1>1, <1>2 DEF OverrideBase

LEMMA OverrideKeySetup == SetupOK /\ OverrideKey => SetupOK'
<1>. SUFFICES ASSUME SetupOK, OverrideKey PROVE TypesOK' /\ ListedOK' /\ KeyOK'
  BY DEF OverrideKey, SetupOK, FreshOK, RouterOK, ClientOK
<1>. USE DEF SetupOK
<1>1. CASE \/ flags.key = "" /\ llm' = llm
           \/ DOMAIN llm.providers = {} /\ llm' = [llm EXCEPT !.key = flags.key]
  BY <1>1 DEF OverrideKey, Texts, TypesOK, ListedOK, KeyOK
<1>2. ASSUME flags.key # "", NEW n \in DOMAIN llm.providers,
             llm' = [llm EXCEPT !.key = flags.key,
                       !.providers = SetDefault([llm.providers[n] EXCEPT !.key = flags.key])]
      PROVE  TypesOK' /\ ListedOK' /\ KeyOK'
  <2>. DEFINE pcfg == [llm.providers[n] EXCEPT !.key = flags.key]
  <2>1. llm.providers[n] \in Settings
    BY MapHolds DEF TypesOK
  <2>2. pcfg \in Settings /\ pcfg.key = flags.key
    BY <2>1 DEF TypesOK, Settings, Texts
  <2>. HIDE DEF pcfg
  <2>3. llm' = [llm EXCEPT !.key = flags.key, !.providers = SetDefault(pcfg)]
    BY <1>2 DEF pcfg
  <2>4. TypesOK'
    BY <2>2, <2>3, SetDefaultMap DEF OverrideKey, TypesOK, Texts
  <2>5. llm'.providers = SetDefault(pcfg) /\ llm'.default = llm.default /\ llm'.key = flags.key
    BY <2>3 DEF TypesOK
  <2>6. ListedOK'
    <3>1. ASSUME NEW m \in DOMAIN SetDefault(pcfg) PROVE SetDefault(pcfg)[m].key # ""
      BY <1>2, <2>2, SetDefaultMap DEF ListedOK
    <3>. QED
      BY <2>5, <3>1 DEF ListedOK
  <2>7. KeyOK'
    <3>1. flags.key = "flag" /\ flags' = flags /\ pc = "key"
      BY <1>2 DEF OverrideKey, TypesOK
    <3>2. ASSUME NEW m \in DOMAIN SetDefault(pcfg), m # llm.default
          PROVE  SetDefault(pcfg)[m].key # flags.key
      <4>1. SetDefault(pcfg)[m] = llm.providers[m] /\ m \in DOMAIN llm.providers
        BY <3>2 DEF SetDefault
      <4>. QED
        BY <3>1, <4>1 DEF FreshOK
    <3>3. llm.default \in DOMAIN SetDefault(pcfg) /\ SetDefault(pcfg)[llm.default].key = flags.key
      BY <2>2, SetDefaultMap
    <3>. QED
      BY <2>5, <3>1, <3>2, <3>3 DEF KeyOK
  <2>. QED
    BY <2>4, <2>6, <2>7
<1>. QED
  BY <1>1, <1>2 DEF OverrideKey

LEMMA RouterSetup == SetupOK /\ NewRouter => SetupOK'
<1>. SUFFICES ASSUME SetupOK, NewRouter PROVE SetupOK'
  OBVIOUS
<1>. USE DEF SetupOK
<1>. DEFINE name == FirstNamed(llm.default, "anthropic", "")
            entry == [key |-> llm.key, base |-> llm.base]
            made == [n \in Known |-> llm.providers[n]]
<1>1. Known \in SUBSET Texts /\ \A n \in Known : llm.providers[n] \in Settings
  BY MapHolds DEF Known, TypesOK
<1>2. made \in Maps
  <2>1. made \in [Known -> Settings]
    BY <1>1
  <2>. QED
    BY <1>1, <2>1, MapOf
<1>3. Only(name, entry) \in Maps /\ name \in Texts
  <2>1. name \in Texts /\ entry \in Settings
    BY DEF TypesOK, FirstNamed, Settings, Texts
  <2>. QED
    BY <2>1, OnlyMap
<1>4. UNCHANGED <<flags, llm, wants, client>> /\ Known' = Known /\ pc' = "serve" /\ pc = "router"
  BY DEF NewRouter, Known
<1>5. CASE Known = {} /\ llm.key # ""
  <2>1. router' = [providers |-> Only(name, entry), default |-> name]
    BY <1>5 DEF NewRouter
  <2>2. llm.default # "" => name = llm.default
    BY DEF FirstNamed
  <2>. HIDE DEF name, entry
  <2>3. RouterOK'
    BY <1>4, <1>5, <2>1, <2>2 DEF RouterOK, entry
  <2>4. TypesOK'
    BY <1>3, <1>4, <2>1 DEF TypesOK
  <2>. QED
    BY <1>4, <2>3, <2>4 DEF ListedOK, FreshOK, KeyOK, ClientOK
<1>6. CASE ~(Known = {} /\ llm.key # "")
  <2>. PICK d \in Texts :
         /\ router' = [providers |-> made, default |-> d]
         /\ llm.default # "" => d = llm.default
         /\ llm.default = "" /\ Known # {} => d \in Known
    BY <1>1, <1>6 DEF NewRouter, TypesOK
  <2>1. RouterOK'
    BY <1>4, <1>6 DEF RouterOK
  <2>. HIDE DEF made
  <2>2. TypesOK'
    BY <1>2, <1>4 DEF TypesOK
  <2>. QED
    BY <1>4, <2>1, <2>2 DEF ListedOK, FreshOK, KeyOK, ClientOK
<1>. QED
  BY <1>5, <1>6

LEMMA ProviderSetup == SetupOK /\ GetProvider => SetupOK'
  BY DEF GetProvider, SetupOK, TypesOK, ListedOK, FreshOK, KeyOK, RouterOK, Known, ClientOK

LEMMA NextSetup == SetupOK /\ [Next]_vars => SetupOK'
<1>1. SetupOK /\ UNCHANGED vars => SetupOK'
  BY DEF vars, SetupOK, TypesOK, ListedOK, FreshOK, KeyOK, RouterOK, Known, ClientOK
<1>. QED
  BY <1>1, MigrateSetup, OverrideProviderSetup, OverrideBaseSetup, OverrideKeySetup, RouterSetup,
     ProviderSetup DEF Next

\* Where --api-key ends, for any names in the file and any entry the loop of main
\* copies (main.go:66-73): in every client, in that of the default provider alone,
\* or, for want of a default, in none.
THEOREM FlagKeyArrives == Spec => []FlagKeyIsUsed
<1>1. SetupOK => FlagKeyIsUsed
  <2>. SUFFICES ASSUME SetupOK, pc = "end", flags.key # ""
                PROVE  /\ client.key = flags.key
                            <=> \/ Known = {}
                                \/ llm.default \in Clients /\ wants \notin Known \ {llm.default}
                       /\ client = None
                            <=> /\ Known # {} /\ llm.default \notin Clients \cup {""}
                                /\ wants \notin Known
    BY DEF FlagKeyIsUsed
  <2>1. flags.key = "flag" /\ llm.key = flags.key /\ None.key = "" /\ "" \notin Clients
    BY DEF SetupOK, TypesOK, KeyOK, None, Clients
  <2>2. CASE Known = {}
    <3>1. router.providers = Only(router.default, [key |-> llm.key, base |-> llm.base])
      BY <2>1, <2>2 DEF SetupOK, RouterOK
    <3>2. client = [key |-> llm.key, base |-> llm.base]
      BY <3>1 DEF SetupOK, ClientOK, Only
    <3>3. client.key = llm.key
      BY <3>2
    <3>4. client # None
      BY <2>1, <3>3
    <3>. QED
      BY <2>1, <2>2, <3>3, <3>4
  <2>3. CASE Known # {}
    <3>. DEFINE name == IF wants \in Known THEN wants ELSE router.default
    <3>1. client = IF name \in Known THEN llm.providers[name] ELSE None
      BY <2>3 DEF SetupOK, RouterOK, ClientOK
    <3>2. /\ \A n \in Known : llm.providers[n].key = flags.key <=> n = llm.default
          /\ \A n \in Known : llm.providers[n] # None
          /\ llm.default \in Clients => llm.default \in Known
          /\ llm.default \in Known => llm.default \in Clients
      BY <2>1, <2>3 DEF SetupOK, ListedOK, KeyOK, Known
    <3>3. /\ llm.default # "" => router.default = llm.default
          /\ llm.default = "" => router.default \in Known
      BY <2>3 DEF SetupOK, RouterOK
    <3>. QED
      BY <2>1, <2>3, <3>1, <3>2, <3>3
  <2>. QED
    BY <2>2, <2>3
<1>. QED
  BY <1>1, InitSetup, NextSetup, PTL DEF Spec

\* getProvider finds a client for every agent, whatever provider the agent names,
\* if the default is listed and known or a key is there without any known name.
THEOREM DefaultServes == Spec => []DefaultIsServed
<1>1. SetupOK => DefaultIsServed
  <2>. SUFFICES ASSUME SetupOK, pc = "end", llm.default \in Known \/ (Known = {} /\ llm.key # "")
                PROVE  client # None
    BY DEF DefaultIsServed
  <2>1. CASE Known = {} /\ llm.key # ""
    <3>1. router.providers = Only(router.default, [key |-> llm.key, base |-> llm.base])
      BY <2>1 DEF SetupOK, RouterOK
    <3>2. client = [key |-> llm.key, base |-> llm.base]
      BY <3>1 DEF SetupOK, ClientOK, Only
    <3>. QED
      BY <2>1, <3>2 DEF None
  <2>2. CASE llm.default \in Known
    <3>1. router.providers = [n \in Known |-> llm.providers[n]] /\ Known # {}
      BY <2>2 DEF SetupOK, RouterOK
    <3>2. router.default = llm.default
      <4>1. llm.default # ""
        BY <2>2 DEF Known, Clients
      <4>. QED
        BY <4>1 DEF SetupOK, RouterOK
    <3>3. \E n \in Known : client = llm.providers[n]
      BY <2>2, <3>1, <3>2 DEF SetupOK, ClientOK
    <3>4. client.key # ""
      BY <3>3 DEF SetupOK, ListedOK, Known
    <3>5. None.key = ""
      BY DEF None
    <3>. QED
      BY <3>4, <3>5
  <2>. QED
    BY <2>1, <2>2
<1>. QED
  BY <1>1, InitSetup, NextSetup, PTL DEF Spec
=============================================================================
