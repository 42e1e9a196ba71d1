-------------------------- MODULE ProxyPoolProofs ---------------------------
(***************************************************************************)
(* The proxy pool, for any number of names, settings, handlers and         *)
(* requests: what a request that met no other one finds and leaves behind, *)
(* what the file holds, and which additions last.                          *)
(***************************************************************************)
EXTENDS ProxyPool, FiniteSetTheorems, TLAPS

SaveSteps == {"save_proxies", "save_name", "open", "set_len", "map", "copy"}
UpdateSteps == {"store_name", "store_map", "load_proxies", "load_name", "store_default",
                "store_clients", "store_general", "general_clients", "general_proxies",
                "lookup", "store_client"}
Steps == {"idle"} \cup SaveSteps \cup UpdateSteps
Locals == [p : Maps \cup {None}, g : Names \cup {None},
           c : Configs \cup {None} \cup SUBSET Configs, adds : SUBSET Names]

TypeInv ==
    /\ TypeOK
    /\ pc \in [Tasks -> Steps]
    /\ loc \in [Tasks -> Locals]

\* What a task has loaded at each of its steps.
LocalsOK(t) ==
    /\ pc[t] = "idle" => loc[t] = NoLocals
    /\ t = Main => pc[t] \in SaveSteps \cup {"idle"} /\ loc[t].adds = {}
    /\ pc[t] = "store_name" => loc[t].g \in Names /\ loc[t].adds = {}
    /\ pc[t] \in {"store_map", "load_name", "store_default", "store_clients", "store_general",
                  "lookup", "save_name", "open", "set_len", "map", "copy"} => loc[t].p \in Maps
    /\ pc[t] = "store_default" => loc[t].p = <<>>
    /\ pc[t] \in {"store_default", "store_clients", "store_general",
                  "open", "set_len", "map", "copy"} => loc[t].g \in Names
    /\ pc[t] \in {"general_proxies", "lookup"} => loc[t].c \in SUBSET Configs
    /\ pc[t] = "store_client" => loc[t].c \in Configs

\* A name whose addition raced with nobody is in the pool, in the file, and in
\* every map that a task may still store or save.
KeptAt(t) ==
    pc[t] \in {"store_map", "load_name", "store_default", "save_name", "open", "set_len",
               "map", "copy"} => kept \subseteq DOMAIN loc[t].p

KeptOK ==
    /\ kept \subseteq DOMAIN proxies
    /\ file.data # None => kept \subseteq DOMAIN file.data.p
    /\ \A t \in Tasks : KeptAt(t)

Agreed ==
    /\ general \in DOMAIN proxies
    /\ clients = Range(proxies)

\* What a task that met no other one knows of the pool at each of its steps.
\* With an empty map it goes on without clients until set_general fails.
Knows(t) ==
    /\ loc[t].adds \subseteq IF pc[t] = "store_map" THEN DOMAIN loc[t].p ELSE DOMAIN proxies
    /\ pc[t] \in {"load_name", "store_default", "lookup", "save_name", "open", "set_len",
                  "map", "copy"} => loc[t].p = proxies
    /\ pc[t] \in {"store_clients", "store_general"} =>
          \/ loc[t].p = proxies /\ loc[t].g \in DOMAIN proxies
          \/ loc[t].p = <<>>
    /\ pc[t] = "store_general" => clients = Range(loc[t].p)
    /\ pc[t] \in {"general_clients", "general_proxies", "lookup"} => Agreed \/ clients = {}
    /\ pc[t] \in {"general_proxies", "lookup"} => loc[t].c = clients
    /\ pc[t] = "store_client" => Agreed /\ loc[t].c = proxies[general]
    /\ (t # Main /\ pc[t] \in SaveSteps) => Agreed /\ general_client = proxies[general]
    /\ pc[t] \in {"open", "set_len", "map", "copy"} => loc[t].g = general
    /\ pc[t] \in {"map", "copy"} => file.len = Size(loc[t].p)

\* A task that met no other one is the only one under way.
SoloOK(t) == (pc[t] # "idle" /\ t \notin raced) => Busy = {t} /\ Knows(t)

\* As long as no save failed halfway or met another one, one task at most is
\* between truncation and copy, and it finds the file as long as it made it.
SaveOK ==
    ~mishap =>
        /\ \A t, s \in Saving : t = s
        /\ \A t \in Tasks : pc[t] \in {"map", "copy"} => file.len = Size(loc[t].p)
        /\ file.data = None => Saving # {} \/ fault = "from_bytes"

IInv ==
    /\ TypeInv
    /\ \A t \in Tasks : LocalsOK(t)
    /\ KeptOK
    /\ \A t \in Tasks : SoloOK(t)
    /\ SaveOK
    /\ FaultNeedsRaceOrEmptyMap

-----------------------------------------------------------------------------

\* What a map of proxies is.
LEMMA MapFacts ==
    ASSUME NEW p \in Maps
    PROVE  /\ DOMAIN p \subseteq Names
           /\ \A n \in DOMAIN p : p[n] \in Configs
           /\ Range(p) \subseteq Configs
           /\ Size(p) \in Nat
<1>1. PICK S \in SUBSET Names : p \in [S -> Configs]
  BY DEF Maps
<1>2. DOMAIN p = S /\ \A n \in S : p[n] \in Configs
  BY <1>1
<1>3. Range(p) \subseteq Configs
  BY <1>2 DEF Range
<1>4. Cardinality(DOMAIN p) \in Nat
  <2>1. IsFiniteSet(DOMAIN p)
    BY <1>2, ProxyAssumption, FS_Subset
  <2> QED BY <2>1, FS_CardinalityType
<1> QED BY <1>2, <1>3, <1>4 DEF Size

\* A function from some names to settings is a map of proxies.
LEMMA MapIntro ==
    ASSUME NEW S \in SUBSET Names, NEW f \in [S -> Configs]
    PROVE  f \in Maps
BY DEF Maps

\* The map that an empty one is replaced by, and the empty one.
LEMMA SpecialMaps ==
    /\ default_proxies \in Maps
    /\ DOMAIN default_proxies = {SysName}
    /\ DOMAIN <<>> = {}
    /\ Range(<<>>) = {}
<1>1. {SysName} \in SUBSET Names /\ default_proxies \in [{SysName} -> Configs]
  BY ProxyAssumption DEF default_proxies
<1>2. default_proxies \in Maps
  BY <1>1, MapIntro
<1>3. DOMAIN default_proxies = {SysName}
  BY DEF default_proxies
<1>4. DOMAIN <<>> = {} /\ Range(<<>>) = {}
  BY DEF Range
<1> QED BY <1>2, <1>3, <1>4

\* The general name chosen for a map is one of its names, if it has any.
LEMMA ChosenName ==
    ASSUME NEW p \in Maps, NEW g \in Names, NEW n \in ValidNames(p, g)
    PROVE  n \in Names /\ (p # <<>> => n \in DOMAIN p) /\ (p = <<>> => n = SysName)
BY MapFacts, ProxyAssumption DEF ValidNames

\* What Proxies::init makes of a file: a pool with its general name, and every
\* proxy of the file.
LEMMA LoadedPool ==
    ASSUME NEW p \in Maps, NEW g \in Names, NEW s \in Loaded(p, g)
    PROVE  /\ s.p \in Maps
           /\ s.g \in DOMAIN s.p
           /\ s.g \in Names
           /\ s.p[s.g] \in Configs
           /\ DOMAIN p \subseteq DOMAIN s.p
<1>1. /\ s.p = IF p = <<>> THEN default_proxies ELSE p
      /\ s.g \in IF p = <<>> THEN {SysName} ELSE IF g \in DOMAIN p THEN {g} ELSE DOMAIN p
  BY DEF Loaded
<1>2. s.p \in Maps /\ s.g \in DOMAIN s.p /\ DOMAIN p \subseteq DOMAIN s.p
  BY <1>1, SpecialMaps
<1> QED BY <1>2, MapFacts

\* A task that is idle has loaded nothing.
LEMMA NoLocalsType == NoLocals \in Locals
<1>1. /\ None \in Maps \cup {None}
      /\ None \in Names \cup {None}
      /\ None \in Configs \cup {None} \cup SUBSET Configs
      /\ {} \in SUBSET Names
  OBVIOUS
<1>2. \A P, G, C, A : (None \in P /\ None \in G /\ None \in C /\ {} \in A) =>
          [p |-> None, g |-> None, c |-> None, adds |-> {}] \in [p : P, g : G, c : C, adds : A]
  OBVIOUS
<1> QED BY <1>1, <1>2, Zenon DEF NoLocals, Locals

\* The initial states.
LEMMA PoolInit == Init => IInv
<1> SUFFICES ASSUME Init PROVE IInv
  OBVIOUS
<1>1. PICK p \in Inputs, g \in Names : \E s \in Loaded(p, g) :
          /\ proxies = s.p
          /\ general = s.g
          /\ clients = Range(s.p)
          /\ general_client = s.p[s.g]
          /\ file = [len |-> Size(p), data |-> [p |-> p, g |-> g]]
  BY DEF Init
<1>2. PICK s \in Loaded(p, g) :
          /\ proxies = s.p
          /\ general = s.g
          /\ clients = Range(s.p)
          /\ general_client = s.p[s.g]
          /\ file = [len |-> Size(p), data |-> [p |-> p, g |-> g]]
  BY <1>1
<1>3. p \in Maps
  BY ProxyAssumption
<1>4. /\ pc = [t \in Tasks |-> "idle"]
      /\ loc = [t \in Tasks |-> NoLocals]
      /\ raced = {}
      /\ kept = {}
      /\ mishap = FALSE
      /\ fault = None
  BY DEF Init
<1>5. TypeInv
  <2>1. /\ proxies \in Maps /\ general \in Names
        /\ general_client \in Configs /\ clients \subseteq Configs
    BY <1>2, <1>3, LoadedPool, MapFacts
  <2>2. file \in [len : Nat, data : [p : Maps, g : Names] \cup {None}]
    BY <1>2, <1>3, MapFacts
  <2>3. NoLocals \in Locals
    BY NoLocalsType
  <2>4. pc \in [Tasks -> Steps] /\ loc \in [Tasks -> Locals]
    BY <1>4, <2>3 DEF Steps
  <2>5. mishap \in BOOLEAN
    BY <1>4
  <2> QED BY <1>4, <2>1, <2>2, <2>4, <2>5 DEF TypeInv, TypeOK
<1>6. \A t \in Tasks : LocalsOK(t)
  BY <1>4 DEF LocalsOK, NoLocals
<1>7. KeptOK
  BY <1>4 DEF KeptOK, KeptAt
<1>8. \A t \in Tasks : SoloOK(t)
  BY <1>4 DEF SoloOK
<1>9. SaveOK
  <2>1. Saving = {}
    BY <1>4 DEF Saving
  <2>2. file.data # None
    BY <1>2, <1>3, NoneAssumption
  <2>3. \A t \in Tasks : pc[t] \notin {"map", "copy"}
    BY <1>4
  <2> QED BY <2>1, <2>2, <2>3 DEF SaveOK
<1>10. FaultNeedsRaceOrEmptyMap
  BY <1>4, NoneAssumption DEF FaultNeedsRaceOrEmptyMap, Faults
<1> QED BY <1>5, <1>6, <1>7, <1>8, <1>9, <1>10 DEF IInv

-----------------------------------------------------------------------------

\* A step of one task that is under way keeps the invariant when it leaves the
\* other tasks alone and what it changes is right for this task: nobody else is
\* known to be alone, because this task is under way.
LEMMA StepKeeps ==
    ASSUME IInv, NEW t \in Tasks, NEW to \in Steps \ {"idle"},
           pc[t] # "idle", pc' = [pc EXCEPT ![t] = to],
           loc' \in [Tasks -> Locals], \A u \in Tasks \ {t} : loc'[u] = loc[u],
           raced' = raced, kept' = kept, TypeOK', LocalsOK(t)',
           kept \subseteq DOMAIN proxies',
           file'.data # None => kept \subseteq DOMAIN file'.data.p,
           KeptAt(t)', t \notin raced => Knows(t)',
           SaveOK', FaultNeedsRaceOrEmptyMap'
    PROVE  IInv'
<1>1. pc \in [Tasks -> Steps]
  BY DEF IInv, TypeInv
<1>2. /\ pc' \in [Tasks -> Steps]
      /\ pc'[t] = to
      /\ \A u \in Tasks \ {t} : pc'[u] = pc[u]
  BY <1>1
<1>3. TypeInv'
  BY <1>2 DEF TypeInv
<1>4. Busy' = Busy /\ t \in Busy
  BY <1>2 DEF Busy
<1>5. ASSUME NEW u \in Tasks \ {t}
      PROVE  LocalsOK(u)' /\ KeptAt(u)' /\ SoloOK(u)'
  <2>1. LocalsOK(u) /\ KeptAt(u) /\ SoloOK(u) /\ pc'[u] = pc[u] /\ loc'[u] = loc[u]
    BY <1>2 DEF IInv, KeptOK
  <2>2. LocalsOK(u)'
    BY <2>1 DEF LocalsOK
  <2>3. KeptAt(u)'
    BY <2>1 DEF KeptAt
  <2>4. SoloOK(u)'
    BY <1>4, <2>1 DEF SoloOK
  <2> QED BY <2>2, <2>3, <2>4
<1>6. SoloOK(t)'
  <2>1. SoloOK(t)
    BY DEF IInv
  <2> QED BY <1>4, <2>1 DEF SoloOK
<1>7. KeptOK'
  BY <1>5 DEF KeptOK
<1> QED BY <1>3, <1>5, <1>6, <1>7 DEF IInv

\* A step that is not one of those between truncation and copy, and leaves the
\* file alone.
LEMMA QuietStep ==
    ASSUME IInv, NEW t \in Tasks, NEW to \in Steps \ {"idle", "set_len", "map", "copy"},
           pc[t] \notin {"idle", "set_len", "map", "copy"}, pc' = [pc EXCEPT ![t] = to],
           loc' \in [Tasks -> Locals], \A u \in Tasks \ {t} : loc'[u] = loc[u],
           raced' = raced, kept' = kept, file' = file, mishap' = mishap,
           fault = None, fault' = None,
           proxies' \in Maps, general' \in Names, clients' \subseteq Configs,
           general_client' \in Configs, LocalsOK(t)',
           kept \subseteq DOMAIN proxies', KeptAt(t)', t \notin raced => Knows(t)'
    PROVE  IInv'
<1>1. pc \in [Tasks -> Steps] /\ TypeOK
  BY DEF IInv, TypeInv
<1>2. pc'[t] = to /\ \A u \in Tasks \ {t} : pc'[u] = pc[u]
  BY <1>1
<1>3. Saving' = Saving /\ Busy' = Busy
  BY <1>2 DEF Saving, Busy
<1>4. TypeOK'
  BY <1>1, <1>3 DEF TypeOK
<1>5. SaveOK'
  <2>1. SaveOK
    BY DEF IInv
  <2>2. \A u \in Tasks : pc'[u] \in {"map", "copy"} => pc[u] = pc'[u] /\ loc'[u] = loc[u]
    BY <1>2
  <2> QED BY <1>3, <2>1, <2>2 DEF SaveOK
<1>6. FaultNeedsRaceOrEmptyMap'
  BY NoneAssumption DEF FaultNeedsRaceOrEmptyMap, Faults
<1>7. file'.data # None => kept \subseteq DOMAIN file'.data.p
  BY DEF IInv, KeptOK
<1> QED BY <1>4, <1>5, <1>6, <1>7, StepKeeps

\* A task that takes up a request: everybody who is on his way has now met it,
\* and it is alone when nobody is.
LEMMA BeginKeeps ==
    ASSUME IInv, NEW t \in Tasks, NEW to \in Steps \ {"idle", "set_len", "map", "copy"},
           Begin(t, to),
           loc' \in [Tasks -> Locals], \A u \in Tasks \ {t} : loc'[u] = loc[u],
           kept' \subseteq kept,
           proxies' \in Maps, general' \in Names, clients' \subseteq Configs,
           general_client' \in Configs, LocalsOK(t)',
           kept' \subseteq DOMAIN proxies', KeptAt(t)', Knows(t)'
    PROVE  IInv'
<1>1. pc \in [Tasks -> Steps] /\ TypeOK
  BY DEF IInv, TypeInv
<1>2. /\ pc' \in [Tasks -> Steps]
      /\ pc[t] = "idle"
      /\ pc'[t] = to
      /\ \A u \in Tasks \ {t} : pc'[u] = pc[u]
      /\ raced' = IF Busy = {} THEN raced ELSE raced \cup Busy \cup {t}
      /\ file' = file /\ mishap' = mishap /\ fault' = fault /\ fault = None
  BY <1>1 DEF Begin
<1>3. Saving' = Saving /\ Busy' = Busy \cup {t}
  BY <1>2 DEF Saving, Busy
<1>4. TypeOK'
  BY <1>1, <1>2, <1>3 DEF TypeOK
<1>5. SaveOK'
  <2>1. SaveOK
    BY DEF IInv
  <2>2. \A u \in Tasks : pc'[u] \in {"map", "copy"} => pc[u] = pc'[u] /\ loc'[u] = loc[u]
    BY <1>2
  <2> QED BY <1>2, <1>3, <2>1, <2>2 DEF SaveOK
<1>6. FaultNeedsRaceOrEmptyMap'
  BY <1>2, NoneAssumption DEF FaultNeedsRaceOrEmptyMap, Faults
<1>7. ASSUME NEW u \in Tasks \ {t}
      PROVE  LocalsOK(u)' /\ KeptAt(u)' /\ SoloOK(u)'
  <2>1. LocalsOK(u) /\ KeptAt(u) /\ pc'[u] = pc[u] /\ loc'[u] = loc[u]
    BY <1>2 DEF IInv, KeptOK
  <2>2. LocalsOK(u)'
    BY <2>1 DEF LocalsOK
  <2>3. KeptAt(u)'
    BY <2>1 DEF KeptAt
  <2>4. pc[u] # "idle" => u \in Busy
    BY DEF Busy
  <2>5. SoloOK(u)'
    BY <1>2, <2>1, <2>4 DEF SoloOK
  <2> QED BY <2>2, <2>3, <2>5
<1>8. SoloOK(t)'
  BY <1>2, <1>3 DEF SoloOK
<1>9. KeptOK'
  <2>1. KeptOK
    BY DEF IInv
  <2> QED BY <1>2, <1>7, <2>1 DEF KeptOK
<1>10. TypeInv'
  BY <1>2, <1>4 DEF TypeInv
<1> QED BY <1>5, <1>6, <1>7, <1>8, <1>9, <1>10 DEF IInv

-----------------------------------------------------------------------------

\* What an entry point has to show of its task's locals, which were empty.
LEMMA IdleLocals ==
    ASSUME IInv, NEW t \in Tasks, NEW to, Begin(t, to)
    PROVE  /\ loc \in [Tasks -> Locals]
           /\ loc[t] = NoLocals
           /\ loc[t].p = None /\ loc[t].g = None /\ loc[t].c = None /\ loc[t].adds = {}
           /\ pc' = [pc EXCEPT ![t] = to]
           /\ pc'[t] = to
           /\ kept \subseteq DOMAIN proxies
           /\ kept \subseteq Names
           /\ proxies \in Maps /\ general \in Names /\ clients \subseteq Configs
           /\ general_client \in Configs
<1>1. loc \in [Tasks -> Locals] /\ LocalsOK(t) /\ pc[t] = "idle" /\ pc \in [Tasks -> Steps]
  BY DEF IInv, TypeInv, Begin
<1>2. loc[t] = NoLocals
  BY <1>1 DEF LocalsOK
<1> QED BY <1>1, <1>2 DEF NoLocals, IInv, KeptOK, TypeInv, TypeOK, Begin

\* handle_set_proxies.
LEMMA SetProxiesKeeps ==
    ASSUME IInv, NEW h \in Handlers, NEW p \in Inputs, NEW g \in Names,
           handle_set_proxies(h, p, g)
    PROVE  IInv'
<1>1. h \in Tasks /\ h # Main /\ p \in Maps
  BY ProxyAssumption DEF Tasks
<1>2. /\ Begin(h, "store_name")
      /\ proxies' = p
      /\ loc' = [loc EXCEPT ![h].g = g]
      /\ kept' = {}
      /\ UNCHANGED <<general, clients, general_client>>
  BY DEF handle_set_proxies
<1>3. /\ loc' \in [Tasks -> Locals]
      /\ \A u \in Tasks \ {h} : loc'[u] = loc[u]
      /\ loc'[h].g = g /\ loc'[h].adds = {}
      /\ pc'[h] = "store_name"
  BY <1>1, <1>2, IdleLocals DEF Locals
<1>4. LocalsOK(h)' /\ KeptAt(h)' /\ Knows(h)'
  BY <1>1, <1>3 DEF LocalsOK, KeptAt, Knows, SaveSteps
<1>5. "store_name" \in Steps \ {"idle", "set_len", "map", "copy"}
  BY DEF Steps, UpdateSteps
<1>6. /\ proxies' \in Maps /\ general' \in Names /\ clients' \subseteq Configs
      /\ general_client' \in Configs /\ kept' \subseteq kept /\ kept' \subseteq DOMAIN proxies'
  BY <1>1, <1>2, IdleLocals
<1> QED BY <1>1, <1>2, <1>3, <1>4, <1>5, <1>6, BeginKeeps

\* The map that handle_add_proxy makes has the current proxies and the new ones.
LEMMA AddedMap ==
    ASSUME proxies \in Maps, NEW p \in Maps
    PROVE  Added(p) \in Maps /\ DOMAIN Added(p) = DOMAIN proxies \cup DOMAIN p
<1>1. DOMAIN Added(p) = DOMAIN proxies \cup DOMAIN p
  BY DEF Added
<1>2. /\ DOMAIN proxies \subseteq Names /\ DOMAIN p \subseteq Names
      /\ \A n \in DOMAIN proxies : proxies[n] \in Configs
      /\ \A n \in DOMAIN p : p[n] \in Configs
  BY MapFacts
<1>3. Added(p) \in [DOMAIN proxies \cup DOMAIN p -> Configs]
  BY <1>2 DEF Added
<1>4. DOMAIN proxies \cup DOMAIN p \in SUBSET Names
  BY <1>2
<1> QED BY <1>1, <1>3, <1>4, MapIntro

\* handle_add_proxy.
LEMMA AddProxyKeeps ==
    ASSUME IInv, NEW h \in Handlers, NEW p \in Inputs, handle_add_proxy(h, p)
    PROVE  IInv'
<1>1. h \in Tasks /\ h # Main /\ p \in Maps
  BY ProxyAssumption DEF Tasks
<1> DEFINE new == DOMAIN p \ DOMAIN proxies
           m == Added(p)
<1>2. /\ Begin(h, "store_map")
      /\ loc' = [loc EXCEPT ![h].p = m, ![h].adds = new]
      /\ UNCHANGED <<cells, kept>>
  BY DEF handle_add_proxy
<1>3. new \subseteq Names /\ m \in Maps /\ DOMAIN m = DOMAIN proxies \cup DOMAIN p
  BY <1>1, <1>2, IdleLocals, AddedMap, MapFacts
<1>4. new \subseteq DOMAIN m /\ kept \subseteq DOMAIN m
  BY <1>1, <1>2, <1>3, IdleLocals
<1> HIDE DEF new, m
<1>5. /\ loc' \in [Tasks -> Locals]
      /\ \A u \in Tasks \ {h} : loc'[u] = loc[u]
      /\ loc'[h].p = m /\ loc'[h].adds = new
      /\ pc'[h] = "store_map"
  BY <1>1, <1>2, <1>3, IdleLocals DEF Locals
<1>6. LocalsOK(h)' /\ KeptAt(h)' /\ Knows(h)'
  BY <1>1, <1>2, <1>3, <1>4, <1>5 DEF LocalsOK, KeptAt, Knows, SaveSteps
<1>7. "store_map" \in Steps \ {"idle", "set_len", "map", "copy"}
  BY DEF Steps, UpdateSteps
<1>8. /\ proxies' \in Maps /\ general' \in Names /\ clients' \subseteq Configs
      /\ general_client' \in Configs /\ kept' \subseteq kept /\ kept' \subseteq DOMAIN proxies'
  BY <1>1, <1>2, IdleLocals DEF cells
<1> QED BY <1>1, <1>2, <1>5, <1>6, <1>7, <1>8, BeginKeeps

\* The map that handle_delete_proxies makes has every proxy but the deleted
\* ones, or, when none is left, the default.
LEMMA RemainingMap ==
    ASSUME proxies \in Maps, NEW names
    PROVE  /\ Remaining(names) \in Maps
           /\ DOMAIN proxies \ names \subseteq DOMAIN Remaining(names)
<1>1. CASE DOMAIN proxies \subseteq names
  BY <1>1, SpecialMaps DEF Remaining
<1>2. CASE ~(DOMAIN proxies \subseteq names)
  <2>1. Remaining(names) = [n \in DOMAIN proxies \ names |-> proxies[n]]
    BY <1>2 DEF Remaining, Restrict
  <2>2. /\ DOMAIN proxies \subseteq Names
        /\ \A n \in DOMAIN proxies : proxies[n] \in Configs
    BY MapFacts
  <2>3. /\ DOMAIN proxies \ names \in SUBSET Names
        /\ Remaining(names) \in [DOMAIN proxies \ names -> Configs]
    BY <2>1, <2>2
  <2>4. Remaining(names) \in Maps
    BY <2>3, MapIntro
  <2> QED BY <2>1, <2>4
<1> QED BY <1>1, <1>2

\* handle_delete_proxies.
LEMMA DeleteProxiesKeeps ==
    ASSUME IInv, NEW h \in Handlers, NEW names \in SUBSET Names,
           handle_delete_proxies(h, names)
    PROVE  IInv'
<1>1. h \in Tasks /\ h # Main
  BY ProxyAssumption DEF Tasks
<1> DEFINE m == Remaining(names)
<1>2. kept' = kept \ names /\ UNCHANGED cells
  BY DEF handle_delete_proxies
<1>3. "store_map" \in Steps \ {"idle", "set_len", "map", "copy"}
      /\ "load_proxies" \in Steps \ {"idle", "set_len", "map", "copy"}
  BY DEF Steps, UpdateSteps
<1>4. CASE Begin(h, "load_proxies") /\ UNCHANGED loc
  <2>1. /\ loc' \in [Tasks -> Locals]
        /\ \A u \in Tasks \ {h} : loc'[u] = loc[u]
        /\ loc'[h].adds = {}
        /\ pc'[h] = "load_proxies"
    BY <1>1, <1>4, IdleLocals
  <2>2. LocalsOK(h)' /\ KeptAt(h)' /\ Knows(h)'
    BY <1>1, <2>1 DEF LocalsOK, KeptAt, Knows, SaveSteps
  <2>3. /\ proxies' \in Maps /\ general' \in Names /\ clients' \subseteq Configs
        /\ general_client' \in Configs /\ kept' \subseteq kept /\ kept' \subseteq DOMAIN proxies'
    BY <1>1, <1>2, <1>4, IdleLocals DEF cells
  <2> QED BY <1>1, <1>3, <1>4, <2>1, <2>2, <2>3, BeginKeeps
<1>5. CASE Begin(h, "store_map") /\ loc' = [loc EXCEPT ![h].p = m]
  <2>1. proxies \in Maps /\ kept \subseteq DOMAIN proxies
    BY <1>1, <1>5, IdleLocals
  <2>2. m \in Maps /\ kept' \subseteq DOMAIN m
    BY <1>2, <2>1, RemainingMap
  <2> HIDE DEF m
  <2>3. /\ loc' \in [Tasks -> Locals]
        /\ \A u \in Tasks \ {h} : loc'[u] = loc[u]
        /\ loc'[h].p = m /\ loc'[h].adds = {}
        /\ pc'[h] = "store_map"
    BY <1>1, <1>5, <2>2, IdleLocals DEF Locals
  <2>4. LocalsOK(h)' /\ KeptAt(h)' /\ Knows(h)'
    BY <1>1, <2>2, <2>3 DEF LocalsOK, KeptAt, Knows, SaveSteps
  <2>5. /\ proxies' \in Maps /\ general' \in Names /\ clients' \subseteq Configs
        /\ general_client' \in Configs /\ kept' \subseteq kept /\ kept' \subseteq DOMAIN proxies'
    BY <1>1, <1>2, <1>5, IdleLocals DEF cells
  <2> QED BY <1>1, <1>3, <1>5, <2>3, <2>4, <2>5, BeginKeeps
<1> QED BY <1>4, <1>5 DEF handle_delete_proxies

\* handle_set_general_proxy.
LEMMA SetGeneralKeeps ==
    ASSUME IInv, NEW h \in Handlers, NEW n \in Names, handle_set_general_proxy(h, n)
    PROVE  IInv'
<1>1. h \in Tasks /\ h # Main
  BY ProxyAssumption DEF Tasks
<1>2. /\ Begin(h, "store_name")
      /\ loc' = [loc EXCEPT ![h].g = n]
      /\ UNCHANGED <<cells, kept>>
  BY DEF handle_set_general_proxy
<1>3. /\ loc' \in [Tasks -> Locals]
      /\ \A u \in Tasks \ {h} : loc'[u] = loc[u]
      /\ loc'[h].g = n /\ loc'[h].adds = {}
      /\ pc'[h] = "store_name"
  BY <1>1, <1>2, IdleLocals DEF Locals
<1>4. LocalsOK(h)' /\ KeptAt(h)' /\ Knows(h)'
  BY <1>1, <1>3 DEF LocalsOK, KeptAt, Knows, SaveSteps
<1>5. "store_name" \in Steps \ {"idle", "set_len", "map", "copy"}
  BY DEF Steps, UpdateSteps
<1>6. /\ proxies' \in Maps /\ general' \in Names /\ clients' \subseteq Configs
      /\ general_client' \in Configs /\ kept' \subseteq kept /\ kept' \subseteq DOMAIN proxies'
  BY <1>1, <1>2, IdleLocals DEF cells
<1> QED BY <1>1, <1>2, <1>3, <1>4, <1>5, <1>6, BeginKeeps

\* The shutdown handler takes up its save.
LEMMA ShutdownKeeps ==
    ASSUME IInv, shutdown
    PROVE  IInv'
<1>1. Main \in Tasks
  BY DEF Tasks
<1>2. Begin(Main, "save_proxies") /\ UNCHANGED <<cells, loc, kept>>
  BY DEF shutdown
<1>3. /\ loc' \in [Tasks -> Locals]
      /\ \A u \in Tasks \ {Main} : loc'[u] = loc[u]
      /\ loc'[Main].adds = {}
      /\ pc'[Main] = "save_proxies"
  BY <1>1, <1>2, IdleLocals
<1>4. LocalsOK(Main)' /\ KeptAt(Main)' /\ Knows(Main)'
  BY <1>1, <1>3 DEF LocalsOK, KeptAt, Knows, SaveSteps
<1>5. "save_proxies" \in Steps \ {"idle", "set_len", "map", "copy"}
  BY DEF Steps, SaveSteps
<1>6. /\ proxies' \in Maps /\ general' \in Names /\ clients' \subseteq Configs
      /\ general_client' \in Configs /\ kept' \subseteq kept /\ kept' \subseteq DOMAIN proxies'
  BY <1>1, <1>2, IdleLocals DEF cells
<1> QED BY <1>1, <1>2, <1>3, <1>4, <1>5, <1>6, BeginKeeps

-----------------------------------------------------------------------------

\* What a task that is under way knows by the invariant.
LEMMA TaskFacts ==
    ASSUME IInv, NEW t \in Tasks
    PROVE  /\ loc \in [Tasks -> Locals]
           /\ pc \in [Tasks -> Steps]
           /\ LocalsOK(t) /\ KeptAt(t)
           /\ pc[t] # "idle" /\ t \notin raced => Busy = {t} /\ Knows(t)
           /\ kept \subseteq DOMAIN proxies
           /\ proxies \in Maps /\ general \in Names /\ clients \subseteq Configs
           /\ general_client \in Configs
BY DEF IInv, TypeInv, TypeOK, KeptOK, SoloOK

\* The second step of handle_set_proxies and handle_set_general_proxy.
LEMMA StoreNameKeeps ==
    ASSUME IInv, NEW h \in Handlers, store_name(h)
    PROVE  IInv'
<1>1. h \in Tasks /\ h # Main
  BY ProxyAssumption DEF Tasks
<1>2. /\ fault = None /\ pc[h] = "store_name" /\ pc' = [pc EXCEPT ![h] = "load_proxies"]
      /\ general' = loc[h].g
      /\ loc' = [loc EXCEPT ![h].g = None]
      /\ UNCHANGED <<raced, proxies, clients, general_client, file, kept, mishap, fault>>
  BY DEF store_name, Step, history
<1>3. /\ loc' \in [Tasks -> Locals]
      /\ \A u \in Tasks \ {h} : loc'[u] = loc[u]
      /\ loc'[h].adds = loc[h].adds
      /\ pc'[h] = "load_proxies"
  BY <1>1, <1>2, TaskFacts DEF Locals
<1>4. loc[h].g \in Names /\ loc[h].adds = {}
  BY <1>1, <1>2, TaskFacts DEF LocalsOK
<1>5. LocalsOK(h)' /\ KeptAt(h)' /\ Knows(h)'
  BY <1>1, <1>3, <1>4 DEF LocalsOK, KeptAt, Knows, SaveSteps
<1>6. "load_proxies" \in Steps \ {"idle", "set_len", "map", "copy"}
  BY DEF Steps, UpdateSteps
<1>7. /\ proxies' \in Maps /\ general' \in Names /\ clients' \subseteq Configs
      /\ general_client' \in Configs /\ kept \subseteq DOMAIN proxies'
  BY <1>1, <1>2, <1>4, TaskFacts
<1> QED BY <1>1, <1>2, <1>3, <1>5, <1>6, <1>7, QuietStep

\* The second step of handle_add_proxy and handle_delete_proxies.
LEMMA StoreMapKeeps ==
    ASSUME IInv, NEW h \in Handlers, store_map(h)
    PROVE  IInv'
<1>1. h \in Tasks /\ h # Main
  BY ProxyAssumption DEF Tasks
<1>2. /\ fault = None /\ pc[h] = "store_map" /\ pc' = [pc EXCEPT ![h] = "load_proxies"]
      /\ proxies' = loc[h].p
      /\ loc' = [loc EXCEPT ![h].p = None]
      /\ UNCHANGED <<raced, general, clients, general_client, file, kept, mishap, fault>>
  BY DEF store_map, Step, history
<1>3. /\ loc' \in [Tasks -> Locals]
      /\ \A u \in Tasks \ {h} : loc'[u] = loc[u]
      /\ loc'[h].adds = loc[h].adds
      /\ pc'[h] = "load_proxies"
  BY <1>1, <1>2, TaskFacts DEF Locals
<1>4. loc[h].p \in Maps /\ kept \subseteq DOMAIN loc[h].p
  BY <1>1, <1>2, TaskFacts DEF LocalsOK, KeptAt
<1>5. LocalsOK(h)' /\ KeptAt(h)'
  BY <1>1, <1>3, <1>4 DEF LocalsOK, KeptAt, SaveSteps
<1>6. h \notin raced => Knows(h)'
  <2>1. h \notin raced => loc[h].adds \subseteq DOMAIN loc[h].p
    BY <1>1, <1>2, TaskFacts DEF Knows
  <2> QED BY <1>2, <1>3, <2>1 DEF Knows, SaveSteps
<1>7. "load_proxies" \in Steps \ {"idle", "set_len", "map", "copy"}
  BY DEF Steps, UpdateSteps
<1>8. /\ proxies' \in Maps /\ general' \in Names /\ clients' \subseteq Configs
      /\ general_client' \in Configs /\ kept \subseteq DOMAIN proxies'
  BY <1>1, <1>2, <1>4, TaskFacts
<1> QED BY <1>1, <1>2, <1>3, <1>5, <1>6, <1>7, <1>8, QuietStep

\* update_global_pool loads the map.
LEMMA LoadProxiesKeeps ==
    ASSUME IInv, NEW h \in Handlers, load_proxies(h)
    PROVE  IInv'
<1>1. h \in Tasks /\ h # Main
  BY ProxyAssumption DEF Tasks
<1>2. /\ fault = None /\ pc[h] = "load_proxies" /\ pc' = [pc EXCEPT ![h] = "load_name"]
      /\ loc' = [loc EXCEPT ![h].p = proxies]
      /\ UNCHANGED <<raced, proxies, general, clients, general_client, file, kept, mishap, fault>>
  BY DEF load_proxies, Step, history, cells
<1>3. /\ loc' \in [Tasks -> Locals]
      /\ \A u \in Tasks \ {h} : loc'[u] = loc[u]
      /\ loc'[h].p = proxies
      /\ loc'[h].adds = loc[h].adds
      /\ pc'[h] = "load_name"
  BY <1>1, <1>2, TaskFacts DEF Locals
<1>4. LocalsOK(h)' /\ KeptAt(h)'
  BY <1>1, <1>2, <1>3, TaskFacts DEF LocalsOK, KeptAt, SaveSteps
<1>5. h \notin raced => Knows(h)'
  <2>1. h \notin raced => loc[h].adds \subseteq DOMAIN proxies
    BY <1>1, <1>2, TaskFacts DEF Knows
  <2> QED BY <1>2, <1>3, <2>1 DEF Knows, SaveSteps
<1>6. "load_name" \in Steps \ {"idle", "set_len", "map", "copy"}
  BY DEF Steps, UpdateSteps
<1>7. /\ proxies' \in Maps /\ general' \in Names /\ clients' \subseteq Configs
      /\ general_client' \in Configs /\ kept \subseteq DOMAIN proxies'
  BY <1>1, <1>2, TaskFacts
<1> QED BY <1>1, <1>2, <1>3, <1>4, <1>5, <1>6, <1>7, QuietStep

\* update_global_pool loads the general name and checks it against the map.
LEMMA LoadNameKeeps ==
    ASSUME IInv, NEW h \in Handlers, load_name(h)
    PROVE  IInv'
<1>1. h \in Tasks /\ h # Main
  BY ProxyAssumption DEF Tasks
<1> DEFINE to == IF loc[h].p = <<>> THEN "store_default" ELSE "store_clients"
<1>2. /\ fault = None /\ pc[h] = "load_name" /\ pc' = [pc EXCEPT ![h] = to]
      /\ \E n \in ValidNames(loc[h].p, general) : loc' = [loc EXCEPT ![h].g = n]
      /\ UNCHANGED <<raced, proxies, general, clients, general_client, file, kept, mishap, fault>>
  BY DEF load_name, Step, history, cells
<1>3. PICK n \in ValidNames(loc[h].p, general) : loc' = [loc EXCEPT ![h].g = n]
  BY <1>2
<1>4. loc[h].p \in Maps /\ general \in Names /\ kept \subseteq DOMAIN loc[h].p
  BY <1>1, <1>2, TaskFacts DEF LocalsOK, KeptAt
<1>5. n \in Names /\ (loc[h].p # <<>> => n \in DOMAIN loc[h].p)
  BY <1>3, <1>4, ChosenName
<1>6. /\ to \in {"store_default", "store_clients"}
      /\ to = "store_default" => loc[h].p = <<>>
      /\ to = "store_clients" => loc[h].p # <<>>
  OBVIOUS
<1> HIDE DEF to
<1>7. /\ loc' \in [Tasks -> Locals]
      /\ \A u \in Tasks \ {h} : loc'[u] = loc[u]
      /\ loc'[h].p = loc[h].p /\ loc'[h].g = n
      /\ loc'[h].adds = loc[h].adds
      /\ pc'[h] = to
  BY <1>1, <1>2, <1>3, <1>5, TaskFacts DEF Locals
<1>8. LocalsOK(h)' /\ KeptAt(h)'
  BY <1>1, <1>2, <1>4, <1>5, <1>6, <1>7 DEF LocalsOK, KeptAt, SaveSteps
<1>9. h \notin raced => Knows(h)'
  <2>1. h \notin raced => loc[h].adds \subseteq DOMAIN proxies /\ loc[h].p = proxies
    BY <1>1, <1>2, TaskFacts DEF Knows
  <2> QED BY <1>2, <1>5, <1>6, <1>7, <2>1 DEF Knows, SaveSteps
<1>10. to \in Steps \ {"idle", "set_len", "map", "copy"}
  BY <1>6 DEF Steps, UpdateSteps
<1>11. /\ proxies' \in Maps /\ general' \in Names /\ clients' \subseteq Configs
       /\ general_client' \in Configs /\ kept \subseteq DOMAIN proxies'
  BY <1>1, <1>2, TaskFacts
<1> QED BY <1>1, <1>2, <1>7, <1>8, <1>9, <1>10, <1>11, QuietStep

\* An empty map is replaced by the default one in the cell, not in the task.
LEMMA StoreDefaultKeeps ==
    ASSUME IInv, NEW h \in Handlers, store_default(h)
    PROVE  IInv'
<1>1. h \in Tasks /\ h # Main
  BY ProxyAssumption DEF Tasks
<1>2. /\ fault = None /\ pc[h] = "store_default" /\ pc' = [pc EXCEPT ![h] = "store_clients"]
      /\ proxies' = default_proxies
      /\ UNCHANGED <<raced, general, clients, general_client, file, loc, kept, mishap, fault>>
  BY DEF store_default, Step, history
<1>3. /\ loc' \in [Tasks -> Locals]
      /\ \A u \in Tasks \ {h} : loc'[u] = loc[u]
      /\ pc'[h] = "store_clients"
  BY <1>1, <1>2, TaskFacts
<1>4. loc[h].p = <<>> /\ loc[h].p \in Maps /\ loc[h].g \in Names /\ kept = {}
  BY <1>1, <1>2, TaskFacts, SpecialMaps DEF LocalsOK, KeptAt
<1>5. LocalsOK(h)' /\ KeptAt(h)'
  BY <1>1, <1>2, <1>3, <1>4 DEF LocalsOK, KeptAt, SaveSteps
<1>6. h \notin raced => Knows(h)'
  <2>1. h \notin raced => loc[h].adds = {}
    BY <1>1, <1>2, <1>4, TaskFacts, SpecialMaps DEF Knows
  <2> QED BY <1>2, <1>3, <1>4, <2>1 DEF Knows, SaveSteps
<1>7. "store_clients" \in Steps \ {"idle", "set_len", "map", "copy"}
  BY DEF Steps, UpdateSteps
<1>8. /\ proxies' \in Maps /\ general' \in Names /\ clients' \subseteq Configs
      /\ general_client' \in Configs /\ kept \subseteq DOMAIN proxies'
  BY <1>1, <1>2, <1>4, TaskFacts, SpecialMaps
<1> QED BY <1>1, <1>2, <1>3, <1>5, <1>6, <1>7, <1>8, QuietStep

\* update_global_pool stores the clients of the map it loaded.
LEMMA StoreClientsKeeps ==
    ASSUME IInv, NEW h \in Handlers, store_clients(h)
    PROVE  IInv'
<1>1. h \in Tasks /\ h # Main
  BY ProxyAssumption DEF Tasks
<1>2. /\ fault = None /\ pc[h] = "store_clients" /\ pc' = [pc EXCEPT ![h] = "store_general"]
      /\ clients' = Range(loc[h].p)
      /\ UNCHANGED <<raced, proxies, general, general_client, file, loc, kept, mishap, fault>>
  BY DEF store_clients, Step, history, Clients
<1>3. /\ loc' \in [Tasks -> Locals]
      /\ \A u \in Tasks \ {h} : loc'[u] = loc[u]
      /\ pc'[h] = "store_general"
  BY <1>1, <1>2, TaskFacts
<1>4. loc[h].p \in Maps /\ loc[h].g \in Names
  BY <1>1, <1>2, TaskFacts DEF LocalsOK
<1>5. LocalsOK(h)' /\ KeptAt(h)'
  BY <1>1, <1>2, <1>3, <1>4 DEF LocalsOK, KeptAt, SaveSteps
<1>6. h \notin raced => Knows(h)'
  <2>1. h \notin raced =>
            /\ loc[h].adds \subseteq DOMAIN proxies
            /\ \/ loc[h].p = proxies /\ loc[h].g \in DOMAIN proxies
               \/ loc[h].p = <<>>
    BY <1>1, <1>2, TaskFacts DEF Knows
  <2> QED BY <1>2, <1>3, <2>1 DEF Knows, SaveSteps
<1>7. "store_general" \in Steps \ {"idle", "set_len", "map", "copy"}
  BY DEF Steps, UpdateSteps
<1>8. /\ proxies' \in Maps /\ general' \in Names /\ clients' \subseteq Configs
      /\ general_client' \in Configs /\ kept \subseteq DOMAIN proxies'
  BY <1>1, <1>2, <1>4, TaskFacts, MapFacts
<1> QED BY <1>1, <1>2, <1>3, <1>5, <1>6, <1>7, <1>8, QuietStep

\* update_global_pool stores the general name it checked.
LEMMA StoreGeneralKeeps ==
    ASSUME IInv, NEW h \in Handlers, store_general(h)
    PROVE  IInv'
<1>1. h \in Tasks /\ h # Main
  BY ProxyAssumption DEF Tasks
<1>2. /\ fault = None /\ pc[h] = "store_general" /\ pc' = [pc EXCEPT ![h] = "general_clients"]
      /\ general' = loc[h].g
      /\ UNCHANGED <<raced, proxies, clients, general_client, file, loc, kept, mishap, fault>>
  BY DEF store_general, Step, history
<1>3. /\ loc' \in [Tasks -> Locals]
      /\ \A u \in Tasks \ {h} : loc'[u] = loc[u]
      /\ pc'[h] = "general_clients"
  BY <1>1, <1>2, TaskFacts
<1>4. loc[h].g \in Names
  BY <1>1, <1>2, TaskFacts DEF LocalsOK
<1>5. LocalsOK(h)' /\ KeptAt(h)'
  BY <1>1, <1>2, <1>3 DEF LocalsOK, KeptAt, SaveSteps
<1>6. h \notin raced => Knows(h)'
  <2>1. h \notin raced =>
            /\ loc[h].adds \subseteq DOMAIN proxies
            /\ \/ loc[h].p = proxies /\ loc[h].g \in DOMAIN proxies
               \/ loc[h].p = <<>>
            /\ clients = Range(loc[h].p)
    BY <1>1, <1>2, TaskFacts DEF Knows
  <2>2. h \notin raced => Agreed' \/ clients' = {}
    BY <1>2, <2>1, SpecialMaps DEF Agreed
  <2> QED BY <1>2, <1>3, <2>1, <2>2 DEF Knows, SaveSteps
<1>7. "general_clients" \in Steps \ {"idle", "set_len", "map", "copy"}
  BY DEF Steps, UpdateSteps
<1>8. /\ proxies' \in Maps /\ general' \in Names /\ clients' \subseteq Configs
      /\ general_client' \in Configs /\ kept \subseteq DOMAIN proxies'
  BY <1>1, <1>2, <1>4, TaskFacts
<1> QED BY <1>1, <1>2, <1>3, <1>5, <1>6, <1>7, <1>8, QuietStep

\* A step that only names a fault.
LEMMA SameButFault ==
    ASSUME IInv, fault = None, fault' \in Faults,
           UNCHANGED <<cells, file, pc, loc, raced, kept, mishap>>,
           FaultNeedsRaceOrEmptyMap'
    PROVE  IInv'
<1>1. Busy' = Busy /\ Saving' = Saving
  BY DEF Busy, Saving
<1>2. TypeInv'
  BY <1>1 DEF IInv, TypeInv, TypeOK, cells
<1>3. ASSUME NEW t \in Tasks
      PROVE  LocalsOK(t)' /\ KeptAt(t)' /\ SoloOK(t)'
  <2>1. LocalsOK(t) /\ KeptAt(t) /\ SoloOK(t)
    BY DEF IInv, KeptOK
  <2>2. LocalsOK(t)' /\ KeptAt(t)'
    BY <2>1 DEF LocalsOK, KeptAt
  <2>3. Knows(t) => Knows(t)'
    BY DEF Knows, Agreed, cells
  <2>4. SoloOK(t)'
    BY <1>1, <2>1, <2>3 DEF SoloOK
  <2> QED BY <2>2, <2>4
<1>4. KeptOK'
  BY <1>3 DEF IInv, KeptOK, cells
<1>5. SaveOK'
  <2>1. SaveOK
    BY DEF IInv
  <2>2. fault # "from_bytes"
    BY NoneAssumption DEF Faults
  <2> QED BY <1>1, <2>1, <2>2 DEF SaveOK
<1> QED BY <1>2, <1>3, <1>4, <1>5 DEF IInv

\* set_general loads the clients.
LEMMA GeneralClientsKeeps ==
    ASSUME IInv, NEW h \in Handlers, general_clients(h)
    PROVE  IInv'
<1>1. h \in Tasks /\ h # Main
  BY ProxyAssumption DEF Tasks
<1>2. /\ fault = None /\ pc[h] = "general_clients" /\ pc' = [pc EXCEPT ![h] = "general_proxies"]
      /\ loc' = [loc EXCEPT ![h].c = clients, ![h].g = None]
      /\ UNCHANGED <<raced, proxies, general, clients, general_client, file, kept, mishap, fault>>
  BY DEF general_clients, Step, history, cells
<1>3. /\ loc' \in [Tasks -> Locals]
      /\ \A u \in Tasks \ {h} : loc'[u] = loc[u]
      /\ loc'[h].c = clients
      /\ loc'[h].adds = loc[h].adds
      /\ pc'[h] = "general_proxies"
  BY <1>1, <1>2, TaskFacts, SMTT(60) DEF Locals
<1>4. LocalsOK(h)' /\ KeptAt(h)'
  BY <1>1, <1>2, <1>3, TaskFacts DEF LocalsOK, KeptAt, SaveSteps
<1>5. h \notin raced => Knows(h)'
  <2>1. h \notin raced => loc[h].adds \subseteq DOMAIN proxies /\ (Agreed \/ clients = {})
    BY <1>1, <1>2, TaskFacts DEF Knows
  <2>2. h \notin raced => Agreed' \/ clients' = {}
    BY <1>2, <2>1 DEF Agreed
  <2> QED BY <1>2, <1>3, <2>1, <2>2 DEF Knows, SaveSteps
<1>6. "general_proxies" \in Steps \ {"idle", "set_len", "map", "copy"}
  BY DEF Steps, UpdateSteps
<1>7. /\ proxies' \in Maps /\ general' \in Names /\ clients' \subseteq Configs
      /\ general_client' \in Configs /\ kept \subseteq DOMAIN proxies'
  BY <1>1, <1>2, TaskFacts
<1> QED BY <1>1, <1>2, <1>3, <1>4, <1>5, <1>6, <1>7, QuietStep

\* set_general loads the map.
LEMMA GeneralProxiesKeeps ==
    ASSUME IInv, NEW h \in Handlers, general_proxies(h)
    PROVE  IInv'
<1>1. h \in Tasks /\ h # Main
  BY ProxyAssumption DEF Tasks
<1>2. /\ fault = None /\ pc[h] = "general_proxies" /\ pc' = [pc EXCEPT ![h] = "lookup"]
      /\ loc' = [loc EXCEPT ![h].p = proxies]
      /\ UNCHANGED <<raced, proxies, general, clients, general_client, file, kept, mishap, fault>>
  BY DEF general_proxies, Step, history, cells
<1>3. /\ loc' \in [Tasks -> Locals]
      /\ \A u \in Tasks \ {h} : loc'[u] = loc[u]
      /\ loc'[h].p = proxies /\ loc'[h].c = loc[h].c
      /\ loc'[h].adds = loc[h].adds
      /\ pc'[h] = "lookup"
  BY <1>1, <1>2, TaskFacts DEF Locals
<1>4. loc[h].c \in SUBSET Configs
  BY <1>1, <1>2, TaskFacts DEF LocalsOK
<1>5. LocalsOK(h)' /\ KeptAt(h)'
  BY <1>1, <1>2, <1>3, <1>4, TaskFacts DEF LocalsOK, KeptAt, SaveSteps
<1>6. h \notin raced => Knows(h)'
  <2>1. h \notin raced =>
            loc[h].adds \subseteq DOMAIN proxies /\ (Agreed \/ clients = {}) /\ loc[h].c = clients
    BY <1>1, <1>2, TaskFacts DEF Knows
  <2>2. h \notin raced => Agreed' \/ clients' = {}
    BY <1>2, <2>1 DEF Agreed
  <2> QED BY <1>2, <1>3, <2>1, <2>2 DEF Knows, SaveSteps
<1>7. "lookup" \in Steps \ {"idle", "set_len", "map", "copy"}
  BY DEF Steps, UpdateSteps
<1>8. /\ proxies' \in Maps /\ general' \in Names /\ clients' \subseteq Configs
      /\ general_client' \in Configs /\ kept \subseteq DOMAIN proxies'
  BY <1>1, <1>2, TaskFacts
<1> QED BY <1>1, <1>2, <1>3, <1>5, <1>6, <1>7, <1>8, QuietStep

\* What a task that met no other one finds in set_general: the client, unless
\* it was given an empty map.
LEMMA SoloLookup ==
    ASSUME IInv, NEW h \in Handlers, pc[h] = "lookup", h \notin raced
    PROVE  /\ Found(h) => Agreed
           /\ ~Found(h) => loc[h].c = {}
           /\ loc[h].p = proxies
<1>1. h \in Tasks
  BY DEF Tasks
<1>2. /\ loc[h].p = proxies
      /\ Agreed \/ clients = {}
      /\ loc[h].c = clients
  BY <1>1, TaskFacts DEF Knows
<1>3. Agreed => Found(h)
  BY <1>2 DEF Agreed, Found, Range
<1>4. clients = {} => ~Found(h)
  BY <1>2 DEF Found
<1> QED BY <1>2, <1>3, <1>4

\* set_general looks the client up, or fails.
LEMMA LookupKeeps ==
    ASSUME IInv, NEW h \in Handlers, lookup(h)
    PROVE  IInv'
<1>1. h \in Tasks /\ h # Main
  BY ProxyAssumption DEF Tasks
<1>2. pc[h] = "lookup" /\ fault = None /\ UNCHANGED <<raced, cells, file, kept, mishap>>
  BY DEF lookup, Step, history
<1>3. loc[h].p \in Maps /\ loc[h].c \in SUBSET Configs
  BY <1>1, <1>2, TaskFacts DEF LocalsOK
<1>4. h \notin raced => loc[h].adds \subseteq DOMAIN proxies
  BY <1>1, <1>2, TaskFacts DEF Knows
<1>5. CASE /\ Step(h, "lookup", "store_client")
           /\ Found(h)
           /\ loc' = [loc EXCEPT ![h].c = loc[h].p[general], ![h].p = None]
           /\ fault' = fault
  <2>1. loc[h].p[general] \in Configs
    BY <1>3, <1>5, MapFacts DEF Found
  <2>2. /\ loc' \in [Tasks -> Locals]
        /\ \A u \in Tasks \ {h} : loc'[u] = loc[u]
        /\ loc'[h].c = loc[h].p[general]
        /\ loc'[h].adds = loc[h].adds
        /\ pc'[h] = "store_client"
        /\ pc' = [pc EXCEPT ![h] = "store_client"]
    BY <1>1, <1>5, <2>1, TaskFacts, SMTT(60) DEF Locals, Step
  <2>3. LocalsOK(h)' /\ KeptAt(h)'
    BY <1>1, <2>1, <2>2 DEF LocalsOK, KeptAt, SaveSteps
  <2>4. h \notin raced => Knows(h)'
    <3>1. h \notin raced => Agreed /\ loc[h].p = proxies
      BY <1>2, <1>5, SoloLookup
    <3>2. h \notin raced => Agreed'
      BY <1>2, <3>1 DEF Agreed, cells
    <3>3. h \notin raced => loc'[h].c = proxies'[general']
      BY <1>2, <2>2, <3>1 DEF cells
    <3> QED BY <1>2, <1>4, <2>2, <3>2, <3>3 DEF Knows, SaveSteps, cells
  <2>5. "store_client" \in Steps \ {"idle", "set_len", "map", "copy"}
    BY DEF Steps, UpdateSteps
  <2>6. /\ proxies' \in Maps /\ general' \in Names /\ clients' \subseteq Configs
        /\ general_client' \in Configs /\ kept \subseteq DOMAIN proxies'
    BY <1>1, <1>2, TaskFacts DEF cells
  <2> QED BY <1>1, <1>2, <1>5, <2>2, <2>3, <2>4, <2>5, <2>6, QuietStep
<1>6. CASE /\ Step(h, "lookup", "lookup")
           /\ ~Found(h)
           /\ fault' = "set_general"
           /\ loc' = loc
  <2>1. pc' = pc
    BY <1>1, <1>2, <1>6, TaskFacts DEF Step
  <2>2. FaultNeedsRaceOrEmptyMap'
    <3>1. h \in raced \/ loc[h].c = {}
      BY <1>2, <1>6, SoloLookup
    <3>2. (pc[h] = "lookup" /\ ~Found(h) /\ (h \in raced \/ loc[h].c = {}))'
      BY <1>2, <1>6, <2>1, <3>1 DEF Found, cells
    <3>3. fault' \notin {"copy_from_slice", "bus_error"}
      BY <1>6
    <3> QED BY <3>2, <3>3 DEF FaultNeedsRaceOrEmptyMap
  <2> QED BY <1>2, <1>6, <2>1, <2>2, SameButFault DEF Faults
<1> QED BY <1>2, <1>5, <1>6 DEF lookup

\* set_general stores the client.
LEMMA StoreClientKeeps ==
    ASSUME IInv, NEW h \in Handlers, store_client(h)
    PROVE  IInv'
<1>1. h \in Tasks /\ h # Main
  BY ProxyAssumption DEF Tasks
<1>2. /\ fault = None /\ pc[h] = "store_client" /\ pc' = [pc EXCEPT ![h] = "save_proxies"]
      /\ general_client' = loc[h].c
      /\ loc' = [loc EXCEPT ![h].c = None]
      /\ UNCHANGED <<raced, proxies, general, clients, file, kept, mishap, fault>>
  BY DEF store_client, Step, history
<1>3. /\ loc' \in [Tasks -> Locals]
      /\ \A u \in Tasks \ {h} : loc'[u] = loc[u]
      /\ loc'[h].adds = loc[h].adds
      /\ pc'[h] = "save_proxies"
  BY <1>1, <1>2, TaskFacts DEF Locals
<1>4. loc[h].c \in Configs
  BY <1>1, <1>2, TaskFacts DEF LocalsOK
<1>5. LocalsOK(h)' /\ KeptAt(h)'
  BY <1>1, <1>2, <1>3 DEF LocalsOK, KeptAt, SaveSteps
<1>6. h \notin raced => Knows(h)'
  <2>1. h \notin raced =>
            loc[h].adds \subseteq DOMAIN proxies /\ Agreed /\ loc[h].c = proxies[general]
    BY <1>1, <1>2, TaskFacts DEF Knows
  <2>2. h \notin raced => Agreed'
    BY <1>2, <2>1 DEF Agreed
  <2> QED BY <1>2, <1>3, <2>1, <2>2 DEF Knows, SaveSteps
<1>7. "save_proxies" \in Steps \ {"idle", "set_len", "map", "copy"}
  BY DEF Steps, SaveSteps
<1>8. /\ proxies' \in Maps /\ general' \in Names /\ clients' \subseteq Configs
      /\ general_client' \in Configs /\ kept \subseteq DOMAIN proxies'
  BY <1>1, <1>2, <1>4, TaskFacts
<1> QED BY <1>1, <1>2, <1>3, <1>5, <1>6, <1>7, <1>8, QuietStep

-----------------------------------------------------------------------------

\* The first step of a save: the map.
LEMMA SaveProxiesKeeps ==
    ASSUME IInv, NEW t \in Tasks, save_proxies(t)
    PROVE  IInv'
<1>1. /\ fault = None /\ pc[t] = "save_proxies" /\ pc' = [pc EXCEPT ![t] = "save_name"]
      /\ loc' = [loc EXCEPT ![t].p = proxies]
      /\ UNCHANGED <<raced, proxies, general, clients, general_client, file, kept, mishap, fault>>
  BY DEF save_proxies, Step, history, cells
<1>2. /\ loc' \in [Tasks -> Locals]
      /\ \A u \in Tasks \ {t} : loc'[u] = loc[u]
      /\ loc'[t].p = proxies
      /\ loc'[t].adds = loc[t].adds
      /\ pc'[t] = "save_name"
  BY <1>1, TaskFacts DEF Locals
<1>3. LocalsOK(t)' /\ KeptAt(t)'
  <2>1. t = Main => loc[t].adds = {}
    BY <1>1, TaskFacts DEF LocalsOK
  <2> QED BY <1>1, <1>2, <2>1, TaskFacts DEF LocalsOK, KeptAt, SaveSteps
<1>4. t \notin raced => Knows(t)'
  <2>1. t \notin raced =>
            /\ loc[t].adds \subseteq DOMAIN proxies
            /\ t # Main => Agreed /\ general_client = proxies[general]
    BY <1>1, TaskFacts DEF Knows, SaveSteps
  <2>2. (t \notin raced /\ t # Main) => Agreed' /\ general_client' = proxies'[general']
    BY <1>1, <2>1 DEF Agreed
  <2> QED BY <1>1, <1>2, <2>1, <2>2 DEF Knows
<1>5. "save_name" \in Steps \ {"idle", "set_len", "map", "copy"}
  BY DEF Steps, SaveSteps
<1>6. /\ proxies' \in Maps /\ general' \in Names /\ clients' \subseteq Configs
      /\ general_client' \in Configs /\ kept \subseteq DOMAIN proxies'
  BY <1>1, TaskFacts
<1> QED BY <1>1, <1>2, <1>3, <1>4, <1>5, <1>6, QuietStep

\* The second step of a save: the general name.
LEMMA SaveNameKeeps ==
    ASSUME IInv, NEW t \in Tasks, save_name(t)
    PROVE  IInv'
<1>1. /\ fault = None /\ pc[t] = "save_name" /\ pc' = [pc EXCEPT ![t] = "open"]
      /\ loc' = [loc EXCEPT ![t].g = general]
      /\ UNCHANGED <<raced, proxies, general, clients, general_client, file, kept, mishap, fault>>
  BY DEF save_name, Step, history, cells
<1>2. /\ loc' \in [Tasks -> Locals]
      /\ \A u \in Tasks \ {t} : loc'[u] = loc[u]
      /\ loc'[t].p = loc[t].p /\ loc'[t].g = general
      /\ loc'[t].adds = loc[t].adds
      /\ pc'[t] = "open"
  BY <1>1, TaskFacts DEF Locals
<1>3. LocalsOK(t)' /\ KeptAt(t)'
  <2>1. loc[t].p \in Maps /\ (t = Main => loc[t].adds = {}) /\ kept \subseteq DOMAIN loc[t].p
    BY <1>1, TaskFacts DEF LocalsOK, KeptAt
  <2> QED BY <1>1, <1>2, <2>1, TaskFacts DEF LocalsOK, KeptAt, SaveSteps
<1>4. t \notin raced => Knows(t)'
  <2>1. t \notin raced =>
            /\ loc[t].adds \subseteq DOMAIN proxies
            /\ loc[t].p = proxies
            /\ t # Main => Agreed /\ general_client = proxies[general]
    BY <1>1, TaskFacts DEF Knows, SaveSteps
  <2>2. (t \notin raced /\ t # Main) => Agreed' /\ general_client' = proxies'[general']
    BY <1>1, <2>1 DEF Agreed
  <2> QED BY <1>1, <1>2, <2>1, <2>2 DEF Knows
<1>5. "open" \in Steps \ {"idle", "set_len", "map", "copy"}
  BY DEF Steps, SaveSteps
<1>6. /\ proxies' \in Maps /\ general' \in Names /\ clients' \subseteq Configs
      /\ general_client' \in Configs /\ kept \subseteq DOMAIN proxies'
  BY <1>1, TaskFacts
<1> QED BY <1>1, <1>2, <1>3, <1>4, <1>5, <1>6, QuietStep

\* The cells and the locals stay: what the steps on the file have in common.
LEMMA FileStep ==
    ASSUME IInv, NEW t \in Tasks, NEW to \in {"set_len", "map", "copy"},
           pc[t] \in {"open", "set_len", "map"}, pc' = [pc EXCEPT ![t] = to],
           fault = None, UNCHANGED <<raced, cells, loc, kept, fault>>,
           file' \in [len : Nat, data : [p : Maps, g : Names] \cup {None}],
           mishap' \in BOOLEAN, SaveOK',
           file'.data \in {None, file.data},
           to \in {"map", "copy"} => file'.len = Size(loc[t].p)
    PROVE  IInv'
<1>1. pc'[t] = to /\ \A u \in Tasks \ {t} : pc'[u] = pc[u]
  BY TaskFacts
<1>2. TypeOK'
  <2>1. Busy' = Busy
    BY <1>1 DEF Busy
  <2> QED BY <2>1 DEF IInv, TypeInv, TypeOK, cells
<1>3. /\ loc[t].p \in Maps /\ loc[t].g \in Names /\ (t = Main => loc[t].adds = {})
      /\ kept \subseteq DOMAIN loc[t].p
  BY TaskFacts DEF LocalsOK, KeptAt
<1>4. LocalsOK(t)' /\ KeptAt(t)'
  BY <1>1, <1>3 DEF LocalsOK, KeptAt, SaveSteps
<1>5. t \notin raced => Knows(t)'
  <2>1. t \notin raced =>
            /\ loc[t].adds \subseteq DOMAIN proxies
            /\ loc[t].p = proxies
            /\ t # Main => Agreed /\ general_client = proxies[general]
            /\ loc[t].g = general
    BY TaskFacts DEF Knows, SaveSteps
  <2>2. (t \notin raced /\ t # Main) => Agreed' /\ general_client' = proxies'[general']
    BY <2>1 DEF Agreed, cells
  <2> QED BY <1>1, <2>1, <2>2 DEF Knows, cells
<1>6. FaultNeedsRaceOrEmptyMap'
  BY NoneAssumption DEF FaultNeedsRaceOrEmptyMap, Faults
<1>7. /\ kept \subseteq DOMAIN proxies'
      /\ file'.data # None => kept \subseteq DOMAIN file'.data.p
  BY DEF IInv, KeptOK, cells
<1>8. to \in Steps \ {"idle"}
  BY DEF Steps, SaveSteps
<1>9. loc' \in [Tasks -> Locals] /\ pc[t] # "idle"
  BY TaskFacts
<1> QED BY <1>2, <1>4, <1>5, <1>6, <1>7, <1>8, <1>9, StepKeeps

\* The file is truncated.
LEMMA OpenKeeps ==
    ASSUME IInv, NEW t \in Tasks, open(t)
    PROVE  IInv'
<1>1. /\ fault = None /\ pc[t] = "open" /\ pc' = [pc EXCEPT ![t] = "set_len"]
      /\ file' = [len |-> 0, data |-> None]
      /\ mishap' = (mishap \/ Saving # {})
      /\ UNCHANGED <<raced, cells, loc, kept, fault>>
  BY DEF open, Step
<1>2. pc'[t] = "set_len" /\ \A u \in Tasks \ {t} : pc'[u] = pc[u]
  BY <1>1, TaskFacts
<1>3. SaveOK'
  <2>1. SUFFICES ASSUME ~mishap' PROVE SaveOK'
    BY DEF SaveOK
  <2>2. Saving = {}
    BY <1>1, <2>1
  <2>3. Saving' = {t}
    BY <1>2, <2>2 DEF Saving
  <2>4. \A u \in Tasks : pc'[u] \notin {"map", "copy"}
    BY <1>2, <2>2 DEF Saving
  <2> QED BY <2>3, <2>4 DEF SaveOK
<1>4. file' \in [len : Nat, data : [p : Maps, g : Names] \cup {None}] /\ file'.data = None
  BY <1>1
<1>5. mishap' \in BOOLEAN
  BY <1>1
<1> QED BY <1>1, <1>3, <1>4, <1>5, FileStep

\* The file gets the length of the bytes to save.
LEMMA SetLenKeeps ==
    ASSUME IInv, NEW t \in Tasks, set_len(t)
    PROVE  IInv'
<1> DEFINE n == Size(loc[t].p)
<1>1. /\ fault = None /\ pc[t] = "set_len" /\ pc' = [pc EXCEPT ![t] = "map"]
      /\ file' = [len |-> n, data |-> IF file.len = n THEN file.data ELSE None]
      /\ UNCHANGED <<raced, cells, loc, kept, mishap, fault>>
  BY DEF set_len, Step, history
<1>2. pc'[t] = "map" /\ \A u \in Tasks \ {t} : pc'[u] = pc[u]
  BY <1>1, TaskFacts
<1>3. n \in Nat
  <2>1. loc[t].p \in Maps
    BY <1>1, TaskFacts DEF LocalsOK
  <2> QED BY <2>1, MapFacts
<1> HIDE DEF n
<1>4. SaveOK'
  <2>1. SUFFICES ASSUME ~mishap' PROVE SaveOK'
    BY DEF SaveOK
  <2>2. t \in Saving /\ \A u, s \in Saving : u = s
    BY <1>1, <2>1 DEF IInv, SaveOK, Saving
  <2>3. Saving' = Saving
    BY <1>1, <1>2 DEF Saving
  <2>4. \A u \in Tasks : pc'[u] \in {"map", "copy"} => u = t
    BY <2>2, <2>3 DEF Saving
  <2>5. file'.len = Size(loc'[t].p)
    BY <1>1 DEF n
  <2> QED BY <2>2, <2>3, <2>4, <2>5 DEF SaveOK
<1>5. file' \in [len : Nat, data : [p : Maps, g : Names] \cup {None}]
  BY <1>1, <1>3 DEF IInv, TypeInv, TypeOK
<1>6. file'.data \in {None, file.data} /\ file'.len = n
  BY <1>1
<1>7. mishap' \in BOOLEAN
  BY <1>1 DEF IInv, TypeInv, TypeOK
<1> QED BY <1>1, <1>4, <1>5, <1>6, <1>7, FileStep DEF n

\* The file is mapped; the lengths differ only if another save came between.
LEMMA MapKeeps ==
    ASSUME IInv, NEW t \in Tasks, map(t)
    PROVE  IInv'
<1>1. /\ pc[t] = "map" /\ fault = None
      /\ UNCHANGED <<raced, cells, file, loc, kept, mishap>>
  BY DEF map, Step, history
<1>2. CASE /\ Step(t, "map", "copy")
           /\ file.len = Size(loc[t].p)
           /\ fault' = fault
  <2>1. pc' = [pc EXCEPT ![t] = "copy"]
    BY <1>2 DEF Step
  <2>2. pc'[t] = "copy" /\ \A u \in Tasks \ {t} : pc'[u] = pc[u]
    BY <2>1, TaskFacts
  <2>3. SaveOK'
    <3>1. Saving' = Saving
      BY <1>1, <2>2 DEF Saving
    <3>2. \A u \in Tasks : pc'[u] \in {"map", "copy"} => pc[u] \in {"map", "copy"}
      BY <1>1, <2>2
    <3>3. SaveOK
      BY DEF IInv
    <3> QED BY <1>1, <1>2, <3>1, <3>2, <3>3 DEF SaveOK
  <2>4. /\ file' \in [len : Nat, data : [p : Maps, g : Names] \cup {None}]
        /\ mishap' \in BOOLEAN
    BY <1>1 DEF IInv, TypeInv, TypeOK
  <2> QED BY <1>1, <1>2, <2>1, <2>3, <2>4, FileStep
<1>3. CASE /\ Step(t, "map", "map")
           /\ file.len # Size(loc[t].p)
           /\ fault' = "copy_from_slice"
  <2>1. pc' = pc
    BY <1>1, <1>3, TaskFacts DEF Step
  <2>2. t \in raced
    BY <1>1, <1>3, TaskFacts DEF Knows
  <2>3. FaultNeedsRaceOrEmptyMap'
    BY <1>1, <1>3, <2>1, <2>2 DEF FaultNeedsRaceOrEmptyMap
  <2> QED BY <1>1, <1>3, <2>1, <2>3, SameButFault DEF Faults
<1> QED BY <1>1, <1>2, <1>3 DEF map, history

\* A task whose save is over: it was under way, so nobody else was alone.
LEMMA FinishKeeps ==
    ASSUME IInv, NEW t \in Tasks, pc[t] # "idle", fault = None, Finish(t),
           UNCHANGED <<cells, fault>>,
           file' \in [len : Nat, data : [p : Maps, g : Names] \cup {None}],
           mishap' \in BOOLEAN, SaveOK',
           kept' \subseteq DOMAIN proxies,
           file'.data # None => kept' \subseteq DOMAIN file'.data.p,
           kept' = kept \/ t \notin raced
    PROVE  IInv'
<1>1. /\ pc' \in [Tasks -> Steps]
      /\ pc'[t] = "idle" /\ loc'[t] = NoLocals
      /\ \A u \in Tasks \ {t} : pc'[u] = pc[u] /\ loc'[u] = loc[u]
      /\ raced' = raced \ {t}
  BY TaskFacts DEF Finish, Steps
<1>2. loc' \in [Tasks -> Locals]
  BY TaskFacts, NoLocalsType DEF Finish
<1>3. Busy' = Busy \ {t} /\ t \in Busy
  BY <1>1 DEF Busy
<1>4. kept' \subseteq Names
  <2>1. DOMAIN proxies \subseteq Names
    BY TaskFacts, MapFacts
  <2> QED BY <2>1
<1>5. TypeInv'
  BY <1>1, <1>2, <1>3, <1>4 DEF IInv, TypeInv, TypeOK, cells
<1>6. ASSUME NEW u \in Tasks \ {t}
      PROVE  LocalsOK(u)' /\ KeptAt(u)' /\ SoloOK(u)'
  <2>1. /\ LocalsOK(u) /\ KeptAt(u) /\ SoloOK(u)
        /\ pc'[u] = pc[u] /\ loc'[u] = loc[u]
    BY <1>1 DEF IInv, KeptOK
  <2>2. LocalsOK(u)'
    BY <2>1 DEF LocalsOK
  <2>3. t \notin raced => pc[u] = "idle"
    <3>1. t \notin raced => Busy = {t}
      BY TaskFacts
    <3> QED BY <3>1 DEF Busy
  <2>4. KeptAt(u)'
    BY <2>1, <2>3 DEF KeptAt
  <2>5. SoloOK(u)'
    BY <1>1, <1>3, <2>1 DEF SoloOK
  <2> QED BY <2>2, <2>4, <2>5
<1>7. LocalsOK(t)' /\ KeptAt(t)' /\ SoloOK(t)'
  BY <1>1 DEF LocalsOK, KeptAt, SoloOK, NoLocals
<1>8. KeptOK'
  BY <1>6, <1>7 DEF KeptOK, cells
<1>9. FaultNeedsRaceOrEmptyMap'
  BY NoneAssumption DEF FaultNeedsRaceOrEmptyMap, Faults
<1> QED BY <1>5, <1>6, <1>7, <1>8, <1>9 DEF IInv

\* A save that fails before or after the truncation.
LEMMA SaveErrorKeeps ==
    ASSUME IInv, NEW t \in Tasks, save_error(t)
    PROVE  IInv'
<1>1. /\ fault = None /\ pc[t] \in {"open", "set_len", "map"}
      /\ mishap' = (mishap \/ pc[t] # "open")
      /\ Finish(t)
      /\ UNCHANGED <<cells, file, kept, fault>>
  BY DEF save_error
<1>2. /\ pc'[t] = "idle"
      /\ \A u \in Tasks \ {t} : pc'[u] = pc[u] /\ loc'[u] = loc[u]
  BY <1>1, TaskFacts DEF Finish
<1>3. SaveOK'
  <2>1. SUFFICES ASSUME ~mishap' PROVE SaveOK'
    BY DEF SaveOK
  <2>2. ~mishap /\ pc[t] = "open"
    BY <1>1, <2>1
  <2>3. Saving' = Saving
    BY <1>2, <2>2 DEF Saving
  <2>4. \A u \in Tasks : pc'[u] \in {"map", "copy"} =>
            pc[u] \in {"map", "copy"} /\ loc'[u] = loc[u]
    BY <1>2
  <2>5. SaveOK
    BY DEF IInv
  <2> QED BY <1>1, <2>2, <2>3, <2>4, <2>5 DEF SaveOK
<1>4. /\ file' \in [len : Nat, data : [p : Maps, g : Names] \cup {None}]
      /\ mishap' \in BOOLEAN
  BY <1>1 DEF IInv, TypeInv, TypeOK
<1>5. kept' \subseteq DOMAIN proxies /\ (file'.data # None => kept' \subseteq DOMAIN file'.data.p)
  BY <1>1 DEF IInv, KeptOK
<1> QED BY <1>1, <1>3, <1>4, <1>5, FinishKeeps

\* The bytes are copied into the map, or the process is killed because the
\* file has become shorter.
LEMMA CopyKeeps ==
    ASSUME IInv, NEW t \in Tasks, copy(t)
    PROVE  IInv'
<1>1. pc[t] = "copy" /\ fault = None /\ UNCHANGED <<cells, mishap>>
  BY DEF copy, Step, history
<1>2. loc[t].p \in Maps /\ loc[t].g \in Names /\ kept \subseteq DOMAIN loc[t].p
  BY <1>1, TaskFacts DEF LocalsOK, KeptAt
<1>3. Size(loc[t].p) \in Nat
  BY <1>2, MapFacts
<1>4. t \notin raced => /\ loc[t].p = proxies
                        /\ loc[t].adds \subseteq DOMAIN proxies
                        /\ file.len = Size(loc[t].p)
  BY <1>1, TaskFacts DEF Knows
<1>5. file.len \in Nat
  BY DEF IInv, TypeInv, TypeOK
<1>6. CASE /\ file' = [file EXCEPT !.data = Written(t)]
           /\ \/ kept' = kept
              \/ t \notin raced /\ kept' = kept \cup loc[t].adds
           /\ Finish(t)
           /\ fault' = fault
  <2>1. /\ pc'[t] = "idle"
        /\ \A u \in Tasks \ {t} : pc'[u] = pc[u] /\ loc'[u] = loc[u]
    BY <1>6, TaskFacts DEF Finish
  <2>2. /\ Written(t) \in [p : Maps, g : Names] \cup {None}
        /\ Written(t) # None => Written(t).p = loc[t].p
        /\ file.len = Size(loc[t].p) => Written(t) # None
    BY <1>2, NoneAssumption DEF Written
  <2>3. /\ file' \in [len : Nat, data : [p : Maps, g : Names] \cup {None}]
        /\ file'.data = Written(t)
        /\ file'.len = file.len
    <3>1. file \in [len : Nat, data : [p : Maps, g : Names] \cup {None}]
      BY DEF IInv, TypeInv, TypeOK
    <3> QED BY <1>6, <2>2, <3>1
  <2>4. SaveOK'
    <3>1. SUFFICES ASSUME ~mishap' PROVE SaveOK'
      BY DEF SaveOK
    <3>2. ~mishap
      BY <1>1, <3>1
    <3>3. t \in Saving /\ (\A u, s \in Saving : u = s) /\ file.len = Size(loc[t].p)
      BY <1>1, <3>2 DEF IInv, SaveOK, Saving
    <3>4. Saving' = {} /\ \A u \in Tasks : pc'[u] \notin {"map", "copy"}
      BY <2>1, <3>3 DEF Saving
    <3>5. file'.data # None
      BY <2>2, <2>3, <3>3
    <3> QED BY <3>4, <3>5 DEF SaveOK
  <2>5. kept' \subseteq DOMAIN proxies /\ kept' \subseteq DOMAIN loc[t].p
    BY <1>2, <1>4, <1>6, TaskFacts
  <2>6. file'.data # None => kept' \subseteq DOMAIN file'.data.p
    BY <2>2, <2>3, <2>5
  <2>7. mishap' \in BOOLEAN
    BY <1>1 DEF IInv, TypeInv, TypeOK
  <2> QED BY <1>1, <1>6, <2>3, <2>4, <2>5, <2>6, <2>7, FinishKeeps
<1>7. CASE /\ Step(t, "copy", "copy")
           /\ file.len < Size(loc[t].p)
           /\ fault' = "bus_error"
           /\ UNCHANGED <<file, loc, history>>
  <2>1. pc' = pc /\ raced' = raced
    BY <1>1, <1>7, TaskFacts DEF Step
  <2>2. t \in raced
    BY <1>3, <1>4, <1>5, <1>7
  <2>3. FaultNeedsRaceOrEmptyMap'
    BY <1>1, <1>7, <2>1, <2>2 DEF FaultNeedsRaceOrEmptyMap
  <2> QED BY <1>1, <1>7, <2>1, <2>3, SameButFault DEF Faults, history
<1> QED BY <1>1, <1>6, <1>7 DEF copy

\* A new process: nobody is under way, and the pool is what the file holds.
LEMMA RestartKeeps ==
    ASSUME IInv, restart
    PROVE  IInv'
<1>1. /\ fault = None
      /\ pc' = [t \in Tasks |-> "idle"]
      /\ loc' = [t \in Tasks |-> NoLocals]
      /\ raced' = {}
      /\ UNCHANGED <<file, kept, mishap>>
  BY DEF restart, history
<1>2. /\ proxies' \in Maps /\ general' \in Names /\ clients' \subseteq Configs
      /\ general_client' \in Configs /\ kept \subseteq DOMAIN proxies'
      /\ fault' \in {None, "from_bytes"}
      /\ file.data = None => fault' = "from_bytes"
  <2>1. CASE /\ file.data # None
             /\ \E s \in Loaded(file.data.p, file.data.g) :
                   /\ proxies' = s.p
                   /\ general' = s.g
                   /\ clients' = Range(s.p)
                   /\ general_client' = s.p[s.g]
             /\ fault' = fault
    <3>1. PICK s \in Loaded(file.data.p, file.data.g) :
              /\ proxies' = s.p
              /\ general' = s.g
              /\ clients' = Range(s.p)
              /\ general_client' = s.p[s.g]
      BY <2>1
    <3>2. file.data.p \in Maps /\ file.data.g \in Names
      BY <2>1 DEF IInv, TypeInv, TypeOK
    <3>3. /\ s.p \in Maps /\ s.g \in Names /\ s.p[s.g] \in Configs
          /\ DOMAIN file.data.p \subseteq DOMAIN s.p
      BY <3>1, <3>2, LoadedPool
    <3>4. kept \subseteq DOMAIN file.data.p
      BY <2>1 DEF IInv, KeptOK
    <3> QED BY <1>1, <2>1, <3>1, <3>3, <3>4, MapFacts
  <2>2. CASE /\ file.data = None
             /\ fault' = "from_bytes"
             /\ UNCHANGED cells
    BY <2>2 DEF IInv, TypeInv, TypeOK, KeptOK, cells
  <2> QED BY <2>1, <2>2 DEF restart
<1>3. Busy' = {} /\ Saving' = {} /\ \A t \in Tasks : pc'[t] = "idle" /\ loc'[t] = NoLocals
  BY <1>1 DEF Busy, Saving
<1>4. TypeInv'
  <2>1. TypeOK'
    BY <1>1, <1>2, <1>3 DEF IInv, TypeInv, TypeOK, Faults
  <2>2. (pc \in [Tasks -> Steps] /\ loc \in [Tasks -> Locals])'
    BY <1>1, NoLocalsType DEF Steps
  <2> QED BY <2>1, <2>2 DEF TypeInv
<1>5. ASSUME NEW t \in Tasks
      PROVE  LocalsOK(t)' /\ KeptAt(t)' /\ SoloOK(t)'
  <2>1. pc'[t] = "idle" /\ loc'[t] = NoLocals
    BY <1>3
  <2> QED BY <2>1 DEF LocalsOK, KeptAt, SoloOK, NoLocals
<1>6. KeptOK'
  BY <1>1, <1>2, <1>5 DEF IInv, KeptOK
<1>7. SaveOK'
  BY <1>1, <1>2, <1>3 DEF SaveOK
<1>8. FaultNeedsRaceOrEmptyMap'
  BY <1>2, NoneAssumption DEF FaultNeedsRaceOrEmptyMap, Faults
<1> QED BY <1>4, <1>5, <1>6, <1>7, <1>8 DEF IInv

-----------------------------------------------------------------------------

\* Every step keeps the invariant.
LEMMA PoolStep == IInv /\ [Next]_vars => IInv'
<1> SUFFICES ASSUME IInv, [Next]_vars PROVE IInv'
  OBVIOUS
<1>1. CASE UNCHANGED vars
  <2>1. UNCHANGED <<cells, file, pc, loc, raced, kept, mishap, fault>>
    BY <1>1 DEF vars, history
  <2>2. Busy' = Busy /\ Saving' = Saving
    BY <2>1 DEF Busy, Saving
  <2>3. TypeInv'
    BY <2>1, <2>2 DEF IInv, TypeInv, TypeOK, cells
  <2>4. ASSUME NEW t \in Tasks
        PROVE  LocalsOK(t)' /\ KeptAt(t)' /\ SoloOK(t)'
    <3>1. LocalsOK(t) /\ KeptAt(t) /\ SoloOK(t)
      BY DEF IInv, KeptOK
    <3>2. LocalsOK(t)' /\ KeptAt(t)'
      BY <2>1, <3>1 DEF LocalsOK, KeptAt
    <3>3. Knows(t) => Knows(t)'
      BY <2>1 DEF Knows, Agreed, cells
    <3>4. SoloOK(t)'
      BY <2>1, <2>2, <3>1, <3>3 DEF SoloOK
    <3> QED BY <3>2, <3>4
  <2>5. KeptOK'
    BY <2>1, <2>4 DEF IInv, KeptOK, cells
  <2>6. SaveOK'
    BY <2>1, <2>2 DEF IInv, SaveOK
  <2>7. FaultNeedsRaceOrEmptyMap'
    BY <2>1 DEF IInv, FaultNeedsRaceOrEmptyMap, Found, cells
  <2> QED BY <2>3, <2>4, <2>5, <2>6, <2>7 DEF IInv
<1>2. ASSUME NEW h \in Handlers, Handle(h)
      PROVE  IInv'
  BY <1>2, SetProxiesKeeps, AddProxyKeeps, DeleteProxiesKeeps, SetGeneralKeeps,
     StoreNameKeeps, StoreMapKeeps DEF Handle
<1>3. ASSUME NEW h \in Handlers, UpdateGlobalPool(h)
      PROVE  IInv'
  BY <1>3, LoadProxiesKeeps, LoadNameKeeps, StoreDefaultKeeps, StoreClientsKeeps,
     StoreGeneralKeeps, GeneralClientsKeeps, GeneralProxiesKeeps, LookupKeeps, StoreClientKeeps
     DEF UpdateGlobalPool
<1>4. ASSUME NEW t \in Tasks, Save(t)
      PROVE  IInv'
  BY <1>4, SaveProxiesKeeps, SaveNameKeeps, OpenKeeps, SetLenKeeps, SaveErrorKeeps,
     MapKeeps, CopyKeeps DEF Save
<1>5. CASE shutdown
  BY <1>5, ShutdownKeeps
<1>6. CASE restart
  BY <1>6, RestartKeeps
<1> QED BY <1>1, <1>2, <1>3, <1>4, <1>5, <1>6 DEF Next

\* The inductive invariant holds in every state the pool reaches, whatever the
\* names, settings, tasks and requests: the types, what each task has loaded,
\* what a task that met no other one knows, which names are in every map that
\* may still be stored, and how far the file can be from whole.
THEOREM PoolInvariant == Spec => []IInv
BY PoolInit, PoolStep, PTL DEF Spec

\* set_general's unchecked lookups fail only in a task that met another one or
\* was given an empty map; the copy into the mapped file fails only in a task
\* that met another one.
THEOREM FaultsNeedRaces == Spec => []FaultNeedsRaceOrEmptyMap
<1>1. IInv => FaultNeedsRaceOrEmptyMap
  BY DEF IInv
<1> QED BY <1>1, PoolInvariant, PTL

\* Without a save that failed halfway or met another one, the pool's file holds
\* less than a pool only while a save is under way, or after the kill of one.
THEOREM FileIsWhole == Spec => []FileIsWholeBetweenSaves
<1>1. IInv => FileIsWholeBetweenSaves
  BY DEF IInv, SaveOK, FileIsWholeBetweenSaves
<1> QED BY <1>1, PoolInvariant, PTL

\* A proxy whose addition was answered and met no other request is not lost to
\* the races of later requests, to failed saves or to restarts.
THEOREM SoloAdditionsLast == Spec => []SoloAdditionLasts
<1>1. IInv => SoloAdditionLasts
  BY DEF IInv, KeptOK, SoloAdditionLasts
<1> QED BY <1>1, PoolInvariant, PTL

\* The step that ends a task's save is the copy into the mapped file.
LEMMA OnlyCopyEndsASave ==
    ASSUME IInv, [Next]_vars, NEW h \in Handlers,
           pc[h] = "copy", pc'[h] = "idle", fault' = None, ~restart
    PROVE  /\ copy(h)
           /\ UNCHANGED <<proxies, general, clients, general_client>>
           /\ file'.data = Written(h)
<1>1. pc \in [Tasks -> Steps] /\ h \in Tasks
  BY DEF IInv, TypeInv, Tasks
<1>2. Next
  BY DEF vars
<1>3. ASSUME NEW u \in Tasks, NEW from, NEW to, Step(u, from, to)
      PROVE  from = "copy" /\ to = "idle"
  BY <1>1, <1>3 DEF Step
<1>4. ASSUME NEW u \in Tasks, NEW to, Begin(u, to)
      PROVE  FALSE
  BY <1>1, <1>4 DEF Begin
<1>5. ~ \E g \in Handlers : Handle(g)
  <2> SUFFICES ASSUME NEW g \in Handlers, Handle(g) PROVE FALSE
    OBVIOUS
  <2>1. g \in Tasks
    BY DEF Tasks
  <2> QED BY <1>3, <1>4, <2>1 DEF Handle, handle_set_proxies, handle_add_proxy,
             handle_delete_proxies, handle_set_general_proxy, store_name, store_map
<1>6. ~ \E g \in Handlers : UpdateGlobalPool(g)
  <2> SUFFICES ASSUME NEW g \in Handlers, UpdateGlobalPool(g) PROVE FALSE
    OBVIOUS
  <2>1. g \in Tasks
    BY DEF Tasks
  <2> QED BY <1>3, <2>1 DEF UpdateGlobalPool, load_proxies, load_name, store_default,
             store_clients, store_general, general_clients, general_proxies, lookup, store_client
<1>7. ~shutdown
  BY <1>4 DEF shutdown, Tasks
<1>8. PICK t \in Tasks : Save(t)
  BY <1>2, <1>5, <1>6, <1>7 DEF Next
<1>9. save_error(t) => FALSE
  BY <1>1 DEF save_error, Finish
<1>10. copy(t)
  <2>1. ~save_proxies(t) /\ ~save_name(t) /\ ~open(t) /\ ~set_len(t) /\ ~map(t)
    BY <1>3 DEF save_proxies, save_name, open, set_len, map
  <2> QED BY <1>8, <1>9, <2>1 DEF Save
<1>11. /\ file' = [file EXCEPT !.data = Written(t)]
       /\ Finish(t)
       /\ UNCHANGED cells
  BY <1>3, <1>10 DEF copy
<1>12. t = h
  BY <1>1, <1>11 DEF Finish
<1>13. file \in [len : Nat, data : [p : Maps, g : Names] \cup {None}]
  BY DEF IInv, TypeInv, TypeOK
<1> QED BY <1>10, <1>11, <1>12, <1>13 DEF cells

\* A request that met no other one leaves the cells and the file in agreement
\* when it is answered, whatever races and failed saves came before it.
THEOREM SoloRequestsRepair == Spec => SoloRequestRepairs
<1> DEFINE Repairs ==
        \A h \in Handlers :
          (pc[h] = "copy" /\ pc'[h] = "idle" /\ h \notin raced /\ fault' = None /\ ~restart)
          => Consistent'
<1>1. IInv /\ [Next]_vars => Repairs
  <2> SUFFICES ASSUME IInv, [Next]_vars, NEW h \in Handlers,
                      pc[h] = "copy", pc'[h] = "idle", h \notin raced, fault' = None, ~restart
               PROVE  Consistent'
    OBVIOUS
  <2>1. /\ UNCHANGED <<proxies, general, clients, general_client>>
        /\ file'.data = Written(h)
    BY OnlyCopyEndsASave
  <2>2. h \in Tasks /\ h # Main
    BY ProxyAssumption DEF Tasks
  <2>3. /\ general \in DOMAIN proxies
        /\ clients = Range(proxies)
        /\ general_client = proxies[general]
        /\ loc[h].p = proxies
        /\ loc[h].g = general
        /\ file.len = Size(loc[h].p)
    BY <2>2, TaskFacts DEF Knows, Agreed, SaveSteps
  <2>4. Written(h) = [p |-> proxies, g |-> general]
    BY <2>3 DEF Written
  <2> QED BY <2>1, <2>3, <2>4 DEF Consistent
<1> QED BY <1>1, PoolInvariant, PTL DEF Spec, SoloRequestRepairs

=============================================================================
