----------------------------- MODULE ProxyPool ------------------------------
(***************************************************************************)
(* The proxy pool of src/src/app/model/proxy_pool.rs and the handlers of   *)
(* core/route/proxies.rs that change it.  Its state is four global cells   *)
(* (ArcSwap), each loaded and stored atomically, and one file.  There is   *)
(* no lock: a step is one load or store of a cell, or one call on the      *)
(* file, and the steps of different handlers interleave.                   *)
(*                                                                         *)
(* A client is named by the proxy setting it was built for.  set_general   *)
(* looks two maps up without a check; the copy into the mapped file panics *)
(* when the lengths differ and is killed when the file shrinks under it;   *)
(* the next process reads a torn file without a check.                     *)
(* `fault' names the first of these that happened.                         *)
(***************************************************************************)
EXTENDS Integers, FiniteSets, Functions

CONSTANTS Names,     \* proxy names
          SysName,   \* the name "sys"
          Configs,   \* SingleProxy: settings of a proxy
          Sys,       \* SingleProxy::Sys
          Inputs,    \* the maps that requests bring
          Handlers,  \* tasks that serve requests, one request at a time
          MaxBegin,  \* bound: requests and shutdowns taken up
          Main,      \* the shutdown handler, which saves the pool
          None

\* HashMap<Str, SingleProxy>
Maps == UNION {[S -> Configs] : S \in SUBSET Names}

\* What may go wrong.
Faults == {"set_general", "copy_from_slice", "bus_error", "from_bytes"}

ASSUME ProxyAssumption ==
    /\ IsFiniteSet(Names)
    /\ SysName \in Names
    /\ Sys \in Configs
    /\ Inputs \subseteq Maps
    /\ Main \notin Handlers
    /\ MaxBegin \in Nat

ASSUME NoneAssumption ==
    /\ None \notin Names
    /\ None \notin Faults
    /\ None \notin [p : Maps, g : Names]

default_proxies == [n \in {SysName} |-> Sys]

\* The number of bytes a saved pool takes, which grows with its proxies.
Size(p) == 1 + Cardinality(DOMAIN p)

VARIABLES
    proxies,         \* PROXIES
    general,         \* GENERAL_NAME
    clients,         \* the keys of CLIENTS
    general_client,  \* GENERAL_CLIENT
    file,            \* the saved pool: its length and what it holds; a missing
                     \* file loads like one without proxies
    pc,              \* where each task is
    loc,             \* what each task has loaded: a map p, a name g, settings c
    begun,           \* how many requests and shutdowns were taken up
    raced,           \* history: tasks that have met another one on their way
    kept,            \* history: names whose addition raced with nobody
    mishap,          \* history: a save failed halfway, or met another save
    fault            \* what went wrong, or None

cells == <<proxies, general, clients, general_client>>
history == <<kept, mishap>>
vars == <<cells, file, pc, loc, begun, raced, history, fault>>

Tasks == Handlers \cup {Main}
Busy == {t \in Tasks : pc[t] # "idle"}
NoLocals == [p |-> None, g |-> None, c |-> None, adds |-> {}]

\* A task is between the truncation of the file and its copy.
Saving == {t \in Tasks : pc[t] \in {"set_len", "map", "copy"}}

-----------------------------------------------------------------------------
\* Proxies::init of what was read.  A missing general name is replaced by the
\* first name of the map, which may be any.
Loaded(p, g) ==
    LET m == IF p = <<>> THEN default_proxies ELSE p
    IN  {[p |-> m, g |-> n] : n \in IF p = <<>> THEN {SysName}
                                    ELSE IF g \in DOMAIN m THEN {g} ELSE DOMAIN m}

Init ==
    /\ \E p \in Inputs, g \in Names : \E s \in Loaded(p, g) :
          /\ proxies = s.p
          /\ general = s.g
          /\ clients = Range(s.p)
          /\ general_client = s.p[s.g]
          /\ file = [len |-> Size(p), data |-> [p |-> p, g |-> g]]
    /\ pc = [t \in Tasks |-> "idle"]
    /\ loc = [t \in Tasks |-> NoLocals]
    /\ begun = 0
    /\ raced = {}
    /\ kept = {}
    /\ mishap = FALSE
    /\ fault = None

\* Task t takes a request and does its first step; who is on his way meets it.
Begin(t, next) ==
    /\ fault = None
    /\ pc[t] = "idle"
    /\ begun < MaxBegin
    /\ begun' = begun + 1
    /\ pc' = [pc EXCEPT ![t] = next]
    /\ raced' = IF Busy = {} THEN raced ELSE raced \cup Busy \cup {t}
    /\ UNCHANGED <<file, mishap, fault>>

Step(t, from, to) ==
    /\ fault = None
    /\ pc[t] = from
    /\ pc' = [pc EXCEPT ![t] = to]
    /\ UNCHANGED <<begun, raced>>

Finish(t) ==
    /\ pc' = [pc EXCEPT ![t] = "idle"]
    /\ loc' = [loc EXCEPT ![t] = NoLocals]
    /\ raced' = raced \ {t}
    /\ UNCHANGED begun

-----------------------------------------------------------------------------
\* The handlers, up to their call of update_and_save.

\* handle_set_proxies: Proxies::update_global stores the map, then the name.
handle_set_proxies(h, p, g) ==
    /\ Begin(h, "store_name")
    /\ proxies' = p
    /\ loc' = [loc EXCEPT ![h].g = g]
    /\ kept' = {}
    /\ UNCHANGED <<general, clients, general_client>>

store_name(h) ==
    /\ Step(h, "store_name", "load_proxies")
    /\ general' = loc[h].g
    /\ loc' = [loc EXCEPT ![h].g = None]
    /\ UNCHANGED <<proxies, clients, general_client, file, history, fault>>

\* Mutant: the new proxies replace the old ones.
Added_only(p) == p

\* The current proxies and those of p that have a new name.
Added(p) == [n \in DOMAIN proxies \cup DOMAIN p |->
                IF n \in DOMAIN proxies THEN proxies[n] ELSE p[n]]

handle_add_proxy(h, p) ==
    /\ DOMAIN p \ DOMAIN proxies # {}        \* else nothing is added
    /\ Begin(h, "store_map")
    /\ loc' = [loc EXCEPT ![h].p = Added(p), ![h].adds = DOMAIN p \ DOMAIN proxies]
    /\ UNCHANGED <<cells, kept>>

Remaining(names) ==
    IF DOMAIN proxies \subseteq names THEN default_proxies
    ELSE Restrict(proxies, DOMAIN proxies \ names)

\* handle_delete_proxies: without a known name nothing is stored.
handle_delete_proxies(h, names) ==
    /\ IF names \cap DOMAIN proxies = {}
         THEN Begin(h, "load_proxies") /\ UNCHANGED loc
         ELSE Begin(h, "store_map") /\ loc' = [loc EXCEPT ![h].p = Remaining(names)]
    /\ kept' = kept \ names
    /\ UNCHANGED cells

store_map(h) ==
    /\ Step(h, "store_map", "load_proxies")
    /\ proxies' = loc[h].p
    /\ loc' = [loc EXCEPT ![h].p = None]
    /\ UNCHANGED <<general, clients, general_client, file, history, fault>>

handle_set_general_proxy(h, n) ==
    /\ n \in DOMAIN proxies                  \* else an error
    /\ Begin(h, "store_name")
    /\ loc' = [loc EXCEPT ![h].g = n]
    /\ UNCHANGED <<cells, kept>>

-----------------------------------------------------------------------------
\* Proxies::update_global_pool.

load_proxies(h) ==
    /\ Step(h, "load_proxies", "load_name")
    /\ loc' = [loc EXCEPT ![h].p = proxies]
    /\ UNCHANGED <<cells, file, history, fault>>

\* Mutant: a name that is not in the map is kept.
ValidNames_kept(p, g) == IF p = <<>> THEN {SysName} ELSE {g}

\* The general name after the check of the configuration.
ValidNames(p, g) ==
    IF p = <<>> THEN {SysName} ELSE IF g \in DOMAIN p THEN {g} ELSE DOMAIN p

load_name(h) ==
    /\ Step(h, "load_name", IF loc[h].p = <<>> THEN "store_default" ELSE "store_clients")
    /\ \E n \in ValidNames(loc[h].p, general) : loc' = [loc EXCEPT ![h].g = n]
    /\ UNCHANGED <<cells, file, history, fault>>

\* The map that was loaded stays the empty one.
store_default(h) ==
    /\ Step(h, "store_default", "store_clients")
    /\ proxies' = default_proxies
    /\ UNCHANGED <<general, clients, general_client, file, loc, history, fault>>

\* The clients of settings that p has not are removed, those it lacks are made.
Clients(p) == Range(p)

store_clients(h) ==
    /\ Step(h, "store_clients", "store_general")
    /\ clients' = Clients(loc[h].p)
    /\ UNCHANGED <<proxies, general, general_client, file, loc, history, fault>>

store_general(h) ==
    /\ Step(h, "store_general", "general_clients")
    /\ general' = loc[h].g
    /\ UNCHANGED <<proxies, clients, general_client, file, loc, history, fault>>

\* set_general: the three cells are loaded once more, in this order.
general_clients(h) ==
    /\ Step(h, "general_clients", "general_proxies")
    /\ loc' = [loc EXCEPT ![h].c = clients, ![h].g = None]
    /\ UNCHANGED <<cells, file, history, fault>>

general_proxies(h) ==
    /\ Step(h, "general_proxies", "lookup")
    /\ loc' = [loc EXCEPT ![h].p = proxies]
    /\ UNCHANGED <<cells, file, history, fault>>

Found(h) == general \in DOMAIN loc[h].p /\ loc[h].p[general] \in loc[h].c

\* unwrap_unchecked, twice.
lookup(h) ==
    \/ /\ Step(h, "lookup", "store_client")
       /\ Found(h)
       /\ loc' = [loc EXCEPT ![h].c = loc[h].p[general], ![h].p = None]
       /\ UNCHANGED <<cells, file, history, fault>>
    \/ /\ Step(h, "lookup", "lookup")
       /\ ~Found(h)
       /\ fault' = "set_general"
       /\ UNCHANGED <<cells, file, loc, history>>

\* Mutant: the client of the old general name stays.
store_client_not(h) ==
    /\ Step(h, "store_client", "save_proxies")
    /\ loc' = [loc EXCEPT ![h].c = None]
    /\ UNCHANGED <<cells, file, history, fault>>

store_client(h) ==
    /\ Step(h, "store_client", "save_proxies")
    /\ general_client' = loc[h].c
    /\ loc' = [loc EXCEPT ![h].c = None]
    /\ UNCHANGED <<proxies, general, clients, file, history, fault>>

-----------------------------------------------------------------------------
\* Proxies::save, called by the handlers and, at the shutdown, by Main.

shutdown == Begin(Main, "save_proxies") /\ UNCHANGED <<cells, loc, kept>>

save_proxies(t) ==
    /\ Step(t, "save_proxies", "save_name")
    /\ loc' = [loc EXCEPT ![t].p = proxies]
    /\ UNCHANGED <<cells, file, history, fault>>

save_name(t) ==
    /\ Step(t, "save_name", "open")
    /\ loc' = [loc EXCEPT ![t].g = general]
    /\ UNCHANGED <<cells, file, history, fault>>

\* The file is opened, or made, and truncated.
open(t) ==
    /\ Step(t, "open", "set_len")
    /\ file' = [len |-> 0, data |-> None]
    /\ mishap' = (mishap \/ Saving # {})
    /\ UNCHANGED <<cells, loc, kept, fault>>

set_len(t) ==
    /\ Step(t, "set_len", "map")
    /\ LET n == Size(loc[t].p)
       IN  file' = [len |-> n, data |-> IF file.len = n THEN file.data ELSE None]
    /\ UNCHANGED <<cells, loc, history, fault>>

\* open, set_len or map_mut fails: the handler answers with an error, and after
\* open the file is left as it is, cut or filled with zeros.
save_error(t) ==
    /\ fault = None
    /\ pc[t] \in {"open", "set_len", "map"}
    /\ mishap' = (mishap \/ pc[t] # "open")
    /\ Finish(t)
    /\ UNCHANGED <<cells, file, kept, fault>>

\* The map has the length the file has now; copy_from_slice panics when it is
\* not that of the bytes.
map(t) ==
    \/ /\ Step(t, "map", "copy")
       /\ file.len = Size(loc[t].p)
       /\ UNCHANGED <<cells, file, loc, history, fault>>
    \/ /\ Step(t, "map", "map")
       /\ file.len # Size(loc[t].p)
       /\ fault' = "copy_from_slice"
       /\ UNCHANGED <<cells, file, loc, history>>

\* Mutant: the map is dropped without having been written.
Written_not(t) == None

\* What the file holds after the copy: torn when it is longer than the bytes.
Written(t) ==
    IF file.len = Size(loc[t].p) THEN [p |-> loc[t].p, g |-> loc[t].g] ELSE None

\* The copy is in the file whether or not flush succeeds after it: if it fails,
\* the handler answers with an error.
copy(t) ==
    \/ /\ fault = None
       /\ pc[t] = "copy"
       /\ file.len >= Size(loc[t].p)
       /\ file' = [file EXCEPT !.data = Written(t)]
       /\ \E flushed \in BOOLEAN :
             kept' = IF flushed /\ t \notin raced THEN kept \cup loc[t].adds ELSE kept
       /\ Finish(t)
       /\ UNCHANGED <<cells, mishap, fault>>
    \/ /\ Step(t, "copy", "copy")
       /\ file.len < Size(loc[t].p)
       /\ fault' = "bus_error"
       /\ UNCHANGED <<cells, file, loc, history>>

\* The process ends, killed at any moment or after its shutdown, and a new one
\* loads the file; from_bytes_unchecked reads what it finds.
restart ==
    /\ fault = None
    /\ \/ /\ file.data # None
          /\ \E s \in Loaded(file.data.p, file.data.g) :
                /\ proxies' = s.p
                /\ general' = s.g
                /\ clients' = Range(s.p)
                /\ general_client' = s.p[s.g]
          /\ fault' = fault
       \/ /\ file.data = None
          /\ fault' = "from_bytes"
          /\ UNCHANGED cells
    /\ pc' = [t \in Tasks |-> "idle"]
    /\ loc' = [t \in Tasks |-> NoLocals]
    /\ raced' = {}
    /\ UNCHANGED <<file, begun, history>>

-----------------------------------------------------------------------------

Handle(h) ==
    \/ \E p \in Inputs, g \in Names : handle_set_proxies(h, p, g)
    \/ \E p \in Inputs : handle_add_proxy(h, p)
    \/ \E names \in SUBSET Names : handle_delete_proxies(h, names)
    \/ \E n \in Names : handle_set_general_proxy(h, n)
    \/ store_name(h) \/ store_map(h)

UpdateGlobalPool(h) ==
    \/ load_proxies(h) \/ load_name(h) \/ store_default(h) \/ store_clients(h)
    \/ store_general(h) \/ general_clients(h) \/ general_proxies(h)
    \/ lookup(h) \/ store_client(h)

Save(t) ==
    \/ save_proxies(t) \/ save_name(t) \/ open(t) \/ set_len(t)
    \/ save_error(t) \/ map(t) \/ copy(t)

Next ==
    \/ \E h \in Handlers : Handle(h) \/ UpdateGlobalPool(h)
    \/ \E t \in Tasks : Save(t)
    \/ shutdown
    \/ restart

Spec == Init /\ [][Next]_vars

-----------------------------------------------------------------------------

TypeOK ==
    /\ proxies \in Maps
    /\ general \in Names
    /\ clients \subseteq Configs
    /\ general_client \in Configs
    /\ file \in [len : Nat, data : [p : Maps, g : Names] \cup {None}]
    /\ raced \subseteq Busy
    /\ kept \subseteq Names
    /\ mishap \in BOOLEAN
    /\ fault \in Faults \cup {None}

\* What set_general asks of its caller (the comment above it): the general
\* name is in the map and the map's setting has a client.  A request that sets
\* an empty map breaks it with nobody else at work.
SetGeneralPrecondition ==
    \A h \in Handlers : pc[h] = "lookup" => Found(h)

\* Nothing unchecked goes wrong in a task that met no other one, whatever races
\* and crashes came before it, unless it was given an empty map.
FaultNeedsRaceOrEmptyMap ==
    /\ fault = "set_general" =>
          \E h \in Handlers : pc[h] = "lookup" /\ ~Found(h) /\ (h \in raced \/ loc[h].c = {})
    /\ fault \in {"copy_from_slice", "bus_error"} =>
          \E t \in raced : pc[t] \in {"map", "copy"}

\* The four cells and the file agree.
Consistent ==
    /\ general \in DOMAIN proxies
    /\ clients = Range(proxies)
    /\ general_client = proxies[general]
    /\ file.data = [p |-> proxies, g |-> general]

\* One request that is served without meeting another leaves cells and file
\* in agreement, even if earlier races and failed saves had left them apart.
SoloRequestRepairs ==
    [][\A h \in Handlers :
          (pc[h] = "copy" /\ pc'[h] = "idle" /\ h \notin raced /\ fault' = None /\ ~restart)
          => Consistent']_vars

\* A file that holds less than a pool is being written, or a save failed
\* halfway or met another one; else it was read by a restart that cut a save.
FileIsWholeBetweenSaves ==
    file.data = None => Saving # {} \/ mishap \/ fault = "from_bytes"

\* A proxy whose addition was answered, and met no other request, is there
\* until a request deletes it or sets all anew: neither the races of others
\* nor a crash takes it away.
SoloAdditionLasts ==
    fault = None => kept \subseteq DOMAIN proxies

=============================================================================
