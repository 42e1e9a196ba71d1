----------------------------- MODULE AppConfig ------------------------------
(***************************************************************************)
(* The configuration of src/src/app/model/config.rs and the handlers of    *)
(* core/route/config.rs.  Memory holds the configuration with the text it  *)
(* was read from, and two cells derived from it: the client headers of     *)
(* cursor_version.rs and the key of dynamic_key.rs; the text is also in a  *)
(* file.  Each cell is loaded and stored atomically and nothing is locked: *)
(* a handler compares the client's hash, then awaits the file, then        *)
(* updates the cells one after the other.                                  *)
(***************************************************************************)
EXTENDS Integers, FiniteSets

CONSTANTS Texts,     \* texts a client or an operator may write
          Parse,     \* toml::from_str: the configuration of each text, or None
          Default,   \* AppConfig::default()
          Empty,     \* a file that is missing or was just truncated
          Torn,      \* a file with the end of a longer text behind a shorter one
          Handlers,  \* tasks that serve requests
          None

\* Two configurations have the same hash when they are equal.
Configs == {Default} \cup ({Parse[t] : t \in Texts} \ {None})

ASSUME ConfigAssumption ==
    /\ None \in {Parse[t] : t \in Texts}
    /\ \A c \in Configs : {"version", "platform", "secret"} \subseteq DOMAIN c
    /\ Empty \notin Texts /\ Torn \notin Texts /\ Empty # Torn

VARIABLES
    app,       \* APP_CONFIG: the configuration and its text
    headers,   \* cursor_version::INSTANCE: platform and version
    key,       \* dynamic_key::INSTANCE, named by the secret it was made from
    file,      \* the configuration file
    pc,        \* where each handler is
    req,       \* per handler: its text, the hash its client sent, the
               \* configuration it compares with, a version it has loaded
    met,       \* history: handlers that met another one or an operator
    collided,  \* history: two updates of the cells ran at a time
    excused    \* history: why the file may differ from the memory

cells == <<app, headers, key>>
history == <<met, collided, excused>>
vars == <<cells, file, pc, req, history>>

NoRequest == [text |-> Empty, hash |-> None, guard |-> None, version |-> None]

Busy == {h \in Handlers : pc[h] # "idle"}
Updating == {h \in Handlers : pc[h] \in {"version", "platform", "secret", "store"}}

\* What a file with that text is read as.
Read(t) == IF t \in Texts THEN Parse[t] ELSE None

\* AppConfig::init: a file that cannot be read gives the default and no text.
Started(t) ==
    IF Read(t) = None THEN [config |-> Default, text |-> Empty]
                      ELSE [config |-> Read(t), text |-> t]
Headers(c) == [platform |-> c.platform, version |-> c.version]

Init ==
    /\ file \in Texts \cup {Empty}
    /\ app = Started(file)
    /\ headers = Headers(app.config)
    /\ key = app.config.secret
    /\ pc = [h \in Handlers |-> "idle"]
    /\ req = [h \in Handlers |-> NoRequest]
    /\ met = {}
    /\ collided = FALSE
    /\ excused = (Read(file) = None)

-----------------------------------------------------------------------------

\* Mutant: the hash is only looked for.
Modified_never(hash) == FALSE

\* The client has not seen the current configuration: PRECONDITION_FAILED.
Modified(hash) == hash # app.config

\* A request is taken up, with the hash its client got some time before.
\* Whoever is at work meets it.
checkhash(h, hash, next, text) ==
    /\ pc[h] = "idle"
    /\ ~Modified(hash)
    /\ pc' = [pc EXCEPT ![h] = next]
    /\ req' = [req EXCEPT ![h].text = text, ![h].hash = hash]
    /\ met' = IF Busy = {} THEN met ELSE met \cup Busy \cup {h}
    /\ excused' = (excused \/ Busy # {})
    /\ UNCHANGED <<cells, file, collided>>

handle_set_config(h, hash, t) == Parse[t] # None /\ checkhash(h, hash, "open", t)

handle_reload_config(h, hash) == checkhash(h, hash, "read", Empty)

Step(h, from, to) ==
    /\ pc[h] = from
    /\ pc' = [pc EXCEPT ![h] = to]

Finish(h) ==
    /\ pc' = [pc EXCEPT ![h] = "idle"]
    /\ req' = [req EXCEPT ![h] = NoRequest]
    /\ met' = met \ {h}

\* tokio::fs::write on a blocking thread: open with truncation, then write.
truncate(h) ==
    /\ Step(h, "open", "write")
    /\ file' = Empty
    /\ UNCHANGED <<cells, req, history>>

\* Mutant: the file is not written.
Written_not(t) == {file}

\* Two writers of one file both begin at its start.
Written(t) == IF file \in {Empty, t} THEN {t} ELSE {t, Torn}

write(h) ==
    /\ Step(h, "write", "update")
    /\ file' \in Written(req[h].text)
    /\ UNCHANGED <<cells, req, history>>

\* The write fails; or the client is gone when it ends, and with it the rest of
\* the handler.
give_up(h) ==
    /\ pc[h] \in {"open", "write", "update"}
    /\ excused' = (excused \/ pc[h] # "open")
    /\ Finish(h)
    /\ UNCHANGED <<cells, file, collided>>

\* read_to_string and the parser.
read(h) ==
    \/ /\ Step(h, "read", "update")
       /\ Read(file) # None
       /\ req' = [req EXCEPT ![h].text = file]
       /\ UNCHANGED <<cells, file, history>>
    \/ /\ pc[h] = "read"
       /\ Finish(h)                          \* an error, of the file or the text
       /\ UNCHANGED <<cells, file, collided, excused>>

-----------------------------------------------------------------------------
\* AppConfig::update.

New(h) == Parse[req[h].text]

\* A solo request that succeeds makes file and memory agree again.
Succeed(h) ==
    /\ Finish(h)
    /\ excused' = (excused /\ h \in met)

\* The current configuration is loaded once and compared.
update(h) ==
    \/ /\ Step(h, "update", "version")
       /\ app.config # New(h)
       /\ req' = [req EXCEPT ![h].guard = app.config]
       /\ collided' = (collided \/ Updating # {})
       /\ UNCHANGED <<cells, file, met, excused>>
    \/ /\ pc[h] = "update"
       /\ app.config = New(h)
       /\ Succeed(h)
       /\ UNCHANGED <<cells, file, collided>>

\* Mutant: the headers are renewed for a new version only.
NeedsPlatform_not(guard, new) == FALSE

NeedsPlatform(guard, new) == guard.platform # new.platform

\* cursor_version::update, or the first half of update_platform_only.
update_version(h) ==
    LET guard == req[h].guard
        new == New(h)
    IN  \/ /\ Step(h, "version", "secret")
           /\ guard.version # new.version
           /\ headers' = Headers(new)
           /\ UNCHANGED <<app, key, file, req, history>>
        \/ /\ Step(h, "version", "platform")
           /\ guard.version = new.version
           /\ NeedsPlatform(guard, new)
           /\ req' = [req EXCEPT ![h].version = headers.version]
           /\ UNCHANGED <<cells, file, history>>
        \/ /\ Step(h, "version", "secret")
           /\ guard.version = new.version
           /\ ~NeedsPlatform(guard, new)
           /\ UNCHANGED <<cells, file, req, history>>

update_platform_only(h) ==
    /\ Step(h, "platform", "secret")
    /\ headers' = [platform |-> New(h).platform, version |-> req[h].version]
    /\ UNCHANGED <<app, key, file, req, history>>

update_secret(h) ==
    /\ Step(h, "secret", "store")
    /\ key' = IF req[h].guard.secret # New(h).secret THEN New(h).secret ELSE key
    /\ UNCHANGED <<app, headers, file, req, history>>

Stored(h) == [config |-> New(h), text |-> req[h].text]

store(h) ==
    /\ pc[h] = "store"
    /\ app' = Stored(h)
    /\ Succeed(h)
    /\ UNCHANGED <<headers, key, file, collided>>

-----------------------------------------------------------------------------

\* An operator edits the file.
edit(t) ==
    /\ file # t
    /\ file' = t
    /\ met' = met \cup Busy
    /\ excused' = TRUE
    /\ UNCHANGED <<cells, pc, req, collided>>

\* The process ends, at any moment, and a new one begins.
restart ==
    /\ app' = Started(file)
    /\ headers' = Headers(app'.config)
    /\ key' = app'.config.secret
    /\ pc' = [h \in Handlers |-> "idle"]
    /\ req' = [h \in Handlers |-> NoRequest]
    /\ met' = {}
    /\ collided' = FALSE
    /\ excused' = (Read(file) = None)
    /\ UNCHANGED file

Serve(h) ==
    \/ \E hash \in Configs, t \in Texts : handle_set_config(h, hash, t)
    \/ \E hash \in Configs : handle_reload_config(h, hash)
    \/ truncate(h) \/ write(h) \/ give_up(h) \/ read(h)
    \/ update(h) \/ update_version(h) \/ update_platform_only(h)
    \/ update_secret(h) \/ store(h)

Next ==
    \/ \E h \in Handlers : Serve(h)
    \/ \E t \in Texts : edit(t)
    \/ restart

Spec == Init /\ [][Next]_vars

-----------------------------------------------------------------------------

\* The type invariant.
TypeOK ==
    /\ app \in [config : Configs, text : Texts \cup {Empty}]
    /\ file \in Texts \cup {Empty, Torn}
    /\ met \subseteq Busy
    /\ {collided, excused} \subseteq BOOLEAN

\* The headers and the key are those of the configuration whenever no update
\* is under way, unless two updates ran at a time: the partial comparisons of
\* update never leave a derived cell behind, also if requests overlap while
\* they wait for the file.
CellsAgreeUnlessUpdatesCollide ==
    (Updating = {} /\ ~collided) =>
        headers = Headers(app.config) /\ key = app.config.secret

\* What is in the file is what the service runs with, and what the next start
\* will run with, unless requests overlapped, a write failed or lost its
\* client, or an operator edited it since the last request that went alone.
FileAgreesUnlessExcused ==
    (Busy = {} /\ ~excused) => Read(file) = app.config

\* A client that does not know the current configuration never replaces it
\* ("Config has been modified by others"), unless requests overlap: the hash
\* is compared before the file is awaited and not again after it.
NobodyIsOverwritten ==
    [][\A h \in Handlers :
          (pc[h] = "store" /\ app' = Stored(h) /\ h \notin met /\ ~restart)
          => req[h].hash = app.config]_vars

=============================================================================
