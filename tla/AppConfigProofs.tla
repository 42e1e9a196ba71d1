-------------------------- MODULE AppConfigProofs ---------------------------
(***************************************************************************)
(* Proofs about AppConfig, for any texts, configurations and handlers.     *)
(*                                                                         *)
(* The inductive invariant has three parts.  CellsInv follows the one      *)
(* update that is under way through its stores.  SoloInv says that a       *)
(* handler that met nobody is the only one at work, still has the          *)
(* configuration its client knew in front of it, and how far the file has  *)
(* come.  FileInv says that the file agrees with the memory whenever       *)
(* nothing excuses it and nobody is between truncation and store.          *)
(***************************************************************************)
EXTENDS AppConfig, TLAPS

Versions == {c.version : c \in Configs} \cup {None}
Platforms == {c.platform : c \in Configs}
Secrets == {c.secret : c \in Configs}

Places == {"idle", "open", "write", "read", "update", "version", "platform", "secret", "store"}

Request == [text : Texts \cup {Empty}, hash : Configs \cup {None},
            guard : Configs \cup {None}, version : Versions]

TypeInv ==
    /\ TypeOK
    /\ headers \in [platform : Platforms, version : Versions]
    /\ key \in Secrets
    /\ pc \in [Handlers -> Places]
    /\ req \in [Handlers -> Request]

\* The places where a handler has a text that parses.
HasText(h) == pc[h] \in {"open", "write", "update", "version", "platform", "secret", "store"}

TextsInv == \A h \in Handlers : HasText(h) => req[h].text \in Texts /\ Parse[req[h].text] # None

InUpdate(h) == pc[h] \in {"version", "platform", "secret", "store"}

\* What the derived cells hold while h updates them.
Stage(h) ==
    /\ req[h].guard = app.config
    /\ pc[h] \in {"version", "platform"} => headers = Headers(app.config)
    /\ pc[h] = "platform" => /\ req[h].version = app.config.version
                             /\ app.config.version = New(h).version
    /\ pc[h] \in {"secret", "store"} => headers = Headers(New(h))
    /\ pc[h] \in {"version", "platform", "secret"} => key = app.config.secret
    /\ pc[h] = "store" => key = New(h).secret

CellsInv ==
    ~collided =>
        /\ \A g, h \in Handlers : InUpdate(g) /\ InUpdate(h) => g = h
        /\ \A h \in Handlers : InUpdate(h) => Stage(h)
        /\ (\A h \in Handlers : ~InUpdate(h)) =>
              headers = Headers(app.config) /\ key = app.config.secret

SoloInv ==
    \A h \in Handlers :
        (pc[h] # "idle" /\ h \notin met) =>
            /\ \A g \in Handlers : pc[g] # "idle" => g = h
            /\ req[h].hash = app.config
            /\ pc[h] = "write" => file = Empty
            /\ (pc[h] = "update" \/ InUpdate(h)) => file = req[h].text

FileInv ==
    ~excused =>
        /\ met = {}
        /\ (\A h \in Handlers : pc[h] \in {"idle", "open", "read"}) => Read(file) = app.config

IInv == TypeInv /\ TextsInv /\ CellsInv /\ SoloInv /\ FileInv

-----------------------------------------------------------------------------

\* The parts of a configuration, whether it is the default or was parsed.
LEMMA ConfigParts ==
    /\ Default \in Configs
    /\ \A t \in Texts : Parse[t] # None => Parse[t] \in Configs
    /\ \A c \in Configs : c.version \in Versions /\ c.platform \in Platforms /\ c.secret \in Secrets
    /\ None \in Versions
BY DEF Configs, Versions, Platforms, Secrets

\* What a request that passes the check of the hash keeps is a request.
LEMMA RequestWith ==
  ASSUME NEW r \in Request, NEW t \in Texts \cup {Empty}, NEW c \in Configs
  PROVE  [r EXCEPT !.text = t, !.hash = c] \in Request
<1>1. [r EXCEPT !.text = t] \in Request
  BY DEF Request
<1>2. \A q \in Request : [q EXCEPT !.hash = c] \in Request
  BY DEF Request
<1>3. [r EXCEPT !.text = t, !.hash = c] = [[r EXCEPT !.text = t] EXCEPT !.hash = c]
  OBVIOUS
<1> QED BY <1>1, <1>2, <1>3

\* handle_set_config: a handler that starts alone has compared the current configuration.
LEMMA SetConfigKeepsInv ==
  ASSUME NEW h \in Handlers, NEW hash \in Configs, NEW t \in Texts, IInv, handle_set_config(h, hash, t)
  PROVE  IInv'
<1> USE ConfigAssumption DEF handle_set_config, checkhash, Modified, Busy, cells, history
<1> USE DEF IInv
<1>1. TypeInv'
  <2>1. /\ app' \in [config : Configs, text : Texts \cup {Empty}]
        /\ file' \in Texts \cup {Empty, Torn}
    BY ConfigParts DEF TypeInv, TypeOK, Request, New, Read, TextsInv, HasText, Started
  <2>2. headers' \in [platform : Platforms, version : Versions] /\ key' \in Secrets
    BY ConfigParts DEF TypeInv, TypeOK, Request, New, Read, TextsInv, HasText, Started, Headers
  <2>3. pc' \in [Handlers -> Places]
    BY DEF TypeInv, Places
  <2>4. req' \in [Handlers -> Request]
    <3>1. [req[h] EXCEPT !.text = t, !.hash = hash] \in Request
      BY RequestWith DEF TypeInv
    <3> QED BY <3>1 DEF TypeInv
  <2>5. met' \subseteq Busy'
    BY DEF TypeInv, TypeOK, Busy, Places
  <2>6. collided' \in BOOLEAN /\ excused' \in BOOLEAN
    BY DEF TypeInv, TypeOK
  <2> QED BY <2>1, <2>2, <2>3, <2>4, <2>5, <2>6 DEF TypeInv, TypeOK
<1>2. TextsInv'
  BY DEF TypeInv, TypeOK, Places, Request, TextsInv, HasText, Read
<1>3. CellsInv'
  BY DEF TypeInv, TypeOK, Places, Request, CellsInv, InUpdate, Stage, New, Headers, Started
<1>4. SoloInv'
  BY DEF TypeInv, TypeOK, Places, Request, SoloInv, InUpdate, New, Busy
<1>5. FileInv'
  BY DEF TypeInv, TypeOK, Places, Request, FileInv, SoloInv, InUpdate, New, Read, TextsInv, HasText, Started, Busy
<1> QED BY <1>1, <1>2, <1>3, <1>4, <1>5

\* handle_reload_config, likewise.
LEMMA ReloadConfigKeepsInv ==
  ASSUME NEW h \in Handlers, NEW hash \in Configs, IInv, handle_reload_config(h, hash)
  PROVE  IInv'
<1> USE ConfigAssumption DEF handle_reload_config, checkhash, Modified, Busy, cells, history
<1> USE DEF IInv
<1>1. TypeInv'
  <2>1. /\ app' \in [config : Configs, text : Texts \cup {Empty}]
        /\ file' \in Texts \cup {Empty, Torn}
    BY ConfigParts DEF TypeInv, TypeOK, Request, New, Read, TextsInv, HasText, Started
  <2>2. headers' \in [platform : Platforms, version : Versions] /\ key' \in Secrets
    BY ConfigParts DEF TypeInv, TypeOK, Request, New, Read, TextsInv, HasText, Started, Headers
  <2>3. pc' \in [Handlers -> Places]
    BY DEF TypeInv, Places
  <2>4. req' \in [Handlers -> Request]
    <3>1. [req[h] EXCEPT !.text = Empty, !.hash = hash] \in Request
      BY RequestWith DEF TypeInv
    <3> QED BY <3>1 DEF TypeInv
  <2>5. met' \subseteq Busy'
    BY DEF TypeInv, TypeOK, Busy, Places
  <2>6. collided' \in BOOLEAN /\ excused' \in BOOLEAN
    BY DEF TypeInv, TypeOK
  <2> QED BY <2>1, <2>2, <2>3, <2>4, <2>5, <2>6 DEF TypeInv, TypeOK
<1>2. TextsInv'
  BY DEF TypeInv, TypeOK, Places, Request, TextsInv, HasText, Read
<1>3. CellsInv'
  BY DEF TypeInv, TypeOK, Places, Request, CellsInv, InUpdate, Stage, New, Headers, Started
<1>4. SoloInv'
  BY DEF TypeInv, TypeOK, Places, Request, SoloInv, InUpdate, New, Busy
<1>5. FileInv'
  BY DEF TypeInv, TypeOK, Places, Request, FileInv, SoloInv, InUpdate, New, Read, TextsInv, HasText, Started, Busy
<1> QED BY <1>1, <1>2, <1>3, <1>4, <1>5

\* The file is truncated; a lone handler will find it empty.
LEMMA TruncateKeepsInv ==
  ASSUME NEW h \in Handlers, IInv, truncate(h)
  PROVE  IInv'
<1> USE ConfigAssumption DEF truncate, Step, cells, history
<1> USE DEF IInv
<1>1. TypeInv'
  BY ConfigParts DEF TypeInv, TypeOK, Places, Request, Read, Busy
<1>2. TextsInv'
  BY DEF TypeInv, TypeOK, Places, Request, TextsInv, HasText, Read
<1>3. CellsInv'
  BY DEF TypeInv, TypeOK, Places, Request, CellsInv, InUpdate, Stage, New, Headers, Started
<1>4. SoloInv'
  BY DEF TypeInv, TypeOK, Places, Request, SoloInv, InUpdate, New, Busy
<1>5. FileInv'
  BY DEF TypeInv, TypeOK, Places, Request, FileInv, SoloInv, InUpdate, New, Read, TextsInv, HasText, Started, Busy
<1> QED BY <1>1, <1>2, <1>3, <1>4, <1>5

\* A lone handler writes its text into an empty file.
LEMMA WriteKeepsInv ==
  ASSUME NEW h \in Handlers, IInv, write(h)
  PROVE  IInv'
<1> USE ConfigAssumption DEF write, Step, Written, cells, history
<1> USE DEF IInv
<1>1. TypeInv'
  BY ConfigParts DEF TypeInv, TypeOK, Places, Request, Read, Busy
<1>2. TextsInv'
  BY DEF TypeInv, TypeOK, Places, Request, TextsInv, HasText, Read
<1>3. CellsInv'
  BY DEF TypeInv, TypeOK, Places, Request, CellsInv, InUpdate, Stage, New, Headers, Started
<1>4. SoloInv'
  BY DEF TypeInv, TypeOK, Places, Request, SoloInv, InUpdate, New, Busy
<1>5. FileInv'
  BY DEF TypeInv, TypeOK, Places, Request, FileInv, SoloInv, InUpdate, New, Read, TextsInv, HasText, Started, Busy
<1> QED BY <1>1, <1>2, <1>3, <1>4, <1>5

\* A handler that gives up before it opened the file has changed nothing; later, it
\* is excused.
LEMMA GiveUpKeepsInv ==
  ASSUME NEW h \in Handlers, IInv, give_up(h)
  PROVE  IInv'
<1> USE ConfigAssumption DEF give_up, Finish, NoRequest, cells, history
<1> USE DEF IInv
<1>1. TypeInv'
  BY ConfigParts DEF TypeInv, TypeOK, Places, Request, Read, Busy
<1>2. TextsInv'
  BY DEF TypeInv, TypeOK, Places, Request, TextsInv, HasText, Read
<1>3. CellsInv'
  BY DEF TypeInv, TypeOK, Places, Request, CellsInv, InUpdate, Stage, New, Headers, Started
<1>4. SoloInv'
  BY DEF TypeInv, TypeOK, Places, Request, SoloInv, InUpdate, New, Busy
<1>5. FileInv'
  <2> SUFFICES ASSUME ~excused'
               PROVE  /\ met' = {}
                      /\ (\A g \in Handlers : pc'[g] \in {"idle", "open", "read"}) =>
                            Read(file') = app'.config
    BY DEF FileInv, Read
  <2>1. ~excused /\ pc[h] = "open"
    BY DEF TypeInv, TypeOK
  <2> QED BY <2>1 DEF TypeInv, Places, FileInv, Read
<1> QED BY <1>1, <1>2, <1>3, <1>4, <1>5

\* A handler that reads the file has the file's text.
LEMMA ReadKeepsInv ==
  ASSUME NEW h \in Handlers, IInv, read(h)
  PROVE  IInv'
<1> USE ConfigAssumption DEF read, Step, Finish, NoRequest, cells, history
<1> USE DEF IInv
<1>1. TypeInv'
  <2>1. app' = app /\ headers' = headers /\ key' = key /\ file' = file
    OBVIOUS
  <2>2. pc' \in [Handlers -> Places]
    BY DEF TypeInv, TypeOK, Places
  <2>3. req' \in [Handlers -> Request]
    BY ConfigParts, SMTT(60) DEF TypeInv, TypeOK, Request, Read
  <2>4. met' \subseteq Busy' /\ collided' \in BOOLEAN /\ excused' \in BOOLEAN
    BY DEF TypeInv, TypeOK, Busy
  <2> QED BY <2>1, <2>2, <2>3, <2>4 DEF TypeInv, TypeOK
<1>2. TextsInv'
  BY DEF TypeInv, TypeOK, Places, Request, TextsInv, HasText, Read
<1>3. CellsInv'
  BY SMTT(60) DEF TypeInv, TypeOK, Places, Request, CellsInv, InUpdate, Stage, New, Headers, Started
<1>4. SoloInv'
  BY DEF TypeInv, TypeOK, Places, Request, SoloInv, InUpdate, New, Busy
<1>5. FileInv'
  BY DEF TypeInv, TypeOK, Places, Request, FileInv, SoloInv, InUpdate, New, Read, TextsInv, HasText, Started, Busy
<1> QED BY <1>1, <1>2, <1>3, <1>4, <1>5

\* The comparison: nothing differs, or an update of the cells begins, the only one
\* unless two collide.
LEMMA UpdateKeepsInv ==
  ASSUME NEW h \in Handlers, IInv, update(h)
  PROVE  IInv'
<1> USE ConfigAssumption DEF update, Step, Finish, Succeed, NoRequest, Updating, cells, history
<1> USE DEF IInv
<1>1. TypeInv'
  <2>1. /\ app' \in [config : Configs, text : Texts \cup {Empty}]
        /\ file' \in Texts \cup {Empty, Torn}
    BY ConfigParts DEF TypeInv, TypeOK, Request, New, Read, TextsInv, HasText, Started
  <2>2. headers' \in [platform : Platforms, version : Versions] /\ key' \in Secrets
    BY ConfigParts DEF TypeInv, TypeOK, Request, New, Read, TextsInv, HasText, Started, Headers
  <2>3. pc' \in [Handlers -> Places]
    BY DEF TypeInv, Places
  <2>4. req' \in [Handlers -> Request]
    BY ConfigParts DEF TypeInv, TypeOK, Request, Read
  <2>5. met' \subseteq Busy'
    BY DEF TypeInv, TypeOK, Busy, Places
  <2>6. collided' \in BOOLEAN /\ excused' \in BOOLEAN
    BY DEF TypeInv, TypeOK
  <2> QED BY <2>1, <2>2, <2>3, <2>4, <2>5, <2>6 DEF TypeInv, TypeOK
<1>2. TextsInv'
  BY DEF TypeInv, TypeOK, Places, Request, TextsInv, HasText, Read
<1>3. CellsInv'
  <2>1. CASE pc'[h] = "version"
    <3> SUFFICES ASSUME ~collided' PROVE CellsInv'
      BY DEF CellsInv
    <3>1. /\ pc' = [pc EXCEPT ![h] = "version"]
          /\ req' = [req EXCEPT ![h].guard = app.config]
          /\ UNCHANGED cells
          /\ ~collided /\ \A g \in Handlers : ~InUpdate(g)
      BY <2>1 DEF TypeInv, TypeOK, InUpdate
    <3>2. headers = Headers(app.config) /\ key = app.config.secret
      BY <3>1 DEF CellsInv
    <3>3. \A g \in Handlers : InUpdate(g)' => g = h
      BY <3>1 DEF TypeInv, InUpdate
    <3>4. Stage(h)' /\ InUpdate(h)'
      BY <3>1, <3>2 DEF TypeInv, Request, Stage, InUpdate, Headers
    <3> QED BY <3>3, <3>4 DEF CellsInv
  <2>2. CASE pc'[h] # "version"
    <3>1. /\ pc' = [pc EXCEPT ![h] = "idle"] /\ pc[h] = "update"
          /\ req' = [req EXCEPT ![h] = NoRequest]
          /\ UNCHANGED <<cells, collided>>
      BY <2>2 DEF TypeInv
    <3>2. \A g \in Handlers : InUpdate(g)' <=> InUpdate(g)
      BY <3>1 DEF TypeInv, InUpdate
    <3>3. \A g \in Handlers : InUpdate(g) => (Stage(g)' <=> Stage(g))
      BY <3>1 DEF TypeInv, InUpdate, Stage, New
    <3> QED BY <3>1, <3>2, <3>3 DEF CellsInv
  <2> QED BY <2>1, <2>2
<1>4. SoloInv'
  BY DEF TypeInv, TypeOK, Places, Request, SoloInv, InUpdate, New, Busy
<1>5. FileInv'
  BY DEF TypeInv, TypeOK, Places, Request, FileInv, SoloInv, InUpdate, New, Read, TextsInv, HasText, Started, Busy
<1> QED BY <1>1, <1>2, <1>3, <1>4, <1>5

\* The headers are renewed for a new version; else the version is the same.
LEMMA UpdateVersionKeepsInv ==
  ASSUME NEW h \in Handlers, IInv, update_version(h)
  PROVE  IInv'
<1> USE ConfigAssumption DEF update_version, Step, NeedsPlatform, cells, history
<1> USE DEF IInv
<1>1. TypeInv'
  <2>1. /\ app' \in [config : Configs, text : Texts \cup {Empty}]
        /\ file' \in Texts \cup {Empty, Torn}
    BY ConfigParts DEF TypeInv, TypeOK, Request, New, Read, TextsInv, HasText, Started
  <2>2. headers' \in [platform : Platforms, version : Versions] /\ key' \in Secrets
    BY ConfigParts DEF TypeInv, TypeOK, Request, New, Read, TextsInv, HasText, Started, Headers
  <2>3. pc' \in [Handlers -> Places]
    BY DEF TypeInv, Places
  <2>4. req' \in [Handlers -> Request]
    BY ConfigParts DEF TypeInv, TypeOK, Request, Read
  <2>5. met' \subseteq Busy'
    BY DEF TypeInv, TypeOK, Busy, Places
  <2>6. collided' \in BOOLEAN /\ excused' \in BOOLEAN
    BY DEF TypeInv, TypeOK
  <2> QED BY <2>1, <2>2, <2>3, <2>4, <2>5, <2>6 DEF TypeInv, TypeOK
<1>2. TextsInv'
  BY DEF TypeInv, TypeOK, Places, Request, TextsInv, HasText, Read
<1>3. CellsInv'
  BY DEF TypeInv, TypeOK, Places, Request, CellsInv, InUpdate, Stage, New, Headers, Started
<1>4. SoloInv'
  BY DEF TypeInv, TypeOK, Places, Request, SoloInv, InUpdate, New, Busy
<1>5. FileInv'
  BY DEF TypeInv, TypeOK, Places, Request, FileInv, SoloInv, InUpdate, New, Read, TextsInv, HasText, Started, Busy
<1> QED BY <1>1, <1>2, <1>3, <1>4, <1>5

\* The new platform with the version that was loaded, which is the new one too.
LEMMA UpdatePlatformKeepsInv ==
  ASSUME NEW h \in Handlers, IInv, update_platform_only(h)
  PROVE  IInv'
<1> USE ConfigAssumption DEF update_platform_only, Step, cells, history
<1> USE DEF IInv
<1>1. TypeInv'
  <2>1. /\ app' \in [config : Configs, text : Texts \cup {Empty}]
        /\ file' \in Texts \cup {Empty, Torn}
    BY ConfigParts DEF TypeInv, TypeOK, Request, New, Read, TextsInv, HasText, Started
  <2>2. headers' \in [platform : Platforms, version : Versions] /\ key' \in Secrets
    BY ConfigParts DEF TypeInv, TypeOK, Request, New, Read, TextsInv, HasText, Started, Headers
  <2>3. pc' \in [Handlers -> Places]
    BY DEF TypeInv, Places
  <2>4. req' \in [Handlers -> Request]
    BY ConfigParts DEF TypeInv, TypeOK, Request, Read
  <2>5. met' \subseteq Busy'
    BY DEF TypeInv, TypeOK, Busy, Places
  <2>6. collided' \in BOOLEAN /\ excused' \in BOOLEAN
    BY DEF TypeInv, TypeOK
  <2> QED BY <2>1, <2>2, <2>3, <2>4, <2>5, <2>6 DEF TypeInv, TypeOK
<1>2. TextsInv'
  BY DEF TypeInv, TypeOK, Places, Request, TextsInv, HasText, Read
<1>3. CellsInv'
  BY DEF TypeInv, TypeOK, Places, Request, CellsInv, InUpdate, Stage, New, Headers, Started
<1>4. SoloInv'
  BY DEF TypeInv, TypeOK, Places, Request, SoloInv, InUpdate, New, Busy
<1>5. FileInv'
  BY DEF TypeInv, TypeOK, Places, Request, FileInv, SoloInv, InUpdate, New, Read, TextsInv, HasText, Started, Busy
<1> QED BY <1>1, <1>2, <1>3, <1>4, <1>5

\* The key is renewed unless the secret is the same.
LEMMA UpdateSecretKeepsInv ==
  ASSUME NEW h \in Handlers, IInv, update_secret(h)
  PROVE  IInv'
<1> USE ConfigAssumption DEF update_secret, Step, cells, history
<1> USE DEF IInv
<1>1. TypeInv'
  <2>1. /\ app' \in [config : Configs, text : Texts \cup {Empty}]
        /\ file' \in Texts \cup {Empty, Torn}
    BY ConfigParts DEF TypeInv, TypeOK, Request, New, Read, TextsInv, HasText, Started
  <2>2. headers' \in [platform : Platforms, version : Versions] /\ key' \in Secrets
    BY ConfigParts DEF TypeInv, TypeOK, Request, New, Read, TextsInv, HasText, Started, Headers
  <2>3. pc' \in [Handlers -> Places]
    BY DEF TypeInv, Places
  <2>4. req' \in [Handlers -> Request]
    BY ConfigParts DEF TypeInv, TypeOK, Request, Read
  <2>5. met' \subseteq Busy'
    BY DEF TypeInv, TypeOK, Busy, Places
  <2>6. collided' \in BOOLEAN /\ excused' \in BOOLEAN
    BY DEF TypeInv, TypeOK
  <2> QED BY <2>1, <2>2, <2>3, <2>4, <2>5, <2>6 DEF TypeInv, TypeOK
<1>2. TextsInv'
  BY DEF TypeInv, TypeOK, Places, Request, TextsInv, HasText, Read
<1>3. CellsInv'
  BY DEF TypeInv, TypeOK, Places, Request, CellsInv, InUpdate, Stage, New, Headers, Started
<1>4. SoloInv'
  BY DEF TypeInv, TypeOK, Places, Request, SoloInv, InUpdate, New, Busy
<1>5. FileInv'
  BY DEF TypeInv, TypeOK, Places, Request, FileInv, SoloInv, InUpdate, New, Read, TextsInv, HasText, Started, Busy
<1> QED BY <1>1, <1>2, <1>3, <1>4, <1>5

\* The configuration is stored: the cells agree, and a lone handler leaves the file
\* in agreement.
LEMMA StoreKeepsInv ==
  ASSUME NEW h \in Handlers, IInv, store(h)
  PROVE  IInv'
<1> USE ConfigAssumption DEF store, Stored, Finish, Succeed, NoRequest, cells, history
<1> USE DEF IInv
<1>1. TypeInv'
  <2>1. /\ app' \in [config : Configs, text : Texts \cup {Empty}]
        /\ file' \in Texts \cup {Empty, Torn}
    BY ConfigParts DEF TypeInv, TypeOK, Request, New, Read, TextsInv, HasText, Started
  <2>2. headers' \in [platform : Platforms, version : Versions] /\ key' \in Secrets
    BY ConfigParts DEF TypeInv, TypeOK, Request, New, Read, TextsInv, HasText, Started, Headers
  <2>3. pc' \in [Handlers -> Places]
    BY DEF TypeInv, Places
  <2>4. req' \in [Handlers -> Request]
    BY ConfigParts DEF TypeInv, TypeOK, Request, Read
  <2>5. met' \subseteq Busy'
    BY DEF TypeInv, TypeOK, Busy, Places
  <2>6. collided' \in BOOLEAN /\ excused' \in BOOLEAN
    BY DEF TypeInv, TypeOK
  <2> QED BY <2>1, <2>2, <2>3, <2>4, <2>5, <2>6 DEF TypeInv, TypeOK
<1>2. TextsInv'
  BY DEF TypeInv, TypeOK, Places, Request, TextsInv, HasText, Read
<1>3. CellsInv'
  BY DEF TypeInv, TypeOK, Places, Request, CellsInv, InUpdate, Stage, New, Headers, Started
<1>4. SoloInv'
  BY DEF TypeInv, TypeOK, Places, Request, SoloInv, InUpdate, New, Busy
<1>5. FileInv'
  BY DEF TypeInv, TypeOK, Places, Request, FileInv, SoloInv, InUpdate, New, Read, TextsInv, HasText, Started, Busy
<1> QED BY <1>1, <1>2, <1>3, <1>4, <1>5

\* An operator's edit is met by everybody at work and excuses the file.
LEMMA EditKeepsInv ==
  ASSUME NEW t \in Texts, IInv, edit(t)
  PROVE  IInv'
<1> USE ConfigAssumption DEF edit, Busy, cells, history
<1> USE DEF IInv
<1>1. TypeInv'
  BY ConfigParts DEF TypeInv, TypeOK, Places, Request, Read, Busy
<1>2. TextsInv'
  BY DEF TypeInv, TypeOK, Places, Request, TextsInv, HasText, Read
<1>3. CellsInv'
  BY DEF TypeInv, TypeOK, Places, Request, CellsInv, InUpdate, Stage, New, Headers, Started
<1>4. SoloInv'
  BY DEF TypeInv, TypeOK, Places, Request, SoloInv, InUpdate, New, Busy
<1>5. FileInv'
  BY DEF TypeInv, TypeOK, Places, Request, FileInv, SoloInv, InUpdate, New, Read, TextsInv, HasText, Started, Busy
<1> QED BY <1>1, <1>2, <1>3, <1>4, <1>5

\* A restart reads file, configuration, headers and key from one text.
LEMMA RestartKeepsInv ==
  ASSUME IInv, restart
  PROVE  IInv'
<1> USE ConfigAssumption DEF restart, NoRequest, cells, history
<1> USE DEF IInv
<1>1. TypeInv'
  <2>1. /\ app' \in [config : Configs, text : Texts \cup {Empty}]
        /\ file' \in Texts \cup {Empty, Torn}
    BY ConfigParts DEF TypeInv, TypeOK, Request, New, Read, TextsInv, HasText, Started
  <2>2. headers' \in [platform : Platforms, version : Versions] /\ key' \in Secrets
    BY ConfigParts DEF TypeInv, TypeOK, Request, New, Read, TextsInv, HasText, Started, Headers
  <2>3. pc' \in [Handlers -> Places]
    BY DEF TypeInv, Places
  <2>4. req' \in [Handlers -> Request]
    BY ConfigParts DEF TypeInv, TypeOK, Request, Read
  <2>5. met' \subseteq Busy'
    BY DEF TypeInv, TypeOK, Busy, Places
  <2>6. collided' \in BOOLEAN /\ excused' \in BOOLEAN
    BY DEF TypeInv, TypeOK
  <2> QED BY <2>1, <2>2, <2>3, <2>4, <2>5, <2>6 DEF TypeInv, TypeOK
<1>2. TextsInv'
  BY DEF TypeInv, TypeOK, Places, Request, TextsInv, HasText, Read
<1>3. CellsInv'
  BY DEF TypeInv, TypeOK, Places, Request, CellsInv, InUpdate, Stage, New, Headers, Started
<1>4. SoloInv'
  BY DEF TypeInv, TypeOK, Places, Request, SoloInv, InUpdate, New, Busy
<1>5. FileInv'
  BY DEF TypeInv, TypeOK, Places, Request, FileInv, SoloInv, InUpdate, New, Read, TextsInv, HasText, Started, Busy
<1> QED BY <1>1, <1>2, <1>3, <1>4, <1>5

-----------------------------------------------------------------------------

\* The invariant holds at the start.
LEMMA InitIInv == Init => IInv
<1> SUFFICES ASSUME Init PROVE IInv
  OBVIOUS
<1> USE ConfigAssumption DEF Init
<1>1. TypeInv
  BY ConfigParts DEF TypeInv, TypeOK, Places, Request, NoRequest, Started, Read, Headers, Busy
<1>2. TextsInv /\ CellsInv /\ SoloInv
  BY DEF TextsInv, HasText, CellsInv, InUpdate, SoloInv
<1>3. FileInv
  BY DEF FileInv, Started, Read
<1> QED BY <1>1, <1>2, <1>3 DEF IInv

\* Every step keeps the invariant.
LEMMA NextIInv == IInv /\ [Next]_vars => IInv'
<1> SUFFICES ASSUME IInv, [Next]_vars PROVE IInv'
  OBVIOUS
<1>1. ASSUME NEW h \in Handlers, Serve(h) PROVE IInv'
  BY <1>1, SetConfigKeepsInv, ReloadConfigKeepsInv, TruncateKeepsInv, WriteKeepsInv,
     GiveUpKeepsInv, ReadKeepsInv, UpdateKeepsInv, UpdateVersionKeepsInv, UpdatePlatformKeepsInv,
     UpdateSecretKeepsInv, StoreKeepsInv DEF Serve
<1>2. ASSUME NEW t \in Texts, edit(t) PROVE IInv'
  BY <1>2, EditKeepsInv
<1>3. CASE restart
  BY <1>3, RestartKeepsInv
<1>4. CASE UNCHANGED vars
  BY <1>4 DEF vars, cells, history, IInv, TypeInv, TypeOK, Busy, TextsInv, HasText, CellsInv,
     InUpdate, Stage, New, SoloInv, FileInv
<1> QED BY <1>1, <1>2, <1>3, <1>4 DEF Next

\* The invariant holds always.
LEMMA Invariance == Spec => []IInv
BY InitIInv, NextIInv, PTL DEF Spec

\* Whatever requests overlap while they wait for the file, whatever fails and
\* wherever the process restarts: while at most one update of the cells is under
\* way at a time, the headers and the key are those of the configuration once it
\* is over.
THEOREM CellsAgree == Spec => []CellsAgreeUnlessUpdatesCollide
<1>1. IInv => CellsAgreeUnlessUpdatesCollide
  BY DEF IInv, CellsInv, InUpdate, CellsAgreeUnlessUpdatesCollide, Updating
<1> QED BY <1>1, Invariance, PTL

\* The file holds the configuration the service runs with whenever it is idle,
\* unless requests overlapped, a write failed or lost its client, or an operator
\* edited the file since the last request that went alone.
THEOREM FileAgrees == Spec => []FileAgreesUnlessExcused
<1>1. IInv => FileAgreesUnlessExcused
  BY DEF IInv, FileInv, FileAgreesUnlessExcused, Busy
<1> QED BY <1>1, Invariance, PTL

\* A request that meets no other one replaces the very configuration its client
\* has seen: the hash that was compared before the file was awaited still holds
\* when the configuration is stored.
THEOREM NobodyOverwritten == Spec => NobodyIsOverwritten
<1>1. IInv => (\A h \in Handlers : (pc[h] = "store" /\ h \notin met) => req[h].hash = app.config)
  BY DEF IInv, SoloInv
<1>2. IInv /\ [Next]_vars =>
        [\A h \in Handlers :
          (pc[h] = "store" /\ app' = Stored(h) /\ h \notin met /\ ~restart)
          => req[h].hash = app.config]_vars
  BY <1>1
<1> QED BY <1>2, Invariance, PTL DEF Spec, NobodyIsOverwritten

=============================================================================
