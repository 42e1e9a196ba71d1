---------------------------- MODULE TokenService ----------------------------
(***************************************************************************)
(* The token manager in its service: the management handlers, which save   *)
(* the tokens at their end, a restart, which loads them, and the usage     *)
(* checks that requests leave behind (core/service.rs).  A usage check is  *)
(* a task of its own that comes back to the manager three times, under     *)
(* three different locks, with a slot number it read under the first.      *)
(* The manager and its operations are those of TokenManager.               *)
(***************************************************************************)
EXTENDS TokenManager

CONSTANT Checks   \* tasks that run usage checks

\* What a usage check has read: the key it was made for, the slot of that key,
\* whether the slot has no name, and the alias that the profile proposes.
UsageCheck ==
    [at : {"alias", "profile", "rename"}, key : Keys, id : Ids,
     unnamed : BOOLEAN, alias : Names \cup {UNNAMED, None}]

ASSUME CheckAssumption == None \notin UsageCheck

VARIABLES
    check,       \* per task: what it has read so far, or None
    saved,       \* the token file: TokenInfoHelpers, in the order of their slots
    torn,        \* the file is cut short: there is no root to read
    checkfault,  \* a usage check accessed an empty slot without a check
    down,        \* a new process was killed reading a torn file
    dirty,       \* history: a change is not saved, or the last save failed
    duplicated,  \* history: two live tokens had one key
    stale        \* history: checks whose slot got another token, key or alias

fileVars == <<saved, torn>>
serviceVars == <<check, fileVars, checkfault, down>>
history == <<duplicated, stale>>
allVars == <<vars, serviceVars, dirty, history>>

\* The numbers of a set in their order.
InOrder(S) ==
    [i \in 1 .. Cardinality(S) |->
        CHOOSE x \in S : Cardinality({y \in S : y < x}) = i - 1]

LiveIds == InOrder({id \in Ids : tokens[id] # None})

\* Mutant: the aliases are not saved.
Snapshot_unnamed ==
    [i \in DOMAIN LiveIds |-> [info |-> tokens[LiveIds[i]], alias |-> UNNAMED]]

\* TokenManager::save: the live tokens with their aliases.
Snapshot ==
    [i \in DOMAIN LiveIds |->
        [info |-> tokens[LiveIds[i]], alias |-> id_to_alias[LiveIds[i]]]]

ServiceInit ==
    /\ Init
    /\ check = [c \in Checks |-> None]
    /\ saved = <<>>
    /\ torn = FALSE
    /\ checkfault = FALSE
    /\ down = FALSE
    /\ dirty = FALSE
    /\ duplicated = FALSE
    /\ stale = {}

\* The slot that check c has read gets another token, key or alias.
Touched(c) ==
    LET id == check[c].id
        key(t) == IF t = None THEN None ELSE t.key
    IN  \/ key(tokens[id]) # key(tokens'[id])
        \/ id_to_alias[id] # id_to_alias'[id]

Remember(others) ==
    /\ duplicated' = (duplicated \/ ~DistinctKeys')
    /\ stale' = stale \cup {c \in others : check[c] # None /\ Touched(c)}

\* TokenManager::save to its end.
Saved == saved' = Snapshot' /\ torn' = FALSE /\ dirty' = FALSE

\* It fails, is dropped with its request or is killed: before the file is
\* opened, which truncates it; before it has its length again; before the copy
\* (the file is all zeros, and reads as one without tokens); in the flush.
NotSaved ==
    /\ dirty' = TRUE
    /\ \/ UNCHANGED fileVars
       \/ saved' = <<>> /\ torn' = TRUE
       \/ saved' = <<>> /\ torn' = FALSE
       \/ saved' = Snapshot' /\ torn' = FALSE

\* A management handler: an operation of the manager, and under the same lock,
\* after the handler's last one, the save.
Manage ==
    /\ ~checkfault
    /\ Write
    /\ Saved \/ NotSaved
    /\ Remember(Checks)
    /\ UNCHANGED <<check, checkfault, down>>

\* The shutdown saves what the usage checks have changed since.
save ==
    /\ fault = None /\ ~checkfault
    /\ UNCHANGED <<vars, check, checkfault, down, history>>
    /\ Saved \/ NotSaved

-----------------------------------------------------------------------------

\* Mutant: the saved alias of an unnamed token is kept.
LoadedAlias_kept(i) == saved[i].alias

\* TokenManager::load adds the saved tokens to a new manager in their order.
LoadedAlias(i) == Resolve(saved[i].alias, i - 1)

\* The last of several tokens with a key.
LastOf(k) ==
    LET I == {i \in DOMAIN saved : saved[i].info.key = k}
    IN  IF I = {} THEN None ELSE Max(I) - 1

load ==
    /\ tokens' = [id \in Ids |-> IF id < Len(saved) THEN saved[id + 1].info ELSE None]
    /\ size' = Len(saved)
    /\ id_map' = [k \in Keys |-> LastOf(k)]
    /\ alias_map' = [a \in Aliases |->
          IF \E i \in DOMAIN saved : LoadedAlias(i) = a
            THEN (CHOOSE i \in DOMAIN saved : LoadedAlias(i) = a) - 1 ELSE None]
    /\ id_to_alias' = [id \in Ids |-> IF id < Len(saved) THEN LoadedAlias(id + 1) ELSE None]
    /\ free_ids' = <<>>
    /\ vec' = [i \in DOMAIN saved |-> i - 1]
    /\ map' = [k \in Keys |-> LastOf(k)]

\* The process ends, at any moment, and a new one begins.
restart ==
    /\ fault = None /\ ~checkfault
    /\ ~torn
    /\ load
    /\ heads' = [q \in QueueTypes |-> 0]
    /\ reading' = [r \in Readers |-> None]
    /\ check' = [c \in Checks |-> None]
    /\ stale' = {}
    /\ duplicated' = (duplicated \/ ~DistinctKeys')
    /\ dirty' = FALSE
    /\ UNCHANGED <<fault, fileVars, checkfault, down>>

\* The new one finds a file without a root: from_bytes_unchecked reads behind
\* its end and the process is killed.
restart_torn ==
    /\ fault = None /\ ~checkfault
    /\ torn
    /\ down' = TRUE
    /\ UNCHANGED <<vars, check, fileVars, checkfault, dirty, history>>

-----------------------------------------------------------------------------
\* The usage check of a request with the token of key k, once the profile has
\* been fetched.

lookup(c, k) ==
    /\ fault = None /\ ~checkfault
    /\ check[c] = None
    /\ id_map[k] # None                      \* else the task is done
    /\ check' = [check EXCEPT ![c] =
          [at |-> "alias", key |-> k, id |-> id_map[k], unnamed |-> FALSE, alias |-> None]]
    /\ stale' = stale \ {c}
    /\ UNCHANGED <<vars, fileVars, checkfault, down, dirty, duplicated>>

\* Mutant: the alias is not looked at.
read_alias_not(c) ==
    /\ fault = None /\ ~checkfault
    /\ check[c] # None /\ check[c].at = "alias"
    /\ check' = [check EXCEPT ![c].at = "profile", ![c].unnamed = TRUE]
    /\ UNCHANGED <<vars, fileVars, checkfault, down, dirty, history>>

read_alias(c) ==
    /\ fault = None /\ ~checkfault
    /\ check[c] # None /\ check[c].at = "alias"
    /\ LET alias == id_to_alias[check[c].id]
       IN  IF alias = None
             THEN checkfault' = TRUE /\ UNCHANGED check
             ELSE /\ check' = [check EXCEPT ![c].at = "profile",
                                            ![c].unnamed = (alias \in UnnamedAliases)]
                  /\ UNCHANGED checkfault
    /\ UNCHANGED <<vars, fileVars, down, dirty, history>>

\* The profile is stored in the slot; alias is what the profile proposes.
write_profile(c, alias) ==
    /\ ~checkfault
    /\ check[c] # None /\ check[c].at = "profile"
    /\ WriteLock
    /\ IF tokens[check[c].id] = None
         THEN checkfault' = TRUE /\ UNCHANGED check
         ELSE /\ check' = IF check[c].unnamed /\ alias # None
                            THEN [check EXCEPT ![c].at = "rename", ![c].alias = alias]
                            ELSE [check EXCEPT ![c] = None]
              /\ UNCHANGED checkfault
    /\ UNCHANGED <<managerVars, queueVars, heads, fault, fileVars, down, dirty, history>>

\* set_alias, whose error is ignored.
rename(c) ==
    /\ ~checkfault
    /\ check[c] # None /\ check[c].at = "rename"
    /\ LET id == check[c].id
           alias == check[c].alias
       IN  \/ set_alias(id, alias) /\ dirty' = TRUE
           \/ /\ WriteLock
              /\ tokens[id] = None \/ alias_map[Resolve(alias, id)] # None
              /\ UNCHANGED <<vars, dirty>>
    /\ Remember(Checks \ {c})
    /\ check' = [check EXCEPT ![c] = None]
    /\ UNCHANGED <<fileVars, checkfault, down>>

Check(c) ==
    \/ \E k \in Keys : lookup(c, k)
    \/ read_alias(c)
    \/ \E alias \in Names \cup {UNNAMED, None} : write_profile(c, alias)
    \/ rename(c)

ServiceNext ==
    /\ ~down
    /\ \/ Manage \/ save \/ restart \/ restart_torn
       \/ \E c \in Checks : Check(c)

ServiceSpec == ServiceInit /\ [][ServiceNext]_allVars

-----------------------------------------------------------------------------

\* A manager's own unchecked access goes wrong only after two live tokens had
\* one key, which the comments in queue.rs and token.rs take for impossible.
FaultNeedsDuplicateKeys == fault # None => duplicated

\* As long as nobody touched its slot, a usage check works on the token it was
\* made for, and only renames it while it has no name: stored slot numbers go
\* stale by removal, replacement, re-keying and renaming alone.
CheckWorksOnItsToken ==
    \A c \in Checks :
        (check[c] # None /\ c \notin stale /\ ~duplicated) =>
            LET id == check[c].id
            IN  /\ tokens[id] # None
                /\ tokens[id].key = check[c].key
                /\ id_to_alias[id] # None
                /\ check[c].unnamed => id_to_alias[id] \in UnnamedAliases

\* The manager implements the registry its callers think of.
InDisk(n) == {i \in DOMAIN saved : saved[i].alias = n}
Registry == INSTANCE TokenRegistry WITH
    Infos <- TokenInfo,
    named <- [n \in Names |-> IF alias_map[n] = None THEN None ELSE tokens[alias_map[n]]],
    unnamed <- [t \in TokenInfo |->
        Cardinality({id \in Ids : tokens[id] = t /\ id_to_alias[id] \notin Names})],
    disk <- [named |-> [n \in Names |->
                 IF InDisk(n) = {} THEN None ELSE saved[CHOOSE i \in InDisk(n) : TRUE].info],
             unnamed |-> [t \in TokenInfo |->
                 Cardinality({i \in DOMAIN saved : saved[i].info = t /\ saved[i].alias \notin Names})]]
RegistrySpec == Registry!Spec

=============================================================================
