---------------------------- MODULE TokenManager ----------------------------
(***************************************************************************)
(* The token manager of src/src/app/model/state/token.rs and the           *)
(* round-robin queue of token/queue.rs it owns (default build, feature     *)
(* "horizon").  The manager sits behind one RwLock: an action that changes *)
(* it is one call made under the write lock, and happens while no reader   *)
(* holds the read lock.  `select' runs under the read lock, so several     *)
(* readers interleave; the only state they write is QUEUE_HEADS, by a load *)
(* and a later store that are not atomic as a pair.                        *)
(*                                                                         *)
(* The code leaves every bounds and presence check out of its hot paths    *)
(* (unwrap_unchecked, unreachable_unchecked, assert_unchecked).  `fault'   *)
(* names the first such site whose precondition failed; what the program   *)
(* does from there on is undefined, so no action leaves such a state.      *)
(***************************************************************************)
EXTENDS Integers, Sequences, SequencesExt

CONSTANTS Keys,        \* TokenKeys: (user_id, randomness) of a primary token
          Statuses,    \* "ready", if select may hand a token out, and others
          Names,       \* aliases a user chooses (no "unnamed" prefix)
          MaxIds,      \* bound: slots of the manager
          QueueTypes,  \* QueueType
          Readers,     \* tasks that call select under the read lock
          None         \* Option::None

Ids == 0 .. (MaxIds - 1)

UNNAMED == <<"unnamed">>

\* The alias made for slot id: the prefix and the decimal digits of id, which
\* differ for different ids.
generate_unnamed_alias(id) == <<"unnamed", id>>

UnnamedAliases == {generate_unnamed_alias(id) : id \in Ids}

Aliases == Names \cup UnnamedAliases

\* What a request or a saved file may ask for: a name, the word "unnamed", or
\* an alias that starts with the pattern "unnamed-".
RequestedAliases == Aliases \cup {UNNAMED}

\* A TokenInfo, reduced to the key of its primary token and to whether select
\* may hand it out (is_enabled() and health.is_available()).
TokenInfo == [key : Keys, status : Statuses]

\* The unchecked sites.
Sites == {"vec_remove", "reindex", "writer_id_map", "writer_set_key", "select"}

ASSUME ConstantsAssumption ==
    /\ MaxIds \in Nat \ {0}
    /\ "ready" \in Statuses
    /\ Names \cap UnnamedAliases = {}
    /\ UNNAMED \notin Aliases

ASSUME NoneAssumption ==
    /\ None \notin Aliases
    /\ None \notin TokenInfo
    /\ None \notin Nat
    /\ None \notin Sites
    /\ None \notin [queue : QueueTypes, start : Nat]

VARIABLES
    tokens,       \* Vec<Option<TokenInfo>>, None from `size' on
    size,         \* the length of tokens and of id_to_alias
    id_map,       \* HashMap<TokenKey, usize>
    alias_map,    \* HashMap<Alias, usize>
    id_to_alias,  \* Vec<Option<Alias>>
    free_ids,     \* VecDeque<usize>
    vec,          \* TokenQueue.vec
    map,          \* TokenQueue.map: TokenKey -> index into vec, from 0
    heads,        \* QUEUE_HEADS, a static: it outlives the manager
    reading,      \* per reader: the queue and head value its select works on
    fault         \* the unchecked site that went wrong, or None

managerVars == <<tokens, size, id_map, alias_map, id_to_alias, free_ids>>
queueVars == <<vec, map>>
vars == <<managerVars, queueVars, heads, reading, fault>>

-----------------------------------------------------------------------------

\* TokenManager::new, with the static queue heads of a fresh process.
Init ==
    /\ tokens = [id \in Ids |-> None]
    /\ size = 0
    /\ id_map = [k \in Keys |-> None]
    /\ alias_map = [a \in Aliases |-> None]
    /\ id_to_alias = [id \in Ids |-> None]
    /\ free_ids = <<>>
    /\ vec = <<>>
    /\ map = [k \in Keys |-> None]
    /\ heads = [q \in QueueTypes |-> 0]
    /\ reading = [r \in Readers |-> None]
    /\ fault = None

\* The write lock is free to take and the program is still in a defined state.
WriteLock ==
    /\ fault = None
    /\ \A r \in Readers : reading[r] = None
    /\ UNCHANGED reading

\* The id that add will use: the oldest free id, or a new slot.
NextId == IF free_ids # <<>> THEN Head(free_ids) ELSE size

\* An unnamed alias, and any alias that starts with the pattern, is replaced
\* by the one generated for the id.
Resolve(alias, id) == IF alias \in Names THEN alias ELSE generate_unnamed_alias(id)

add(info, alias) ==
    LET id == NextId
        a == Resolve(alias, id)
    IN  /\ WriteLock
        /\ id \in Ids /\ Len(vec) < MaxIds   \* bound MaxIds
        /\ alias_map[a] = None               \* else Err(AliasExists)
        /\ IF free_ids # <<>>
             THEN free_ids' = Tail(free_ids) /\ size' = size
             ELSE free_ids' = free_ids /\ size' = size + 1
        /\ id_map' = [id_map EXCEPT ![info.key] = id]
        /\ vec' = Append(vec, id)
        /\ map' = [map EXCEPT ![info.key] = Len(vec)]
        /\ tokens' = [tokens EXCEPT ![id] = info]
        /\ alias_map' = [alias_map EXCEPT ![a] = id]
        /\ id_to_alias' = [id_to_alias EXCEPT ![id] = a]
        /\ UNCHANGED <<heads, fault>>

\* Mutant: re-indexing begins one entry late.
Moved_late(queue, index) == (index + 2) .. Len(queue)

\* Vec::remove moved the entries of queue from `index' on down by one; each
\* looks up the key of its token in map and stores its new index there.
Moved(queue, index) == (index + 1) .. Len(queue)

Entries(queue, index, live, key) ==
    {i \in Moved(queue, index) : live[queue[i]].key = key}

\* Every moved entry has a token, whose key is still in map once k is removed.
Reindexable(queue, index, live, k) ==
    \A i \in Moved(queue, index) :
        /\ live[queue[i]] # None
        /\ live[queue[i]].key # k
        /\ map[live[queue[i]].key] # None

Reindexed(queue, index, live, k) ==
    [key \in Keys |->
        IF key = k THEN None
        ELSE IF Entries(queue, index, live, key) # {}
               THEN Max(Entries(queue, index, live, key)) - 1
               ELSE map[key]]

\* Mutant: the heads are not adjusted.
AdjustedHeads_kept(index) == heads

\* The heads beyond the removed entry move down with the entries they point to.
AdjustedHeads(index) ==
    [q \in QueueTypes |-> IF heads[q] > index THEN heads[q] - 1 ELSE heads[q]]

\* TokenQueue::remove of the entry of key k; live is the manager's tokens with
\* the removed one taken out.
queue_remove(k, live) ==
    \/ /\ map[k] = None
       /\ UNCHANGED <<vec, map, heads, fault>>
    \/ /\ map[k] # None
       /\ map[k] >= Len(vec)                  \* Vec::remove panics, which aborts
       /\ fault' = "vec_remove"
       /\ UNCHANGED <<vec, map, heads>>
    \/ /\ map[k] # None
       /\ map[k] < Len(vec)
       /\ heads' = AdjustedHeads(map[k])
       /\ vec' = RemoveAt(vec, map[k] + 1)
       /\ IF Reindexable(vec', map[k], live, k)
            THEN map' = Reindexed(vec', map[k], live, k) /\ fault' = fault
            ELSE map' = map /\ fault' = "reindex"

remove(id) ==
    /\ WriteLock
    /\ tokens[id] # None                     \* else returns None
    /\ LET k == tokens[id].key
           live == [tokens EXCEPT ![id] = None]
       IN  /\ tokens' = live
           /\ id_map' = [id_map EXCEPT ![k] = None]
           /\ queue_remove(k, live)
    /\ alias_map' = [alias_map EXCEPT ![id_to_alias[id]] = None]
    /\ id_to_alias' = [id_to_alias EXCEPT ![id] = None]
    /\ free_ids' = Append(free_ids, id)
    /\ UNCHANGED size

\* Mutant: the old alias is not removed.
set_alias_keeping_old(id, alias) ==
    LET a == Resolve(alias, id)
    IN  /\ WriteLock
        /\ tokens[id] # None
        /\ alias_map[a] = None
        /\ alias_map' = [alias_map EXCEPT ![a] = id]
        /\ id_to_alias' = [id_to_alias EXCEPT ![id] = a]
        /\ UNCHANGED <<tokens, size, id_map, free_ids, queueVars, heads, fault>>

set_alias(id, alias) ==
    LET a == Resolve(alias, id)
    IN  /\ WriteLock
        /\ tokens[id] # None                 \* else Err(InvalidId)
        /\ alias_map[a] = None               \* else Err(AliasExists)
        /\ alias_map' = [alias_map EXCEPT ![id_to_alias[id]] = None, ![a] = id]
        /\ id_to_alias' = [id_to_alias EXCEPT ![id] = a]
        /\ UNCHANGED <<tokens, size, id_map, free_ids, queueVars, heads, fault>>

\* Mutant: the old key is not removed.
MovedKey_copied(f, old, k) == [f EXCEPT ![k] = f[old]]

\* The entry of key old becomes the entry of key k.
MovedKey(f, old, k) == [f EXCEPT ![old] = None, ![k] = f[old]]

\* TokenWriter: the token's bundle is replaced by one with key k, and dropping
\* the writer moves the two key indexes from the old key to the new one.
TokenWriter_drop(id, k) ==
    /\ WriteLock
    /\ tokens[id] # None                     \* the caller found id by its alias
    /\ tokens[id].key # k
    /\ LET old == tokens[id].key
       IN  /\ tokens' = [tokens EXCEPT ![id].key = k]
           /\ \/ /\ id_map[old] = None
                 /\ fault' = "writer_id_map"
                 /\ UNCHANGED <<id_map, map>>
              \/ /\ id_map[old] # None
                 /\ id_map' = MovedKey(id_map, old, k)
                 /\ IF map[old] # None /\ map[k] = None
                      THEN /\ map' = MovedKey(map, old, k)
                           /\ fault' = fault
                      ELSE map' = map /\ fault' = "writer_set_key"
    /\ UNCHANGED <<size, alias_map, id_to_alias, free_ids, vec, heads>>

\* The status of a token: set by a handler under the write lock, or a back-off
\* that runs out.
set_status(id, s) ==
    /\ WriteLock
    /\ tokens[id] # None
    /\ tokens[id].status # s
    /\ tokens' = [tokens EXCEPT ![id].status = s]
    /\ UNCHANGED <<size, id_map, alias_map, id_to_alias, free_ids, queueVars, heads, fault>>

\* handle_set_tokens begins with a new manager; the static heads stay.
new ==
    /\ WriteLock
    /\ size # 0
    /\ tokens' = [id \in Ids |-> None]
    /\ size' = 0
    /\ id_map' = [k \in Keys |-> None]
    /\ alias_map' = [a \in Aliases |-> None]
    /\ id_to_alias' = [id \in Ids |-> None]
    /\ free_ids' = <<>>
    /\ vec' = <<>>
    /\ map' = [k \in Keys |-> None]
    /\ UNCHANGED <<heads, fault>>

\* TokenQueue::select, first half: the head is loaded.
select_load(r, q) ==
    /\ fault = None
    /\ reading[r] = None
    /\ vec # <<>>                            \* else returns None
    /\ reading' = [reading EXCEPT ![r] = [queue |-> q, start |-> heads[q]]]
    /\ UNCHANGED <<managerVars, queueVars, heads, fault>>

\* The entry the scan looks at after i others, and the first one where it stops.
Position(start, i) == (start + i) % Len(vec)
Looked(start, i) == tokens[vec[Position(start, i) + 1]]
StopsAt(start, i) ==
    /\ Looked(start, i) # None => Looked(start, i).status = "ready"
    /\ \A j \in 0 .. (i - 1) :
          Looked(start, j) # None /\ Looked(start, j).status # "ready"

\* Mutant: the head does not advance.
NextHead_kept(index) == index

\* The head stored when the entry at index is handed out.
NextHead(index) == (index + 1) % Len(vec)

\* Second half: the scan hands out token id and stores the head after it.
select_store(r, id) ==
    /\ fault = None
    /\ reading[r] # None
    /\ \E i \in 0 .. (Len(vec) - 1) :
          LET index == Position(reading[r].start, i)
          IN  /\ StopsAt(reading[r].start, i)
              /\ vec[index + 1] = id
              /\ IF tokens[id] = None
                   THEN fault' = "select" /\ heads' = heads
                   ELSE /\ heads' = [heads EXCEPT ![reading[r].queue] = NextHead(index)]
                        /\ fault' = fault
    /\ reading' = [reading EXCEPT ![r] = None]
    /\ UNCHANGED <<managerVars, queueVars>>

\* No entry is ready: select returns None and stores nothing.
select_none(r) ==
    /\ fault = None
    /\ reading[r] # None
    /\ \A i \in 0 .. (Len(vec) - 1) : ~StopsAt(reading[r].start, i)
    /\ reading' = [reading EXCEPT ![r] = None]
    /\ UNCHANGED <<managerVars, queueVars, heads, fault>>

-----------------------------------------------------------------------------

Write ==
    \/ \E info \in TokenInfo, alias \in RequestedAliases : add(info, alias)
    \/ \E id \in Ids : remove(id)
    \/ \E id \in Ids, alias \in RequestedAliases : set_alias(id, alias)
    \/ \E id \in Ids, k \in Keys : TokenWriter_drop(id, k)
    \/ \E id \in Ids, s \in Statuses : set_status(id, s)
    \/ new

Select(r) ==
    \/ \E q \in QueueTypes : select_load(r, q)
    \/ \E id \in Ids : select_store(r, id)
    \/ select_none(r)

Next == Write \/ \E r \in Readers : Select(r)

Spec == Init /\ [][Next]_vars

-----------------------------------------------------------------------------

TypeOK ==
    /\ tokens \in [Ids -> TokenInfo \cup {None}]
    /\ size \in 0 .. MaxIds
    /\ id_map \in [Keys -> Ids \cup {None}]
    /\ alias_map \in [Aliases -> Ids \cup {None}]
    /\ id_to_alias \in [Ids -> Aliases \cup {None}]
    /\ free_ids \in Seq(Ids)
    /\ vec \in Seq(Ids)
    /\ map \in [Keys -> Nat \cup {None}]
    /\ heads \in [QueueTypes -> Nat]
    /\ reading \in [Readers -> [queue : QueueTypes, start : Nat] \cup {None}]
    /\ fault \in Sites \cup {None}

\* The empty slots below `size' are the free ids, each queued once; slots from
\* `size' on do not exist yet.
FreeIdsAreEmptySlots ==
    /\ \A i \in DOMAIN free_ids :
          /\ free_ids[i] < size
          /\ tokens[free_ids[i]] = None
          /\ \A j \in DOMAIN free_ids : free_ids[i] = free_ids[j] => i = j
    /\ \A id \in Ids : tokens[id] = None =>
          (id >= size \/ \E i \in DOMAIN free_ids : free_ids[i] = id)
    /\ \A id \in Ids : tokens[id] # None => id < size

\* alias_map and id_to_alias are inverse to each other, and exactly the live
\* slots have an alias: get_by_alias, remove, set_alias, list and save unwrap
\* both without a check.
AliasesIndexLiveTokens ==
    /\ \A id \in Ids : (tokens[id] = None) <=> (id_to_alias[id] = None)
    /\ \A id \in Ids : id_to_alias[id] # None => alias_map[id_to_alias[id]] = id
    /\ \A a \in Aliases : alias_map[a] # None => id_to_alias[alias_map[a]] = a

\* The alias generated for a slot is never held by another slot.
UnnamedAliasesStayHome ==
    \A id \in Ids : alias_map[generate_unnamed_alias(id)] \in {id, None}

\* Adding a token without a name never fails with AliasExists.
UnnamedAddNeverRejected ==
    NextId \in Ids => alias_map[generate_unnamed_alias(NextId)] = None

-----------------------------------------------------------------------------

\* No two live tokens have the same key.  The code does not enforce this; it
\* is what its unchecked accesses rely on.
DistinctKeys ==
    \A i, j \in Ids :
        (tokens[i] # None /\ tokens[j] # None /\ tokens[i].key = tokens[j].key) => i = j

\* The behaviours in which the callers keep the keys distinct.
DistinctSpec == Init /\ [][Next /\ DistinctKeys']_vars

\* id_map finds the token of each key and nothing else.
KeyIndexAgrees ==
    /\ \A k \in Keys : id_map[k] # None =>
          tokens[id_map[k]] # None /\ tokens[id_map[k]].key = k
    /\ \A id \in Ids : tokens[id] # None => id_map[tokens[id].key] = id

\* The queue holds each live token once, and its map gives the position of each.
QueueIndexAgrees ==
    /\ \A i \in DOMAIN vec : tokens[vec[i]] # None /\ map[tokens[vec[i]].key] = i - 1
    /\ \A k \in Keys : map[k] # None =>
          map[k] < Len(vec) /\ tokens[vec[map[k] + 1]].key = k
    /\ \A id \in Ids : tokens[id] # None => map[tokens[id].key] # None

\* No unchecked access goes wrong.
NoFault == fault = None

\* The token whose turn it is in queue q.
Turn(q) == vec[(heads[q] % Len(vec)) + 1]

\* Removing a token does not take any other token's turn away, as long as the
\* head was left by this manager's own queue.
RemoveKeepsTurn ==
    [][\A q \in QueueTypes :
          (/\ Len(vec') = Len(vec) - 1
           /\ vec' # <<>>
           /\ heads[q] <= Len(vec)
           /\ tokens'[Turn(q)] # None) => Turn(q)' = Turn(q)]_vars

\* A reader working on queue q hands out token id.
Serves(q, id) ==
    \E r \in Readers : reading[r] # None /\ reading[r].queue = q /\ select_store(r, id)

\* A select that has begun runs to its end: it is synchronous code.  Nothing
\* makes a client send a request or an administrator change the tokens.
FairSpec ==
    /\ DistinctSpec
    /\ \A r \in Readers : WF_vars((\E id \in Ids : select_store(r, id)) \/ select_none(r))

\* Round robin: a token that stays ready is handed out again and again by a
\* queue that keeps serving, whatever the racing loads and stores of the head
\* and the status changes of the other tokens, once no token is added or
\* removed any more.  (An endless sequence of removals just behind the head and
\* of additions at the end can keep the head from ever wrapping around.)
NoStarvation ==
    \A id \in Ids, q \in QueueTypes :
        (/\ <>[](tokens[id] # None /\ tokens[id].status = "ready")
         /\ <>[][UNCHANGED vec]_vars
         /\ []<><<\E j \in Ids : Serves(q, j)>>_vars)
        => []<><<Serves(q, id)>>_vars

=============================================================================
