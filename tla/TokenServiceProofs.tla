------------------------- MODULE TokenServiceProofs -------------------------
(***************************************************************************)
(* The token manager alone: type correctness and the consistency of its    *)
(* slots, free ids, alias indexes, key index and queue, for every value of *)
(* the constants.                                                          *)
(*                                                                         *)
(* The token manager in its service: whatever the management handlers, the *)
(* saves, the restarts and the usage checks do to it, its indexes stay     *)
(* consistent, its own unchecked accesses fail only after two live tokens  *)
(* had one key, and a usage check whose slot nobody touched works on the   *)
(* token it was made for.                                                  *)
(***************************************************************************)
EXTENDS TokenService, SequenceTheorems, WellFoundedInduction, FiniteSetTheorems, TLAPS

\* A finite, non-empty set of numbers has a greatest one (the minimal counterexample
\* of the distances from n).
LEMMA MaxExists ==
    ASSUME NEW n \in Nat, NEW T \in SUBSET (1 .. n), T # {}
    PROVE  \E x \in T : \A y \in T : y <= x
<1> DEFINE D == {n - t : t \in T}
           R == OpToRel(<, Nat)
<1>0. \A t \in T : t \in Int /\ n - t \in Nat
  OBVIOUS
<1>1. D \subseteq Nat /\ D # {}
  BY <1>0
<1>2. IsWellFoundedOn(R, Nat)
  BY NatLessThanWellFounded
<1>3. PICK d \in D : \A e \in D : ~(<<e, d>> \in R)
  <2> HIDE DEF D, R
  <2> QED BY <1>1, <1>2, WFMin
<1>4. \A e \in D : ~(e < d)
  <2> SUFFICES ASSUME NEW e \in D, e < d PROVE FALSE
    OBVIOUS
  <2>1. e \in Nat /\ d \in Nat
    BY <1>1
  <2>2. <<e, d>> \in R
    BY <2>1 DEF OpToRel
  <2> QED BY <2>2, <1>3
<1>5. PICK x \in T : d = n - x
  OBVIOUS
<1>6. \A y \in T : y <= x
  <2> SUFFICES ASSUME NEW y \in T PROVE y <= x
    OBVIOUS
  <2>1. n - y \in D
    OBVIOUS
  <2>2. ~(n - y < n - x)
    BY <2>1, <1>4, <1>5
  <2> QED BY <2>2, <1>0
<1> QED BY <1>6

\* Vec::remove: one entry shorter, and the entries after the removed one are
\* one place further down.
LEMMA RemoveAtProperties ==
    ASSUME NEW S, NEW s \in Seq(S), NEW i \in 1 .. Len(s)
    PROVE  /\ RemoveAt(s, i) \in Seq(S)
           /\ Len(RemoveAt(s, i)) = Len(s) - 1
           /\ \A j \in 1 .. (Len(s) - 1) :
                 RemoveAt(s, i)[j] = IF j < i THEN s[j] ELSE s[j + 1]
<1> DEFINE before == SubSeq(s, 1, i - 1)
           after == SubSeq(s, i + 1, Len(s))
<1>0. Len(s) \in Nat /\ i \in Int /\ \A j \in 1 .. Len(s) : s[j] \in S
  BY LenProperties, ElementOfSeq
<1>1. /\ before \in Seq(S)
      /\ Len(before) = i - 1
      /\ \A j \in 1 .. (i - 1) : before[j] = s[j]
  <2>1. \A j \in 1 .. (i - 1) : s[j] \in S
    BY <1>0
  <2> HIDE DEF before
  <2>2. /\ before \in Seq(S)
        /\ Len(before) = IF 1 <= i - 1 THEN i - 1 - 1 + 1 ELSE 0
        /\ \A j \in 1 .. (i - 1 - 1 + 1) : before[j] = s[1 + j - 1]
    BY <1>0, <2>1, SubSeqProperties DEF before
  <2> QED BY <1>0, <2>2
<1>2. /\ after \in Seq(S)
      /\ Len(after) = Len(s) - i
      /\ \A j \in 1 .. (Len(s) - i) : after[j] = s[i + j]
  <2>1. \A j \in (i + 1) .. Len(s) : s[j] \in S
    BY <1>0
  <2> HIDE DEF after
  <2>2. /\ after \in Seq(S)
        /\ Len(after) = IF i + 1 <= Len(s) THEN Len(s) - (i + 1) + 1 ELSE 0
        /\ \A j \in 1 .. (Len(s) - (i + 1) + 1) : after[j] = s[(i + 1) + j - 1]
    BY <1>0, <2>1, SubSeqProperties DEF after
  <2> QED BY <1>0, <2>2
<1>3. RemoveAt(s, i) = before \o after
  BY DEF RemoveAt
<1> HIDE DEF before, after
<1>4. /\ before \o after \in Seq(S)
      /\ Len(before \o after) = Len(before) + Len(after)
      /\ \A j \in 1 .. (Len(before) + Len(after)) :
            (before \o after)[j] = IF j <= Len(before) THEN before[j]
                                                     ELSE after[j - Len(before)]
  BY <1>1, <1>2, ConcatProperties
<1>5. \A j \in 1 .. (Len(s) - 1) :
         (before \o after)[j] = IF j < i THEN s[j] ELSE s[j + 1]
  <2> SUFFICES ASSUME NEW j \in 1 .. (Len(s) - 1)
               PROVE  (before \o after)[j] = IF j < i THEN s[j] ELSE s[j + 1]
    OBVIOUS
  <2>1. j \in 1 .. (Len(before) + Len(after))
    BY <1>0, <1>1, <1>2
  <2>2. CASE j < i
    <3>1. j \in 1 .. (i - 1) /\ j <= Len(before)
      BY <2>2, <1>0, <1>1
    <3> QED BY <2>1, <2>2, <3>1, <1>1, <1>4
  <2>3. CASE ~(j < i)
    <3>1. /\ ~(j <= Len(before))
          /\ j - Len(before) = j - i + 1
          /\ j - i + 1 \in 1 .. (Len(s) - i)
          /\ i + (j - i + 1) = j + 1
      BY <2>3, <1>0, <1>1
    <3>2. (before \o after)[j] = after[j - Len(before)]
      BY <2>1, <3>1, <1>4
    <3>3. after[j - i + 1] = s[i + (j - i + 1)]
      BY <3>1, <1>2
    <3> QED BY <2>3, <3>1, <3>2, <3>3
  <2> QED BY <2>2, <2>3
<1> QED BY <1>0, <1>1, <1>2, <1>3, <1>4, <1>5

\* Whatever alias is asked for, the one stored is a legal one.
LEMMA ResolveType ==
    ASSUME NEW alias, NEW id \in Ids
    PROVE  Resolve(alias, id) \in Aliases
BY DEF Resolve, Aliases, UnnamedAliases

\* NextId and the free ids that are left when add has taken it.
LEMMA NextIdType ==
    ASSUME TypeOK
    PROVE  /\ NextId \in Nat
           /\ free_ids # <<>> => /\ NextId = free_ids[1]
                                 /\ NextId \in Ids
                                 /\ Tail(free_ids) \in Seq(Ids)
                                 /\ Len(Tail(free_ids)) = Len(free_ids) - 1
                                 /\ \A i \in 1 .. (Len(free_ids) - 1) :
                                       Tail(free_ids)[i] = free_ids[i + 1]
           /\ free_ids = <<>> => NextId = size
BY HeadTailProperties, EmptySeq, ConstantsAssumption DEF TypeOK, NextId, Ids

\* The last of the moved entries with a key, whose index wins in map.
LEMMA MaxOfEntries ==
    ASSUME NEW queue \in Seq(Ids), NEW index \in Nat, NEW live, NEW key,
           Entries(queue, index, live, key) # {}
    PROVE  /\ Max(Entries(queue, index, live, key)) \in Entries(queue, index, live, key)
           /\ \A j \in Entries(queue, index, live, key) :
                 j <= Max(Entries(queue, index, live, key))
<1> DEFINE E == Entries(queue, index, live, key)
<1>1. Len(queue) \in Nat
  BY LenProperties
<1>2. E \in SUBSET (1 .. Len(queue))
  BY <1>1 DEF Entries, Moved
<1> HIDE DEF E
<1>3. PICK x \in E : \A y \in E : y <= x
  BY <1>1, <1>2, MaxExists DEF E
<1>4. \A y \in E : x >= y
  BY <1>1, <1>2, <1>3
<1>5. Max(E) \in E /\ \A y \in E : Max(E) >= y
  BY <1>4 DEF Max
<1>6. \A y \in E : y <= Max(E)
  BY <1>1, <1>2, <1>5
<1> QED BY <1>5, <1>6 DEF E

\* TokenQueue::remove keeps the types, whether it finds the key, panics or faults.
LEMMA QueueRemoveType ==
    ASSUME TypeOK, NEW k \in Keys, NEW live \in [Ids -> TokenInfo \cup {None}],
           queue_remove(k, live)
    PROVE  /\ vec' \in Seq(Ids)
           /\ map' \in [Keys -> Nat \cup {None}]
           /\ heads' \in [QueueTypes -> Nat]
           /\ fault' \in Sites \cup {None}
<1>1. CASE map[k] = None
  BY <1>1 DEF queue_remove, TypeOK
<1>2. CASE map[k] # None /\ map[k] >= Len(vec)
  BY <1>2, NoneAssumption DEF queue_remove, TypeOK, Sites
<1>3. CASE map[k] # None /\ map[k] < Len(vec)
  <2>1. map[k] \in Nat /\ map[k] + 1 \in 1 .. Len(vec) /\ vec \in Seq(Ids)
    BY <1>3, LenProperties DEF TypeOK
  <2>2. /\ heads' = AdjustedHeads(map[k])
        /\ vec' = RemoveAt(vec, map[k] + 1)
        /\ \/ map' = Reindexed(vec', map[k], live, k) /\ fault' = fault
           \/ map' = map /\ fault' = "reindex"
    BY <1>3, <2>1 DEF queue_remove
  <2>3. vec' \in Seq(Ids) /\ Len(vec') \in Nat
    BY <2>1, <2>2, RemoveAtProperties, LenProperties
  <2>4. ASSUME NEW key \in Keys, Entries(vec', map[k], live, key) # {}
        PROVE  Max(Entries(vec', map[k], live, key)) - 1 \in Nat
    <3>1. Max(Entries(vec', map[k], live, key)) \in Entries(vec', map[k], live, key)
      BY <2>1, <2>3, <2>4, MaxOfEntries
    <3> QED BY <3>1, <2>1, <2>3 DEF Entries, Moved
  <2>5. map' \in [Keys -> Nat \cup {None}]
    <3>1. Reindexed(vec', map[k], live, k) \in [Keys -> Nat \cup {None}]
      BY <2>4 DEF Reindexed, TypeOK
    <3> QED BY <3>1, <2>2 DEF TypeOK
  <2>6. heads' \in [QueueTypes -> Nat]
    BY <2>1, <2>2 DEF TypeOK, AdjustedHeads
  <2>7. fault' \in Sites \cup {None}
    BY <2>2 DEF TypeOK, Sites
  <2> QED BY <2>3, <2>5, <2>6, <2>7
<1>4. map[k] = None \/ map[k] \in Nat
  BY DEF TypeOK
<1> QED BY <1>1, <1>2, <1>3, <1>4, LenProperties DEF TypeOK

\* A step keeps every variable's type, whatever keys the callers use.
LEMMA TypeStep ==
    ASSUME TypeOK, [Next]_vars
    PROVE  TypeOK'
<1>1. ASSUME NEW info \in TokenInfo, NEW alias \in RequestedAliases, add(info, alias)
      PROVE  TypeOK'
  <2> DEFINE id == NextId
             a == Resolve(alias, id)
  <2>1. /\ id \in Ids
        /\ a \in Aliases
        /\ info.key \in Keys
    BY <1>1, ResolveType DEF add, TokenInfo
  <2>2. /\ free_ids' \in Seq(Ids)
        /\ size' \in 0 .. MaxIds
    <3>1. CASE free_ids # <<>>
      BY <1>1, <3>1, NextIdType DEF add, TypeOK
    <3>2. CASE free_ids = <<>>
      BY <1>1, <3>2, NextIdType, ConstantsAssumption DEF add, TypeOK, Ids
    <3> QED BY <3>1, <3>2
  <2>3. vec' \in Seq(Ids)
    BY <1>1, <2>1 DEF add, TypeOK
  <2>4. map' \in [Keys -> Nat \cup {None}]
    BY <1>1, <2>1, LenProperties DEF add, TypeOK
  <2>5. /\ tokens' \in [Ids -> TokenInfo \cup {None}]
        /\ id_map' \in [Keys -> Ids \cup {None}]
        /\ alias_map' \in [Aliases -> Ids \cup {None}]
        /\ id_to_alias' \in [Ids -> Aliases \cup {None}]
    BY <1>1, <2>1 DEF add, TypeOK
  <2> QED BY <1>1, <2>2, <2>3, <2>4, <2>5 DEF add, WriteLock, TypeOK
<1>2. ASSUME NEW id \in Ids, remove(id)
      PROVE  TypeOK'
  <2> DEFINE k == tokens[id].key
             live == [tokens EXCEPT ![id] = None]
  <2>1. k \in Keys /\ live \in [Ids -> TokenInfo \cup {None}]
    BY <1>2 DEF remove, TypeOK, TokenInfo
  <2>2. /\ vec' \in Seq(Ids)
        /\ map' \in [Keys -> Nat \cup {None}]
        /\ heads' \in [QueueTypes -> Nat]
        /\ fault' \in Sites \cup {None}
    <3>1. queue_remove(k, live)
      BY <1>2 DEF remove
    <3> HIDE DEF k, live
    <3> QED BY <2>1, <3>1, QueueRemoveType
  <2>3. /\ tokens' \in [Ids -> TokenInfo \cup {None}]
        /\ id_map' \in [Keys -> Ids \cup {None}]
        /\ alias_map' \in [Aliases -> Ids \cup {None}]
        /\ id_to_alias' \in [Ids -> Aliases \cup {None}]
        /\ free_ids' \in Seq(Ids)
    <3>1. /\ tokens' = live
          /\ id_map' = [id_map EXCEPT ![k] = None]
          /\ alias_map' = [alias_map EXCEPT ![id_to_alias[id]] = None]
          /\ id_to_alias' = [id_to_alias EXCEPT ![id] = None]
          /\ free_ids' = Append(free_ids, id)
      BY <1>2 DEF remove
    <3> HIDE DEF k, live
    <3>2. tokens' \in [Ids -> TokenInfo \cup {None}]
      BY <2>1, <3>1
    <3>3. id_map' \in [Keys -> Ids \cup {None}]
      BY <2>1, <3>1 DEF TypeOK
    <3>4. alias_map' \in [Aliases -> Ids \cup {None}]
      BY <3>1 DEF TypeOK
    <3>5. id_to_alias' \in [Ids -> Aliases \cup {None}]
      BY <3>1 DEF TypeOK
    <3>6. free_ids' \in Seq(Ids)
      BY <3>1 DEF TypeOK
    <3> QED BY <3>2, <3>3, <3>4, <3>5, <3>6
  <2> QED BY <1>2, <2>2, <2>3 DEF remove, WriteLock, TypeOK
<1>3. ASSUME NEW id \in Ids, NEW alias \in RequestedAliases, set_alias(id, alias)
      PROVE  TypeOK'
  BY <1>3, ResolveType DEF set_alias, WriteLock, TypeOK, queueVars
<1>4. ASSUME NEW id \in Ids, NEW k \in Keys, TokenWriter_drop(id, k)
      PROVE  TypeOK'
  <2>1. tokens[id] \in TokenInfo /\ tokens[id].key \in Keys
    BY <1>4 DEF TokenWriter_drop, TypeOK, TokenInfo
  <2>2. tokens' \in [Ids -> TokenInfo \cup {None}]
    BY <1>4, <2>1 DEF TokenWriter_drop, TypeOK, TokenInfo
  <2>3. id_map' \in [Keys -> Ids \cup {None}]
    BY <1>4, <2>1 DEF TokenWriter_drop, MovedKey, TypeOK
  <2>4. map' \in [Keys -> Nat \cup {None}]
    BY <1>4, <2>1 DEF TokenWriter_drop, MovedKey, TypeOK
  <2>5. fault' \in Sites \cup {None}
    BY <1>4, <2>1 DEF TokenWriter_drop, TypeOK, Sites
  <2> QED BY <1>4, <2>2, <2>3, <2>4, <2>5 DEF TokenWriter_drop, WriteLock, TypeOK
<1>5. ASSUME NEW id \in Ids, NEW s \in Statuses, set_status(id, s)
      PROVE  TypeOK'
  <2>1. tokens' \in [Ids -> TokenInfo \cup {None}]
    BY <1>5 DEF set_status, TypeOK, TokenInfo
  <2> QED BY <1>5, <2>1 DEF set_status, WriteLock, TypeOK, queueVars
<1>6. CASE new
  BY <1>6, EmptySeq, ConstantsAssumption DEF new, WriteLock, TypeOK
<1>7. ASSUME NEW r \in Readers, NEW q \in QueueTypes, select_load(r, q)
      PROVE  TypeOK'
  BY <1>7 DEF select_load, TypeOK, managerVars, queueVars
<1>8. ASSUME NEW r \in Readers, NEW id \in Ids, select_store(r, id)
      PROVE  TypeOK'
  <2>1. reading[r] \in [queue : QueueTypes, start : Nat]
    BY <1>8 DEF select_store, TypeOK
  <2>2. PICK i \in 0 .. (Len(vec) - 1) :
           \/ fault' = "select" /\ heads' = heads
           \/ /\ heads' = [heads EXCEPT ![reading[r].queue] =
                            NextHead(Position(reading[r].start, i))]
              /\ fault' = fault
    BY <1>8 DEF select_store
  <2>3. /\ Len(vec) \in Nat \ {0}
        /\ Position(reading[r].start, i) \in Nat
        /\ NextHead(Position(reading[r].start, i)) \in Nat
    BY <2>1, LenProperties DEF TypeOK, Position, NextHead
  <2>4. heads' \in [QueueTypes -> Nat]
    BY <2>2, <2>3 DEF TypeOK
  <2>5. fault' \in Sites \cup {None}
    BY <2>2 DEF TypeOK, Sites
  <2> QED BY <1>8, <2>4, <2>5 DEF select_store, TypeOK, managerVars, queueVars
<1>9. ASSUME NEW r \in Readers, select_none(r)
      PROVE  TypeOK'
  BY <1>9 DEF select_none, TypeOK, managerVars, queueVars
<1>10. CASE UNCHANGED vars
  BY <1>10 DEF vars, managerVars, queueVars, TypeOK
<1> QED
  BY <1>1, <1>2, <1>3, <1>4, <1>5, <1>6, <1>7, <1>8, <1>9, <1>10
  DEF Next, Write, Select

\* Every variable keeps its type, whatever keys the callers use: no id, index
\* or alias outside its range is ever stored.
THEOREM TypeCorrect == Spec => []TypeOK
<1>1. Init => TypeOK
  BY EmptySeq, ConstantsAssumption DEF Init, TypeOK
<1>2. TypeOK /\ [Next]_vars => TypeOK'
  BY TypeStep
<1> QED BY <1>1, <1>2, PTL DEF Spec

-----------------------------------------------------------------------------

\* What the manager keeps among its slots, its free ids and its two alias
\* indexes, whatever the keys are.  FreeIdsAreEmptySlots is what makes the slot
\* that add writes an empty one; UnnamedAliasesStayHome needs the two indexes
\* to be inverse to each other.
IndexInv ==
    /\ TypeOK
    /\ FreeIdsAreEmptySlots
    /\ AliasesIndexLiveTokens
    /\ UnnamedAliasesStayHome

\* The alias that add or set_alias stores under an id is either a user's name
\* or the one generated for that id, never the one generated for another id.
LEMMA ResolveHome ==
    ASSUME NEW alias, NEW id \in Ids, NEW other \in Ids,
           Resolve(alias, id) = generate_unnamed_alias(other)
    PROVE  other = id
<1>1. CASE alias \in Names
  BY <1>1, ConstantsAssumption DEF Resolve, UnnamedAliases
<1>2. CASE alias \notin Names
  BY <1>2 DEF Resolve, generate_unnamed_alias
<1> QED BY <1>1, <1>2

\* The slot that add writes is empty, and is not a free id afterwards.
LEMMA NextIdIsEmpty ==
    ASSUME TypeOK, FreeIdsAreEmptySlots, NextId \in Ids
    PROVE  /\ tokens[NextId] = None
           /\ free_ids # <<>> => \A i \in 1 .. (Len(free_ids) - 1) :
                                    Tail(free_ids)[i] # NextId
           /\ NextId <= size
<1>1. CASE free_ids # <<>>
  <2>1. free_ids \in Seq(Ids) /\ Len(free_ids) \in Nat \ {0} /\ 1 \in DOMAIN free_ids
    BY <1>1, LenProperties, EmptySeq DEF TypeOK
  <2>2. tokens[free_ids[1]] = None /\ free_ids[1] < size
    BY <2>1 DEF FreeIdsAreEmptySlots
  <2>3. \A i \in 1 .. (Len(free_ids) - 1) : free_ids[i + 1] # free_ids[1]
    <3> SUFFICES ASSUME NEW i \in 1 .. (Len(free_ids) - 1),
                        free_ids[i + 1] = free_ids[1]
                 PROVE  FALSE
      OBVIOUS
    <3>1. i + 1 \in DOMAIN free_ids /\ i + 1 # 1
      BY <2>1, LenProperties
    <3> QED BY <2>1, <3>1 DEF FreeIdsAreEmptySlots
  <2>4. NextId = free_ids[1]
    BY <1>1, NextIdType
  <2>5. \A i \in 1 .. (Len(free_ids) - 1) : Tail(free_ids)[i] = free_ids[i + 1]
    BY <1>1, NextIdType
  <2>6. NextId <= size
    BY <2>2, <2>4, NextIdType DEF TypeOK
  <2> QED BY <2>2, <2>3, <2>4, <2>5, <2>6
<1>2. CASE free_ids = <<>>
  <2>1. NextId = size
    BY <1>2, NextIdType
  <2>2. tokens[size] # None => size < size
    BY <2>1 DEF FreeIdsAreEmptySlots
  <2> QED BY <1>2, <2>1, <2>2 DEF TypeOK
<1> QED BY <1>1, <1>2

\* A step that leaves the slots' liveness and the indexes alone keeps IndexInv.
LEMMA LivenessUntouched ==
    ASSUME IndexInv, TypeOK',
           \A id \in Ids : (tokens'[id] = None) <=> (tokens[id] = None),
           UNCHANGED <<size, alias_map, id_to_alias, free_ids>>
    PROVE  IndexInv'
<1>1. FreeIdsAreEmptySlots'
  <2>1. \A i \in DOMAIN free_ids : free_ids[i] \in Ids
    BY LenProperties, ElementOfSeq DEF IndexInv, TypeOK
  <2> QED BY <2>1 DEF IndexInv, FreeIdsAreEmptySlots
<1>2. AliasesIndexLiveTokens'
  BY DEF IndexInv, AliasesIndexLiveTokens
<1>3. UnnamedAliasesStayHome'
  BY DEF IndexInv, UnnamedAliasesStayHome
<1> QED BY <1>1, <1>2, <1>3 DEF IndexInv

\* add keeps slots, free ids and aliases consistent.
LEMMA AddKeepsIndex ==
    ASSUME IndexInv, TypeOK', NEW info \in TokenInfo, NEW alias \in RequestedAliases,
           add(info, alias)
    PROVE  IndexInv'
<1> DEFINE id == NextId
           a == Resolve(alias, id)
<1>1. /\ id \in Ids
      /\ a \in Aliases
      /\ alias_map[a] = None
      /\ tokens' = [tokens EXCEPT ![id] = info]
      /\ alias_map' = [alias_map EXCEPT ![a] = id]
      /\ id_to_alias' = [id_to_alias EXCEPT ![id] = a]
  BY ResolveType DEF add
<1>2. /\ tokens[id] = None
      /\ id_to_alias[id] = None
      /\ id <= size
  BY <1>1, NextIdIsEmpty DEF IndexInv, AliasesIndexLiveTokens
<1>3. \A other \in Ids : a = generate_unnamed_alias(other) => other = id
  BY <1>1, ResolveHome
<1>4. id \in Nat /\ size \in Nat /\ info # None /\ a # None
  BY <1>1, NoneAssumption DEF IndexInv, TypeOK, Ids
<1>5. /\ tokens \in [Ids -> TokenInfo \cup {None}]
      /\ alias_map \in [Aliases -> Ids \cup {None}]
      /\ id_to_alias \in [Ids -> Aliases \cup {None}]
  BY DEF IndexInv, TypeOK
<1>6. FreeIdsAreEmptySlots'
  <2>1. CASE free_ids # <<>>
    <3>1. /\ free_ids' = Tail(free_ids)
          /\ size' = size
          /\ id = free_ids[1]
          /\ Tail(free_ids) \in Seq(Ids)
          /\ Len(Tail(free_ids)) = Len(free_ids) - 1
          /\ \A i \in 1 .. (Len(free_ids) - 1) : Tail(free_ids)[i] = free_ids[i + 1]
          /\ \A i \in 1 .. (Len(free_ids) - 1) : Tail(free_ids)[i] # id
      BY <2>1, <1>1, NextIdType, NextIdIsEmpty DEF add, IndexInv
    <3>2. /\ DOMAIN free_ids' = 1 .. (Len(free_ids) - 1)
          /\ DOMAIN free_ids = 1 .. Len(free_ids)
          /\ Len(free_ids) \in Nat \ {0}
      BY <2>1, <3>1, LenProperties, EmptySeq DEF IndexInv, TypeOK
    <3>3. \A i \in DOMAIN free_ids : free_ids[i] \in Ids
      BY <3>2, ElementOfSeq DEF IndexInv, TypeOK
    <3> HIDE DEF id, a
    <3>4. ASSUME NEW i \in DOMAIN free_ids'
          PROVE  /\ free_ids'[i] < size'
                 /\ tokens'[free_ids'[i]] = None
                 /\ \A j \in DOMAIN free_ids' : free_ids'[i] = free_ids'[j] => i = j
      <4>1. i + 1 \in DOMAIN free_ids /\ free_ids'[i] = free_ids[i + 1] /\ free_ids'[i] # id
        BY <3>1, <3>2
      <4>2. \A j \in DOMAIN free_ids' :
               j + 1 \in DOMAIN free_ids /\ free_ids'[j] = free_ids[j + 1]
        BY <3>1, <3>2
      <4>3. free_ids[i + 1] < size /\ tokens[free_ids[i + 1]] = None
        BY <4>1 DEF IndexInv, FreeIdsAreEmptySlots
      <4>4. \A j \in DOMAIN free_ids' : free_ids'[i] = free_ids'[j] => i = j
        <5> SUFFICES ASSUME NEW j \in DOMAIN free_ids', free_ids'[i] = free_ids'[j]
                     PROVE  i = j
          OBVIOUS
        <5>1. free_ids[i + 1] = free_ids[j + 1]
          BY <4>1, <4>2
        <5>2. i + 1 = j + 1
          BY <4>1, <4>2, <5>1 DEF IndexInv, FreeIdsAreEmptySlots
        <5> QED BY <5>2, <3>2
      <4> QED BY <4>1, <4>3, <4>4, <3>1, <3>3, <1>1, <1>5
    <3>5. ASSUME NEW x \in Ids, tokens'[x] = None
          PROVE  x >= size' \/ \E i \in DOMAIN free_ids' : free_ids'[i] = x
      <4>1. x # id /\ tokens[x] = None
        BY <3>5, <1>1, <1>4, <1>5
      <4>2. CASE x >= size
        BY <4>2, <3>1
      <4>3. CASE \E i \in DOMAIN free_ids : free_ids[i] = x
        <5>1. PICK i \in DOMAIN free_ids : free_ids[i] = x
          BY <4>3
        <5>2. i # 1
          BY <5>1, <4>1, <3>1
        <5>3. i - 1 \in DOMAIN free_ids' /\ free_ids'[i - 1] = free_ids[i]
          BY <5>2, <3>1, <3>2
        <5> QED BY <5>1, <5>3
      <4> QED BY <4>1, <4>2, <4>3 DEF IndexInv, FreeIdsAreEmptySlots
    <3>6. ASSUME NEW x \in Ids, tokens'[x] # None
          PROVE  x < size'
      <4>1. id < size
        <5>1. 1 \in DOMAIN free_ids
          BY <3>2
        <5> QED BY <5>1, <3>1 DEF IndexInv, FreeIdsAreEmptySlots
      <4>2. CASE x = id
        BY <4>1, <4>2, <3>1
      <4>3. CASE x # id
        BY <4>3, <3>6, <3>1, <1>1, <1>5 DEF IndexInv, FreeIdsAreEmptySlots
      <4> QED BY <4>2, <4>3
    <3> QED BY <3>4, <3>5, <3>6 DEF FreeIdsAreEmptySlots
  <2>2. CASE free_ids = <<>>
    <3>1. free_ids' = <<>> /\ size' = size + 1 /\ id = size
      BY <2>2, NextIdType DEF add, IndexInv
    <3>2. DOMAIN free_ids' = {}
      BY <3>1
    <3>3. ASSUME NEW x \in Ids, tokens'[x] = None
          PROVE  x >= size'
      <4>1. x # id /\ tokens[x] = None
        BY <3>3, <1>1, <1>4, <1>5
      <4>2. x >= size
        BY <4>1, <2>2 DEF IndexInv, FreeIdsAreEmptySlots
      <4> QED BY <4>1, <4>2, <3>1, <1>4 DEF Ids
    <3>4. ASSUME NEW x \in Ids, tokens'[x] # None
          PROVE  x < size'
      <4>1. x = id \/ x < size
        BY <3>4, <1>1, <1>5 DEF IndexInv, FreeIdsAreEmptySlots
      <4> QED BY <4>1, <3>1, <1>4 DEF Ids
    <3> QED BY <3>2, <3>3, <3>4 DEF FreeIdsAreEmptySlots
  <2> QED BY <2>1, <2>2
<1> HIDE DEF id, a
<1>7. AliasesIndexLiveTokens'
  <2>1. \A x \in Ids : (tokens'[x] = None) <=> (id_to_alias'[x] = None)
    BY <1>1, <1>4, <1>5 DEF IndexInv, AliasesIndexLiveTokens
  <2>2. ASSUME NEW x \in Ids, id_to_alias'[x] # None
        PROVE  alias_map'[id_to_alias'[x]] = x
    <3>1. CASE x = id
      BY <3>1, <1>1, <1>5
    <3>2. CASE x # id
      <4>1. id_to_alias'[x] = id_to_alias[x] /\ alias_map[id_to_alias[x]] = x
        BY <3>2, <2>2, <1>1, <1>5 DEF IndexInv, AliasesIndexLiveTokens
      <4>2. id_to_alias[x] # a
        BY <4>1, <1>1, NoneAssumption DEF Ids
      <4> QED BY <4>1, <4>2, <1>1, <1>5, <2>2
    <3> QED BY <3>1, <3>2
  <2>3. ASSUME NEW b \in Aliases, alias_map'[b] # None
        PROVE  id_to_alias'[alias_map'[b]] = b
    <3>1. CASE b = a
      BY <3>1, <1>1, <1>5
    <3>2. CASE b # a
      <4>1. alias_map'[b] = alias_map[b] /\ alias_map[b] \in Ids /\ id_to_alias[alias_map[b]] = b
        BY <3>2, <2>3, <1>1, <1>5 DEF IndexInv, AliasesIndexLiveTokens
      <4>2. alias_map[b] # id
        BY <4>1, <1>2, NoneAssumption
      <4> QED BY <4>1, <4>2, <1>1, <1>5
    <3> QED BY <3>1, <3>2
  <2> QED BY <2>1, <2>2, <2>3 DEF AliasesIndexLiveTokens
<1>8. UnnamedAliasesStayHome'
  <2> SUFFICES ASSUME NEW x \in Ids
               PROVE  alias_map'[generate_unnamed_alias(x)] \in {x, None}
    BY DEF UnnamedAliasesStayHome
  <2>1. generate_unnamed_alias(x) \in Aliases
    BY DEF Aliases, UnnamedAliases
  <2>2. CASE generate_unnamed_alias(x) = a
    BY <2>2, <1>1, <1>3, <1>5
  <2>3. CASE generate_unnamed_alias(x) # a
    BY <2>1, <2>3, <1>1, <1>5 DEF IndexInv, UnnamedAliasesStayHome
  <2> QED BY <2>2, <2>3
<1> QED BY <1>6, <1>7, <1>8 DEF IndexInv

\* remove keeps slots, free ids and aliases consistent.
LEMMA RemoveKeepsIndex ==
    ASSUME IndexInv, TypeOK', NEW id \in Ids, remove(id)
    PROVE  IndexInv'
<1> DEFINE a == id_to_alias[id]
<1>1. /\ tokens[id] # None
      /\ tokens' = [tokens EXCEPT ![id] = None]
      /\ alias_map' = [alias_map EXCEPT ![a] = None]
      /\ id_to_alias' = [id_to_alias EXCEPT ![id] = None]
      /\ free_ids' = Append(free_ids, id)
      /\ size' = size
  BY DEF remove
<1>2. /\ tokens \in [Ids -> TokenInfo \cup {None}]
      /\ alias_map \in [Aliases -> Ids \cup {None}]
      /\ id_to_alias \in [Ids -> Aliases \cup {None}]
      /\ free_ids \in Seq(Ids)
  BY DEF IndexInv, TypeOK
<1>3. a \in Aliases /\ alias_map[a] = id
  BY <1>1, <1>2 DEF IndexInv, AliasesIndexLiveTokens
<1>4. FreeIdsAreEmptySlots'
  <2> DEFINE n == Len(free_ids)
  <2>1. /\ n \in Nat
        /\ DOMAIN free_ids = 1 .. n
        /\ DOMAIN free_ids' = 1 .. (n + 1)
        /\ \A i \in 1 .. n : free_ids'[i] = free_ids[i] /\ free_ids[i] \in Ids
        /\ free_ids'[n + 1] = id
    <3>1. /\ n \in Nat
          /\ DOMAIN free_ids = 1 .. n
          /\ Append(free_ids, id) \in Seq(Ids)
          /\ Len(Append(free_ids, id)) = n + 1
          /\ \A i \in 1 .. n : Append(free_ids, id)[i] = free_ids[i]
          /\ Append(free_ids, id)[n + 1] = id
          /\ \A i \in 1 .. n : free_ids[i] \in Ids
      BY <1>2, LenProperties, AppendProperties, ElementOfSeq
    <3>2. DOMAIN free_ids' = 1 .. (n + 1)
      BY <3>1, <1>1, LenProperties
    <3> QED BY <3>1, <3>2, <1>1
  <2>2. \A i \in 1 .. n : free_ids[i] # id /\ free_ids[i] < size /\ tokens[free_ids[i]] = None
    BY <2>1, <1>1 DEF IndexInv, FreeIdsAreEmptySlots
  <2>3. id < size
    BY <1>1 DEF IndexInv, FreeIdsAreEmptySlots
  <2> HIDE DEF n
  <2>4. ASSUME NEW i \in 1 .. (n + 1)
        PROVE  /\ free_ids'[i] < size'
               /\ tokens'[free_ids'[i]] = None
               /\ \A j \in 1 .. (n + 1) : free_ids'[i] = free_ids'[j] => i = j
    <3>1. CASE i = n + 1
      <4>1. free_ids'[i] < size' /\ tokens'[free_ids'[i]] = None
        BY <3>1, <2>1, <2>3, <1>1, <1>2
      <4>2. ASSUME NEW j \in 1 .. (n + 1), free_ids'[i] = free_ids'[j] PROVE i = j
        <5>1. j \notin 1 .. n
          BY <4>2, <3>1, <2>1, <2>2
        <5> QED BY <5>1, <3>1, <2>1
      <4> QED BY <4>1, <4>2
    <3>2. CASE i # n + 1
      <4>0. i \in 1 .. n
        BY <3>2, <2>1
      <4>1. free_ids'[i] = free_ids[i] /\ free_ids[i] \in Ids /\ free_ids[i] # id
        BY <4>0, <2>1, <2>2
      <4>2. free_ids'[i] < size' /\ tokens'[free_ids'[i]] = None
        BY <4>0, <4>1, <2>2, <1>1, <1>2
      <4>3. ASSUME NEW j \in 1 .. (n + 1), free_ids'[i] = free_ids'[j] PROVE i = j
        <5>1. j # n + 1
          BY <4>3, <4>1, <2>1
        <5>2. j \in 1 .. n
          BY <5>1, <2>1
        <5>3. free_ids[i] = free_ids[j]
          BY <5>2, <4>3, <4>1, <2>1
        <5> QED BY <5>2, <5>3, <4>0, <2>1 DEF IndexInv, FreeIdsAreEmptySlots
      <4> QED BY <4>2, <4>3
    <3> QED BY <3>1, <3>2
  <2>5. ASSUME NEW x \in Ids, tokens'[x] = None
        PROVE  x >= size' \/ \E i \in 1 .. (n + 1) : free_ids'[i] = x
    <3>1. CASE x = id
      <4>1. n + 1 \in 1 .. (n + 1)
        BY <2>1
      <4> QED BY <3>1, <4>1, <2>1
    <3>2. CASE x # id
      <4>1. tokens[x] = None
        BY <3>2, <2>5, <1>1, <1>2
      <4>2. x >= size \/ \E i \in 1 .. n : free_ids[i] = x
        BY <4>1, <2>1 DEF IndexInv, FreeIdsAreEmptySlots
      <4>3. \A i \in 1 .. n : i \in 1 .. (n + 1)
        BY <2>1
      <4> QED BY <4>2, <4>3, <2>1, <1>1
    <3> QED BY <3>1, <3>2
  <2>6. ASSUME NEW x \in Ids, tokens'[x] # None
        PROVE  x < size'
    BY <2>6, <1>1, <1>2 DEF IndexInv, FreeIdsAreEmptySlots
  <2> QED BY <2>1, <2>4, <2>5, <2>6 DEF FreeIdsAreEmptySlots
<1>5. AliasesIndexLiveTokens'
  <2>1. \A x \in Ids : (tokens'[x] = None) <=> (id_to_alias'[x] = None)
    BY <1>1, <1>2 DEF IndexInv, AliasesIndexLiveTokens
  <2>2. ASSUME NEW x \in Ids, id_to_alias'[x] # None
        PROVE  alias_map'[id_to_alias'[x]] = x
    <3>1. x # id /\ id_to_alias'[x] = id_to_alias[x] /\ alias_map[id_to_alias[x]] = x
      BY <2>2, <1>1, <1>2 DEF IndexInv, AliasesIndexLiveTokens
    <3>2. id_to_alias[x] # a
      BY <3>1, <1>3
    <3> QED BY <3>1, <3>2, <2>2, <1>1, <1>2
  <2>3. ASSUME NEW b \in Aliases, alias_map'[b] # None
        PROVE  id_to_alias'[alias_map'[b]] = b
    <3>1. b # a /\ alias_map'[b] = alias_map[b]
      BY <2>3, <1>1, <1>2
    <3>2. alias_map[b] \in Ids /\ id_to_alias[alias_map[b]] = b
      BY <2>3, <3>1, <1>2 DEF IndexInv, AliasesIndexLiveTokens
    <3>3. alias_map[b] # id
      BY <3>1, <3>2
    <3> QED BY <3>1, <3>2, <3>3, <1>1, <1>2
  <2> QED BY <2>1, <2>2, <2>3 DEF AliasesIndexLiveTokens
<1>6. UnnamedAliasesStayHome'
  <2> SUFFICES ASSUME NEW x \in Ids
               PROVE  alias_map'[generate_unnamed_alias(x)] \in {x, None}
    BY DEF UnnamedAliasesStayHome
  <2>1. generate_unnamed_alias(x) \in Aliases
    BY DEF Aliases, UnnamedAliases
  <2> QED BY <2>1, <1>1, <1>2 DEF IndexInv, UnnamedAliasesStayHome
<1> QED BY <1>4, <1>5, <1>6 DEF IndexInv

\* set_alias keeps slots, free ids and aliases consistent.
LEMMA SetAliasKeepsIndex ==
    ASSUME IndexInv, TypeOK', NEW id \in Ids, NEW alias \in RequestedAliases,
           set_alias(id, alias)
    PROVE  IndexInv'
<1> DEFINE old == id_to_alias[id]
           a == Resolve(alias, id)
<1>1. /\ tokens[id] # None
      /\ a \in Aliases
      /\ alias_map[a] = None
      /\ alias_map' = [alias_map EXCEPT ![old] = None, ![a] = id]
      /\ id_to_alias' = [id_to_alias EXCEPT ![id] = a]
      /\ UNCHANGED <<tokens, size, free_ids>>
  BY ResolveType DEF set_alias
<1>2. /\ tokens \in [Ids -> TokenInfo \cup {None}]
      /\ alias_map \in [Aliases -> Ids \cup {None}]
      /\ id_to_alias \in [Ids -> Aliases \cup {None}]
  BY DEF IndexInv, TypeOK
<1>3. old \in Aliases /\ alias_map[old] = id /\ old # a /\ a # None
  BY <1>1, <1>2, NoneAssumption DEF IndexInv, AliasesIndexLiveTokens, Ids
<1>4. \A other \in Ids : a = generate_unnamed_alias(other) => other = id
  BY ResolveHome
<1> HIDE DEF a, old
<1>5. \A b \in Aliases : alias_map'[b] = IF b = a THEN id
                                         ELSE IF b = old THEN None
                                         ELSE alias_map[b]
  BY <1>1, <1>2, <1>3
<1>6. FreeIdsAreEmptySlots'
  BY <1>1 DEF IndexInv, FreeIdsAreEmptySlots
<1>7. AliasesIndexLiveTokens'
  <2>1. \A x \in Ids : (tokens'[x] = None) <=> (id_to_alias'[x] = None)
    BY <1>1, <1>2, <1>3 DEF IndexInv, AliasesIndexLiveTokens
  <2>2. ASSUME NEW x \in Ids, id_to_alias'[x] # None
        PROVE  alias_map'[id_to_alias'[x]] = x
    <3>1. CASE x = id
      BY <3>1, <1>1, <1>2, <1>5
    <3>2. CASE x # id
      <4>1. /\ id_to_alias'[x] = id_to_alias[x]
            /\ id_to_alias[x] \in Aliases
            /\ alias_map[id_to_alias[x]] = x
        BY <3>2, <2>2, <1>1, <1>2 DEF IndexInv, AliasesIndexLiveTokens
      <4>2. id_to_alias[x] # a /\ id_to_alias[x] # old
        BY <3>2, <4>1, <1>1, <1>3, NoneAssumption DEF Ids
      <4> QED BY <4>1, <4>2, <1>5
    <3> QED BY <3>1, <3>2
  <2>3. ASSUME NEW b \in Aliases, alias_map'[b] # None
        PROVE  id_to_alias'[alias_map'[b]] = b
    <3>1. CASE b = a
      BY <3>1, <1>1, <1>2, <1>5
    <3>2. CASE b # a
      <4>1. b # old /\ alias_map'[b] = alias_map[b]
        BY <3>2, <2>3, <1>5
      <4>2. alias_map[b] \in Ids /\ id_to_alias[alias_map[b]] = b
        BY <2>3, <4>1, <1>2 DEF IndexInv, AliasesIndexLiveTokens
      <4>3. alias_map[b] # id
        BY <4>1, <4>2 DEF old
      <4> QED BY <4>1, <4>2, <4>3, <1>1, <1>2
    <3> QED BY <3>1, <3>2
  <2> QED BY <2>1, <2>2, <2>3 DEF AliasesIndexLiveTokens
<1>8. UnnamedAliasesStayHome'
  <2> SUFFICES ASSUME NEW x \in Ids
               PROVE  alias_map'[generate_unnamed_alias(x)] \in {x, None}
    BY DEF UnnamedAliasesStayHome
  <2>1. generate_unnamed_alias(x) \in Aliases
    BY DEF Aliases, UnnamedAliases
  <2> QED BY <2>1, <1>4, <1>5 DEF IndexInv, UnnamedAliasesStayHome
<1> QED BY <1>6, <1>7, <1>8 DEF IndexInv

\* A new manager has no tokens, no aliases and no free ids.
LEMMA IndexInit == Init => IndexInv
<1> SUFFICES ASSUME Init PROVE IndexInv
  OBVIOUS
<1>1. TypeOK
  BY EmptySeq, ConstantsAssumption DEF Init, TypeOK
<1>2. FreeIdsAreEmptySlots
  BY DEF Init, FreeIdsAreEmptySlots, Ids
<1>3. AliasesIndexLiveTokens
  BY DEF Init, AliasesIndexLiveTokens
<1>4. UnnamedAliasesStayHome
  BY DEF Init, UnnamedAliasesStayHome, Aliases, UnnamedAliases
<1> QED BY <1>1, <1>2, <1>3, <1>4 DEF IndexInv

\* Every operation of the manager keeps IndexInv.
LEMMA IndexStep ==
    ASSUME IndexInv, [Next]_vars
    PROVE  IndexInv'
<1>0. TypeOK'
  BY TypeStep DEF IndexInv
<1>1. ASSUME NEW info \in TokenInfo, NEW alias \in RequestedAliases, add(info, alias)
      PROVE  IndexInv'
  BY <1>1, <1>0, AddKeepsIndex
<1>2. ASSUME NEW id \in Ids, remove(id)
      PROVE  IndexInv'
  BY <1>2, <1>0, RemoveKeepsIndex
<1>3. ASSUME NEW id \in Ids, NEW alias \in RequestedAliases, set_alias(id, alias)
      PROVE  IndexInv'
  BY <1>3, <1>0, SetAliasKeepsIndex
<1>4. ASSUME NEW id \in Ids, NEW k \in Keys, TokenWriter_drop(id, k)
      PROVE  IndexInv'
  <2>1. tokens' = [tokens EXCEPT ![id].key = k] /\ tokens[id] # None
    BY <1>4 DEF TokenWriter_drop
  <2>2. tokens'[id] \in TokenInfo
    BY <2>1 DEF IndexInv, TypeOK, TokenInfo
  <2>3. \A x \in Ids : (tokens'[x] = None) <=> (tokens[x] = None)
    BY <2>1, <2>2, NoneAssumption DEF IndexInv, TypeOK
  <2> QED BY <1>4, <2>3, <1>0, LivenessUntouched DEF TokenWriter_drop
<1>5. ASSUME NEW id \in Ids, NEW s \in Statuses, set_status(id, s)
      PROVE  IndexInv'
  <2>1. tokens' = [tokens EXCEPT ![id].status = s] /\ tokens[id] # None
    BY <1>5 DEF set_status
  <2>2. tokens'[id] \in TokenInfo
    BY <2>1 DEF IndexInv, TypeOK, TokenInfo
  <2>3. \A x \in Ids : (tokens'[x] = None) <=> (tokens[x] = None)
    BY <2>1, <2>2, NoneAssumption DEF IndexInv, TypeOK
  <2> QED BY <1>5, <2>3, <1>0, LivenessUntouched DEF set_status
<1>6. CASE new
  <2>1. FreeIdsAreEmptySlots'
    BY <1>6 DEF new, FreeIdsAreEmptySlots, Ids
  <2>2. AliasesIndexLiveTokens'
    BY <1>6 DEF new, AliasesIndexLiveTokens
  <2>3. UnnamedAliasesStayHome'
    BY <1>6 DEF new, UnnamedAliasesStayHome, Aliases, UnnamedAliases
  <2> QED BY <1>0, <2>1, <2>2, <2>3 DEF IndexInv
<1>7. ASSUME NEW r \in Readers, Select(r)
      PROVE  IndexInv'
  <2>1. UNCHANGED managerVars
    BY <1>7 DEF Select, select_load, select_store, select_none
  <2> QED BY <2>1, <1>0, LivenessUntouched DEF managerVars
<1>8. CASE UNCHANGED vars
  BY <1>8, <1>0, LivenessUntouched DEF vars, managerVars
<1> QED BY <1>1, <1>2, <1>3, <1>4, <1>5, <1>6, <1>7, <1>8 DEF Next, Write

\* IndexInv is an invariant of every behaviour of the manager.
LEMMA IndexInvariant == Spec => []IndexInv
<1>1. Init => IndexInv
  BY IndexInit
<1>2. IndexInv /\ [Next]_vars => IndexInv'
  BY IndexStep
<1> QED BY <1>1, <1>2, PTL DEF Spec

\* The slots, the free ids and the two alias indexes of the manager stay
\* consistent through every sequence of calls, equal keys included: the
\* unchecked alias lookups of get_by_alias, remove, set_alias, list and save
\* are safe.
THEOREM IndexesConsistent ==
    Spec => [](FreeIdsAreEmptySlots /\ AliasesIndexLiveTokens /\ UnnamedAliasesStayHome)
<1>1. IndexInv => FreeIdsAreEmptySlots /\ AliasesIndexLiveTokens /\ UnnamedAliasesStayHome
  BY DEF IndexInv
<1> QED BY <1>1, IndexInvariant, PTL

\* The alias generated for the slot that add will use is free: it could only be
\* held by that slot, which is empty.
LEMMA NextAliasIsFree == IndexInv => UnnamedAddNeverRejected
<1> SUFFICES ASSUME IndexInv, NextId \in Ids
             PROVE  alias_map[generate_unnamed_alias(NextId)] = None
  BY DEF UnnamedAddNeverRejected
<1>1. tokens[NextId] = None
  BY NextIdIsEmpty DEF IndexInv
<1>2. id_to_alias[NextId] = None
  BY <1>1 DEF IndexInv, AliasesIndexLiveTokens
<1>3. generate_unnamed_alias(NextId) \in Aliases /\ generate_unnamed_alias(NextId) # None
  BY NoneAssumption DEF Aliases, UnnamedAliases
<1>4. alias_map[generate_unnamed_alias(NextId)] # NextId
  BY <1>2, <1>3, NoneAssumption DEF IndexInv, AliasesIndexLiveTokens, Ids
<1> QED BY <1>4 DEF IndexInv, UnnamedAliasesStayHome

\* An unnamed token is never rejected: POST /tokens/add without an alias cannot
\* fail with AliasExists.
THEOREM UnnamedAddAccepted == Spec => []UnnamedAddNeverRejected
BY NextAliasIsFree, IndexInvariant, PTL

-----------------------------------------------------------------------------
(***************************************************************************)
(* While the live tokens of the manager have distinct keys, the key index  *)
(* and the round-robin queue agree with the slots and no unchecked access  *)
(* goes wrong.  The proof is the maintainers' argument in the comments of  *)
(* queue.rs and token.rs, with the hypothesis those comments leave out.    *)
(***************************************************************************)

\* The inductive invariant.  IndexInv gives add an empty slot; DistinctKeys
\* makes the entry that a key finds the entry of the token at hand.
QueueInv ==
    /\ IndexInv
    /\ DistinctKeys
    /\ KeyIndexAgrees
    /\ QueueIndexAgrees
    /\ NoFault

\* What an entry of the queue is: a live token, whose key leads back to it.
LEMMA EntryIsLive ==
    ASSUME QueueInv, NEW i \in DOMAIN vec
    PROVE  /\ vec[i] \in Ids
           /\ tokens[vec[i]] \in TokenInfo
           /\ tokens[vec[i]].key \in Keys
           /\ map[tokens[vec[i]].key] = i - 1
           /\ i \in 1 .. Len(vec)
           /\ Len(vec) \in Nat
<1>1. vec \in Seq(Ids) /\ tokens \in [Ids -> TokenInfo \cup {None}]
  BY DEF QueueInv, IndexInv, TypeOK
<1>2. Len(vec) \in Nat /\ DOMAIN vec = 1 .. Len(vec)
  BY <1>1, LenProperties
<1>3. vec[i] \in Ids
  BY <1>1, <1>2, ElementOfSeq
<1>4. tokens[vec[i]] # None /\ map[tokens[vec[i]].key] = i - 1
  BY DEF QueueInv, QueueIndexAgrees
<1>5. tokens[vec[i]] \in TokenInfo
  BY <1>1, <1>3, <1>4
<1> QED BY <1>2, <1>3, <1>4, <1>5 DEF TokenInfo

\* A key that the queue or the key index knows is the key of a live token.
LEMMA KnownKeyIsLive ==
    ASSUME QueueInv, NEW k \in Keys
    PROVE  /\ map[k] # None =>
                 /\ map[k] \in Nat
                 /\ map[k] + 1 \in DOMAIN vec
                 /\ vec[map[k] + 1] \in Ids
                 /\ tokens[vec[map[k] + 1]] # None
                 /\ tokens[vec[map[k] + 1]].key = k
           /\ id_map[k] # None =>
                 /\ id_map[k] \in Ids
                 /\ tokens[id_map[k]] # None
                 /\ tokens[id_map[k]].key = k
<1>1. ASSUME map[k] # None
      PROVE  /\ map[k] \in Nat
             /\ map[k] + 1 \in DOMAIN vec
             /\ vec[map[k] + 1] \in Ids
             /\ tokens[vec[map[k] + 1]] # None
             /\ tokens[vec[map[k] + 1]].key = k
  <2>1. map[k] \in Nat /\ vec \in Seq(Ids)
    BY <1>1 DEF QueueInv, IndexInv, TypeOK
  <2>2. map[k] < Len(vec) /\ tokens[vec[map[k] + 1]].key = k
    BY <1>1 DEF QueueInv, QueueIndexAgrees
  <2>3. map[k] + 1 \in DOMAIN vec
    BY <2>1, <2>2, LenProperties
  <2>4. vec[map[k] + 1] \in Ids /\ tokens[vec[map[k] + 1]] # None
    BY <2>3, EntryIsLive, NoneAssumption
  <2> QED BY <2>1, <2>2, <2>3, <2>4
<1>2. ASSUME id_map[k] # None
      PROVE  id_map[k] \in Ids /\ tokens[id_map[k]] # None /\ tokens[id_map[k]].key = k
  BY <1>2 DEF QueueInv, IndexInv, TypeOK, KeyIndexAgrees
<1> QED BY <1>1, <1>2

\* A token without a key of its own among the live ones: no index knows it.
LEMMA NewKeyIsUnknown ==
    ASSUME QueueInv, NEW k \in Keys,
           \A id \in Ids : tokens[id] # None => tokens[id].key # k
    PROVE  map[k] = None /\ id_map[k] = None
BY KnownKeyIsLive

\* add keeps the key index and the queue, when it brings a new key.
LEMMA AddKeepsQueue ==
    ASSUME QueueInv, IndexInv', DistinctKeys',
           NEW info \in TokenInfo, NEW alias \in RequestedAliases, add(info, alias)
    PROVE  QueueInv'
<1> DEFINE id == NextId
           k == info.key
           n == Len(vec)
<1>1. /\ id \in Ids
      /\ k \in Keys
      /\ tokens' = [tokens EXCEPT ![id] = info]
      /\ id_map' = [id_map EXCEPT ![k] = id]
      /\ vec' = Append(vec, id)
      /\ map' = [map EXCEPT ![k] = n]
      /\ fault' = fault
  BY DEF add, TokenInfo
<1>2. tokens[id] = None
  BY <1>1, NextIdIsEmpty DEF QueueInv, IndexInv
<1>3. /\ tokens \in [Ids -> TokenInfo \cup {None}]
      /\ id_map \in [Keys -> Ids \cup {None}]
      /\ map \in [Keys -> Nat \cup {None}]
      /\ vec \in Seq(Ids)
  BY DEF QueueInv, IndexInv, TypeOK
<1>4. /\ n \in Nat
      /\ DOMAIN vec = 1 .. n
      /\ DOMAIN vec' = 1 .. (n + 1)
      /\ Len(vec') = n + 1
      /\ \A i \in 1 .. n : vec'[i] = vec[i]
      /\ vec'[n + 1] = id
  <2>1. /\ Append(vec, id) \in Seq(Ids)
        /\ Len(Append(vec, id)) = n + 1
        /\ \A i \in 1 .. n : Append(vec, id)[i] = vec[i]
        /\ Append(vec, id)[n + 1] = id
        /\ n \in Nat
        /\ DOMAIN vec = 1 .. n
    BY <1>1, <1>3, AppendProperties, LenProperties
  <2>2. DOMAIN Append(vec, id) = 1 .. (n + 1)
    BY <2>1, LenProperties
  <2> QED BY <1>1, <2>1, <2>2
<1> HIDE DEF id, k, n
<1>5. info # None /\ tokens'[id] = info /\ info.key = k
  BY <1>1, <1>3, NoneAssumption DEF k
<1>6. \A x \in Ids : tokens[x] # None => x # id /\ tokens'[x] = tokens[x]
  BY <1>1, <1>2, <1>3
<1>7. \A x \in Ids : tokens[x] # None => tokens[x].key # k
  BY <1>1, <1>5, <1>6 DEF DistinctKeys
<1>8. map[k] = None /\ id_map[k] = None
  BY <1>1, <1>7, NewKeyIsUnknown
<1>9. KeyIndexAgrees'
  <2>1. ASSUME NEW key \in Keys, id_map'[key] # None
        PROVE  tokens'[id_map'[key]] # None /\ tokens'[id_map'[key]].key = key
    <3>1. CASE key = k
      BY <3>1, <1>1, <1>3, <1>5
    <3>2. CASE key # k
      <4>1. id_map'[key] = id_map[key]
        BY <3>2, <1>1, <1>3
      <4> QED BY <4>1, <2>1, <1>6, KnownKeyIsLive
    <3> QED BY <3>1, <3>2
  <2>2. ASSUME NEW x \in Ids, tokens'[x] # None
        PROVE  id_map'[tokens'[x].key] = x
    <3>1. CASE x = id
      BY <3>1, <1>1, <1>3, <1>5
    <3>2. CASE x # id
      <4>1. tokens'[x] = tokens[x] /\ tokens[x] # None
        BY <3>2, <2>2, <1>1, <1>3
      <4>2. tokens[x].key \in Keys /\ tokens[x].key # k
        BY <4>1, <1>3, <1>7 DEF TokenInfo
      <4>3. id_map[tokens[x].key] = x
        BY <4>1 DEF QueueInv, KeyIndexAgrees
      <4> QED BY <4>1, <4>2, <4>3, <1>1, <1>3
    <3> QED BY <3>1, <3>2
  <2> QED BY <2>1, <2>2 DEF KeyIndexAgrees
<1>10. QueueIndexAgrees'
  <2>1. ASSUME NEW i \in 1 .. (n + 1)
        PROVE  tokens'[vec'[i]] # None /\ map'[tokens'[vec'[i]].key] = i - 1
    <3>1. CASE i = n + 1
      BY <3>1, <1>1, <1>3, <1>4, <1>5
    <3>2. CASE i # n + 1
      <4>1. i \in 1 .. n /\ i \in DOMAIN vec
        BY <3>2, <1>4
      <4>2. /\ vec[i] \in Ids
            /\ tokens[vec[i]] # None
            /\ tokens[vec[i]].key \in Keys
            /\ map[tokens[vec[i]].key] = i - 1
        BY <4>1, EntryIsLive, NoneAssumption
      <4>3. vec'[i] = vec[i] /\ tokens'[vec'[i]] = tokens[vec[i]] /\ tokens[vec[i]].key # k
        BY <4>1, <4>2, <1>4, <1>6, <1>7
      <4> QED BY <4>2, <4>3, <1>1, <1>3
    <3> QED BY <3>1, <3>2
  <2>2. ASSUME NEW key \in Keys, map'[key] # None
        PROVE  map'[key] < Len(vec') /\ tokens'[vec'[map'[key] + 1]].key = key
    <3>1. CASE key = k
      BY <3>1, <1>1, <1>3, <1>4, <1>5
    <3>2. CASE key # k
      <4>1. map'[key] = map[key]
        BY <3>2, <1>1, <1>3
      <4>2. /\ map[key] \in Nat
            /\ map[key] + 1 \in 1 .. n
            /\ vec[map[key] + 1] \in Ids
            /\ tokens[vec[map[key] + 1]] # None
            /\ tokens[vec[map[key] + 1]].key = key
        BY <4>1, <2>2, <1>4, KnownKeyIsLive
      <4>3. vec'[map[key] + 1] = vec[map[key] + 1]
        BY <4>2, <1>4
      <4>4. tokens'[vec'[map[key] + 1]] = tokens[vec[map[key] + 1]]
        BY <4>2, <4>3, <1>6
      <4> QED BY <4>1, <4>2, <4>4, <1>4
    <3> QED BY <3>1, <3>2
  <2>3. ASSUME NEW x \in Ids, tokens'[x] # None
        PROVE  map'[tokens'[x].key] # None
    <3>1. CASE x = id
      BY <3>1, <1>1, <1>3, <1>4, <1>5, NoneAssumption
    <3>2. CASE x # id
      <4>1. tokens'[x] = tokens[x] /\ tokens[x] # None
        BY <3>2, <2>3, <1>1, <1>3
      <4>2. tokens[x].key \in Keys /\ tokens[x].key # k
        BY <4>1, <1>3, <1>7 DEF TokenInfo
      <4> QED BY <4>1, <4>2, <1>1, <1>3 DEF QueueInv, QueueIndexAgrees
    <3> QED BY <3>1, <3>2
  <2> QED BY <2>1, <2>2, <2>3, <1>4 DEF QueueIndexAgrees
<1> QED BY <1>1, <1>9, <1>10 DEF QueueInv, NoFault

\* remove keeps the key index and the queue: every moved entry is the only one
\* of its key, so re-indexing finds it in map and gives it its new position.
LEMMA RemoveKeepsQueue ==
    ASSUME QueueInv, IndexInv', DistinctKeys', NEW id \in Ids, remove(id)
    PROVE  QueueInv'
<1> DEFINE k == tokens[id].key
           live == [tokens EXCEPT ![id] = None]
           p == map[k]
           n == Len(vec)
<1>1. /\ tokens[id] # None
      /\ tokens' = live
      /\ id_map' = [id_map EXCEPT ![k] = None]
      /\ queue_remove(k, live)
  BY DEF remove
<1>2. /\ tokens \in [Ids -> TokenInfo \cup {None}]
      /\ id_map \in [Keys -> Ids \cup {None}]
      /\ map \in [Keys -> Nat \cup {None}]
      /\ vec \in Seq(Ids)
      /\ n \in Nat
      /\ DOMAIN vec = 1 .. n
  BY LenProperties DEF QueueInv, IndexInv, TypeOK
<1>3. tokens[id] \in TokenInfo /\ k \in Keys
  BY <1>1, <1>2 DEF TokenInfo
<1>4. map[k] # None /\ p \in Nat /\ p + 1 \in 1 .. n /\ vec[p + 1] = id
  <2>1. map[k] # None
    BY <1>1 DEF QueueInv, QueueIndexAgrees
  <2>2. /\ map[k] \in Nat
        /\ map[k] + 1 \in DOMAIN vec
        /\ vec[map[k] + 1] \in Ids
        /\ tokens[vec[map[k] + 1]] # None
        /\ tokens[vec[map[k] + 1]].key = k
    BY <2>1, <1>3, KnownKeyIsLive
  <2>3. vec[map[k] + 1] = id
    BY <2>2, <1>1 DEF QueueInv, DistinctKeys
  <2> QED BY <2>1, <2>2, <2>3, <1>2
<1>5. \A x \in Ids : tokens'[x] = IF x = id THEN None ELSE tokens[x]
  BY <1>1, <1>2
<1>6. \A x \in Ids : (tokens[x] # None /\ x # id) => tokens[x].key \in Keys /\ tokens[x].key # k
  BY <1>1, <1>2 DEF QueueInv, DistinctKeys, TokenInfo
<1>7. /\ vec' = RemoveAt(vec, p + 1)
      /\ \/ Reindexable(vec', p, live, k) /\ map' = Reindexed(vec', p, live, k) /\ fault' = fault
         \/ ~Reindexable(vec', p, live, k)
  BY <1>1, <1>2, <1>4 DEF queue_remove
<1>8. /\ vec' \in Seq(Ids)
      /\ Len(vec') = n - 1
      /\ DOMAIN vec' = 1 .. (n - 1)
      /\ \A j \in 1 .. (n - 1) : vec'[j] = IF j < p + 1 THEN vec[j] ELSE vec[j + 1]
  <2> HIDE DEF p
  <2>1. /\ RemoveAt(vec, p + 1) \in Seq(Ids)
        /\ Len(RemoveAt(vec, p + 1)) = n - 1
        /\ \A j \in 1 .. (n - 1) :
              RemoveAt(vec, p + 1)[j] = IF j < p + 1 THEN vec[j] ELSE vec[j + 1]
    BY <1>2, <1>4, RemoveAtProperties
  <2>2. DOMAIN RemoveAt(vec, p + 1) = 1 .. (n - 1)
    BY <2>1, LenProperties
  <2> QED BY <2>1, <2>2, <1>7
<1> HIDE DEF k, live, p, n
\* The entries of vec' and where they were in vec.
<1>9. ASSUME NEW j \in 1 .. (n - 1)
      PROVE  /\ vec'[j] \in Ids
             /\ vec'[j] # id
             /\ tokens[vec'[j]] # None
             /\ live[vec'[j]] = tokens[vec'[j]]
             /\ tokens[vec'[j]].key \in Keys
             /\ tokens[vec'[j]].key # k
             /\ map[tokens[vec'[j]].key] = IF j < p + 1 THEN j - 1 ELSE j
  <2>1. CASE j < p + 1
    <3>1. j \in 1 .. n /\ j # p + 1 /\ vec'[j] = vec[j]
      BY <2>1, <1>2, <1>4, <1>8
    <3>2. /\ vec[j] \in Ids
          /\ tokens[vec[j]] # None
          /\ map[tokens[vec[j]].key] = j - 1
      BY <3>1, <1>2, EntryIsLive, NoneAssumption
    <3>3. vec[j] # id
      BY <3>1, <3>2, <1>2, <1>4 DEF p, k
    <3> QED BY <2>1, <3>1, <3>2, <3>3, <1>1, <1>5, <1>6
  <2>2. CASE ~(j < p + 1)
    <3>1. j + 1 \in 1 .. n /\ j + 1 # p + 1 /\ vec'[j] = vec[j + 1]
      BY <2>2, <1>2, <1>4, <1>8
    <3> DEFINE i == j + 1
    <3>a. i \in DOMAIN vec /\ i - 1 = j
      BY <3>1, <1>2
    <3> HIDE DEF i
    <3>b. vec[i] \in Ids /\ tokens[vec[i]] # None /\ map[tokens[vec[i]].key] = i - 1
      BY <3>a, EntryIsLive, NoneAssumption
    <3>2. /\ vec[j + 1] \in Ids
          /\ tokens[vec[j + 1]] # None
          /\ map[tokens[vec[j + 1]].key] = j
      BY <3>a, <3>b DEF i
    <3>3. vec[j + 1] # id
      BY <3>1, <3>2, <1>2, <1>4 DEF p, k
    <3> QED BY <2>2, <3>1, <3>2, <3>3, <1>1, <1>2, <1>5, <1>6
  <2> QED BY <2>1, <2>2
<1>10. Moved(vec', p) = (p + 1) .. (n - 1) /\ \A i \in Moved(vec', p) : i \in 1 .. (n - 1) /\ ~(i < p + 1)
  BY <1>2, <1>4, <1>8 DEF Moved
<1>11. Reindexable(vec', p, live, k)
  <2> SUFFICES ASSUME NEW i \in Moved(vec', p)
               PROVE  /\ live[vec'[i]] # None
                      /\ live[vec'[i]].key # k
                      /\ map[live[vec'[i]].key] # None
    BY DEF Reindexable
  <2>1. i \in 1 .. (n - 1) /\ ~(i < p + 1)
    BY <1>10
  <2>2. i # None
    BY <2>1, <1>2, NoneAssumption
  <2> QED BY <2>1, <2>2, <1>9
<1>12. map' = Reindexed(vec', p, live, k) /\ fault' = fault
  BY <1>7, <1>11
\* The one entry that a key has among the moved ones.
<1>13. ASSUME NEW key \in Keys, NEW i \in Entries(vec', p, live, key)
       PROVE  i \in 1 .. (n - 1) /\ ~(i < p + 1) /\ map[key] = i /\ tokens[vec'[i]].key = key
  <2>1. i \in 1 .. (n - 1) /\ ~(i < p + 1) /\ live[vec'[i]].key = key
    BY <1>10 DEF Entries
  <2> QED BY <2>1, <1>9
<1>14. ASSUME NEW key \in Keys, key # k, Entries(vec', p, live, key) # {}
       PROVE  /\ map[key] \in 1 .. (n - 1)
              /\ ~(map[key] < p + 1)
              /\ map'[key] = map[key] - 1
              /\ tokens[vec'[map[key]]].key = key
  <2>1. Max(Entries(vec', p, live, key)) \in Entries(vec', p, live, key)
    BY <1>4, <1>8, <1>14, MaxOfEntries
  <2>2. map[key] = Max(Entries(vec', p, live, key))
    BY <2>1, <1>13
  <2>3. map'[key] = Max(Entries(vec', p, live, key)) - 1
    BY <1>12, <1>14 DEF Reindexed
  <2> QED BY <2>1, <2>2, <2>3, <1>13
<1>15. map'[k] = None
  BY <1>3, <1>12 DEF Reindexed
<1>16. ASSUME NEW key \in Keys, key # k, Entries(vec', p, live, key) = {}
       PROVE  map'[key] = map[key]
  BY <1>12, <1>16 DEF Reindexed
<1>17. ASSUME NEW j \in 1 .. (n - 1)
       PROVE  tokens'[vec'[j]] # None /\ map'[tokens'[vec'[j]].key] = j - 1
  <2> DEFINE key == tokens[vec'[j]].key
  <2>1. tokens'[vec'[j]] = tokens[vec'[j]] /\ tokens[vec'[j]] # None /\ key \in Keys /\ key # k
    BY <1>5, <1>9
  <2>2. map[key] = IF j < p + 1 THEN j - 1 ELSE j
    BY <1>9
  <2> HIDE DEF key
  <2>3. CASE j < p + 1
    <3>1. Entries(vec', p, live, key) = {}
      <4> SUFFICES ASSUME NEW i \in Entries(vec', p, live, key) PROVE FALSE
        OBVIOUS
      <4>1. map[key] = i /\ ~(i < p + 1) /\ i \in 1 .. (n - 1)
        BY <2>1, <1>13
      <4> QED BY <4>1, <2>2, <2>3, <1>2, <1>4
    <3> QED BY <3>1, <2>1, <2>2, <2>3, <1>16 DEF key
  <2>4. CASE ~(j < p + 1)
    <3>1. j \in Entries(vec', p, live, key)
      BY <2>4, <1>2, <1>4, <1>9, <1>10 DEF Entries, key
    <3>2. map'[key] = map[key] - 1
      BY <3>1, <2>1, <1>14
    <3> QED BY <3>2, <2>1, <2>2, <2>4 DEF key
  <2> QED BY <2>3, <2>4
<1>18. ASSUME NEW key \in Keys, map'[key] # None
       PROVE  map'[key] < Len(vec') /\ tokens'[vec'[map'[key] + 1]].key = key
  <2>0. key # k
    BY <1>15, <1>18
  <2>1. CASE Entries(vec', p, live, key) # {}
    <3>1. /\ map[key] \in 1 .. (n - 1)
          /\ map'[key] = map[key] - 1
          /\ tokens[vec'[map[key]]].key = key
      BY <2>0, <2>1, <1>14
    <3>2. map'[key] + 1 = map[key] /\ map'[key] < Len(vec')
      BY <3>1, <1>2, <1>8
    <3> QED BY <3>1, <3>2, <1>5, <1>9
  <2>2. CASE Entries(vec', p, live, key) = {}
    <3>1. map'[key] = map[key]
      BY <2>0, <2>2, <1>16
    <3>2. /\ map[key] \in Nat
          /\ map[key] + 1 \in 1 .. n
          /\ tokens[vec[map[key] + 1]].key = key
      BY <3>1, <1>2, <1>18, KnownKeyIsLive
    <3>3. map[key] # p
      BY <3>2, <2>0, <1>4 DEF k
    <3>4. map[key] < p
      <4> SUFFICES ASSUME ~(map[key] < p) PROVE FALSE
        OBVIOUS
      <4>1. /\ map[key] \in 1 .. (n - 1)
            /\ ~(map[key] < p + 1)
            /\ vec'[map[key]] = vec[map[key] + 1]
        BY <3>2, <3>3, <1>2, <1>4, <1>8
      <4>2. map[key] \in Moved(vec', p) /\ live[vec'[map[key]]].key = key
        BY <4>1, <3>2, <1>2, <1>4, <1>9, <1>10
      <4>3. map[key] \in Entries(vec', p, live, key)
        BY <4>2 DEF Entries
      <4> QED BY <4>3, <2>2
    <3>5. map[key] + 1 \in 1 .. (n - 1) /\ vec'[map[key] + 1] = vec[map[key] + 1]
      BY <3>2, <3>4, <1>2, <1>4, <1>8
    <3> QED BY <3>1, <3>2, <3>5, <1>2, <1>5, <1>8, <1>9
  <2> QED BY <2>1, <2>2
<1>19. ASSUME NEW x \in Ids, tokens'[x] # None
       PROVE  map'[tokens'[x].key] # None
  <2>1. x # id /\ tokens'[x] = tokens[x] /\ tokens[x] # None
    BY <1>5, <1>19
  <2>2. tokens[x].key \in Keys /\ tokens[x].key # k
    BY <2>1, <1>6
  <2>3. map[tokens[x].key] # None
    BY <2>1 DEF QueueInv, QueueIndexAgrees
  <2>4. CASE Entries(vec', p, live, tokens[x].key) # {}
    <3>1. map[tokens[x].key] \in 1 .. (n - 1) /\ map'[tokens[x].key] = map[tokens[x].key] - 1
      BY <2>2, <2>4, <1>14
    <3>2. map'[tokens[x].key] \in Nat
      BY <3>1, <1>2
    <3> QED BY <3>2, <2>1, NoneAssumption
  <2>5. CASE Entries(vec', p, live, tokens[x].key) = {}
    BY <2>1, <2>2, <2>3, <2>5, <1>16
  <2> QED BY <2>4, <2>5
<1>20. QueueIndexAgrees'
  BY <1>8, <1>17, <1>18, <1>19 DEF QueueIndexAgrees
<1>21. KeyIndexAgrees'
  <2>1. ASSUME NEW key \in Keys, id_map'[key] # None
        PROVE  tokens'[id_map'[key]] # None /\ tokens'[id_map'[key]].key = key
    <3>1. key # k /\ id_map'[key] = id_map[key]
      BY <2>1, <1>1, <1>2
    <3>2. /\ id_map[key] \in Ids
          /\ tokens[id_map[key]] # None
          /\ tokens[id_map[key]].key = key
      BY <2>1, <3>1, KnownKeyIsLive
    <3>3. id_map[key] # id
      BY <3>1, <3>2 DEF k
    <3> QED BY <3>1, <3>2, <3>3, <1>5
  <2>2. ASSUME NEW x \in Ids, tokens'[x] # None
        PROVE  id_map'[tokens'[x].key] = x
    <3>1. x # id /\ tokens'[x] = tokens[x] /\ tokens[x] # None
      BY <2>2, <1>5
    <3>2. tokens[x].key \in Keys /\ tokens[x].key # k
      BY <3>1, <1>6
    <3>3. id_map[tokens[x].key] = x
      BY <3>1 DEF QueueInv, KeyIndexAgrees
    <3> QED BY <3>1, <3>2, <3>3, <1>1, <1>2
  <2> QED BY <2>1, <2>2 DEF KeyIndexAgrees
<1> QED BY <1>12, <1>20, <1>21 DEF QueueInv, NoFault

\* Dropping a TokenWriter keeps the key index and the queue, when the new key is
\* no other token's.
LEMMA WriterKeepsQueue ==
    ASSUME QueueInv, IndexInv', DistinctKeys', NEW id \in Ids, NEW k \in Keys,
           TokenWriter_drop(id, k)
    PROVE  QueueInv'
<1> DEFINE old == tokens[id].key
<1>1. /\ tokens[id] # None
      /\ old # k
      /\ tokens' = [tokens EXCEPT ![id].key = k]
      /\ vec' = vec
  BY DEF TokenWriter_drop
<1>2. /\ tokens \in [Ids -> TokenInfo \cup {None}]
      /\ id_map \in [Keys -> Ids \cup {None}]
      /\ map \in [Keys -> Nat \cup {None}]
      /\ vec \in Seq(Ids)
  BY DEF QueueInv, IndexInv, TypeOK
<1>3. tokens[id] \in TokenInfo /\ old \in Keys
  BY <1>1, <1>2 DEF TokenInfo
<1>4. /\ tokens'[id] \in TokenInfo
      /\ tokens'[id] # None
      /\ tokens'[id].key = k
      /\ \A x \in Ids : x # id => tokens'[x] = tokens[x]
  <2>1. tokens'[id] = [tokens[id] EXCEPT !.key = k]
    BY <1>1, <1>2
  <2>2. tokens'[id] \in TokenInfo /\ tokens'[id].key = k
    BY <2>1, <1>3 DEF TokenInfo
  <2>3. \A x \in Ids : x # id => tokens'[x] = tokens[x]
    BY <1>1, <1>2
  <2> QED BY <2>2, <2>3, NoneAssumption
<1>5. \A x \in Ids : (tokens[x] # None /\ x # id) =>
          /\ tokens[x].key \in Keys
          /\ tokens[x].key # k
          /\ tokens[x].key # old
  BY <1>1, <1>2, <1>4 DEF QueueInv, DistinctKeys, TokenInfo
<1>6. \A x \in Ids : tokens[x] # None => tokens[x].key # k
  BY <1>1, <1>5
<1>7. map[k] = None /\ id_map[k] = None
  BY <1>6, NewKeyIsUnknown
<1>8. id_map[old] = id /\ map[old] # None /\ id # None
  BY <1>1, NoneAssumption DEF QueueInv, KeyIndexAgrees, QueueIndexAgrees, Ids
<1>9. id_map' = MovedKey(id_map, old, k) /\ map' = MovedKey(map, old, k) /\ fault' = fault
  BY <1>7, <1>8 DEF TokenWriter_drop
<1> HIDE DEF old
<1>10. /\ id_map'[k] = id /\ id_map'[old] = None
       /\ map'[k] = map[old] /\ map'[old] = None
       /\ \A key \in Keys : (key # k /\ key # old) =>
             id_map'[key] = id_map[key] /\ map'[key] = map[key]
  BY <1>1, <1>2, <1>3, <1>8, <1>9 DEF MovedKey
<1>11. KeyIndexAgrees'
  <2>1. ASSUME NEW key \in Keys, id_map'[key] # None
        PROVE  tokens'[id_map'[key]] # None /\ tokens'[id_map'[key]].key = key
    <3>1. CASE key = k
      BY <3>1, <1>4, <1>10
    <3>2. CASE key # k
      <4>1. key # old /\ id_map'[key] = id_map[key]
        BY <3>2, <2>1, <1>10
      <4>2. /\ id_map[key] \in Ids
            /\ tokens[id_map[key]] # None
            /\ tokens[id_map[key]].key = key
        BY <2>1, <4>1, KnownKeyIsLive
      <4>3. id_map[key] # id
        BY <4>1, <4>2 DEF old
      <4> QED BY <4>1, <4>2, <4>3, <1>4
    <3> QED BY <3>1, <3>2
  <2>2. ASSUME NEW x \in Ids, tokens'[x] # None
        PROVE  id_map'[tokens'[x].key] = x
    <3>1. CASE x = id
      BY <3>1, <1>4, <1>10
    <3>2. CASE x # id
      <4>1. tokens'[x] = tokens[x] /\ id_map[tokens[x].key] = x
        BY <3>2, <2>2, <1>4 DEF QueueInv, KeyIndexAgrees
      <4> QED BY <3>2, <2>2, <4>1, <1>5, <1>10
    <3> QED BY <3>1, <3>2
  <2> QED BY <2>1, <2>2 DEF KeyIndexAgrees
<1>12. QueueIndexAgrees'
  <2>1. ASSUME NEW i \in DOMAIN vec
        PROVE  tokens'[vec[i]] # None /\ map'[tokens'[vec[i]].key] = i - 1
    <3>1. /\ vec[i] \in Ids
          /\ tokens[vec[i]] # None
          /\ map[tokens[vec[i]].key] = i - 1
      BY EntryIsLive, NoneAssumption
    <3>2. CASE vec[i] = id
      BY <3>1, <3>2, <1>4, <1>10 DEF old
    <3>3. CASE vec[i] # id
      BY <3>1, <3>3, <1>4, <1>5, <1>10
    <3> QED BY <3>2, <3>3
  <2>2. ASSUME NEW key \in Keys, map'[key] # None
        PROVE  map'[key] < Len(vec) /\ tokens'[vec[map'[key] + 1]].key = key
    <3>0. Len(vec) \in Nat /\ DOMAIN vec = 1 .. Len(vec)
      BY <1>2, LenProperties
    <3>1. CASE key = k
      <4>1. /\ map[old] \in Nat
            /\ map[old] + 1 \in DOMAIN vec
            /\ vec[map[old] + 1] \in Ids
            /\ tokens[vec[map[old] + 1]] # None
            /\ tokens[vec[map[old] + 1]].key = old
        BY <1>3, <1>8, KnownKeyIsLive
      <4>2. vec[map[old] + 1] = id
        BY <4>1, <1>5
      <4> QED BY <3>0, <3>1, <4>1, <4>2, <1>4, <1>10
    <3>2. CASE key # k
      <4>1. key # old /\ map'[key] = map[key]
        BY <3>2, <2>2, <1>10
      <4>2. /\ map[key] \in Nat
            /\ map[key] + 1 \in DOMAIN vec
            /\ vec[map[key] + 1] \in Ids
            /\ tokens[vec[map[key] + 1]].key = key
        BY <2>2, <4>1, KnownKeyIsLive
      <4>3. vec[map[key] + 1] # id
        BY <4>1, <4>2 DEF old
      <4> QED BY <3>0, <4>1, <4>2, <4>3, <1>4
    <3> QED BY <3>1, <3>2
  <2>3. ASSUME NEW x \in Ids, tokens'[x] # None
        PROVE  map'[tokens'[x].key] # None
    <3>1. CASE x = id
      BY <3>1, <1>4, <1>8, <1>10
    <3>2. CASE x # id
      BY <3>2, <2>3, <1>4, <1>5, <1>10 DEF QueueInv, QueueIndexAgrees
    <3> QED BY <3>1, <3>2
  <2> QED BY <2>1, <2>2, <2>3, <1>1 DEF QueueIndexAgrees
<1> QED BY <1>9, <1>11, <1>12 DEF QueueInv, NoFault

\* The entry at a position of the scan is always a live token.
LEMMA ScanSeesLive ==
    ASSUME QueueInv, NEW start \in Nat, NEW i \in 0 .. (Len(vec) - 1)
    PROVE  /\ vec[Position(start, i) + 1] \in Ids
           /\ tokens[vec[Position(start, i) + 1]] # None
<1> DEFINE m == Position(start, i) + 1
<1>1. vec \in Seq(Ids) /\ Len(vec) \in Nat \ {0} /\ DOMAIN vec = 1 .. Len(vec)
  BY LenProperties DEF QueueInv, IndexInv, TypeOK
<1>2. m \in DOMAIN vec
  BY <1>1 DEF Position
<1> HIDE DEF m
<1>3. vec[m] \in Ids /\ tokens[vec[m]] # None
  BY <1>2, EntryIsLive, NoneAssumption
<1> QED BY <1>3 DEF m

\* Every operation keeps QueueInv, as long as the keys stay distinct.
LEMMA QueueStep ==
    ASSUME QueueInv, IndexInv', [Next]_vars, DistinctKeys'
    PROVE  QueueInv'
<1>1. CASE UNCHANGED vars
  BY <1>1 DEF vars, managerVars, queueVars, QueueInv, DistinctKeys, KeyIndexAgrees,
              QueueIndexAgrees, NoFault
<1>2. ASSUME Next
      PROVE  QueueInv'
  <2>1. ASSUME NEW info \in TokenInfo, NEW alias \in RequestedAliases, add(info, alias)
        PROVE  QueueInv'
    BY <1>2, <2>1, AddKeepsQueue
  <2>2. ASSUME NEW id \in Ids, remove(id)
        PROVE  QueueInv'
    BY <1>2, <2>2, RemoveKeepsQueue
  <2>3. ASSUME NEW id \in Ids, NEW alias \in RequestedAliases, set_alias(id, alias)
        PROVE  QueueInv'
    BY <1>2, <2>3 DEF set_alias, queueVars, QueueInv, KeyIndexAgrees, QueueIndexAgrees, NoFault
  <2>4. ASSUME NEW id \in Ids, NEW k \in Keys, TokenWriter_drop(id, k)
        PROVE  QueueInv'
    BY <1>2, <2>4, WriterKeepsQueue
  <2>5. ASSUME NEW id \in Ids, NEW s \in Statuses, set_status(id, s)
        PROVE  QueueInv'
    <3>1. tokens' = [tokens EXCEPT ![id].status = s] /\ tokens[id] # None
      BY <2>5 DEF set_status
    <3>2. tokens \in [Ids -> TokenInfo \cup {None}]
      BY DEF QueueInv, IndexInv, TypeOK
    <3>3. tokens'[id] \in TokenInfo /\ tokens'[id].key = tokens[id].key
      BY <3>1, <3>2 DEF TokenInfo
    <3>4. \A x \in Ids : /\ (tokens'[x] = None) <=> (tokens[x] = None)
                         /\ tokens[x] # None => tokens'[x].key = tokens[x].key
      BY <3>1, <3>2, <3>3, NoneAssumption
    <3>5. UNCHANGED <<id_map, vec, map, fault>>
      BY <2>5 DEF set_status, queueVars
    <3>6. KeyIndexAgrees'
      <4>1. \A k \in Keys : id_map[k] # None =>
               id_map[k] \in Ids /\ tokens[id_map[k]] # None /\ tokens[id_map[k]].key = k
        BY KnownKeyIsLive
      <4> QED BY <4>1, <3>4, <3>5 DEF QueueInv, KeyIndexAgrees
    <3>7. QueueIndexAgrees'
      <4>1. \A i \in DOMAIN vec : /\ vec[i] \in Ids
                                  /\ tokens[vec[i]] # None
                                  /\ map[tokens[vec[i]].key] = i - 1
        BY EntryIsLive, NoneAssumption
      <4>2. \A k \in Keys : map[k] # None =>
               /\ map[k] < Len(vec)
               /\ vec[map[k] + 1] \in Ids
               /\ tokens[vec[map[k] + 1]] # None
               /\ tokens[vec[map[k] + 1]].key = k
        BY KnownKeyIsLive DEF QueueInv, QueueIndexAgrees
      <4>3. \A x \in Ids : tokens'[x] # None => map'[tokens'[x].key] # None
        BY <3>4, <3>5 DEF QueueInv, QueueIndexAgrees
      <4> QED BY <4>1, <4>2, <4>3, <3>4, <3>5 DEF QueueIndexAgrees
    <3> QED BY <1>2, <3>5, <3>6, <3>7 DEF QueueInv, NoFault
  <2>6. CASE new
    <3>1. vec' = <<>> /\ tokens' = [id \in Ids |-> None] /\ fault' = fault
          /\ id_map' = [k \in Keys |-> None] /\ map' = [k \in Keys |-> None]
      BY <2>6 DEF new
    <3> QED BY <1>2, <3>1 DEF QueueInv, KeyIndexAgrees, QueueIndexAgrees, NoFault
  <2>7. ASSUME NEW r \in Readers, Select(r)
        PROVE  QueueInv'
    <3>1. UNCHANGED <<tokens, id_map, vec, map>>
      BY <2>7 DEF Select, select_load, select_store, select_none, managerVars, queueVars
    <3>2. fault' = fault
      <4>1. ASSUME NEW id \in Ids, select_store(r, id) PROVE fault' = fault
        <5>1. reading[r] \in [queue : QueueTypes, start : Nat]
          BY <4>1 DEF select_store, QueueInv, IndexInv, TypeOK
        <5>2. PICK i \in 0 .. (Len(vec) - 1) :
                 /\ vec[Position(reading[r].start, i) + 1] = id
                 /\ tokens[id] # None => fault' = fault
          BY <4>1 DEF select_store
        <5>3. tokens[id] # None
          BY <5>1, <5>2, ScanSeesLive
        <5> QED BY <5>2, <5>3
      <4> QED BY <2>7, <4>1 DEF Select, select_load, select_none
    <3> QED BY <1>2, <3>1, <3>2 DEF QueueInv, KeyIndexAgrees, QueueIndexAgrees, NoFault
  <2> QED BY <1>2, <2>1, <2>2, <2>3, <2>4, <2>5, <2>6, <2>7 DEF Next, Write
<1> QED BY <1>1, <1>2

\* A new manager has no tokens, so no equal keys.
LEMMA QueueInit == Init => QueueInv
<1> SUFFICES ASSUME Init, IndexInv PROVE QueueInv
  BY IndexInit
<1> QED BY DEF Init, QueueInv, DistinctKeys, KeyIndexAgrees, QueueIndexAgrees, NoFault

\* QueueInv is an invariant of every behaviour with distinct keys.
LEMMA QueueInvariant == DistinctSpec => []QueueInv
<1>1. DistinctSpec => Spec
  BY PTL DEF DistinctSpec, Spec
<1>2. Init => QueueInv
  BY QueueInit
<1>3. IndexInv' /\ QueueInv /\ [Next /\ DistinctKeys']_vars => QueueInv'
  <2>1. ASSUME QueueInv, UNCHANGED vars PROVE DistinctKeys'
    BY <2>1 DEF QueueInv, DistinctKeys, vars, managerVars
  <2> QED BY <2>1, QueueStep
<1> QED BY <1>1, <1>2, <1>3, IndexInvariant, PTL DEF DistinctSpec

\* While the live tokens have distinct keys, id_map finds the token of each key
\* and the round-robin queue holds each live token once, at the position its
\* map gives.
THEOREM QueueConsistent == DistinctSpec => [](KeyIndexAgrees /\ QueueIndexAgrees)
<1>1. QueueInv => KeyIndexAgrees /\ QueueIndexAgrees
  BY DEF QueueInv
<1> QED BY <1>1, QueueInvariant, PTL

\* No unchecked access of the token manager (Vec::remove, the re-indexing loop,
\* the two lookups of TokenWriter's drop, select) goes wrong while the live
\* tokens have distinct keys.
THEOREM NoUncheckedAccessFails == DistinctSpec => []NoFault
<1>1. QueueInv => NoFault
  BY DEF QueueInv
<1> QED BY <1>1, QueueInvariant, PTL

\* What the division of TokenQueue's heads by the length of the queue gives.
LEMMA HeadModulo ==
    ASSUME NEW h \in Nat, NEW n \in Nat \ {0}
    PROVE  /\ h < n => h % n = h
           /\ n % n = 0
<1>1. h < n => h % n = h
  OBVIOUS
<1>2. n % n = 0
  OBVIOUS
<1> QED BY <1>1, <1>2

\* TokenQueue::remove takes the entry of the removed token out and moves the
\* heads beyond it down.
LEMMA RemoveShape ==
    ASSUME QueueInv, NEW id \in Ids, remove(id)
    PROVE  \E p \in Nat :
              /\ p + 1 \in 1 .. Len(vec)
              /\ vec[p + 1] = id
              /\ tokens'[id] = None
              /\ Len(vec') = Len(vec) - 1
              /\ \A j \in 1 .. (Len(vec) - 1) : vec'[j] = IF j < p + 1 THEN vec[j] ELSE vec[j + 1]
              /\ \A q \in QueueTypes : heads'[q] = IF heads[q] > p THEN heads[q] - 1 ELSE heads[q]
<1> DEFINE k == tokens[id].key
           live == [tokens EXCEPT ![id] = None]
           p == map[k]
           n == Len(vec)
<1>1. tokens[id] # None /\ tokens' = live /\ queue_remove(k, live)
  BY DEF remove
<1>2. /\ tokens \in [Ids -> TokenInfo \cup {None}]
      /\ vec \in Seq(Ids)
      /\ n \in Nat
      /\ DOMAIN vec = 1 .. n
  BY LenProperties DEF QueueInv, IndexInv, TypeOK
<1>3. k \in Keys
  BY <1>1, <1>2 DEF TokenInfo
<1>4. map[k] # None /\ p \in Nat /\ p + 1 \in 1 .. n /\ vec[p + 1] = id
  <2>1. map[k] # None
    BY <1>1 DEF QueueInv, QueueIndexAgrees
  <2>2. /\ map[k] \in Nat
        /\ map[k] + 1 \in DOMAIN vec
        /\ vec[map[k] + 1] \in Ids
        /\ tokens[vec[map[k] + 1]] # None
        /\ tokens[vec[map[k] + 1]].key = k
    BY <2>1, <1>3, KnownKeyIsLive
  <2>3. vec[map[k] + 1] = id
    BY <2>2, <1>1 DEF QueueInv, DistinctKeys
  <2> QED BY <2>1, <2>2, <2>3, <1>2
<1>5. vec' = RemoveAt(vec, p + 1) /\ heads' = AdjustedHeads(p)
  BY <1>1, <1>2, <1>4 DEF queue_remove
<1>6. tokens'[id] = None
  BY <1>1, <1>2
<1> HIDE DEF p, k, live
<1>7. /\ Len(vec') = n - 1
      /\ \A j \in 1 .. (n - 1) : vec'[j] = IF j < p + 1 THEN vec[j] ELSE vec[j + 1]
  BY <1>2, <1>4, <1>5, RemoveAtProperties
<1>8. \A q \in QueueTypes : heads'[q] = IF heads[q] > p THEN heads[q] - 1 ELSE heads[q]
  BY <1>5 DEF AdjustedHeads
<1> QED BY <1>4, <1>6, <1>7, <1>8

\* Removing a token keeps the turn of every other one: the entry that a head
\* points to, wherever it moves, is still the one it points to.
LEMMA RemoveKeepsTurnStep ==
    ASSUME QueueInv, NEW id \in Ids, remove(id), NEW q \in QueueTypes,
           vec' # <<>>, vec' \in Seq(Ids), heads[q] <= Len(vec), tokens'[Turn(q)] # None
    PROVE  Turn(q)' = Turn(q)
<1> DEFINE n == Len(vec)
           h == heads[q]
<1>1. PICK p \in Nat :
              /\ p + 1 \in 1 .. n
              /\ vec[p + 1] = id
              /\ tokens'[id] = None
              /\ Len(vec') = n - 1
              /\ \A j \in 1 .. (n - 1) : vec'[j] = IF j < p + 1 THEN vec[j] ELSE vec[j + 1]
              /\ heads'[q] = IF h > p THEN h - 1 ELSE h
  BY RemoveShape
<1>2. h \in Nat /\ n \in Nat /\ h <= n
  BY LenProperties DEF QueueInv, IndexInv, TypeOK
<1>3. n - 1 \in Nat \ {0}
  <2>1. Len(vec') \in Nat /\ Len(vec') # 0
    BY EmptySeq, LenProperties
  <2> QED BY <1>1, <1>2, <2>1
<1>4. Turn(q) = vec[(h % n) + 1] /\ Turn(q)' = vec'[(heads'[q] % (n - 1)) + 1]
  BY <1>1 DEF Turn
<1>5. Turn(q) # id
  BY <1>1
<1> HIDE DEF n, h
<1>6. CASE h = n
  <2>1. h % n = 0 /\ Turn(q) = vec[1]
    <3>1. h % n = 0
      BY <1>6, <1>2, <1>3, HeadModulo
    <3>2. 0 + 1 = 1
      OBVIOUS
    <3> QED BY <3>1, <3>2, <1>4
  <2>2. p # 0
    BY <2>1, <1>1, <1>5
  <2>3. heads'[q] = n - 1
    BY <1>1, <1>2, <1>6
  <2>4. (n - 1) % (n - 1) = 0
    BY <1>3, HeadModulo
  <2>5. Turn(q)' = vec'[1]
    <3>1. 0 + 1 = 1
      OBVIOUS
    <3> QED BY <2>3, <2>4, <3>1, <1>4
  <2>6. vec'[1] = vec[1]
    <3>0. p \in Nat
      BY <1>1
    <3>1. 1 \in 1 .. (n - 1) /\ 1 < p + 1
      BY <3>0, <2>2, <1>2, <1>3
    <3> QED BY <3>1, <1>1
  <2> QED BY <2>1, <2>5, <2>6
<1>7. CASE h < n
  <2>1. h % n = h /\ Turn(q) = vec[h + 1]
    <3>1. h % n = h
      BY <1>7, <1>2, <1>3, HeadModulo
    <3> QED BY <3>1, <1>4
  <2>2. h # p
    BY <2>1, <1>1, <1>5
  <2>3. CASE h > p
    <3> DEFINE g == h - 1
    <3>1. heads'[q] = g /\ g \in Nat /\ g < n - 1 /\ g + 1 = h
      BY <2>3, <1>1, <1>2, <1>7
    <3>2. h \in 1 .. (n - 1) /\ ~(h < p + 1)
      BY <2>3, <1>2, <1>7
    <3>3. vec'[h] = vec[h + 1]
      BY <3>2, <1>1
    <3> HIDE DEF g
    <3>4. g % (n - 1) = g
      BY <3>1, <1>3, HeadModulo
    <3>5. Turn(q)' = vec'[g + 1]
      BY <3>1, <3>4, <1>4
    <3> QED BY <3>1, <3>3, <3>5, <2>1
  <2>4. CASE h < p
    <3>1. heads'[q] = h /\ h < n - 1 /\ h + 1 \in 1 .. (n - 1) /\ h + 1 < p + 1
      BY <2>4, <1>1, <1>2, <1>7
    <3>2. h % (n - 1) = h
      BY <3>1, <1>2, <1>3, HeadModulo
    <3>3. Turn(q)' = vec'[h + 1]
      BY <3>1, <3>2, <1>4
    <3>4. vec'[h + 1] = vec[h + 1]
      BY <3>1, <1>1
    <3> QED BY <3>3, <3>4, <2>1
  <2> QED BY <2>2, <2>3, <2>4, <1>2
<1> QED BY <1>2, <1>6, <1>7

\* Only remove makes the queue shorter without emptying it, and it takes no other
\* token's turn away: round robin survives removals, for any number of queues.
THEOREM TurnsSurviveRemoval == DistinctSpec => RemoveKeepsTurn
<1> DEFINE Kept == \A q \in QueueTypes :
              (/\ Len(vec') = Len(vec) - 1
               /\ vec' # <<>>
               /\ heads[q] <= Len(vec)
               /\ tokens'[Turn(q)] # None) => Turn(q)' = Turn(q)
<1>1. QueueInv /\ QueueInv' /\ [Next /\ DistinctKeys']_vars => [Kept]_vars
  <2> SUFFICES ASSUME QueueInv, QueueInv', Next, NEW q \in QueueTypes,
                      Len(vec') = Len(vec) - 1, vec' # <<>>, heads[q] <= Len(vec),
                      tokens'[Turn(q)] # None
               PROVE  Turn(q)' = Turn(q)
    OBVIOUS
  <2>1. Len(vec) \in Nat /\ vec \in Seq(Ids) /\ vec' \in Seq(Ids)
    BY LenProperties DEF QueueInv, IndexInv, TypeOK
  <2>2. vec' # vec
    BY <2>1
  <2>3. ~ \E info \in TokenInfo, alias \in RequestedAliases : add(info, alias)
    <3> SUFFICES ASSUME NEW info \in TokenInfo, NEW alias \in RequestedAliases, add(info, alias)
                 PROVE  FALSE
      OBVIOUS
    <3>1. vec' = Append(vec, NextId) /\ NextId \in Ids
      BY DEF add
    <3>2. Len(vec') = Len(vec) + 1
      BY <3>1, <2>1, AppendProperties
    <3> QED BY <3>2, <2>1
  <2>4. \E id \in Ids : remove(id)
    BY <2>2, <2>3 DEF Next, Write, set_alias, TokenWriter_drop, set_status, new, Select, select_load,
                      select_store, select_none, queueVars
  <2> QED BY <2>1, <2>4, RemoveKeepsTurnStep
<1> QED BY <1>1, QueueInvariant, PTL DEF DistinctSpec, RemoveKeepsTurn

-----------------------------------------------------------------------------
\* The token manager in its service.

\* What a saved file holds: at most as many tokens as there are slots, with
\* their aliases, which differ.
SavedOK(file) ==
    /\ file \in Seq([info : TokenInfo, alias : Aliases])
    /\ Len(file) <= MaxIds
    /\ \A i, j \in 1 .. Len(file) : file[i].alias = file[j].alias => i = j

\* A usage check in the middle of its work has read a slot, and it renames only
\* what had no name.
ChecksOK ==
    /\ check \in [Checks -> UsageCheck \cup {None}]
    /\ \A c \in Checks : (check[c] # None /\ check[c].at = "rename") =>
          check[c].unnamed /\ check[c].alias # None

\* The inductive invariant.  SavedOK is what a restart needs to come up with
\* consistent indexes; QueueInv holds until two live tokens have one key.
ServiceInv ==
    /\ IndexInv
    /\ ~duplicated => QueueInv
    /\ SavedOK(saved)
    /\ ChecksOK
    /\ CheckWorksOnItsToken

-----------------------------------------------------------------------------

\* The slots are finitely many.
LEMMA SlotsFinite == IsFiniteSet(Ids) /\ Cardinality(Ids) = MaxIds
<1>1. 0 \in Int /\ MaxIds - 1 \in Int /\ ~(0 > MaxIds - 1) /\ MaxIds \in Nat
  BY ConstantsAssumption
<1>2. IsFiniteSet(0 .. (MaxIds - 1))
      /\ Cardinality(0 .. (MaxIds - 1)) =
            IF 0 > MaxIds - 1 THEN 0 ELSE MaxIds - 1 - 0 + 1
  BY <1>1, FS_Interval
<1> QED BY <1>1, <1>2 DEF Ids

\* The ranks of the members of S in S are the numbers below its size, so that
\* InOrder lists each member once.
LEMMA InOrderLists ==
    ASSUME NEW S \in SUBSET Ids
    PROVE  /\ Cardinality(S) \in Nat
           /\ Cardinality(S) <= MaxIds
           /\ \A i \in 1 .. Cardinality(S) : InOrder(S)[i] \in S
           /\ \A i, j \in 1 .. Cardinality(S) : InOrder(S)[i] = InOrder(S)[j] => i = j
           /\ \A x \in S : \E i \in 1 .. Cardinality(S) : InOrder(S)[i] = x
<1> DEFINE n == Cardinality(S)
           Below(x) == {y \in S : y < x}
           rank == [x \in S |-> Cardinality(Below(x)) + 1]
<1>1. IsFiniteSet(S) /\ n \in Nat /\ n <= MaxIds
  BY SlotsFinite, FS_Subset, FS_CardinalityType
<1>2. \A x \in S : x \in Int
  BY DEF Ids
<1>3. ASSUME NEW x \in S
      PROVE  /\ IsFiniteSet(Below(x))
             /\ Cardinality(Below(x)) \in Nat
             /\ Cardinality(Below(x)) < n
  <2>1. Below(x) \in SUBSET S /\ x \notin Below(x)
    BY <1>2
  <2> HIDE DEF Below
  <2>2. /\ IsFiniteSet(Below(x))
        /\ Cardinality(Below(x)) <= n
        /\ n = Cardinality(Below(x)) => S = Below(x)
    BY <1>1, <2>1, FS_Subset
  <2>3. Cardinality(Below(x)) \in Nat
    BY <2>2, FS_CardinalityType
  <2>4. n # Cardinality(Below(x))
    BY <2>1, <2>2
  <2> HIDE DEF n
  <2> QED BY <1>1, <2>2, <2>3, <2>4
<1>4. ASSUME NEW x \in S, NEW y \in S, x < y
      PROVE  Cardinality(Below(x)) < Cardinality(Below(y))
  <2>1. Below(x) \in SUBSET Below(y) /\ x \in Below(y) /\ x \notin Below(x)
    BY <1>2, <1>4
  <2>2. /\ IsFiniteSet(Below(y)) /\ Cardinality(Below(y)) \in Nat
        /\ Cardinality(Below(x)) \in Nat
    BY <1>3
  <2> HIDE DEF Below
  <2>3. /\ Cardinality(Below(x)) <= Cardinality(Below(y))
        /\ Cardinality(Below(y)) = Cardinality(Below(x)) => Below(y) = Below(x)
    BY <2>1, <2>2, FS_Subset
  <2>4. Cardinality(Below(y)) # Cardinality(Below(x))
    BY <2>1, <2>3
  <2> QED BY <2>2, <2>3, <2>4
<1> HIDE DEF Below, n
<1>5. rank \in [S -> 1 .. n]
  <2> SUFFICES ASSUME NEW x \in S PROVE Cardinality(Below(x)) + 1 \in 1 .. n
    OBVIOUS
  <2> QED BY <1>1, <1>3
<1>6. \A x, y \in S : rank[x] = rank[y] => x = y
  <2> SUFFICES ASSUME NEW x \in S, NEW y \in S, rank[x] = rank[y], x # y PROVE FALSE
    OBVIOUS
  <2>1. Cardinality(Below(x)) = Cardinality(Below(y))
        /\ Cardinality(Below(x)) \in Nat /\ Cardinality(Below(y)) \in Nat
    BY <1>3
  <2>2. x < y \/ y < x
    BY <1>2
  <2>3. CASE x < y
    BY <2>1, <2>3, <1>4
  <2>4. CASE y < x
    BY <2>1, <2>4, <1>4
  <2> QED BY <2>2, <2>3, <2>4
<1>7. \A i \in 1 .. n : \E x \in S : rank[x] = i
  <2> HIDE DEF rank
  <2>1. rank \in Injection(S, 1 .. n)
    BY <1>5, <1>6 DEF Injection, IsInjective
  <2>2. IsFiniteSet(1 .. n) /\ Cardinality(1 .. n) = n
    <3>1. 1 \in Int /\ n \in Int /\ (IF 1 > n THEN 0 ELSE n - 1 + 1) = n
      BY <1>1
    <3>2. IsFiniteSet(1 .. n) /\ Cardinality(1 .. n) = IF 1 > n THEN 0 ELSE n - 1 + 1
      BY <3>1, FS_Interval
    <3> QED BY <3>1, <3>2
  <2>3. rank \in Surjection(S, 1 .. n)
    BY <2>1, <2>2, FS_Injection DEF n
  <2> QED BY <2>3 DEF Surjection
<1>8. ASSUME NEW i \in 1 .. n
      PROVE  InOrder(S)[i] \in S /\ rank[InOrder(S)[i]] = i
  <2>1. InOrder(S)[i] = CHOOSE x \in S : Cardinality(Below(x)) = i - 1
    BY <1>1 DEF InOrder, n, Below
  <2>2. PICK x \in S : rank[x] = i
    BY <1>7
  <2>3. Cardinality(Below(x)) = i - 1
    BY <2>2, <1>1, <1>3
  <2>4. InOrder(S)[i] \in S /\ Cardinality(Below(InOrder(S)[i])) = i - 1
    BY <2>1, <2>3
  <2> QED BY <2>4, <1>1, <1>3
<1>9. \A x \in S : \E i \in 1 .. n : InOrder(S)[i] = x
  <2> SUFFICES ASSUME NEW x \in S PROVE InOrder(S)[rank[x]] = x
    BY <1>5
  <2>1. rank[x] \in 1 .. n
    BY <1>5
  <2> HIDE DEF rank
  <2> QED BY <2>1, <1>8, <1>6
<1>10. \A i, j \in 1 .. n : InOrder(S)[i] = InOrder(S)[j] => i = j
  BY <1>8
<1> QED BY <1>1, <1>8, <1>9, <1>10 DEF n

-----------------------------------------------------------------------------

\* What TokenManager::save writes can be loaded: the live tokens with their
\* aliases, each once.
LEMMA SnapshotOK == IndexInv => SavedOK(Snapshot)
<1> SUFFICES ASSUME IndexInv PROVE SavedOK(Snapshot)
  OBVIOUS
<1> DEFINE S == {id \in Ids : tokens[id] # None}
           n == Cardinality(S)
           s == InOrder(S)
<1>1. /\ n \in Nat
      /\ n <= MaxIds
      /\ \A i \in 1 .. n : s[i] \in S
      /\ \A i, j \in 1 .. n : s[i] = s[j] => i = j
  <2>1. S \in SUBSET Ids
    OBVIOUS
  <2> HIDE DEF S
  <2> QED BY <2>1, InOrderLists
<1>2. DOMAIN s = 1 .. n
  BY DEF InOrder
<1>3. Snapshot = [i \in 1 .. n |-> [info |-> tokens[s[i]], alias |-> id_to_alias[s[i]]]]
  BY <1>2 DEF Snapshot, LiveIds
<1> HIDE DEF n, s
<1>4. ASSUME NEW i \in 1 .. n
      PROVE  /\ s[i] \in Ids
             /\ tokens[s[i]] \in TokenInfo
             /\ id_to_alias[s[i]] \in Aliases
             /\ alias_map[id_to_alias[s[i]]] = s[i]
  BY <1>1 DEF IndexInv, TypeOK, AliasesIndexLiveTokens
<1> HIDE DEF S
<1>5. Snapshot \in Seq([info : TokenInfo, alias : Aliases])
  <2> DEFINE R == [info : TokenInfo, alias : Aliases]
             e(i) == [info |-> tokens[s[i]], alias |-> id_to_alias[s[i]]]
  <2>1. \A i \in 1 .. n : e(i) \in R
    BY <1>4
  <2>2. Snapshot = [i \in 1 .. n |-> e(i)]
    BY <1>3
  <2> HIDE DEF R, e
  <2>3. Snapshot \in [1 .. n -> R]
    BY <2>1, <2>2
  <2>4. Snapshot \in Seq(R)
    BY <2>3, <1>1, SeqDef
  <2> QED BY <2>4 DEF R
<1>6. Len(Snapshot) = n
  BY <1>1, <1>3, <1>5, LenProperties
<1>7. ASSUME NEW i \in 1 .. n, NEW j \in 1 .. n, Snapshot[i].alias = Snapshot[j].alias
      PROVE  i = j
  <2>1. id_to_alias[s[i]] = id_to_alias[s[j]]
    BY <1>3, <1>7
  <2>2. s[i] = s[j]
    BY <2>1, <1>4
  <2> QED BY <2>2, <1>1
<1> QED BY <1>1, <1>5, <1>6, <1>7 DEF SavedOK

\* The same of the state that an operation leaves behind.
LEMMA SnapshotOKNext == IndexInv' => SavedOK(Snapshot)'
BY SnapshotOK, PTL

\* The entries of the file: tokens and aliases.
LEMMA SavedEntries ==
    ASSUME SavedOK(saved)
    PROVE  /\ Len(saved) \in 0 .. MaxIds
           /\ DOMAIN saved = 1 .. Len(saved)
           /\ \A i \in 1 .. Len(saved) : /\ saved[i].info \in TokenInfo
                                         /\ saved[i].info.key \in Keys
                                         /\ saved[i].alias \in Aliases
                                         /\ i - 1 \in Ids
                                         /\ LoadedAlias(i) \in Aliases
           /\ \A id \in Ids : id < Len(saved) => id + 1 \in 1 .. Len(saved)
<1> DEFINE R == [info : TokenInfo, alias : Aliases]
<1>1. saved \in Seq(R) /\ Len(saved) <= MaxIds
  BY DEF SavedOK
<1>2. Len(saved) \in Nat /\ DOMAIN saved = 1 .. Len(saved)
      /\ \A i \in 1 .. Len(saved) : saved[i] \in R
  <2> HIDE DEF R
  <2> QED BY <1>1, LenProperties, ElementOfSeq
<1>3. MaxIds \in Nat
  BY ConstantsAssumption
<1>4. Len(saved) \in 0 .. MaxIds
  BY <1>1, <1>2, <1>3
<1>5. ASSUME NEW i \in 1 .. Len(saved)
      PROVE  /\ saved[i].info \in TokenInfo
             /\ saved[i].info.key \in Keys
             /\ saved[i].alias \in Aliases
             /\ i - 1 \in Ids
             /\ LoadedAlias(i) \in Aliases
  <2>1. i - 1 \in Ids
    BY <1>4, <1>3 DEF Ids
  <2>2. LoadedAlias(i) \in Aliases
    BY <2>1, ResolveType DEF LoadedAlias
  <2>3. saved[i].info \in TokenInfo /\ saved[i].alias \in Aliases
    BY <1>2
  <2> QED BY <2>1, <2>2, <2>3 DEF TokenInfo
<1>6. \A id \in Ids : id < Len(saved) => id + 1 \in 1 .. Len(saved)
  BY <1>4, <1>3 DEF Ids
<1> QED BY <1>2, <1>4, <1>5, <1>6

\* The aliases of the loaded tokens differ: a name is kept, and what has no
\* name is named after its new slot.
LEMMA LoadedAliasesDiffer ==
    ASSUME SavedOK(saved), NEW i \in 1 .. Len(saved), NEW j \in 1 .. Len(saved),
           LoadedAlias(i) = LoadedAlias(j)
    PROVE  i = j
<1>1. i - 1 \in Ids /\ j - 1 \in Ids /\ i \in Int /\ j \in Int
  BY SavedEntries
<1>2. CASE saved[i].alias \in Names /\ saved[j].alias \in Names
  BY <1>2 DEF LoadedAlias, Resolve, SavedOK
<1>3. CASE saved[i].alias \notin Names
  <2>1. Resolve(saved[j].alias, j - 1) = generate_unnamed_alias(i - 1)
    BY <1>3 DEF LoadedAlias, Resolve
  <2>2. i - 1 = j - 1
    BY <2>1, <1>1, ResolveHome
  <2> QED BY <2>2, <1>1
<1>4. CASE saved[j].alias \notin Names
  <2>1. Resolve(saved[i].alias, i - 1) = generate_unnamed_alias(j - 1)
    BY <1>4 DEF LoadedAlias, Resolve
  <2>2. j - 1 = i - 1
    BY <2>1, <1>1, ResolveHome
  <2> QED BY <2>2, <1>1
<1> QED BY <1>2, <1>3, <1>4

\* The index that TokenManager::load leaves for a key is that of a token with it.
LEMMA LastOfType ==
    ASSUME SavedOK(saved), NEW k \in Keys
    PROVE  \/ /\ LastOf(k) = None
              /\ \A i \in 1 .. Len(saved) : saved[i].info.key # k
           \/ /\ LastOf(k) \in Ids
              /\ LastOf(k) + 1 \in 1 .. Len(saved)
              /\ saved[LastOf(k) + 1].info.key = k
<1> DEFINE I == {i \in DOMAIN saved : saved[i].info.key = k}
<1>0. DOMAIN saved = 1 .. Len(saved) /\ Len(saved) \in Nat
  BY SavedEntries, ConstantsAssumption
<1>1. LastOf(k) = IF I = {} THEN None ELSE Max(I) - 1
  BY DEF LastOf
<1>2. CASE I = {}
  BY <1>0, <1>1, <1>2
<1>3. CASE I # {}
  <2>1. I \in SUBSET (1 .. Len(saved))
    BY <1>0
  <2> HIDE DEF I
  <2>2. PICK x \in I : \A y \in I : y <= x
    BY <1>0, <1>3, <2>1, MaxExists
  <2>3. \A y \in I : x >= y
    BY <1>0, <2>1, <2>2
  <2>4. Max(I) \in I
    BY <2>2, <2>3 DEF Max
  <2>5. LastOf(k) = Max(I) - 1 /\ Max(I) \in 1 .. Len(saved)
    BY <1>1, <1>3, <2>1, <2>4
  <2>6. LastOf(k) + 1 = Max(I)
    BY <2>5, <1>0
  <2>7. LastOf(k) \in Ids
    BY <2>5, SavedEntries
  <2>8. saved[Max(I)].info.key = k
    BY <2>4 DEF I
  <2> QED BY <2>5, <2>6, <2>7, <2>8
<1> QED BY <1>2, <1>3

\* A restart comes up with consistent slots, free ids and aliases.
LEMMA LoadKeepsIndex ==
    ASSUME IndexInv, SavedOK(saved), restart
    PROVE  IndexInv'
<1> DEFINE n == Len(saved)
<1>1. /\ tokens' = [id \in Ids |-> IF id < n THEN saved[id + 1].info ELSE None]
      /\ size' = n
      /\ id_map' = [k \in Keys |-> LastOf(k)]
      /\ alias_map' = [a \in Aliases |->
            IF \E i \in DOMAIN saved : LoadedAlias(i) = a
              THEN (CHOOSE i \in DOMAIN saved : LoadedAlias(i) = a) - 1 ELSE None]
      /\ id_to_alias' = [id \in Ids |-> IF id < n THEN LoadedAlias(id + 1) ELSE None]
      /\ free_ids' = <<>>
      /\ vec' = [i \in DOMAIN saved |-> i - 1]
      /\ map' = [k \in Keys |-> LastOf(k)]
      /\ heads' = [q \in QueueTypes |-> 0]
      /\ reading' = [r \in Readers |-> None]
      /\ fault' = fault
  BY DEF restart, load
<1>2. /\ n \in 0 .. MaxIds
      /\ DOMAIN saved = 1 .. n
      /\ \A i \in 1 .. n : /\ saved[i].info \in TokenInfo
                           /\ saved[i].info.key \in Keys
                           /\ i - 1 \in Ids
                           /\ LoadedAlias(i) \in Aliases
      /\ \A id \in Ids : id < n => id + 1 \in 1 .. n
  BY SavedEntries
<1>3. n \in Nat /\ MaxIds \in Nat
  BY <1>2, ConstantsAssumption
<1> HIDE DEF n
<1>4. \A a \in Aliases :
         \/ alias_map'[a] = None /\ \A i \in 1 .. n : LoadedAlias(i) # a
         \/ /\ alias_map'[a] \in Ids
            /\ alias_map'[a] + 1 \in 1 .. n
            /\ LoadedAlias(alias_map'[a] + 1) = a
  <2> SUFFICES ASSUME NEW a \in Aliases, NEW i \in 1 .. n, LoadedAlias(i) = a
               PROVE  /\ alias_map'[a] \in Ids
                      /\ alias_map'[a] + 1 \in 1 .. n
                      /\ LoadedAlias(alias_map'[a] + 1) = a
    BY <1>1, <1>2
  <2> DEFINE c == CHOOSE j \in DOMAIN saved : LoadedAlias(j) = a
  <2>1. c \in 1 .. n /\ LoadedAlias(c) = a
    BY <1>2
  <2>2. alias_map'[a] = c - 1
    BY <1>1, <1>2
  <2> HIDE DEF c
  <2>3. c - 1 + 1 = c /\ c - 1 \in Ids
    BY <2>1, <1>2, <1>3
  <2> QED BY <2>1, <2>2, <2>3
<1>5. \A id \in Ids : /\ id < n => tokens'[id] = saved[id + 1].info /\ tokens'[id] \in TokenInfo
                      /\ ~(id < n) => tokens'[id] = None
                      /\ tokens'[id] = None <=> ~(id < n)
                      /\ id < n => id_to_alias'[id] = LoadedAlias(id + 1)
                                   /\ id_to_alias'[id] \in Aliases
                      /\ ~(id < n) => id_to_alias'[id] = None
                      /\ id_to_alias'[id] = None <=> ~(id < n)
  BY <1>1, <1>2, NoneAssumption
<1>6. TypeOK'
  <2>1. tokens' \in [Ids -> TokenInfo \cup {None}]
    BY <1>1, <1>5
  <2>2. size' \in 0 .. MaxIds
    BY <1>1, <1>2
  <2>3. id_map' \in [Keys -> Ids \cup {None}] /\ map' \in [Keys -> Nat \cup {None}]
    <3>1. \A k \in Keys : LastOf(k) \in Ids \cup {None}
      BY LastOfType
    <3>2. Ids \subseteq Nat
      BY DEF Ids
    <3> QED BY <1>1, <3>1, <3>2
  <2>4. alias_map' \in [Aliases -> Ids \cup {None}]
    <3>1. \A a \in Aliases : alias_map'[a] \in Ids \cup {None}
      BY <1>4
    <3> QED BY <1>1, <3>1
  <2>5. id_to_alias' \in [Ids -> Aliases \cup {None}]
    BY <1>1, <1>5
  <2>6. free_ids' \in Seq(Ids) /\ vec' \in Seq(Ids)
    <3>1. vec' \in [1 .. n -> Ids]
      BY <1>1, <1>2
    <3> QED BY <1>1, <1>3, <3>1, EmptySeq, SeqDef
  <2>7. heads' \in [QueueTypes -> Nat]
    BY <1>1
  <2>8. reading' \in [Readers -> [queue : QueueTypes, start : Nat] \cup {None}]
    BY <1>1
  <2>9. fault' \in Sites \cup {None}
    BY <1>1 DEF IndexInv, TypeOK
  <2> QED BY <2>1, <2>2, <2>3, <2>4, <2>5, <2>6, <2>7, <2>8, <2>9 DEF TypeOK
<1>7. FreeIdsAreEmptySlots'
  <2>1. DOMAIN free_ids' = {}
    BY <1>1
  <2>2. \A id \in Ids : /\ tokens'[id] = None => id >= size'
                        /\ tokens'[id] # None => id < size'
    BY <1>1, <1>3, <1>5 DEF Ids
  <2> QED BY <2>1, <2>2 DEF FreeIdsAreEmptySlots
<1>8. AliasesIndexLiveTokens'
  <2>1. \A id \in Ids : (tokens'[id] = None) <=> (id_to_alias'[id] = None)
    BY <1>5
  <2>2. ASSUME NEW id \in Ids, id_to_alias'[id] # None
        PROVE  alias_map'[id_to_alias'[id]] = id
    <3> DEFINE a == id_to_alias'[id]
    <3>1. id < n /\ a = LoadedAlias(id + 1) /\ a \in Aliases /\ id + 1 \in 1 .. n
      BY <2>2, <1>2, <1>5
    <3> HIDE DEF a
    <3>2. /\ alias_map'[a] \in Ids
          /\ alias_map'[a] + 1 \in 1 .. n
          /\ LoadedAlias(alias_map'[a] + 1) = a
      BY <3>1, <1>4
    <3>3. alias_map'[a] + 1 = id + 1
      BY <3>1, <3>2, LoadedAliasesDiffer DEF n
    <3>4. alias_map'[a] = id
      BY <3>2, <3>3 DEF Ids
    <3> QED BY <3>4 DEF a
  <2>3. ASSUME NEW a \in Aliases, alias_map'[a] # None
        PROVE  id_to_alias'[alias_map'[a]] = a
    <3>1. /\ alias_map'[a] \in Ids
          /\ alias_map'[a] + 1 \in 1 .. n
          /\ LoadedAlias(alias_map'[a] + 1) = a
      BY <2>3, <1>4
    <3>2. alias_map'[a] < n
      BY <3>1, <1>3 DEF Ids
    <3> QED BY <3>1, <3>2, <1>5
  <2> QED BY <2>1, <2>2, <2>3 DEF AliasesIndexLiveTokens
<1>9. UnnamedAliasesStayHome'
  <2> SUFFICES ASSUME NEW id \in Ids, alias_map'[generate_unnamed_alias(id)] # None
               PROVE  alias_map'[generate_unnamed_alias(id)] = id
    BY DEF UnnamedAliasesStayHome
  <2> DEFINE a == generate_unnamed_alias(id)
             x == alias_map'[a]
  <2>1. a \in Aliases
    BY DEF Aliases, UnnamedAliases
  <2>2. x \in Ids /\ x + 1 \in 1 .. n /\ LoadedAlias(x + 1) = a
    BY <2>1, <1>4
  <2> HIDE DEF x
  <2>4. Resolve(saved[x + 1].alias, x) = generate_unnamed_alias(id)
    <3> DEFINE j == x + 1
    <3>1. j - 1 = x
      BY <2>2 DEF Ids
    <3>2. LoadedAlias(j) = Resolve(saved[j].alias, j - 1)
      BY DEF LoadedAlias
    <3>3. LoadedAlias(j) = a
      BY <2>2
    <3> HIDE DEF j
    <3>4. Resolve(saved[j].alias, x) = generate_unnamed_alias(id)
      BY <3>1, <3>2, <3>3
    <3> QED BY <3>4 DEF j
  <2>5. id = x
    BY <2>2, <2>4, ResolveHome
  <2> QED BY <2>5 DEF x
<1> QED BY <1>6, <1>7, <1>8, <1>9 DEF IndexInv

\* If the loaded tokens have distinct keys, the key index and the queue of a
\* restarted manager agree with its slots.
LEMMA LoadKeepsQueue ==
    ASSUME IndexInv', SavedOK(saved), restart, DistinctKeys'
    PROVE  QueueInv'
<1> DEFINE n == Len(saved)
<1>1. /\ tokens' = [id \in Ids |-> IF id < n THEN saved[id + 1].info ELSE None]
      /\ id_map' = [k \in Keys |-> LastOf(k)]
      /\ vec' = [i \in DOMAIN saved |-> i - 1]
      /\ map' = [k \in Keys |-> LastOf(k)]
      /\ fault' = None
  BY DEF restart, load
<1>2. /\ n \in 0 .. MaxIds
      /\ DOMAIN saved = 1 .. n
      /\ \A i \in 1 .. n : /\ saved[i].info \in TokenInfo
                           /\ saved[i].info.key \in Keys
                           /\ i - 1 \in Ids
      /\ \A id \in Ids : id < n => id + 1 \in 1 .. n
  BY SavedEntries
<1>3. n \in Nat
  BY <1>2, ConstantsAssumption
<1>4. \A k \in Keys :
         \/ /\ LastOf(k) = None
            /\ \A i \in 1 .. n : saved[i].info.key # k
         \/ /\ LastOf(k) \in Ids
            /\ LastOf(k) + 1 \in 1 .. n
            /\ saved[LastOf(k) + 1].info.key = k
  BY LastOfType
<1> HIDE DEF n
<1>5. ASSUME NEW id \in Ids, tokens'[id] # None
      PROVE  /\ id < n
             /\ tokens'[id] = saved[id + 1].info
             /\ tokens'[id].key \in Keys
             /\ id + 1 \in 1 .. n
  BY <1>1, <1>2, <1>5
<1>6. ASSUME NEW i \in 1 .. n
      PROVE  tokens'[i - 1] = saved[i].info /\ tokens'[i - 1] # None /\ i - 1 \in Ids
  <2>1. i - 1 \in Ids /\ i - 1 < n /\ i - 1 + 1 = i
    <3>1. i - 1 \in Ids
      BY <1>2
    <3>2. i - 1 < n /\ i - 1 + 1 = i
      BY <1>3
    <3> QED BY <3>1, <3>2
  <2> QED BY <2>1, <1>1, <1>2, NoneAssumption
<1>7. ASSUME NEW k \in Keys, LastOf(k) # None
      PROVE  /\ LastOf(k) \in Ids
             /\ LastOf(k) + 1 \in 1 .. n
             /\ tokens'[LastOf(k)] # None
             /\ tokens'[LastOf(k)].key = k
  <2>1. LastOf(k) \in Ids /\ LastOf(k) + 1 \in 1 .. n /\ saved[LastOf(k) + 1].info.key = k
    BY <1>4, <1>7
  <2> DEFINE j == LastOf(k) + 1
  <2>3. j \in 1 .. n /\ j - 1 = LastOf(k) /\ saved[j].info.key = k
    BY <2>1 DEF Ids
  <2> HIDE DEF j
  <2>4. tokens'[j - 1] = saved[j].info /\ tokens'[j - 1] # None
    BY <2>3, <1>6
  <2>5. tokens'[LastOf(k)] = saved[j].info /\ tokens'[LastOf(k)] # None
    BY <2>3, <2>4
  <2> QED BY <2>1, <2>3, <2>5
<1>8. ASSUME NEW id \in Ids, tokens'[id] # None
      PROVE  LastOf(tokens'[id].key) = id
  <2> DEFINE k == tokens'[id].key
  <2>1. k \in Keys /\ id + 1 \in 1 .. n /\ saved[id + 1].info.key = k
    BY <1>5, <1>8
  <2>2. LastOf(k) # None
    BY <2>1, <1>4, NoneAssumption DEF Ids
  <2>3. LastOf(k) \in Ids /\ tokens'[LastOf(k)] # None /\ tokens'[LastOf(k)].key = k
    BY <2>1, <2>2, <1>7
  <2> QED BY <2>3, <1>8 DEF DistinctKeys
<1>9. KeyIndexAgrees'
  <2>1. \A k \in Keys : id_map'[k] = LastOf(k)
    BY <1>1
  <2> QED BY <2>1, <1>5, <1>7, <1>8 DEF KeyIndexAgrees
<1>10. QueueIndexAgrees'
  <2>1. DOMAIN vec' = 1 .. n /\ \A i \in 1 .. n : vec'[i] = i - 1
    BY <1>1, <1>2
  <2>2. \A k \in Keys : map'[k] = LastOf(k)
    BY <1>1
  <2>3. Len(vec') = n
    <3>1. vec' \in [1 .. n -> Ids]
      BY <1>1, <1>2
    <3> QED BY <1>3, <3>1
  <2>4. ASSUME NEW i \in 1 .. n
        PROVE  tokens'[vec'[i]] # None /\ map'[tokens'[vec'[i]].key] = i - 1
    <3>1. vec'[i] = i - 1 /\ i - 1 \in Ids /\ tokens'[i - 1] # None
      BY <2>1, <1>6
    <3>2. tokens'[i - 1].key \in Keys /\ LastOf(tokens'[i - 1].key) = i - 1
      BY <3>1, <1>5, <1>8
    <3> QED BY <3>1, <3>2, <2>2
  <2>5. ASSUME NEW k \in Keys, map'[k] # None
        PROVE  map'[k] < Len(vec') /\ tokens'[vec'[map'[k] + 1]].key = k
    <3>1. /\ LastOf(k) \in Ids
          /\ LastOf(k) + 1 \in 1 .. n
          /\ tokens'[LastOf(k)].key = k
          /\ map'[k] = LastOf(k)
      BY <2>2, <2>5, <1>7
    <3>2. LastOf(k) < n
      BY <3>1, <1>3 DEF Ids
    <3>3. vec'[LastOf(k) + 1] = LastOf(k)
      <4> DEFINE j == LastOf(k) + 1
      <4>1. j \in 1 .. n /\ j - 1 = LastOf(k)
        BY <3>1 DEF Ids
      <4> HIDE DEF j
      <4>2. vec'[j] = LastOf(k)
        BY <4>1, <2>1
      <4> QED BY <4>2 DEF j
    <3> QED BY <3>1, <3>2, <3>3, <2>3
  <2>6. ASSUME NEW id \in Ids, tokens'[id] # None
        PROVE  map'[tokens'[id].key] # None
    <3>1. tokens'[id].key \in Keys /\ LastOf(tokens'[id].key) = id
      BY <2>6, <1>5, <1>8
    <3> QED BY <3>1, <2>2, NoneAssumption DEF Ids
  <2> QED BY <2>1, <2>4, <2>5, <2>6 DEF QueueIndexAgrees
<1> QED BY <1>1, <1>9, <1>10 DEF QueueInv, NoFault

-----------------------------------------------------------------------------

\* What CheckWorksOnItsToken says of one usage check.
Works(c) ==
    (check[c] # None /\ c \notin stale /\ ~duplicated) =>
        /\ tokens[check[c].id] # None
        /\ tokens[check[c].id].key = check[c].key
        /\ id_to_alias[check[c].id] # None
        /\ check[c].unnamed => id_to_alias[check[c].id] \in UnnamedAliases

\* Every step but a restart leaves the manager alone or is one of its operations.
LEMMA ManagerSteps ==
    ASSUME ChecksOK, ServiceNext, ~restart
    PROVE  [Next]_vars
<1>1. CASE Manage
  BY <1>1 DEF Manage, Next
<1>2. CASE save \/ restart_torn
  BY <1>2 DEF save, restart_torn
<1>3. ASSUME NEW c \in Checks, Check(c)
      PROVE  [Next]_vars
  <2>1. ASSUME NEW k \in Keys, lookup(c, k) PROVE [Next]_vars
    BY <2>1 DEF lookup
  <2>2. CASE read_alias(c)
    BY <2>2 DEF read_alias
  <2>3. ASSUME NEW alias \in Names \cup {UNNAMED, None}, write_profile(c, alias)
        PROVE  [Next]_vars
    BY <2>3 DEF write_profile, WriteLock, vars
  <2>4. CASE rename(c)
    <3>1. check[c] \in UsageCheck /\ check[c].alias # None
      BY <2>4 DEF rename, ChecksOK
    <3>2. check[c].id \in Ids /\ check[c].alias \in RequestedAliases
      BY <3>1 DEF UsageCheck, RequestedAliases, Aliases
    <3>3. set_alias(check[c].id, check[c].alias) \/ UNCHANGED vars
      BY <2>4 DEF rename
    <3> QED BY <3>2, <3>3 DEF Next, Write
  <2> QED BY <1>3, <2>1, <2>2, <2>3, <2>4 DEF Check
<1> QED BY <1>1, <1>2, <1>3 DEF ServiceNext

\* A usage check that takes no step itself goes on working on its token, unless
\* the step touches its slot.
LEMMA UntouchedWorks ==
    ASSUME ServiceInv, IndexInv', NEW others, NEW c \in others, c \in Checks,
           Remember(others), check'[c] = check[c]
    PROVE  Works(c)'
<1> SUFFICES ASSUME check[c] # None, c \notin stale', ~duplicated'
             PROVE  /\ tokens'[check[c].id] # None
                    /\ tokens'[check[c].id].key = check[c].key
                    /\ id_to_alias'[check[c].id] # None
                    /\ check[c].unnamed => id_to_alias'[check[c].id] \in UnnamedAliases
  BY DEF Works
<1> DEFINE id == check[c].id
<1>1. id \in Ids
  BY DEF ServiceInv, ChecksOK, UsageCheck
<1>2. c \notin stale /\ ~duplicated /\ ~Touched(c)
  BY DEF Remember
<1>3. /\ tokens[id] # None
      /\ tokens[id].key = check[c].key
      /\ id_to_alias[id] # None
      /\ check[c].unnamed => id_to_alias[id] \in UnnamedAliases
  BY <1>2 DEF ServiceInv, CheckWorksOnItsToken
<1>4. id_to_alias'[id] = id_to_alias[id]
  BY <1>2 DEF Touched
<1>5. tokens'[id] # None
  BY <1>1, <1>3, <1>4 DEF IndexInv, AliasesIndexLiveTokens
<1>6. tokens'[id].key = tokens[id].key
  BY <1>2, <1>3, <1>5 DEF Touched
<1> QED BY <1>3, <1>4, <1>5, <1>6

\* A step that changes neither the manager nor a check keeps its work.
LEMMA IdleWorks ==
    ASSUME ServiceInv, NEW c \in Checks, UNCHANGED vars, check'[c] = check[c],
           c \notin stale' => c \notin stale, ~duplicated' => ~duplicated
    PROVE  Works(c)'
BY DEF ServiceInv, CheckWorksOnItsToken, Works, vars, managerVars

\* The steps of a usage check keep ServiceInv.
LEMMA CheckKeepsService ==
    ASSUME ServiceInv, IndexInv', ~duplicated' => QueueInv', NEW c \in Checks, Check(c)
    PROVE  ServiceInv'
<1>0. check \in [Checks -> UsageCheck \cup {None}]
  BY DEF ServiceInv, ChecksOK
<1>1. ASSUME NEW k \in Keys, lookup(c, k)
      PROVE  ServiceInv'
  <2> DEFINE new_check ==
        [at |-> "alias", key |-> k, id |-> id_map[k], unnamed |-> FALSE, alias |-> None]
  <2>1. /\ id_map[k] # None
        /\ check' = [check EXCEPT ![c] = new_check]
        /\ stale' = stale \ {c}
        /\ UNCHANGED <<vars, saved, duplicated>>
    BY <1>1 DEF lookup, fileVars
  <2>2. id_map[k] \in Ids
    BY <2>1 DEF ServiceInv, IndexInv, TypeOK
  <2>3. new_check \in UsageCheck
    BY <2>2 DEF UsageCheck
  <2>4. /\ new_check.id = id_map[k]
        /\ new_check.key = k
        /\ new_check.unnamed = FALSE
        /\ new_check.at = "alias"
    OBVIOUS
  <2> HIDE DEF new_check
  <2>5. ChecksOK'
    <3>1. check' \in [Checks -> UsageCheck \cup {None}]
      BY <1>0, <2>1, <2>3
    <3>2. \A d \in Checks : check'[d] = IF d = c THEN new_check ELSE check[d]
      BY <1>0, <2>1
    <3> QED BY <3>1, <3>2, <2>4 DEF ServiceInv, ChecksOK
  <2>6. ASSUME NEW d \in Checks PROVE Works(d)'
    <3>1. CASE d = c
      <4>1. check'[c] = new_check
        BY <1>0, <2>1
      <4> SUFFICES ASSUME ~duplicated
                   PROVE  /\ tokens[id_map[k]] # None
                          /\ tokens[id_map[k]].key = k
                          /\ id_to_alias[id_map[k]] # None
        BY <2>1, <2>4, <3>1, <4>1 DEF Works, vars, managerVars
      <4>2. tokens[id_map[k]] # None /\ tokens[id_map[k]].key = k
        BY <2>1, KnownKeyIsLive DEF ServiceInv
      <4> QED BY <2>2, <4>2 DEF ServiceInv, IndexInv, AliasesIndexLiveTokens
    <3>2. CASE d # c
      <4>1. check'[d] = check[d]
        BY <1>0, <2>1, <3>2
      <4> QED BY <2>1, <3>2, <4>1, IdleWorks
    <3> QED BY <3>1, <3>2
  <2>7. CheckWorksOnItsToken'
    BY <2>6 DEF Works, CheckWorksOnItsToken
  <2> QED BY <2>1, <2>5, <2>7 DEF ServiceInv, SavedOK
<1>2. CASE read_alias(c)
  <2>1. /\ check[c] # None
        /\ check[c].at = "alias"
        /\ \/ UNCHANGED check
           \/ check' = [check EXCEPT ![c].at = "profile",
                           ![c].unnamed = (id_to_alias[check[c].id] \in UnnamedAliases)]
        /\ UNCHANGED <<vars, saved, stale, duplicated>>
    BY <1>2 DEF read_alias, history, fileVars
  <2>2. CASE UNCHANGED check
    BY <2>1, <2>2 DEF ServiceInv, ChecksOK, CheckWorksOnItsToken, SavedOK, vars, managerVars
  <2>3. CASE check' = [check EXCEPT ![c].at = "profile",
                          ![c].unnamed = (id_to_alias[check[c].id] \in UnnamedAliases)]
    <3>1. check[c] \in UsageCheck
      BY <1>0, <2>1
    <3>2. /\ check'[c] \in UsageCheck
          /\ check'[c].at = "profile"
          /\ check'[c].id = check[c].id
          /\ check'[c].key = check[c].key
          /\ check'[c].unnamed => id_to_alias[check[c].id] \in UnnamedAliases
      <4> DEFINE b == id_to_alias[check[c].id] \in UnnamedAliases
      <4>1. b \in BOOLEAN
        OBVIOUS
      <4>2. b => id_to_alias[check[c].id] \in UnnamedAliases
        OBVIOUS
      <4>3. check' = [check EXCEPT ![c].at = "profile", ![c].unnamed = b]
        BY <2>3
      <4> HIDE DEF b
      <4>4. check'[c] = [check[c] EXCEPT !.at = "profile", !.unnamed = b]
        BY <1>0, <4>3
      <4>5. /\ check'[c] \in UsageCheck
            /\ check'[c].at = "profile"
            /\ check'[c].id = check[c].id
            /\ check'[c].key = check[c].key
            /\ check'[c].unnamed = b
        BY <3>1, <4>1, <4>4 DEF UsageCheck
      <4> QED BY <4>2, <4>5
    <3>3. /\ \A d \in Checks : d # c => check'[d] = check[d]
          /\ check' \in [Checks -> UsageCheck \cup {None}]
      BY <1>0, <2>3, <3>2
    <3>4. ChecksOK'
      BY <3>2, <3>3 DEF ServiceInv, ChecksOK
    <3>5. ASSUME NEW d \in Checks PROVE Works(d)'
      <4>1. CASE d = c
        BY <2>1, <3>2, <4>1 DEF Works, ServiceInv, CheckWorksOnItsToken, vars, managerVars
      <4>2. CASE d # c
        BY <2>1, <3>3, <4>2, IdleWorks
      <4> QED BY <4>1, <4>2
    <3>6. CheckWorksOnItsToken'
      BY <3>5 DEF Works, CheckWorksOnItsToken
    <3> QED BY <2>1, <3>4, <3>6 DEF ServiceInv, SavedOK
  <2> QED BY <2>1, <2>2, <2>3
<1>3. ASSUME NEW alias \in Names \cup {UNNAMED, None}, write_profile(c, alias)
      PROVE  ServiceInv'
  <2>1. /\ check[c] # None
        /\ check[c].at = "profile"
        /\ \/ UNCHANGED check
           \/ check' = [check EXCEPT ![c] = None]
           \/ /\ check[c].unnamed
              /\ alias # None
              /\ check' = [check EXCEPT ![c].at = "rename", ![c].alias = alias]
        /\ UNCHANGED <<vars, saved, stale, duplicated>>
    BY <1>3 DEF write_profile, WriteLock, history, vars, fileVars
  <2>2. check[c] \in UsageCheck
    BY <1>0, <2>1
  <2>3. /\ check'[c] \in UsageCheck \cup {None}
        /\ check'[c] # None =>
              /\ check'[c].id = check[c].id
              /\ check'[c].key = check[c].key
              /\ check'[c].unnamed = check[c].unnamed
              /\ check'[c].at = "rename" => check'[c].unnamed /\ check'[c].alias # None
    <3>1. CASE UNCHANGED check
      BY <2>1, <2>2, <3>1
    <3>2. CASE check' = [check EXCEPT ![c] = None]
      BY <1>0, <3>2
    <3>3. CASE /\ check[c].unnamed
               /\ alias # None
               /\ check' = [check EXCEPT ![c].at = "rename", ![c].alias = alias]
      BY <1>0, <2>2, <3>3 DEF UsageCheck
    <3> QED BY <2>1, <3>1, <3>2, <3>3
  <2>4. /\ \A d \in Checks : d # c => check'[d] = check[d]
        /\ check' \in [Checks -> UsageCheck \cup {None}]
    <3>1. \A d \in Checks : d # c => check'[d] = check[d]
      BY <1>0, <2>1
    <3>2. DOMAIN check' = Checks /\ check' = [d \in Checks |-> check'[d]]
      BY <1>0, <2>1
    <3> QED BY <1>0, <2>3, <3>1, <3>2
  <2>5. ChecksOK'
    BY <2>3, <2>4 DEF ServiceInv, ChecksOK
  <2>6. ASSUME NEW d \in Checks PROVE Works(d)'
    <3>1. CASE d = c
      BY <2>1, <2>3, <3>1 DEF Works, ServiceInv, CheckWorksOnItsToken, vars, managerVars
    <3>2. CASE d # c
      BY <2>1, <2>4, <3>2, IdleWorks
    <3> QED BY <3>1, <3>2
  <2>7. CheckWorksOnItsToken'
    BY <2>6 DEF Works, CheckWorksOnItsToken
  <2> QED BY <2>1, <2>5, <2>7 DEF ServiceInv, SavedOK
<1>4. CASE rename(c)
  <2>1. /\ Remember(Checks \ {c})
        /\ check' = [check EXCEPT ![c] = None]
        /\ UNCHANGED saved
    BY <1>4 DEF rename, fileVars
  <2>2. /\ check'[c] = None
        /\ \A d \in Checks : d # c => check'[d] = check[d]
        /\ check' \in [Checks -> UsageCheck \cup {None}]
    BY <1>0, <2>1
  <2>3. ChecksOK'
    BY <2>2 DEF ServiceInv, ChecksOK
  <2>4. ASSUME NEW d \in Checks PROVE Works(d)'
    <3>1. CASE d = c
      BY <2>2, <3>1 DEF Works
    <3>2. CASE d # c
      <4>1. d \in Checks \ {c}
        BY <3>2
      <4> QED BY <2>1, <2>2, <3>2, <4>1, UntouchedWorks
    <3> QED BY <3>1, <3>2
  <2>5. CheckWorksOnItsToken'
    BY <2>4 DEF Works, CheckWorksOnItsToken
  <2> QED BY <2>1, <2>3, <2>5 DEF ServiceInv, SavedOK
<1> QED BY <1>1, <1>2, <1>3, <1>4 DEF Check

\* A save, whole or cut short, leaves a file that can be loaded or none.
LEMMA SaveKeepsFile ==
    ASSUME SavedOK(saved), IndexInv', Saved \/ NotSaved
    PROVE  SavedOK(saved)'
<1>1. SavedOK(Snapshot)'
  BY SnapshotOKNext
<1>2. saved' = saved \/ saved' = <<>> \/ saved' = Snapshot'
  BY DEF Saved, NotSaved, fileVars
<1>3. CASE saved' = saved
  BY <1>3 DEF SavedOK
<1>4. CASE saved' = <<>>
  BY <1>4, EmptySeq, ConstantsAssumption DEF SavedOK
<1>5. CASE saved' = Snapshot'
  BY <1>1, <1>5 DEF SavedOK
<1> QED BY <1>2, <1>3, <1>4, <1>5

\* ServiceInv is an invariant of the service.
LEMMA ServiceInvariant == ServiceSpec => []ServiceInv
<1>1. ServiceInit => ServiceInv
  <2> SUFFICES ASSUME ServiceInit PROVE ServiceInv
    OBVIOUS
  <2>1. IndexInv /\ QueueInv
    BY IndexInit, QueueInit DEF ServiceInit
  <2>2. SavedOK(saved)
    BY EmptySeq, ConstantsAssumption DEF ServiceInit, SavedOK
  <2>3. ChecksOK /\ CheckWorksOnItsToken
    BY DEF ServiceInit, ChecksOK, CheckWorksOnItsToken
  <2> QED BY <2>1, <2>2, <2>3 DEF ServiceInv
<1>2. ServiceInv /\ [ServiceNext]_allVars => ServiceInv'
  <2> SUFFICES ASSUME ServiceInv, [ServiceNext]_allVars PROVE ServiceInv'
    OBVIOUS
  <2>1. CASE UNCHANGED allVars
    BY <2>1 DEF allVars, vars, serviceVars, fileVars, history, managerVars, queueVars, ServiceInv, IndexInv,
                TypeOK, FreeIdsAreEmptySlots, AliasesIndexLiveTokens, UnnamedAliasesStayHome,
                QueueInv, DistinctKeys, KeyIndexAgrees, QueueIndexAgrees, NoFault, SavedOK,
                ChecksOK, CheckWorksOnItsToken
  <2>2. CASE restart
    <3>1. /\ duplicated' = (duplicated \/ ~DistinctKeys')
          /\ check' = [c \in Checks |-> None]
          /\ saved' = saved
      BY <2>2 DEF restart, fileVars
    <3>2. IndexInv'
      BY <2>2, LoadKeepsIndex DEF ServiceInv
    <3>3. ~duplicated' => QueueInv'
      BY <2>2, <3>1, <3>2, LoadKeepsQueue DEF ServiceInv
    <3>4. ChecksOK' /\ CheckWorksOnItsToken'
      BY <3>1 DEF ChecksOK, CheckWorksOnItsToken
    <3> QED BY <3>1, <3>2, <3>3, <3>4 DEF ServiceInv, SavedOK
  <2>3. ASSUME ServiceNext, ~restart
        PROVE  ServiceInv'
    <3>1. [Next]_vars
      BY <2>3, ManagerSteps DEF ServiceInv
    <3>2. IndexInv'
      BY <3>1, IndexStep DEF ServiceInv
    <3>3. ~duplicated' => ~duplicated /\ (DistinctKeys' \/ UNCHANGED vars)
      BY <2>3 DEF ServiceNext, Manage, save, restart_torn, Check, lookup, read_alias, write_profile, rename,
                  Remember, WriteLock, history, vars
    <3>4. ~duplicated' => QueueInv'
      <4> SUFFICES ASSUME ~duplicated' PROVE QueueInv'
        OBVIOUS
      <4>1. QueueInv
        BY <3>3 DEF ServiceInv
      <4>2. DistinctKeys'
        BY <3>3, <4>1 DEF QueueInv, DistinctKeys, vars, managerVars
      <4> QED BY <3>1, <3>2, <4>1, <4>2, QueueStep
    <3>5. CASE Manage
      <4>1. /\ Saved \/ NotSaved
            /\ Remember(Checks)
            /\ UNCHANGED check
        BY <3>5 DEF Manage
      <4>2. SavedOK(saved)'
        BY <3>2, <4>1, SaveKeepsFile DEF ServiceInv
      <4>3. ChecksOK'
        BY <4>1 DEF ServiceInv, ChecksOK
      <4>4. \A c \in Checks : Works(c)'
        BY <3>2, <4>1, UntouchedWorks
      <4>5. CheckWorksOnItsToken'
        BY <4>4 DEF Works, CheckWorksOnItsToken
      <4> QED BY <3>2, <3>4, <4>2, <4>3, <4>5 DEF ServiceInv
    <3>6. CASE save
      <4>1. /\ Saved \/ NotSaved
            /\ UNCHANGED <<vars, check, stale, duplicated>>
        BY <3>6 DEF save, history
      <4>2. SavedOK(saved)'
        BY <3>2, <4>1, SaveKeepsFile DEF ServiceInv
      <4>3. ChecksOK'
        BY <4>1 DEF ServiceInv, ChecksOK
      <4>4. CheckWorksOnItsToken'
        BY <4>1 DEF ServiceInv, CheckWorksOnItsToken, vars, managerVars
      <4> QED BY <3>2, <3>4, <4>2, <4>3, <4>4 DEF ServiceInv
    <3>7. ASSUME NEW c \in Checks, Check(c)
          PROVE  ServiceInv'
      BY <3>2, <3>4, <3>7, CheckKeepsService
    <3>8. CASE restart_torn
      BY <3>2, <3>4, <3>8 DEF restart_torn, fileVars, history, vars, managerVars, ServiceInv,
                              SavedOK, ChecksOK, CheckWorksOnItsToken
    <3> QED BY <2>3, <3>5, <3>6, <3>7, <3>8 DEF ServiceNext
  <2> QED BY <2>1, <2>2, <2>3 DEF ServiceNext
<1> QED BY <1>1, <1>2, PTL DEF ServiceSpec

\* Whatever is added, removed, renamed, saved, loaded and checked, slots and
\* aliases stay consistent and a token without a name is never rejected: the
\* unchecked alias lookups hold in the whole service, across restarts.
THEOREM ServiceIndexes ==
    ServiceSpec => [](AliasesIndexLiveTokens /\ UnnamedAddNeverRejected)
<1>1. ServiceInv => AliasesIndexLiveTokens /\ UnnamedAddNeverRejected
  BY NextAliasIsFree DEF ServiceInv, IndexInv
<1> QED BY <1>1, ServiceInvariant, PTL

\* In any history of the service an unchecked access of the manager goes wrong
\* only after two live tokens had one key.
THEOREM FaultsNeedDuplicates == ServiceSpec => []FaultNeedsDuplicateKeys
<1>1. ServiceInv => FaultNeedsDuplicateKeys
  BY DEF ServiceInv, QueueInv, NoFault, FaultNeedsDuplicateKeys
<1> QED BY <1>1, ServiceInvariant, PTL

\* A usage check whose slot nobody touched works on the token it was made for,
\* and renames it only while it has no name, for any number of checks.
THEOREM ChecksWorkOnTheirTokens == ServiceSpec => []CheckWorksOnItsToken
<1>1. ServiceInv => CheckWorksOnItsToken
  BY DEF ServiceInv
<1> QED BY <1>1, ServiceInvariant, PTL

-----------------------------------------------------------------------------
(* The refinement of TokenRegistry. *)

\* The refinement mapping, as functions of the state's parts.
UnnamedIds(t, toks, aliases) == {id \in Ids : toks[id] = t /\ aliases[id] \notin Names}
Under(n, file) == {i \in DOMAIN file : file[i].alias = n}
NamedView(toks, amap) == [n \in Names |-> IF amap[n] = None THEN None ELSE toks[amap[n]]]
UnnamedView(toks, aliases) ==
    [t \in TokenInfo |-> Cardinality(UnnamedIds(t, toks, aliases))]
DiskNamed(file) ==
    [n \in Names |-> IF Under(n, file) = {} THEN None
                     ELSE file[CHOOSE i \in Under(n, file) : TRUE].info]
DiskUnnamed(file) ==
    [t \in TokenInfo |->
        Cardinality({i \in DOMAIN file : file[i].info = t /\ file[i].alias \notin Names})]
DiskView(file) == [named |-> DiskNamed(file), unnamed |-> DiskUnnamed(file)]

\* The token found under a name is that of the slot with this alias.
LEMMA NameFindsSlot ==
    ASSUME IndexInv, NEW n \in Names
    PROVE  /\ \A id \in Ids : id_to_alias[id] = n => NamedView(tokens, alias_map)[n] = tokens[id]
           /\ (\A id \in Ids : id_to_alias[id] # n) => NamedView(tokens, alias_map)[n] = None
<1>1. n \in Aliases /\ n # None
  BY NoneAssumption DEF Aliases
<1>2. alias_map[n] \in Ids \cup {None}
  BY <1>1 DEF IndexInv, TypeOK
<1>3. ASSUME NEW id \in Ids, id_to_alias[id] = n
      PROVE  NamedView(tokens, alias_map)[n] = tokens[id]
  <2>1. alias_map[n] = id /\ id # None
    BY <1>1, <1>3, NoneAssumption DEF IndexInv, AliasesIndexLiveTokens, Ids
  <2> QED BY <2>1 DEF NamedView
<1>4. ASSUME \A id \in Ids : id_to_alias[id] # n
      PROVE  NamedView(tokens, alias_map)[n] = None
  <2>1. alias_map[n] = None
    BY <1>1, <1>2, <1>4 DEF IndexInv, AliasesIndexLiveTokens
  <2> QED BY <2>1 DEF NamedView
<1> QED BY <1>3, <1>4

\* The same of the state that a step leaves behind.
LEMMA NameFindsSlotNext ==
    ASSUME NEW n \in Names, IndexInv'
    PROVE  /\ \A id \in Ids : id_to_alias'[id] = n =>
                 NamedView(tokens', alias_map')[n] = tokens'[id]
           /\ (\A id \in Ids : id_to_alias'[id] # n) => NamedView(tokens', alias_map')[n] = None
<1>1. n \in Aliases /\ n # None
  BY NoneAssumption DEF Aliases
<1>2. alias_map'[n] \in Ids \cup {None}
  BY <1>1 DEF IndexInv, TypeOK
<1>3. ASSUME NEW id \in Ids, id_to_alias'[id] = n
      PROVE  NamedView(tokens', alias_map')[n] = tokens'[id]
  <2>1. alias_map'[n] = id /\ id # None
    BY <1>1, <1>3, NoneAssumption DEF IndexInv, AliasesIndexLiveTokens, Ids
  <2> QED BY <2>1 DEF NamedView
<1>4. ASSUME \A id \in Ids : id_to_alias'[id] # n
      PROVE  NamedView(tokens', alias_map')[n] = None
  <2>1. alias_map'[n] = None
    BY <1>1, <1>2, <1>4 DEF IndexInv, AliasesIndexLiveTokens
  <2> QED BY <2>1 DEF NamedView
<1> QED BY <1>3, <1>4

\* The tokens without a name are finitely many.
LEMMA UnnamedFinite ==
    ASSUME NEW t, NEW toks, NEW aliases
    PROVE  /\ IsFiniteSet(UnnamedIds(t, toks, aliases))
           /\ Cardinality(UnnamedIds(t, toks, aliases)) \in Nat
           /\ \A id \in UnnamedIds(t, toks, aliases) : Cardinality(UnnamedIds(t, toks, aliases)) > 0
<1> DEFINE U == UnnamedIds(t, toks, aliases)
<1>1. U \in SUBSET Ids
  BY DEF UnnamedIds
<1> HIDE DEF U
<1>2. IsFiniteSet(U) /\ Cardinality(U) \in Nat
  BY <1>1, SlotsFinite, FS_Subset, FS_CardinalityType
<1>3. \A id \in U : Cardinality(U) # 0
  BY <1>2, FS_EmptySet
<1>4. \A id \in U : Cardinality(U) > 0
  BY <1>2, <1>3
<1> QED BY <1>2, <1>4 DEF U

\* A step that changes one slot changes what is found under the slot's old and
\* new name, and the count of the slot's old and new token.
LEMMA OneSlot ==
    ASSUME IndexInv, IndexInv', NEW id \in Ids,
           \A x \in Ids : x # id => tokens'[x] = tokens[x] /\ id_to_alias'[x] = id_to_alias[x]
    PROVE  /\ \A n \in Names : NamedView(tokens', alias_map')[n] =
                 IF id_to_alias'[id] = n THEN tokens'[id]
                 ELSE IF id_to_alias[id] = n THEN None
                 ELSE NamedView(tokens, alias_map)[n]
           /\ \A t \in TokenInfo : UnnamedView(tokens', id_to_alias')[t] =
                 IF tokens'[id] = t /\ id_to_alias'[id] \notin Names
                 THEN IF tokens[id] = t /\ id_to_alias[id] \notin Names
                      THEN UnnamedView(tokens, id_to_alias)[t]
                      ELSE UnnamedView(tokens, id_to_alias)[t] + 1
                 ELSE IF tokens[id] = t /\ id_to_alias[id] \notin Names
                      THEN UnnamedView(tokens, id_to_alias)[t] - 1
                      ELSE UnnamedView(tokens, id_to_alias)[t]
<1>1. ASSUME NEW n \in Names
      PROVE  NamedView(tokens', alias_map')[n] =
                 IF id_to_alias'[id] = n THEN tokens'[id]
                 ELSE IF id_to_alias[id] = n THEN None
                 ELSE NamedView(tokens, alias_map)[n]
  <2>1. CASE id_to_alias'[id] = n
    BY <2>1, NameFindsSlotNext
  <2>2. CASE id_to_alias'[id] # n /\ id_to_alias[id] = n
    <3>1. \A x \in Ids : x # id => id_to_alias[x] # n
      BY <2>2, NoneAssumption DEF IndexInv, AliasesIndexLiveTokens, Aliases
    <3>2. \A x \in Ids : id_to_alias'[x] # n
      BY <2>2, <3>1
    <3> QED BY <2>2, <3>2, NameFindsSlotNext
  <2>3. CASE id_to_alias'[id] # n /\ id_to_alias[id] # n
    <3>1. CASE \E x \in Ids : id_to_alias[x] = n
      <4>1. PICK x \in Ids : id_to_alias[x] = n
        BY <3>1
      <4>2. x # id /\ id_to_alias'[x] = n /\ tokens'[x] = tokens[x]
        BY <2>3, <4>1
      <4>3. NamedView(tokens', alias_map')[n] = tokens[x]
        BY <4>2, NameFindsSlotNext
      <4>4. NamedView(tokens, alias_map)[n] = tokens[x]
        BY <4>1, NameFindsSlot
      <4> QED BY <2>3, <4>3, <4>4
    <3>2. CASE \A x \in Ids : id_to_alias[x] # n
      <4>1. \A x \in Ids : id_to_alias'[x] # n
        BY <2>3, <3>2
      <4>2. NamedView(tokens', alias_map')[n] = None
        BY <4>1, NameFindsSlotNext
      <4>3. NamedView(tokens, alias_map)[n] = None
        BY <3>2, NameFindsSlot
      <4> QED BY <2>3, <4>2, <4>3
    <3> QED BY <3>1, <3>2
  <2> QED BY <2>1, <2>2, <2>3
<1>2. ASSUME NEW t \in TokenInfo
      PROVE  UnnamedView(tokens', id_to_alias')[t] =
                 IF tokens'[id] = t /\ id_to_alias'[id] \notin Names
                 THEN IF tokens[id] = t /\ id_to_alias[id] \notin Names
                      THEN UnnamedView(tokens, id_to_alias)[t]
                      ELSE UnnamedView(tokens, id_to_alias)[t] + 1
                 ELSE IF tokens[id] = t /\ id_to_alias[id] \notin Names
                      THEN UnnamedView(tokens, id_to_alias)[t] - 1
                      ELSE UnnamedView(tokens, id_to_alias)[t]
  <2> DEFINE U == UnnamedIds(t, tokens, id_to_alias)
             V == UnnamedIds(t, tokens', id_to_alias')
             old == tokens[id] = t /\ id_to_alias[id] \notin Names
             now == tokens'[id] = t /\ id_to_alias'[id] \notin Names
  <2>1. /\ UnnamedView(tokens, id_to_alias)[t] = Cardinality(U)
        /\ UnnamedView(tokens', id_to_alias')[t] = Cardinality(V)
    BY DEF UnnamedView
  <2>2. old <=> id \in U
    BY DEF UnnamedIds
  <2>3. now => V = U \cup {id}
    BY DEF UnnamedIds
  <2>4. ~now => V = U \ {id}
    BY DEF UnnamedIds
  <2>5. IsFiniteSet(U) /\ Cardinality(U) \in Nat
    BY UnnamedFinite
  <2> HIDE DEF U, V
  <2>6. Cardinality(U \cup {id}) = IF id \in U THEN Cardinality(U) ELSE Cardinality(U) + 1
    BY <2>5, FS_AddElement
  <2>7. Cardinality(U \ {id}) = IF id \in U THEN Cardinality(U) - 1 ELSE Cardinality(U)
    BY <2>5, FS_RemoveElement
  <2> QED BY <2>1, <2>2, <2>3, <2>4, <2>6, <2>7
<1> QED BY <1>1, <1>2

\* add is Add: under the name asked for, or one more token without a name.
LEMMA AddRefines ==
    ASSUME IndexInv, IndexInv', NEW info \in TokenInfo, NEW alias \in RequestedAliases,
           add(info, alias)
    PROVE  Registry!Operation
<1> DEFINE id == NextId
           a == Resolve(alias, id)
           N == NamedView(tokens, alias_map)
           M == NamedView(tokens', alias_map')
           U == UnnamedView(tokens, id_to_alias)
           W == UnnamedView(tokens', id_to_alias')
<1>1. /\ id \in Ids
      /\ tokens' = [tokens EXCEPT ![id] = info]
      /\ id_to_alias' = [id_to_alias EXCEPT ![id] = a]
      /\ alias_map[a] = None
  BY DEF add
<1>2. tokens[id] = None /\ id_to_alias[id] = None
  BY <1>1, NextIdIsEmpty DEF IndexInv, AliasesIndexLiveTokens
<1>3. /\ tokens'[id] = info
      /\ id_to_alias'[id] = a
      /\ \A x \in Ids : x # id => tokens'[x] = tokens[x] /\ id_to_alias'[x] = id_to_alias[x]
  BY <1>1 DEF IndexInv, TypeOK
<1>4. None \notin Names /\ None \notin TokenInfo
  BY NoneAssumption DEF Aliases
<1> HIDE DEF id, a
<1>5. /\ \A n \in Names : M[n] = IF a = n THEN info ELSE N[n]
      /\ \A t \in TokenInfo : W[t] = IF t = info /\ a \notin Names THEN U[t] + 1 ELSE U[t]
  <2>1. /\ \A n \in Names : M[n] = IF id_to_alias'[id] = n THEN tokens'[id]
                                   ELSE IF id_to_alias[id] = n THEN None ELSE N[n]
        /\ \A t \in TokenInfo : W[t] =
              IF tokens'[id] = t /\ id_to_alias'[id] \notin Names
              THEN IF tokens[id] = t /\ id_to_alias[id] \notin Names THEN U[t] ELSE U[t] + 1
              ELSE IF tokens[id] = t /\ id_to_alias[id] \notin Names THEN U[t] - 1 ELSE U[t]
    BY <1>1, <1>3, OneSlot
  <2> HIDE DEF N, M, U, W
  <2> QED BY <2>1, <1>2, <1>3, <1>4
<1>6. /\ N = [n \in Names |-> N[n]] /\ M = [n \in Names |-> M[n]]
      /\ U = [t \in TokenInfo |-> U[t]] /\ W = [t \in TokenInfo |-> W[t]]
  BY DEF NamedView, UnnamedView
<1>7. CASE a \in Names
  <2>1. N[a] = None
    BY <1>1, <1>7 DEF NamedView
  <2> HIDE DEF N, M, U, W
  <2>2. M = [N EXCEPT ![a] = info] /\ W = U
    BY <1>5, <1>6, <1>7
  <2> QED BY <1>7, <2>1, <2>2
      DEF Registry!Operation, Registry!Add, N, M, U, W, NamedView, UnnamedView, UnnamedIds
<1>8. CASE a \notin Names
  <2> HIDE DEF N, M, U, W
  <2>1. M = N /\ W = [U EXCEPT ![info] = @ + 1]
    BY <1>5, <1>6, <1>8
  <2> QED BY <2>1
      DEF Registry!Operation, Registry!Add, Registry!With, N, M, U, W, NamedView, UnnamedView,
          UnnamedIds
<1> QED BY <1>7, <1>8

\* A token without a name is counted.
LEMMA UnnamedIsCounted ==
    ASSUME NEW id \in Ids, tokens[id] \in TokenInfo, id_to_alias[id] \notin Names
    PROVE  UnnamedView(tokens, id_to_alias)[tokens[id]] > 0
<1>1. id \in UnnamedIds(tokens[id], tokens, id_to_alias)
  BY DEF UnnamedIds
<1>2. Cardinality(UnnamedIds(tokens[id], tokens, id_to_alias)) > 0
  BY <1>1, UnnamedFinite
<1> QED BY <1>2 DEF UnnamedView

\* remove is Remove: its name is free again, or there is one token less without
\* a name.
LEMMA RemoveRefines ==
    ASSUME IndexInv, IndexInv', NEW id \in Ids, remove(id)
    PROVE  Registry!Operation
<1> DEFINE t == tokens[id]
           a == id_to_alias[id]
<1> DEFINE N == NamedView(tokens, alias_map)
           M == NamedView(tokens', alias_map')
           U == UnnamedView(tokens, id_to_alias)
           W == UnnamedView(tokens', id_to_alias')
<1>1. /\ tokens[id] # None
      /\ tokens' = [tokens EXCEPT ![id] = None]
      /\ id_to_alias' = [id_to_alias EXCEPT ![id] = None]
  BY DEF remove
<1>2. t \in TokenInfo
  BY <1>1 DEF IndexInv, TypeOK
<1>3. /\ tokens'[id] = None
      /\ id_to_alias'[id] = None
      /\ \A x \in Ids : x # id => tokens'[x] = tokens[x] /\ id_to_alias'[x] = id_to_alias[x]
  BY <1>1 DEF IndexInv, TypeOK
<1>4. None \notin Names /\ None \notin TokenInfo
  BY NoneAssumption DEF Aliases
<1>5. /\ \A n \in Names : M[n] = IF a = n THEN None ELSE N[n]
      /\ \A x \in TokenInfo : W[x] = IF t = x /\ a \notin Names THEN U[x] - 1 ELSE U[x]
  <2>1. /\ \A n \in Names : M[n] = IF id_to_alias'[id] = n THEN tokens'[id]
                                   ELSE IF id_to_alias[id] = n THEN None ELSE N[n]
        /\ \A x \in TokenInfo : W[x] =
              IF tokens'[id] = x /\ id_to_alias'[id] \notin Names
              THEN IF tokens[id] = x /\ id_to_alias[id] \notin Names THEN U[x] ELSE U[x] + 1
              ELSE IF tokens[id] = x /\ id_to_alias[id] \notin Names THEN U[x] - 1 ELSE U[x]
    BY <1>1, <1>3, OneSlot
  <2> HIDE DEF N, M, U, W
  <2> QED BY <2>1, <1>3, <1>4
<1>6. /\ N = [n \in Names |-> N[n]] /\ M = [n \in Names |-> M[n]]
      /\ U = [x \in TokenInfo |-> U[x]] /\ W = [x \in TokenInfo |-> W[x]]
  BY DEF NamedView, UnnamedView
<1>7. CASE a \in Names
  <2>1. N[a] = t
    BY <1>7, NameFindsSlot
  <2> HIDE DEF N, M, U, W, t, a
  <2>2. M = [N EXCEPT ![a] = None] /\ W = U
    BY <1>5, <1>6, <1>7
  <2> QED BY <1>2, <1>7, <2>1, <2>2
      DEF Registry!Operation, Registry!Remove, N, M, U, W, NamedView, UnnamedView, UnnamedIds
<1>8. CASE a \notin Names
  <2>1. U[t] > 0
    BY <1>2, <1>8, UnnamedIsCounted
  <2> HIDE DEF N, M, U, W, t, a
  <2>2. M = N /\ W = [U EXCEPT ![t] = @ - 1]
    BY <1>5, <1>6, <1>8
  <2> QED BY <1>2, <2>1, <2>2
      DEF Registry!Operation, Registry!Remove, Registry!Without, N, M, U, W, NamedView, UnnamedView, UnnamedIds
<1> QED BY <1>7, <1>8

\* set_alias is Rename: from no name to one, to another, or to none; the alias
\* of an unnamed token is never set to its own.
LEMMA AliasRefines ==
    ASSUME IndexInv, IndexInv', NEW id \in Ids, NEW alias, set_alias(id, alias)
    PROVE  Registry!Operation
<1> DEFINE t == tokens[id]
           a == id_to_alias[id]
           b == Resolve(alias, id)
<1> DEFINE N == NamedView(tokens, alias_map)
           M == NamedView(tokens', alias_map')
           U == UnnamedView(tokens, id_to_alias)
           W == UnnamedView(tokens', id_to_alias')
<1>1. /\ tokens[id] # None
      /\ tokens' = tokens
      /\ id_to_alias' = [id_to_alias EXCEPT ![id] = b]
      /\ alias_map[b] = None
  BY DEF set_alias
<1>2. t \in TokenInfo
  BY <1>1 DEF IndexInv, TypeOK
<1>3. /\ tokens'[id] = t
      /\ id_to_alias'[id] = b
      /\ \A x \in Ids : x # id => tokens'[x] = tokens[x] /\ id_to_alias'[x] = id_to_alias[x]
  BY <1>1 DEF IndexInv, TypeOK
<1>4. a \in Aliases /\ alias_map[a] = id /\ id # None
  BY <1>1, NoneAssumption DEF IndexInv, TypeOK, AliasesIndexLiveTokens, Ids
<1>41. a # b
  BY <1>1, <1>4
<1>42. a \in Names \/ b \in Names
  <2> SUFFICES ASSUME a \notin Names, b \notin Names PROVE FALSE
    OBVIOUS
  <2>1. b = generate_unnamed_alias(id)
    BY DEF Resolve
  <2>2. PICK x \in Ids : a = generate_unnamed_alias(x)
    BY <1>4 DEF Aliases, UnnamedAliases
  <2>3. alias_map[generate_unnamed_alias(x)] \in {x, None}
    BY DEF IndexInv, UnnamedAliasesStayHome
  <2>4. x = id
    BY <2>2, <2>3, <1>4
  <2> QED BY <2>1, <2>2, <2>4, <1>41
<1> HIDE DEF b
<1>5. /\ \A n \in Names : M[n] = IF b = n THEN t ELSE IF a = n THEN None ELSE N[n]
      /\ \A x \in TokenInfo : W[x] =
            IF t = x /\ b \notin Names
            THEN IF a \notin Names THEN U[x] ELSE U[x] + 1
            ELSE IF t = x /\ a \notin Names THEN U[x] - 1 ELSE U[x]
  <2>1. /\ \A n \in Names : M[n] = IF id_to_alias'[id] = n THEN tokens'[id]
                                   ELSE IF id_to_alias[id] = n THEN None ELSE N[n]
        /\ \A x \in TokenInfo : W[x] =
              IF tokens'[id] = x /\ id_to_alias'[id] \notin Names
              THEN IF tokens[id] = x /\ id_to_alias[id] \notin Names THEN U[x] ELSE U[x] + 1
              ELSE IF tokens[id] = x /\ id_to_alias[id] \notin Names THEN U[x] - 1 ELSE U[x]
    BY <1>1, <1>3, OneSlot
  <2> HIDE DEF N, M, U, W
  <2> QED BY <2>1, <1>3
<1>6. /\ N = [n \in Names |-> N[n]] /\ M = [n \in Names |-> M[n]]
      /\ U = [x \in TokenInfo |-> U[x]] /\ W = [x \in TokenInfo |-> W[x]]
  BY DEF NamedView, UnnamedView
<1>61. a \in Names => N[a] = t
  BY NameFindsSlot
<1>62. b \in Names => N[b] = None
  BY <1>1 DEF NamedView
<1>63. a \notin Names => U[t] > 0
  BY <1>2, UnnamedIsCounted
<1>7. CASE a \notin Names /\ b \in Names
  <2> HIDE DEF N, M, U, W, t, a
  <2>1. M = [N EXCEPT ![b] = t] /\ W = [U EXCEPT ![t] = @ - 1]
    BY <1>2, <1>5, <1>6, <1>7
  <2> QED BY <1>2, <1>62, <1>63, <1>7, <2>1
      DEF Registry!Operation, Registry!Rename, Registry!Without, N, M, U, W, NamedView, UnnamedView, UnnamedIds
<1>8. CASE a \in Names /\ b \in Names
  <2> HIDE DEF N, M, U, W, t, a
  <2>1. M = [N EXCEPT ![a] = None, ![b] = t] /\ W = U
    BY <1>2, <1>41, <1>5, <1>6, <1>8
  <2> QED BY <1>2, <1>61, <1>62, <1>8, <2>1
      DEF Registry!Operation, Registry!Rename, N, M, U, W, NamedView, UnnamedView, UnnamedIds
<1>9. CASE a \in Names /\ b \notin Names
  <2> HIDE DEF N, M, U, W, t, a
  <2>1. M = [N EXCEPT ![a] = None] /\ W = [U EXCEPT ![t] = @ + 1]
    BY <1>2, <1>5, <1>6, <1>9
  <2> QED BY <1>2, <1>61, <1>9, <2>1
      DEF Registry!Operation, Registry!Rename, Registry!With, N, M, U, W, NamedView, UnnamedView, UnnamedIds
<1> QED BY <1>42, <1>7, <1>8, <1>9

\* A token that is changed in its slot is changed under its name, or among those
\* without a name.
LEMMA ChangeRefines ==
    ASSUME IndexInv, IndexInv', NEW id \in Ids, NEW u \in TokenInfo,
           tokens[id] # None, tokens[id] # u,
           tokens' = [tokens EXCEPT ![id] = u], UNCHANGED id_to_alias
    PROVE  Registry!Operation
<1> DEFINE t == tokens[id]
           a == id_to_alias[id]
<1> DEFINE N == NamedView(tokens, alias_map)
           M == NamedView(tokens', alias_map')
           U == UnnamedView(tokens, id_to_alias)
           W == UnnamedView(tokens', id_to_alias')
<1>1. id \in Ids
  OBVIOUS
<1>2. t \in TokenInfo
  BY DEF IndexInv, TypeOK
<1>3. /\ tokens'[id] = u
      /\ id_to_alias'[id] = a
      /\ \A x \in Ids : x # id => tokens'[x] = tokens[x] /\ id_to_alias'[x] = id_to_alias[x]
  BY DEF IndexInv, TypeOK
<1>5. /\ \A n \in Names : M[n] = IF a = n THEN u ELSE N[n]
      /\ \A x \in TokenInfo : W[x] =
            IF a \in Names THEN U[x]
            ELSE IF x = u THEN U[x] + 1 ELSE IF x = t THEN U[x] - 1 ELSE U[x]
  <2>1. /\ \A n \in Names : M[n] = IF id_to_alias'[id] = n THEN tokens'[id]
                                   ELSE IF id_to_alias[id] = n THEN None ELSE N[n]
        /\ \A x \in TokenInfo : W[x] =
              IF tokens'[id] = x /\ id_to_alias'[id] \notin Names
              THEN IF tokens[id] = x /\ id_to_alias[id] \notin Names THEN U[x] ELSE U[x] + 1
              ELSE IF tokens[id] = x /\ id_to_alias[id] \notin Names THEN U[x] - 1 ELSE U[x]
    BY <1>1, <1>3, OneSlot
  <2> HIDE DEF N, M, U, W
  <2> QED BY <2>1, <1>3
<1>6. /\ N = [n \in Names |-> N[n]] /\ M = [n \in Names |-> M[n]]
      /\ U = [x \in TokenInfo |-> U[x]] /\ W = [x \in TokenInfo |-> W[x]]
  BY DEF NamedView, UnnamedView
<1>7. CASE a \in Names
  <2>1. N[a] = t
    BY <1>7, NameFindsSlot
  <2>2. t # u
    OBVIOUS
  <2> HIDE DEF N, M, U, W, t, a
  <2>3. M = [N EXCEPT ![a] = u] /\ W = U
    BY <1>5, <1>6, <1>7
  <2>4. Registry!Change(t, u)
    BY <1>7, <2>1, <2>3 DEF Registry!Change, N, M, U, W, NamedView, UnnamedView, UnnamedIds
  <2> QED BY <1>2, <2>2, <2>4 DEF Registry!Operation
<1>8. CASE a \notin Names
  <2>1. U[t] > 0
    BY <1>2, <1>8, UnnamedIsCounted
  <2>2. t # u
    OBVIOUS
  <2> HIDE DEF N, M, U, W, t, a
  <2>3. M = N /\ W = [U EXCEPT ![t] = @ - 1, ![u] = @ + 1]
    BY <1>2, <2>2, <1>5, <1>6, <1>8
  <2>4. Registry!Change(t, u)
    BY <2>1, <2>3 DEF Registry!Change, N, M, U, W, NamedView, UnnamedView, UnnamedIds
  <2> QED BY <1>2, <2>2, <2>4 DEF Registry!Operation
<1> QED BY <1>7, <1>8

\* A new manager has no tokens.
LEMMA ClearRefines ==
    ASSUME new
    PROVE  Registry!Operation
<1>1. /\ tokens' = [id \in Ids |-> None]
      /\ alias_map' = [a \in Aliases |-> None]
  BY DEF new
<1>2. NamedView(tokens', alias_map') = [n \in Names |-> None]
  BY <1>1 DEF NamedView, Aliases
<1>3. UnnamedView(tokens', id_to_alias') = [t \in TokenInfo |-> 0]
  <2>1. \A t \in TokenInfo : UnnamedIds(t, tokens', id_to_alias') = {}
    BY <1>1, NoneAssumption DEF UnnamedIds
  <2>2. \A t \in TokenInfo : Cardinality(UnnamedIds(t, tokens', id_to_alias')) = 0
    BY <2>1, FS_EmptySet
  <2> QED BY <2>2 DEF UnnamedView
<1> QED BY <1>2, <1>3 DEF Registry!Operation, Registry!Clear, Registry!Empty, NamedView,
                          UnnamedView, UnnamedIds

\* Every operation of the manager is one of the registry.
LEMMA WriteRefines ==
    ASSUME IndexInv, IndexInv', Write
    PROVE  Registry!Operation
<1>1. ASSUME NEW info \in TokenInfo, NEW alias \in RequestedAliases, add(info, alias)
      PROVE  Registry!Operation
  BY <1>1, AddRefines
<1>2. ASSUME NEW id \in Ids, remove(id)
      PROVE  Registry!Operation
  BY <1>2, RemoveRefines
<1>3. ASSUME NEW id \in Ids, NEW alias \in RequestedAliases, set_alias(id, alias)
      PROVE  Registry!Operation
  BY <1>3, AliasRefines
<1>4. ASSUME NEW id \in Ids, NEW k \in Keys, TokenWriter_drop(id, k)
      PROVE  Registry!Operation
  <2> DEFINE u == [tokens[id] EXCEPT !.key = k]
  <2>1. /\ tokens[id] \in TokenInfo
        /\ tokens[id] # None
        /\ tokens[id].key # k
        /\ tokens' = [tokens EXCEPT ![id].key = k]
        /\ UNCHANGED id_to_alias
    BY <1>4 DEF TokenWriter_drop, IndexInv, TypeOK
  <2>2. u \in TokenInfo /\ u # tokens[id]
    BY <2>1 DEF TokenInfo
  <2>3. tokens' = [tokens EXCEPT ![id] = u]
    BY <2>1 DEF IndexInv, TypeOK
  <2> HIDE DEF u
  <2> QED BY <2>1, <2>2, <2>3, ChangeRefines
<1>5. ASSUME NEW id \in Ids, NEW s \in Statuses, set_status(id, s)
      PROVE  Registry!Operation
  <2> DEFINE u == [tokens[id] EXCEPT !.status = s]
  <2>1. /\ tokens[id] \in TokenInfo
        /\ tokens[id] # None
        /\ tokens[id].status # s
        /\ tokens' = [tokens EXCEPT ![id].status = s]
        /\ UNCHANGED id_to_alias
    BY <1>5 DEF set_status, IndexInv, TypeOK
  <2>2. u \in TokenInfo /\ u # tokens[id]
    BY <2>1 DEF TokenInfo
  <2>3. tokens' = [tokens EXCEPT ![id] = u]
    BY <2>1 DEF IndexInv, TypeOK
  <2> HIDE DEF u
  <2> QED BY <2>1, <2>2, <2>3, ChangeRefines
<1>6. CASE new
  BY <1>6, ClearRefines
<1> QED BY <1>1, <1>2, <1>3, <1>4, <1>5, <1>6 DEF Write

\* Sets that a function maps onto each other one to one have the same size.
LEMMA SameSize ==
    ASSUME NEW n \in Nat, NEW I \in SUBSET (1 .. n), NEW T, NEW f \in [I -> T],
           \A i, j \in I : f[i] = f[j] => i = j,
           \A x \in T : \E i \in I : f[i] = x
    PROVE  Cardinality(I) = Cardinality(T)
<1>1. f \in Bijection(I, T)
  BY DEF Bijection, Injection, Surjection, IsInjective
<1>2. ExistsBijection(I, T)
  BY <1>1 DEF ExistsBijection
<1>3. IsFiniteSet(1 .. n)
  <2>1. 1 \in Int /\ n \in Int
    OBVIOUS
  <2> QED BY <2>1, FS_Interval
<1>4. IsFiniteSet(I)
  BY <1>3, FS_Subset
<1> QED BY <1>2, <1>4, FS_Bijection

\* What is saved is the view of the registry: TokenManager::save loses no token
\* and no name.
LEMMA SnapshotView ==
    IndexInv => DiskView(Snapshot) = [named |-> NamedView(tokens, alias_map),
                                      unnamed |-> UnnamedView(tokens, id_to_alias)]
<1> SUFFICES ASSUME IndexInv
             PROVE  /\ DiskNamed(Snapshot) = NamedView(tokens, alias_map)
                    /\ DiskUnnamed(Snapshot) = UnnamedView(tokens, id_to_alias)
  BY DEF DiskView
<1> DEFINE S == {id \in Ids : tokens[id] # None}
           n == Cardinality(S)
           s == InOrder(S)
<1>1. /\ n \in Nat
      /\ \A i \in 1 .. n : s[i] \in S
      /\ \A i, j \in 1 .. n : s[i] = s[j] => i = j
      /\ \A x \in S : \E i \in 1 .. n : s[i] = x
  <2>1. S \in SUBSET Ids
    OBVIOUS
  <2> HIDE DEF S
  <2> QED BY <2>1, InOrderLists
<1>2. DOMAIN s = 1 .. n
  BY DEF InOrder
<1>3. /\ DOMAIN Snapshot = 1 .. n
      /\ \A i \in 1 .. n : /\ Snapshot[i].info = tokens[s[i]]
                           /\ Snapshot[i].alias = id_to_alias[s[i]]
  <2>1. Snapshot = [i \in 1 .. n |-> [info |-> tokens[s[i]], alias |-> id_to_alias[s[i]]]]
    BY <1>2 DEF Snapshot, LiveIds
  <2> HIDE DEF n, s
  <2> QED BY <2>1
<1> HIDE DEF n, s
<1>4. \A i \in 1 .. n : s[i] \in Ids
  BY <1>1
<1>5. \A id \in Ids : tokens[id] # None => \E i \in 1 .. n : s[i] = id
  BY <1>1
<1>6. ASSUME NEW m \in Names
      PROVE  DiskNamed(Snapshot)[m] = NamedView(tokens, alias_map)[m]
  <2>1. \A i : i \in Under(m, Snapshot) <=> i \in 1 .. n /\ id_to_alias[s[i]] = m
    BY <1>3 DEF Under
  <2>2. CASE Under(m, Snapshot) = {}
    <3>1. ASSUME NEW id \in Ids, id_to_alias[id] = m PROVE FALSE
      <4>1. tokens[id] # None
        BY <3>1, NoneAssumption DEF IndexInv, AliasesIndexLiveTokens, Aliases
      <4>2. PICK i \in 1 .. n : s[i] = id
        BY <4>1, <1>5
      <4> QED BY <2>1, <2>2, <3>1, <4>2
    <3>2. NamedView(tokens, alias_map)[m] = None
      BY <3>1, NameFindsSlot
    <3> QED BY <2>2, <3>2 DEF DiskNamed
  <2>3. CASE Under(m, Snapshot) # {}
    <3> DEFINE c == CHOOSE i \in Under(m, Snapshot) : TRUE
    <3>1. c \in Under(m, Snapshot)
      BY <2>3
    <3>2. DiskNamed(Snapshot)[m] = Snapshot[c].info
      BY <2>3 DEF DiskNamed
    <3> HIDE DEF c
    <3>3. c \in 1 .. n /\ id_to_alias[s[c]] = m
      BY <2>1, <3>1
    <3>4. NamedView(tokens, alias_map)[m] = tokens[s[c]]
      BY <3>3, <1>4, NameFindsSlot
    <3> QED BY <3>2, <3>3, <3>4, <1>3
  <2> QED BY <2>2, <2>3
<1>7. ASSUME NEW t \in TokenInfo
      PROVE  DiskUnnamed(Snapshot)[t] = UnnamedView(tokens, id_to_alias)[t]
  <2> DEFINE I == {i \in DOMAIN Snapshot : Snapshot[i].info = t /\ Snapshot[i].alias \notin Names}
             T == UnnamedIds(t, tokens, id_to_alias)
             f == [i \in I |-> s[i]]
  <2>1. I \in SUBSET (1 .. n)
    BY <1>3
  <2>2. f \in [I -> T]
    BY <1>3, <1>4 DEF UnnamedIds
  <2>3. \A i, j \in I : f[i] = f[j] => i = j
    BY <1>1, <2>1
  <2>4. ASSUME NEW x \in T PROVE \E i \in I : f[i] = x
    <3>1. x \in Ids /\ tokens[x] = t /\ id_to_alias[x] \notin Names /\ t # None
      BY NoneAssumption DEF UnnamedIds
    <3>2. PICK i \in 1 .. n : s[i] = x
      BY <3>1, <1>5
    <3>3. i \in I
      BY <3>1, <3>2, <1>3
    <3> QED BY <3>2, <3>3
  <2>5. DiskUnnamed(Snapshot)[t] = Cardinality(I) /\ UnnamedView(tokens, id_to_alias)[t] = Cardinality(T)
    BY DEF DiskUnnamed, UnnamedView
  <2> HIDE DEF I, T, f
  <2>6. Cardinality(I) = Cardinality(T)
    BY <1>1, <2>1, <2>2, <2>3, <2>4, SameSize, ZenonT(60)
  <2> QED BY <2>5, <2>6
<1>8. DiskNamed(Snapshot) = NamedView(tokens, alias_map)
  BY <1>6 DEF DiskNamed, NamedView
<1>9. DiskUnnamed(Snapshot) = UnnamedView(tokens, id_to_alias)
  BY <1>7 DEF DiskUnnamed, UnnamedView
<1> QED BY <1>8, <1>9

\* The same of the state that an operation leaves behind.
LEMMA SnapshotViewNext ==
    IndexInv' => (DiskView(Snapshot) = [named |-> NamedView(tokens, alias_map),
                                        unnamed |-> UnnamedView(tokens, id_to_alias)])'
BY SnapshotView, PTL

\* A restart brings back the view that was saved.
LEMMA RestartView ==
    ASSUME SavedOK(saved), restart, IndexInv'
    PROVE  /\ NamedView(tokens', alias_map') = DiskNamed(saved)
           /\ UnnamedView(tokens', id_to_alias') = DiskUnnamed(saved)
<1> DEFINE n == Len(saved)
<1>1. /\ tokens' = [id \in Ids |-> IF id < n THEN saved[id + 1].info ELSE None]
      /\ id_to_alias' = [id \in Ids |-> IF id < n THEN LoadedAlias(id + 1) ELSE None]
  BY DEF restart, load
<1>2. /\ n \in Nat
      /\ DOMAIN saved = 1 .. n
      /\ \A i \in 1 .. n : i - 1 \in Ids
  BY SavedEntries, ConstantsAssumption
<1> HIDE DEF n
<1>3. ASSUME NEW i \in 1 .. n
      PROVE  /\ i - 1 \in Ids
             /\ tokens'[i - 1] = saved[i].info
             /\ id_to_alias'[i - 1] = LoadedAlias(i)
             /\ \A m \in Names : id_to_alias'[i - 1] = m <=> saved[i].alias = m
             /\ id_to_alias'[i - 1] \in Names <=> saved[i].alias \in Names
  <2>1. i - 1 \in Ids
    BY <1>2
  <2>2. i - 1 < n /\ i - 1 + 1 = i
    BY <1>2
  <2>3. tokens'[i - 1] = saved[i].info /\ id_to_alias'[i - 1] = LoadedAlias(i)
    BY <2>1, <2>2, <1>1
  <2>4. generate_unnamed_alias(i - 1) \notin Names
    BY <2>1, ConstantsAssumption DEF UnnamedAliases
  <2>5. LoadedAlias(i) = IF saved[i].alias \in Names THEN saved[i].alias
                         ELSE generate_unnamed_alias(i - 1)
    BY DEF LoadedAlias, Resolve
  <2> QED BY <2>1, <2>3, <2>4, <2>5
<1>4. ASSUME NEW id \in Ids, tokens'[id] # None
      PROVE  \E i \in 1 .. n : id = i - 1
  <2>1. id < n
    BY <1>1, <1>4
  <2> DEFINE j == id + 1
  <2>2. j \in 1 .. n /\ id = j - 1
    BY <2>1, <1>2 DEF Ids
  <2> HIDE DEF j
  <2> QED BY <2>2
<1>5. ASSUME NEW m \in Names
      PROVE  DiskNamed(saved)[m] = NamedView(tokens', alias_map')[m]
  <2>1. \A i : i \in Under(m, saved) <=> i \in 1 .. n /\ id_to_alias'[i - 1] = m
    BY <1>2, <1>3 DEF Under
  <2>2. CASE Under(m, saved) = {}
    <3>1. ASSUME NEW id \in Ids, id_to_alias'[id] = m PROVE FALSE
      <4>1. tokens'[id] # None
        BY <3>1, NoneAssumption DEF IndexInv, AliasesIndexLiveTokens, Aliases
      <4>2. PICK i \in 1 .. n : id = i - 1
        BY <4>1, <1>4
      <4> QED BY <2>1, <2>2, <3>1, <4>2
    <3>2. NamedView(tokens', alias_map')[m] = None
      BY <3>1, NameFindsSlotNext
    <3> QED BY <2>2, <3>2 DEF DiskNamed
  <2>3. CASE Under(m, saved) # {}
    <3> DEFINE c == CHOOSE i \in Under(m, saved) : TRUE
    <3>1. c \in Under(m, saved)
      BY <2>3
    <3>2. DiskNamed(saved)[m] = saved[c].info
      BY <2>3 DEF DiskNamed
    <3> HIDE DEF c
    <3>3. c \in 1 .. n /\ id_to_alias'[c - 1] = m
      BY <2>1, <3>1
    <3>4. NamedView(tokens', alias_map')[m] = tokens'[c - 1]
      BY <3>3, <1>3, NameFindsSlotNext
    <3> QED BY <3>2, <3>3, <3>4, <1>3
  <2> QED BY <2>2, <2>3
<1>6. ASSUME NEW t \in TokenInfo
      PROVE  DiskUnnamed(saved)[t] = UnnamedView(tokens', id_to_alias')[t]
  <2> DEFINE I == {i \in DOMAIN saved : saved[i].info = t /\ saved[i].alias \notin Names}
             T == UnnamedIds(t, tokens', id_to_alias')
             f == [i \in I |-> i - 1]
  <2>1. I \in SUBSET (1 .. n)
    BY <1>2
  <2>2. f \in [I -> T]
    BY <1>2, <1>3 DEF UnnamedIds
  <2>3. \A i, j \in I : f[i] = f[j] => i = j
    BY <1>2, <2>1
  <2>4. ASSUME NEW x \in T PROVE \E i \in I : f[i] = x
    <3>1. x \in Ids /\ tokens'[x] = t /\ id_to_alias'[x] \notin Names /\ t # None
      BY NoneAssumption DEF UnnamedIds
    <3>2. PICK i \in 1 .. n : x = i - 1
      BY <3>1, <1>4
    <3>3. i \in I
      BY <3>1, <3>2, <1>2, <1>3
    <3> QED BY <3>2, <3>3
  <2>5. /\ DiskUnnamed(saved)[t] = Cardinality(I)
        /\ UnnamedView(tokens', id_to_alias')[t] = Cardinality(T)
    BY DEF DiskUnnamed, UnnamedView
  <2> HIDE DEF I, T, f
  <2>6. Cardinality(I) = Cardinality(T)
    BY <1>2, <2>1, <2>2, <2>3, <2>4, SameSize
  <2> QED BY <2>5, <2>6
<1>7. NamedView(tokens', alias_map') = DiskNamed(saved)
  BY <1>5 DEF DiskNamed, NamedView
<1>8. UnnamedView(tokens', id_to_alias') = DiskUnnamed(saved)
  BY <1>6 DEF DiskUnnamed, UnnamedView
<1> QED BY <1>7, <1>8

\* What the registry shows and what of it is in the file.
Shown == [named |-> NamedView(tokens, alias_map), unnamed |-> UnnamedView(tokens, id_to_alias)]

\* A file without tokens is an empty registry.
LEMMA EmptyFile == DiskView(<<>>) = Registry!Empty
<1>1. DOMAIN <<>> = {}
  OBVIOUS
<1>2. DiskNamed(<<>>) = [n \in Names |-> None]
  BY <1>1 DEF DiskNamed, Under
<1>3. DiskUnnamed(<<>>) = [t \in TokenInfo |-> 0]
  <2>1. \A t \in TokenInfo :
           {i \in DOMAIN <<>> : <<>>[i].info = t /\ <<>>[i].alias \notin Names} = {}
    BY <1>1
  <2>2. \A t \in TokenInfo :
           Cardinality({i \in DOMAIN <<>> : <<>>[i].info = t /\ <<>>[i].alias \notin Names}) = 0
    BY <2>1, FS_EmptySet
  <2> QED BY <2>2 DEF DiskUnnamed
<1> QED BY <1>2, <1>3 DEF DiskView, Registry!Empty

\* The registry's saves and its restart in the terms of the views.
LEMMA RegistrySaves ==
    /\ (DiskView(saved') = Shown' /\ torn' = FALSE /\ dirty' = FALSE) => Registry!Save
    /\ (dirty' = TRUE /\ saved' = saved /\ torn' = torn) => Registry!NoSave
    /\ (dirty' = TRUE /\ DiskView(saved') = Registry!Empty /\ torn' \in BOOLEAN)
          => Registry!NoSave
    /\ (dirty' = TRUE /\ DiskView(saved') = Shown' /\ torn' = FALSE) => Registry!NoSave
    /\ (/\ ~torn
        /\ NamedView(tokens', alias_map') = DiskNamed(saved)
        /\ UnnamedView(tokens', id_to_alias') = DiskUnnamed(saved)
        /\ dirty' = FALSE
        /\ saved' = saved
        /\ torn' = torn) => Registry!Restart
<1> USE DEF Shown, DiskView, DiskNamed, DiskUnnamed, NamedView, UnnamedView, UnnamedIds, Under, InDisk
<1>1. (DiskView(saved') = Shown' /\ torn' = FALSE /\ dirty' = FALSE) => Registry!Save
  BY DEF Registry!Save
<1>2. (dirty' = TRUE /\ saved' = saved /\ torn' = torn) => Registry!NoSave
  BY DEF Registry!NoSave
<1>3. (dirty' = TRUE /\ DiskView(saved') = Registry!Empty /\ torn' \in BOOLEAN)
         => Registry!NoSave
  BY DEF Registry!NoSave
<1>4. (dirty' = TRUE /\ DiskView(saved') = Shown' /\ torn' = FALSE) => Registry!NoSave
  BY DEF Registry!NoSave
<1>5. (/\ ~torn
       /\ NamedView(tokens', alias_map') = DiskNamed(saved)
       /\ UnnamedView(tokens', id_to_alias') = DiskUnnamed(saved)
       /\ dirty' = FALSE
       /\ saved' = saved
       /\ torn' = torn) => Registry!Restart
  BY DEF Registry!Restart
<1> QED BY <1>1, <1>2, <1>3, <1>4, <1>5

\* A save of the service is one of the registry, and so is one that fails,
\* whatever it leaves of the file.
LEMMA SaveRefines ==
    ASSUME IndexInv', Saved \/ NotSaved
    PROVE  Registry!Save \/ Registry!NoSave
<1>1. DiskView(Snapshot') = Shown'
  BY SnapshotViewNext DEF Shown
<1>2. CASE Saved
  BY <1>1, <1>2, RegistrySaves DEF Saved
<1>3. CASE NotSaved
  <2>1. dirty' = TRUE
    BY <1>3 DEF NotSaved
  <2>2. CASE UNCHANGED fileVars
    BY <2>1, <2>2, RegistrySaves DEF fileVars
  <2>3. CASE saved' = <<>> /\ torn' \in BOOLEAN
    BY <2>1, <2>3, EmptyFile, RegistrySaves
  <2>4. CASE saved' = Snapshot' /\ torn' = FALSE
    BY <1>1, <2>1, <2>4, RegistrySaves
  <2> QED BY <1>3, <2>2, <2>3, <2>4 DEF NotSaved
<1> QED BY <1>2, <1>3

\* The registry's next-state relation: an operation or none, with a save or
\* without, and a restart.
LEMMA RegistryNext ==
    /\ (Registry!Operation /\ (Registry!Save \/ Registry!NoSave)) => Registry!Next
    /\ (/\ UNCHANGED <<tokens, alias_map, id_to_alias>>
        /\ Registry!Save \/ Registry!NoSave) => Registry!Next
    /\ Registry!Restart => Registry!Next
BY DEF Registry!Next

\* The service implements the registry its callers think of: a token is found
\* under the one name it was given, an operation touches one token, what is
\* saved is what there is, and a restart brings back what was saved last,
\* whatever slots are reused and whatever usage checks interleave.  A save that
\* fails, and may destroy the file, is the only way to lose what was saved.
THEOREM ServiceImplementsRegistry == ServiceSpec => RegistrySpec
<1>1. ServiceInit => Registry!Init
  <2> SUFFICES ASSUME ServiceInit PROVE Registry!Init
    OBVIOUS
  <2>1. /\ tokens = [id \in Ids |-> None]
        /\ alias_map = [a \in Aliases |-> None]
        /\ saved = <<>>
    BY DEF ServiceInit, Init
  <2>2. NamedView(tokens, alias_map) = [n \in Names |-> None]
    BY <2>1 DEF NamedView, Aliases
  <2>3. UnnamedView(tokens, id_to_alias) = [t \in TokenInfo |-> 0]
    <3>1. \A t \in TokenInfo : UnnamedIds(t, tokens, id_to_alias) = {}
      BY <2>1, NoneAssumption DEF UnnamedIds
    <3>2. \A t \in TokenInfo : Cardinality(UnnamedIds(t, tokens, id_to_alias)) = 0
      BY <3>1, FS_EmptySet
    <3> QED BY <3>2 DEF UnnamedView
  <2>4. DiskView(saved) = Registry!Empty
    BY <2>1, EmptyFile
  <2>5. torn = FALSE /\ dirty = FALSE
    BY DEF ServiceInit
  <2> QED BY <2>2, <2>3, <2>4, <2>5
      DEF Registry!Init, Registry!Empty, NamedView, UnnamedView, UnnamedIds, DiskView, DiskNamed,
          DiskUnnamed, Under, InDisk
<1>2. ServiceInv /\ ServiceInv' /\ [ServiceNext]_allVars => [Registry!Next]_(Registry!vars)
  <2> SUFFICES ASSUME ServiceInv, ServiceInv', [ServiceNext]_allVars
               PROVE  [Registry!Next]_(Registry!vars)
    OBVIOUS
  <2>0. IndexInv /\ IndexInv' /\ SavedOK(saved)
    BY DEF ServiceInv
  <2>1. ASSUME UNCHANGED <<vars, saved, torn, dirty>> PROVE UNCHANGED Registry!vars
    BY <2>1 DEF vars, managerVars, Registry!vars, InDisk
  <2>2. CASE UNCHANGED allVars
    BY <2>1, <2>2 DEF allVars, serviceVars, fileVars
  <2>3. CASE Manage
    <3>1. Registry!Operation
      BY <2>0, <2>3, WriteRefines DEF Manage
    <3>2. Registry!Save \/ Registry!NoSave
      BY <2>0, <2>3, SaveRefines DEF Manage
    <3> QED BY <3>1, <3>2, RegistryNext
  <2>4. CASE save
    <3>1. UNCHANGED <<tokens, alias_map, id_to_alias>>
      BY <2>4 DEF save, vars, managerVars
    <3>2. Registry!Save \/ Registry!NoSave
      BY <2>0, <2>4, SaveRefines DEF save
    <3> QED BY <3>1, <3>2, RegistryNext
  <2>5. CASE restart
    <3>1. saved' = saved /\ torn' = torn /\ ~torn /\ dirty' = FALSE
      BY <2>5 DEF restart, fileVars
    <3>2. /\ NamedView(tokens', alias_map') = DiskNamed(saved)
          /\ UnnamedView(tokens', id_to_alias') = DiskUnnamed(saved)
      BY <2>0, <2>5, RestartView
    <3> QED BY <3>1, <3>2, RegistrySaves, RegistryNext
  <2>6. CASE restart_torn
    BY <2>1, <2>6 DEF restart_torn, fileVars
  <2>7. ASSUME NEW c \in Checks, Check(c)
        PROVE  [Registry!Next]_(Registry!vars)
    <3>1. ASSUME NEW k \in Keys, lookup(c, k) PROVE UNCHANGED <<vars, saved, torn, dirty>>
      BY <3>1 DEF lookup, fileVars
    <3>2. ASSUME read_alias(c) PROVE UNCHANGED <<vars, saved, torn, dirty>>
      BY <3>2 DEF read_alias, fileVars
    <3>3. ASSUME NEW alias \in Names \cup {UNNAMED, None}, write_profile(c, alias)
          PROVE  UNCHANGED <<vars, saved, torn, dirty>>
      BY <3>3 DEF write_profile, WriteLock, vars, fileVars
    <3>4. CASE rename(c)
      <4>1. check[c].id \in Ids
        BY <3>4 DEF rename, ServiceInv, ChecksOK, UsageCheck
      <4>2. saved' = saved /\ torn' = torn
        BY <3>4 DEF rename, fileVars
      <4>3. CASE set_alias(check[c].id, check[c].alias) /\ dirty' = TRUE
        <5>1. Registry!Operation
          BY <2>0, <4>1, <4>3, AliasRefines
        <5>2. Registry!NoSave
          BY <4>2, <4>3, RegistrySaves
        <5> QED BY <5>1, <5>2, RegistryNext
      <4>4. CASE UNCHANGED <<vars, dirty>>
        BY <2>1, <4>2, <4>4
      <4> QED BY <3>4, <4>3, <4>4 DEF rename
    <3> QED BY <2>1, <2>7, <3>1, <3>2, <3>3, <3>4 DEF Check
  <2> QED BY <2>2, <2>3, <2>4, <2>5, <2>6, <2>7 DEF ServiceNext
<1> QED BY <1>1, <1>2, ServiceInvariant, PTL DEF ServiceSpec, RegistrySpec, Registry!Spec

=============================================================================
