-------------------------- MODULE TokenCacheProofs --------------------------
(***************************************************************************)
(* Proofs about TokenCache: for any number of handles, keys, tokens and    *)
(* addresses, as long as no token of another RawToken was handed out and   *)
(* no two clean-ups of one token overlapped, tokens in use are allocated   *)
(* and cached, no freed memory is used and every token is cleaned up once. *)
(***************************************************************************)
EXTENDS TokenCache, FiniteSetTheorems, TLAPS

Places == {"none", "creating", "held", "last", "locking", "freeing"}
Inner == [raw : RawToken, count : Nat]

Types ==
    /\ mem \in [Addresses -> Inner \cup {None}]
    /\ cache \in [Keys -> Addresses \cup {None}]
    /\ pc \in [Handles -> Places]
    /\ ptr \in [Handles -> Addresses \cup {None}]
    /\ want \in [Handles -> RawToken \cup {None}]

Cleaning(h) == pc[h] \in {"last", "locking", "freeing"}

\* A handle that holds or cleans up has an address, one that creates a token.
Targets ==
    \A h \in Handles :
        /\ (pc[h] = "held" \/ Cleaning(h)) => ptr[h] \in Addresses
        /\ pc[h] \in {"creating", "held", "locking"} => want[h] \in RawToken

\* The cached token of a key is allocated and has that key.
CacheInv ==
    \A k \in Keys : cache[k] # None => mem[cache[k]] # None /\ mem[cache[k]].raw.key = k

HeldInv ==
    \A h \in Handles : pc[h] = "held" =>
        /\ mem[ptr[h]] # None
        /\ mem[ptr[h]].raw = want[h]
        /\ cache[want[h].key] = ptr[h]

\* A clean-up before its removal works on a cached token, after it on one that
\* nobody can find or use.
CleanerInv ==
    \A h \in Handles :
        /\ Cleaning(h) => mem[ptr[h]] # None
        /\ pc[h] \in {"last", "locking"} => cache[mem[ptr[h]].raw.key] = ptr[h]
        /\ pc[h] = "locking" => want[h] = mem[ptr[h]].raw
        /\ pc[h] = "freeing" => mem[ptr[h]].count = 0 /\ \A k \in Keys : cache[k] # ptr[h]

UniqueInv ==
    \A g, h \in Handles : (Cleaning(g) /\ Cleaning(h) /\ ptr[g] = ptr[h]) => g = h

Holders(a) == {h \in Handles : pc[h] = "held" /\ ptr[h] = a}

CountInv ==
    \A a \in Addresses : mem[a] # None => mem[a].count = Cardinality(Holders(a))

\* A token without handles is being cleaned up.
ZeroInv ==
    \A a \in Addresses : (mem[a] # None /\ mem[a].count = 0) =>
        \E h \in Handles : Cleaning(h) /\ ptr[h] = a

Good == Types /\ Targets /\ CacheInv /\ HeldInv /\ CleanerInv /\ UniqueInv /\ CountInv /\ ZeroInv

Inv == clean \in BOOLEAN /\ (clean => fault = "none" /\ Good)

-----------------------------------------------------------------------------

\* The handles of a token are finitely many, and nobody holds a token whose
\* count is 0.
LEMMA HolderFacts ==
    ASSUME NEW a \in Addresses
    PROVE  /\ IsFiniteSet(Holders(a))
           /\ Cardinality(Holders(a)) = 0 <=> Holders(a) = {}
<1>1. IsFiniteSet(Holders(a))
    BY HandlesFinite, FS_Subset DEF Holders
<1> QED BY <1>1, FS_EmptySet

\* One more handle for a cached token (Token::new that finds it, clone).
LEMMA ShareKeepsGood ==
    ASSUME Good, NEW h \in Handles, NEW raw \in RawToken, NEW a \in Addresses,
           pc[h] \in {"none", "creating"}, mem[a] # None, mem[a].raw = raw,
           cache[raw.key] = a,
           mem' = [mem EXCEPT ![a].count = @ + 1], Hold(h, raw, a), cache' = cache
    PROVE  Good'
<1> USE DEF Good
<1>1. /\ mem'[a] # None /\ mem'[a].raw = mem[a].raw /\ mem'[a].count = mem[a].count + 1
      /\ mem[a].count \in Nat
      /\ \A b \in Addresses : b # a => mem'[b] = mem[b]
      /\ mem' \in [Addresses -> Inner \cup {None}]
    <2>1. mem[a] \in Inner
        BY DEF Types
    <2>2. [mem[a] EXCEPT !.count = mem[a].count + 1] \in Inner
        BY <2>1 DEF Inner
    <2>3. \A x \in Inner : x # None
        BY NoneIsNew DEF Inner, TokenInner
    <2>4. /\ [mem[a] EXCEPT !.count = mem[a].count + 1].raw = mem[a].raw
          /\ [mem[a] EXCEPT !.count = mem[a].count + 1].count = mem[a].count + 1
          /\ mem[a].count \in Nat
        BY <2>1 DEF Inner
    <2> HIDE DEF Inner
    <2> QED BY <2>2, <2>3, <2>4 DEF Types
<1>2. /\ pc'[h] = "held" /\ ptr'[h] = a /\ want'[h] = raw
      /\ \A g \in Handles : g # h => pc'[g] = pc[g] /\ ptr'[g] = ptr[g] /\ want'[g] = want[g]
    BY DEF Hold, Types
<1>3. Types'
    BY <1>1 DEF Types, Hold, Places
<1>4. Targets'
    BY <1>2 DEF Targets, Cleaning
<1>5. CacheInv'
    BY <1>1 DEF CacheInv, Types
<1>6. HeldInv'
    BY <1>1, <1>2 DEF HeldInv, Targets
<1>7. CleanerInv'
    <2>1. \A g \in Handles : pc[g] = "freeing" => ptr[g] # a
        BY DEF CleanerInv, RawToken
    <2> QED BY <2>1, <1>1, <1>2 DEF CleanerInv, Cleaning, Targets
<1>8. UniqueInv'
    BY <1>2 DEF UniqueInv, Cleaning
<1>9. CountInv'
    <2>1. Holders(a)' = Holders(a) \cup {h} /\ h \notin Holders(a)
        BY <1>2 DEF Holders
    <2>2. \A b \in Addresses : b # a => Holders(b)' = Holders(b)
        BY <1>2 DEF Holders
    <2>3. Cardinality(Holders(a) \cup {h}) = Cardinality(Holders(a)) + 1
        BY <2>1, HolderFacts, FS_AddElement
    <2> QED BY <2>1, <2>2, <2>3, <1>1 DEF CountInv
<1>10. ZeroInv'
    <2>1. mem'[a].count # 0
        BY <1>1
    <2> QED BY <2>1, <1>1, <1>2 DEF ZeroInv, Cleaning
<1> QED BY <1>3, <1>4, <1>5, <1>6, <1>7, <1>8, <1>9, <1>10

\* A new token in fresh memory, entered under a key without one.
LEMMA InsertKeepsGood ==
    ASSUME Good, NEW h \in Handles, NEW raw \in RawToken, NEW a \in Addresses,
           pc[h] = "creating", mem[a] = None, cache[raw.key] = None,
           mem' = [mem EXCEPT ![a] = [raw |-> raw, count |-> 1]],
           cache' = [cache EXCEPT ![raw.key] = a], Hold(h, raw, a)
    PROVE  Good'
<1> USE DEF Good
<1> DEFINE t == [raw |-> raw, count |-> 1]
<1>1. t \in Inner /\ t # None /\ t.raw = raw /\ t.count = 1
    BY NoneIsNew DEF Inner, TokenInner
<1> HIDE DEF t
<1>2. mem'[a] = t /\ \A b \in Addresses : b # a => mem'[b] = mem[b]
    BY DEF Types, t
<1>3. /\ raw.key \in Keys /\ cache'[raw.key] = a
      /\ \A k \in Keys : k # raw.key => cache'[k] = cache[k]
    BY DEF Types, RawToken
<1>4. /\ pc'[h] = "held" /\ ptr'[h] = a /\ want'[h] = raw
      /\ \A g \in Handles : g # h => pc'[g] = pc[g] /\ ptr'[g] = ptr[g] /\ want'[g] = want[g]
    BY DEF Hold, Types
<1>5. Types'
    BY <1>1 DEF Types, Hold, Places, t
<1>6. Targets'
    BY <1>4 DEF Targets, Cleaning
<1>7. \A k \in Keys : cache[k] # a
    BY NoneIsNew DEF CacheInv
<1>8. \A g \in Handles : (pc[g] = "held" \/ Cleaning(g)) => ptr[g] # a
    BY DEF HeldInv, CleanerInv
<1>9. CacheInv'
    BY <1>1, <1>2, <1>3, <1>7 DEF CacheInv, Types
<1>10. HeldInv'
    <2> SUFFICES ASSUME NEW g \in Handles, pc'[g] = "held"
                 PROVE  /\ mem'[ptr'[g]] # None
                        /\ mem'[ptr'[g]].raw = want'[g]
                        /\ cache'[want'[g].key] = ptr'[g]
        BY DEF HeldInv
    <2>1. CASE g = h
        BY <2>1, <1>1, <1>2, <1>3, <1>4
    <2>2. CASE g # h
        <3>1. /\ pc[g] = "held" /\ ptr[g] \in Addresses /\ ptr[g] # a
              /\ want[g].key \in Keys
            BY <2>2, <1>4, <1>8 DEF Targets, RawToken
        <3>2. mem[ptr[g]] # None /\ mem[ptr[g]].raw = want[g] /\ cache[want[g].key] = ptr[g]
            BY <3>1 DEF HeldInv
        <3>3. want[g].key # raw.key
            BY <3>1, <3>2, NoneIsNew
        <3> QED BY <2>2, <3>1, <3>2, <3>3, <1>2, <1>3, <1>4
    <2> QED BY <2>1, <2>2
<1>11. CleanerInv'
    <2> SUFFICES ASSUME NEW g \in Handles, Cleaning(g)'
                 PROVE  /\ mem'[ptr'[g]] # None
                        /\ pc'[g] \in {"last", "locking"} => cache'[mem'[ptr'[g]].raw.key] = ptr'[g]
                        /\ pc'[g] = "locking" => want'[g] = mem'[ptr'[g]].raw
                        /\ pc'[g] = "freeing" => mem'[ptr'[g]].count = 0 /\ \A k \in Keys : cache'[k] # ptr'[g]
        BY DEF CleanerInv, Cleaning
    <2>1. g # h /\ Cleaning(g) /\ ptr[g] \in Addresses /\ ptr[g] # a
        BY <1>4, <1>8 DEF Targets, Cleaning
    <2>2. mem'[ptr'[g]] = mem[ptr[g]] /\ mem[ptr[g]] # None /\ mem[ptr[g]].raw.key \in Keys
        BY <2>1, <1>2, <1>4 DEF CleanerInv, Types, Inner, RawToken
    <2>3. pc[g] \in {"last", "locking"} => mem[ptr[g]].raw.key # raw.key
        BY <2>1, NoneIsNew DEF CleanerInv
    <2> QED BY <2>1, <2>2, <2>3, <1>3, <1>4 DEF CleanerInv, Cleaning
<1>12. UniqueInv'
    BY <1>4 DEF UniqueInv, Cleaning
<1>13. CountInv'
    <2>1. Holders(a)' = {h}
        BY <1>4, <1>8 DEF Holders
    <2>2. \A b \in Addresses : b # a => Holders(b)' = Holders(b)
        BY <1>4 DEF Holders
    <2>3. Cardinality({h}) = 1
        BY FS_Singleton
    <2> QED BY <2>1, <2>2, <2>3, <1>1, <1>2 DEF CountInv
<1>14. ZeroInv'
    BY <1>1, <1>2, <1>4 DEF ZeroInv, Cleaning
<1> QED BY <1>5, <1>6, <1>9, <1>10, <1>11, <1>12, <1>13, <1>14

\* Drop of a handle.  The last one begins a clean-up, the only one of its token
\* when no other is before its removal: a token that is used is not being freed.
LEMMA DropKeepsGood ==
    ASSUME Good, fault = "none", NEW h \in Handles, drop(h), clean, clean'
    PROVE  Good' /\ fault' = "none"
<1> USE DEF Good
<1> DEFINE a == ptr[h]
           t == [mem[a] EXCEPT !.count = mem[a].count - 1]
<1>1. pc[h] = "held" /\ a \in Addresses /\ mem[a] # None /\ mem[a] \in Inner
    BY DEF drop, Targets, HeldInv, Types
<1>2. h \in Holders(a) /\ IsFiniteSet(Holders(a)) /\ mem[a].count = Cardinality(Holders(a))
    BY <1>1, HolderFacts DEF Holders, CountInv
<1>3. mem[a].count \in Nat \ {0}
    BY <1>1, <1>2, HolderFacts DEF Inner
<1>4. Cardinality(Holders(a) \ {h}) = mem[a].count - 1
    BY <1>2, FS_RemoveElement
<1>5. t \in Inner /\ t # None /\ t.raw = mem[a].raw /\ t.count = mem[a].count - 1
    BY <1>1, <1>3, NoneIsNew DEF Inner, TokenInner
<1>6. /\ mem' = [mem EXCEPT ![a] = t] /\ cache' = cache /\ fault' = fault
      /\ \/ /\ mem[a].count = 1
            /\ pc' = [pc EXCEPT ![h] = "last"] /\ ptr' = ptr /\ want' = want
            /\ \A g \in Handles : pc[g] \in {"last", "locking"} => ptr[g] # a
         \/ mem[a].count # 1 /\ Gone(h)
    BY <1>1 DEF drop, IsLast
<1> HIDE DEF t
<1>7. mem'[a] = t /\ \A b \in Addresses : b # a => mem'[b] = mem[b]
    BY <1>1, <1>6 DEF Types
<1>8. /\ pc'[h] = IF mem[a].count = 1 THEN "last" ELSE "none"
      /\ mem[a].count = 1 => ptr' = ptr
      /\ \A g \in Handles : g # h => pc'[g] = pc[g] /\ ptr'[g] = ptr[g] /\ want'[g] = want[g]
    BY <1>6 DEF Gone, Types
<1>9. Types'
    BY <1>5, <1>6 DEF Types, Places, Gone
<1>10. Targets'
    BY <1>1, <1>8 DEF Targets, Cleaning
<1>11. CacheInv'
    BY <1>5, <1>6, <1>7 DEF CacheInv, Types
<1>12. HeldInv'
    <2>1. \A g \in Handles : pc'[g] = "held" => g # h /\ pc[g] = "held"
        BY <1>8
    <2> QED BY <2>1, <1>5, <1>6, <1>7, <1>8 DEF HeldInv, Targets
<1>13. \A g \in Handles : pc[g] = "freeing" => ptr[g] # a
    BY <1>3 DEF CleanerInv
<1>14. CleanerInv'
    <2> SUFFICES ASSUME NEW g \in Handles, Cleaning(g)'
                 PROVE  /\ mem'[ptr'[g]] # None
                        /\ pc'[g] \in {"last", "locking"} => cache[mem'[ptr'[g]].raw.key] = ptr'[g]
                        /\ pc'[g] = "locking" => want'[g] = mem'[ptr'[g]].raw
                        /\ pc'[g] = "freeing" =>
                              mem'[ptr'[g]].count = 0 /\ \A k \in Keys : cache[k] # ptr'[g]
        BY <1>6 DEF CleanerInv, Cleaning
    <2>1. CASE g = h
        <3>1. pc'[g] = "last" /\ ptr'[g] = a /\ mem'[a] = t
            BY <2>1, <1>7, <1>8 DEF Cleaning
        <3>2. cache[mem[a].raw.key] = a
            BY <1>1 DEF HeldInv
        <3> QED BY <3>1, <3>2, <1>5
    <2>2. CASE g # h
        <3>1. Cleaning(g) /\ pc'[g] = pc[g] /\ ptr'[g] = ptr[g] /\ want'[g] = want[g]
              /\ ptr[g] \in Addresses
            BY <2>2, <1>8 DEF Cleaning, Targets
        <3>2. CASE ptr[g] = a
            BY <3>1, <3>2, <1>5, <1>7, <1>13 DEF CleanerInv
        <3>3. CASE ptr[g] # a
            BY <3>1, <3>3, <1>7 DEF CleanerInv
        <3> QED BY <3>2, <3>3
    <2> QED BY <2>1, <2>2
<1>15. UniqueInv'
    <2>1. CASE mem[a].count = 1
        <3>1. \A g \in Handles : Cleaning(g) => ptr[g] # a
            BY <2>1, <1>6, <1>13 DEF Cleaning
        <3> QED BY <2>1, <3>1, <1>8 DEF UniqueInv, Cleaning
    <2>2. CASE mem[a].count # 1
        BY <2>2, <1>8 DEF UniqueInv, Cleaning
    <2> QED BY <2>1, <2>2
<1>16. CountInv'
    <2>1. \A b \in Addresses : b = a => Holders(b)' = Holders(a) \ {h}
        BY <1>1, <1>8 DEF Holders
    <2>2. \A b \in Addresses : b # a => Holders(b)' = Holders(b)
        BY <1>1, <1>8 DEF Holders
    <2> SUFFICES ASSUME NEW b \in Addresses, mem'[b] # None
                 PROVE  mem'[b].count = Cardinality(Holders(b)')
        BY DEF CountInv
    <2>3. CASE b = a
        BY <2>1, <2>3, <1>4, <1>5, <1>7
    <2>4. CASE b # a
        BY <2>2, <2>4, <1>7 DEF CountInv
    <2> QED BY <2>3, <2>4
<1>17. ZeroInv'
    <2> SUFFICES ASSUME NEW b \in Addresses, mem'[b] # None, mem'[b].count = 0
                 PROVE  \E g \in Handles : Cleaning(g)' /\ ptr'[g] = b
        BY DEF ZeroInv
    <2>1. CASE b = a
        <3>1. mem[a].count = 1
            BY <2>1, <1>3, <1>5, <1>7
        <3> QED BY <2>1, <3>1, <1>8 DEF Cleaning
    <2>2. CASE b # a
        <3>1. PICK g \in Handles : Cleaning(g) /\ ptr[g] = b
            BY <2>2, <1>7 DEF ZeroInv
        <3>2. g # h
            BY <3>1, <1>1 DEF Cleaning
        <3> QED BY <3>1, <3>2, <1>8 DEF Cleaning
    <2> QED BY <2>1, <2>2
<1> QED BY <1>6, <1>9, <1>10, <1>11, <1>12, <1>14, <1>15, <1>16, <1>17

\* The removal from the cache: the count is 0, so nobody holds the token, and no
\* other token has its key.  With a count above 0 the clean-up just ends.
LEMMA TakeOutKeepsGood ==
    ASSUME Good, fault = "none", NEW h \in Handles, take_out(h)
    PROVE  Good' /\ fault' = "none"
<1> USE DEF Good
<1> DEFINE a == ptr[h]
           key == want[h].key
<1>1. /\ pc[h] = "locking" /\ a \in Addresses /\ mem[a] # None /\ mem[a] \in Inner
      /\ want[h] \in RawToken /\ want[h] = mem[a].raw /\ key \in Keys /\ cache[key] = a
      /\ cache[key] # None
    BY NoneIsNew DEF take_out, Targets, CleanerInv, Cleaning, Types, RawToken
<1>2. /\ mem' = mem /\ fault' = fault
      /\ \/ /\ mem[a].count = 0
            /\ cache' = [cache EXCEPT ![key] = None]
            /\ pc' = [pc EXCEPT ![h] = "freeing"] /\ ptr' = ptr /\ want' = want
         \/ mem[a].count # 0 /\ cache' = cache /\ Gone(h)
    BY <1>1 DEF take_out, StillUnused, WithoutEntry
<1>3. \A b \in Addresses : Holders(b)' = Holders(b)
    BY <1>1, <1>2 DEF Holders, Gone, Types
<1>4. CountInv'
    BY <1>2, <1>3 DEF CountInv
<1>5. CASE mem[a].count = 0
    <2>1. /\ pc' = [pc EXCEPT ![h] = "freeing"] /\ ptr' = ptr /\ want' = want
          /\ cache' = [cache EXCEPT ![key] = None]
        BY <1>2, <1>5
    <2>2. Holders(a) = {}
        BY <1>1, <1>5, HolderFacts DEF CountInv
    <2>3. Types' /\ Targets'
        BY <2>1, <1>1, <1>2 DEF Types, Places, Targets, Cleaning
    <2>4. CacheInv'
        BY <2>1, <1>1, <1>2 DEF CacheInv, Types
    <2>5. HeldInv'
        <3>1. \A g \in Handles : pc'[g] = "held" => pc[g] = "held" /\ ptr[g] # a
            BY <2>1, <2>2 DEF Holders, Types
        <3>2. \A g \in Handles : pc[g] = "held" => want[g].key \in Keys
            BY DEF Targets, RawToken
        <3> QED BY <3>1, <3>2, <2>1, <1>1, <1>2 DEF HeldInv, Types
    <2>6. \A g \in Handles : Cleaning(g)' <=> Cleaning(g)
        BY <2>1, <1>1 DEF Cleaning, Types
    <2>7. UniqueInv' /\ ZeroInv'
        BY <2>1, <2>6, <1>2 DEF UniqueInv, ZeroInv
    <2>8. CleanerInv'
        <3>1. \A k \in Keys : cache'[k] # a
            BY <2>1, <1>1, NoneIsNew DEF CacheInv, Types
        <3>2. \A g \in Handles : Cleaning(g) /\ g # h =>
                  /\ ptr[g] # a /\ pc'[g] = pc[g] /\ mem[ptr[g]].raw.key \in Keys
            BY <2>1, <1>1 DEF UniqueInv, Cleaning, Types, CleanerInv, Inner, RawToken, Targets
        <3>3. \A g \in Handles : (pc[g] \in {"last", "locking"} /\ g # h) =>
                  mem[ptr[g]].raw.key # key
            BY <3>2, <1>1 DEF CleanerInv, Cleaning
        <3>4. \A k \in Keys : cache'[k] \in {cache[k], None} /\ (k # key => cache'[k] = cache[k])
            BY <2>1 DEF Types
        <3>5. \A g \in Handles : Cleaning(g) => ptr[g] # None
            BY NoneIsNew DEF Targets
        <3>6. pc'[h] = "freeing"
            BY <2>1 DEF Types
        <3> QED BY <3>1, <3>2, <3>3, <3>4, <3>5, <3>6, <2>1, <2>6, <1>1, <1>2, <1>5 DEF CleanerInv, Cleaning
    <2> QED BY <2>3, <2>4, <2>5, <2>7, <2>8, <1>2, <1>4
<1>6. CASE mem[a].count # 0
    <2>1. /\ cache' = cache /\ pc'[h] = "none"
          /\ \A g \in Handles : g # h => pc'[g] = pc[g] /\ ptr'[g] = ptr[g] /\ want'[g] = want[g]
        BY <1>2, <1>6 DEF Gone, Types
    <2>2. Types' /\ Targets'
        BY <1>2, <1>6 DEF Types, Places, Gone, Targets, Cleaning
    <2>3. CacheInv' /\ HeldInv' /\ CleanerInv' /\ UniqueInv'
        BY <2>1, <1>2 DEF CacheInv, HeldInv, CleanerInv, UniqueInv, Cleaning
    <2>4. ZeroInv'
        BY <2>1, <1>2, <1>6 DEF ZeroInv, Cleaning
    <2> QED BY <2>2, <2>3, <2>4, <1>2, <1>4
<1> QED BY <1>5, <1>6

\* The memory is given back: no entry leads to it, nobody holds it, and the
\* clean-up is the only one.
LEMMA DeallocKeepsGood ==
    ASSUME Good, fault = "none", NEW h \in Handles, dealloc(h)
    PROVE  Good' /\ fault' = "none"
<1> USE DEF Good
<1> DEFINE a == ptr[h]
<1>1. /\ pc[h] = "freeing" /\ a \in Addresses /\ mem[a] # None /\ mem[a].count = 0
      /\ \A k \in Keys : cache[k] # a
    BY DEF dealloc, Targets, CleanerInv, Cleaning
<1>2. mem' = [mem EXCEPT ![a] = None] /\ Gone(h) /\ cache' = cache /\ fault' = fault
    BY <1>1 DEF dealloc
<1>3. /\ pc'[h] = "none" /\ mem'[a] = None
      /\ \A b \in Addresses : b # a => mem'[b] = mem[b]
      /\ \A g \in Handles : g # h => pc'[g] = pc[g] /\ ptr'[g] = ptr[g] /\ want'[g] = want[g]
    BY <1>1, <1>2 DEF Gone, Types
<1>4. \A g \in Handles : g # h /\ (pc[g] = "held" \/ Cleaning(g)) => ptr[g] # a
    <2>1. Holders(a) = {}
        BY <1>1, HolderFacts DEF CountInv
    <2> QED BY <2>1, <1>1 DEF Holders, UniqueInv, Cleaning
<1>5. Types' /\ Targets'
    BY <1>2 DEF Types, Places, Gone, Targets, Cleaning
<1>6. CacheInv'
    BY <1>1, <1>2, <1>3 DEF CacheInv, Types
<1>7. HeldInv' /\ CleanerInv' /\ UniqueInv'
    BY <1>2, <1>3, <1>4 DEF HeldInv, CleanerInv, UniqueInv, Cleaning, Targets
<1>8. CountInv'
    <2>1. \A b \in Addresses : Holders(b)' = Holders(b)
        BY <1>1, <1>3 DEF Holders
    <2> QED BY <2>1, <1>3 DEF CountInv
<1>9. ZeroInv'
    BY <1>1, <1>3 DEF ZeroInv, Cleaning
<1> QED BY <1>2, <1>5, <1>6, <1>7, <1>8, <1>9

\* The steps that change only where a handle is: a lookup that finds nothing,
\* and the reading of the key in a clean-up.
LEMMA MoveKeepsGood ==
    ASSUME Good, NEW h \in Handles, UNCHANGED <<mem, cache, ptr>>,
           \/ /\ pc[h] = "none" /\ pc' = [pc EXCEPT ![h] = "creating"]
              /\ \E raw \in RawToken : want' = [want EXCEPT ![h] = raw]
           \/ /\ pc[h] = "last" /\ pc' = [pc EXCEPT ![h] = "locking"]
              /\ want' = [want EXCEPT ![h] = mem[ptr[h]].raw]
    PROVE  Good'
<1> USE DEF Good
<1>1. Types' /\ Targets'
    BY DEF Types, Targets, Cleaning, CleanerInv, Places, Inner
<1>2. CacheInv' /\ HeldInv' /\ CleanerInv' /\ UniqueInv'
    BY DEF Types, CacheInv, HeldInv, CleanerInv, UniqueInv, Cleaning
<1>3. CountInv'
    <2>1. \A b \in Addresses : Holders(b)' = Holders(b)
        BY DEF Holders, Types
    <2> QED BY <2>1 DEF CountInv
<1>4. ZeroInv'
    <2>1. \A g \in Handles : Cleaning(g)' <=> Cleaning(g)
        BY DEF Cleaning, Types
    <2> QED BY <2>1 DEF ZeroInv
<1> QED BY <1>1, <1>2, <1>3, <1>4

\* Under the invariant no lookup, clone or clean-up fails.
LEMMA NothingFails ==
    ASSUME Good
    PROVE  /\ \A k \in Keys : ~Dangling(k)
           /\ \A a \in Addresses : mem[a] # None => mem[a].count >= 0
           /\ \A h \in Handles : (pc[h] = "held" \/ Cleaning(h)) => mem[ptr[h]] # None
BY DEF Good, Dangling, CacheInv, Types, Inner, HeldInv, CleanerInv

\* Every step keeps the invariant, or is one of the two events after which it
\* claims nothing.
LEMMA InvStep == Inv /\ [Next]_vars => Inv'
<1> SUFFICES ASSUME Inv, [Next]_vars PROVE Inv'
    OBVIOUS
<1>1. clean' \in BOOLEAN /\ (clean' => clean)
    <2>1. ASSUME NEW h \in Handles, NEW raw \in RawToken, new_fast(h, raw) PROVE clean' \in BOOLEAN /\ (clean' => clean)
        BY <2>1 DEF new_fast, Share, Fail, Inv
    <2>2. ASSUME NEW h \in Handles, new_slow(h) PROVE clean' \in BOOLEAN /\ (clean' => clean)
        BY <2>2 DEF new_slow, Share, Insert, Fail, Inv
    <2>3. ASSUME NEW h \in Handles, NEW g \in Handles, clone(g, h) PROVE clean' \in BOOLEAN /\ (clean' => clean)
        BY <2>3 DEF clone, Share, Fail, Inv
    <2>4. ASSUME NEW h \in Handles, drop(h) PROVE clean' \in BOOLEAN /\ (clean' => clean)
        BY <2>4 DEF drop, Fail, Inv
    <2>5. ASSUME NEW h \in Handles, read_key(h) \/ take_out(h) \/ dealloc(h) PROVE clean' \in BOOLEAN /\ (clean' => clean)
        BY <2>5 DEF read_key, take_out, dealloc, Fail, Inv
    <2>6. CASE UNCHANGED vars
        BY <2>6 DEF vars, Inv
    <2> QED BY <2>1, <2>2, <2>3, <2>4, <2>5, <2>6 DEF Next
<1> SUFFICES ASSUME clean' PROVE fault' = "none" /\ Good'
    BY <1>1 DEF Inv
<1>2. clean /\ fault = "none" /\ Good
    BY <1>1 DEF Inv
<1>3. ASSUME NEW h \in Handles, NEW raw \in RawToken, new_fast(h, raw)
      PROVE  fault' = "none" /\ Good'
    <2>1. pc[h] = "none" /\ raw.key \in Keys /\ ~Dangling(raw.key)
        BY <1>2, <1>3, NothingFails DEF new_fast, RawToken
    <2>2. CASE Reusable(raw)
        <3>1. /\ cache[raw.key] \in Addresses /\ mem[cache[raw.key]] # None
              /\ mem[cache[raw.key]].raw = raw
            BY <2>1, <2>2, <1>2 DEF Reusable, Dangling, Good, Types
        <3>2. Share(h, raw, cache[raw.key])
            BY <1>3, <2>1, <2>2 DEF new_fast
        <3>3. mem[cache[raw.key]].count >= 0 /\ mem[cache[raw.key]].count \in Int
            BY <1>2, <3>1, NothingFails DEF Good, Types, Inner
        <3> QED BY <1>2, <2>1, <3>1, <3>2, <3>3, ShareKeepsGood DEF Share
    <2>3. CASE ~Reusable(raw)
        BY <1>2, <1>3, <2>1, <2>3, MoveKeepsGood DEF new_fast
    <2> QED BY <2>2, <2>3
<1>4. ASSUME NEW h \in Handles, new_slow(h) PROVE fault' = "none" /\ Good'
    <2> DEFINE raw == want[h]
               a == cache[raw.key]
    <2>1. pc[h] = "creating" /\ raw \in RawToken /\ raw.key \in Keys /\ ~Dangling(raw.key)
        BY <1>2, <1>4, NothingFails DEF new_slow, RawToken, Good, Targets
    <2>2. CASE Reusable(raw)
        <3>1. a \in Addresses /\ mem[a] # None /\ mem[a].raw = raw
            BY <2>1, <2>2, <1>2 DEF Reusable, Dangling, Good, Types
        <3>2. Share(h, raw, a)
            BY <1>4, <2>1, <2>2 DEF new_slow
        <3>3. mem[a].count >= 0 /\ mem[a].count \in Int
            BY <1>2, <3>1, NothingFails DEF Good, Types, Inner
        <3> QED BY <1>2, <2>1, <3>1, <3>2, <3>3, ShareKeepsGood DEF Share
    <2>3. CASE ~Reusable(raw)
        <3>1. a = None /\ Insert(h, raw)
            BY <1>4, <2>1, <2>3 DEF new_slow
        <3> QED BY <1>2, <2>1, <3>1, InsertKeepsGood DEF Insert
    <2> QED BY <2>2, <2>3
<1>5. ASSUME NEW g \in Handles, NEW h \in Handles, clone(g, h) PROVE fault' = "none" /\ Good'
    <2>1. /\ pc[h] = "none" /\ pc[g] = "held" /\ ptr[g] \in Addresses /\ want[g] \in RawToken
          /\ mem[ptr[g]] # None /\ mem[ptr[g]].raw = want[g] /\ cache[want[g].key] = ptr[g]
        BY <1>2, <1>5 DEF clone, Good, Targets, HeldInv
    <2>2. mem[ptr[g]].count >= 0 /\ mem[ptr[g]].count \in Int
        BY <1>2, <2>1, NothingFails DEF Good, Types, Inner
    <2>3. Share(h, want[g], ptr[g])
        BY <1>5, <2>1 DEF clone
    <2> QED BY <1>2, <2>1, <2>2, <2>3, ShareKeepsGood DEF Share
<1>6. ASSUME NEW h \in Handles, drop(h) PROVE fault' = "none" /\ Good'
    BY <1>2, <1>6, DropKeepsGood
<1>7. ASSUME NEW h \in Handles, read_key(h) PROVE fault' = "none" /\ Good'
    <2>1. mem[ptr[h]] # None
        BY <1>2, <1>7, NothingFails DEF read_key, Cleaning
    <2> QED BY <1>2, <1>7, <2>1, MoveKeepsGood DEF read_key
<1>8. ASSUME NEW h \in Handles, take_out(h) PROVE fault' = "none" /\ Good'
    BY <1>2, <1>8, TakeOutKeepsGood
<1>9. ASSUME NEW h \in Handles, dealloc(h) PROVE fault' = "none" /\ Good'
    BY <1>2, <1>9, DeallocKeepsGood
<1>10. CASE UNCHANGED vars
    BY <1>2, <1>10 DEF vars, Good, Types, Targets, CacheInv, HeldInv, CleanerInv, UniqueInv,
       CountInv, Holders, ZeroInv, Cleaning
<1> QED BY <1>3, <1>4, <1>5, <1>6, <1>7, <1>8, <1>9, <1>10 DEF Next

\* At the start there is no token and no handle.
LEMMA InvInit == Init => Inv
<1> SUFFICES ASSUME Init PROVE Inv
    OBVIOUS
<1>1. Types /\ Targets
    BY DEF Init, Types, Targets, Cleaning, Places
<1>2. CacheInv /\ HeldInv /\ CleanerInv /\ UniqueInv /\ CountInv /\ ZeroInv
    BY DEF Init, CacheInv, HeldInv, CleanerInv, UniqueInv, CountInv, ZeroInv, Cleaning
<1> QED BY <1>1, <1>2 DEF Init, Inv, Good

\* The invariant holds always.
LEMMA Invariance == Spec => []Inv
BY InvInit, InvStep, PTL DEF Spec

\* While no token of another RawToken was handed out and no two clean-ups of one
\* token overlapped, a token in use is allocated, is the one that was asked for
\* and is the cached one of its key.
THEOREM TokensInUseAreValid == Spec => []HandlesAreValid
<1>1. Inv => HandlesAreValid
    BY DEF Inv, Good, HeldInv, HandlesAreValid
<1> QED BY <1>1, Invariance, PTL

\* In the same case no freed memory is used, the process does not abort, and a
\* token without handles has exactly one clean-up.
THEOREM CleanUse == Spec => []CleanUseIsSafe
<1>1. ASSUME Inv PROVE CleanUseIsSafe
    <2> SUFFICES ASSUME clean PROVE fault = "none" /\ OneCleanUp
        BY DEF CleanUseIsSafe
    <2>1. fault = "none" /\ Good
        BY <1>1 DEF Inv
    <2> SUFFICES ASSUME NEW a \in Addresses, mem[a] # None, mem[a].count = 0
                 PROVE  Cardinality({h \in Handles : pc[h] \in {"last", "locking", "freeing"}
                                                       /\ ptr[h] = a}) = 1
        BY <2>1 DEF OneCleanUp
    <2>2. PICK h \in Handles : Cleaning(h) /\ ptr[h] = a
        BY <2>1 DEF Good, ZeroInv
    <2>3. {g \in Handles : pc[g] \in {"last", "locking", "freeing"} /\ ptr[g] = a} = {h}
        BY <2>1, <2>2 DEF Good, UniqueInv, Cleaning
    <2> QED BY <2>3, FS_Singleton
<1> QED BY <1>1, Invariance, PTL

=============================================================================
