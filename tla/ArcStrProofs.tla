---------------------------- MODULE ArcStrProofs ----------------------------
(***************************************************************************)
(* Proofs about ArcStr: for any number of handles, contents and addresses, *)
(* and although clean-ups of one string may overlap and addresses are used *)
(* again, a handle in use points to its own string, counts are exact and   *)
(* no string is freed twice.                                               *)
(***************************************************************************)
EXTENDS ArcStr, FiniteSetTheorems, TLAPS

\* The strings of the pool are allocated.
PoolIsAllocated == \A a \in pool : mem[a] # None

\* The pool has one string of each content.
PoolIsInterned ==
    \A a, b \in pool : mem[a].content = mem[b].content => a = b

\* A handle that holds or cleans up has an address, one that creates a content.
HandlesHaveTargets ==
    \A h \in Handles :
        /\ pc[h] \in {"held", "last", "locking", "freeing"} => ptr[h] \in Addresses
        /\ pc[h] \in {"creating", "held"} => want[h] \in Contents

Inv ==
    /\ TypeOK
    /\ PoolIsAllocated
    /\ PoolIsInterned
    /\ HandlesHaveTargets
    /\ HandlesAreValid
    /\ CountsHandles
    /\ FreedOnce

\* The initial state: no handle, no string.
LEMMA InvInit == Init => Inv
<1>1. SUFFICES ASSUME Init PROVE Inv
    OBVIOUS
<1>2. TypeOK /\ PoolIsAllocated /\ PoolIsInterned /\ HandlesHaveTargets
    BY <1>1 DEF Init, TypeOK, PoolIsAllocated, PoolIsInterned, HandlesHaveTargets
<1>3. HandlesAreValid /\ CountsHandles /\ FreedOnce
    BY <1>1 DEF Init, HandlesAreValid, CountsHandles, FreedOnce
<1> QED BY <1>2, <1>3 DEF Inv

\* A string in memory is a record with a natural count, which is its number of
\* handles; their set is finite.
LEMMA StringFacts ==
    ASSUME Inv, NEW a \in Addresses, mem[a] # None
    PROVE  /\ mem[a] \in [content : Contents, count : Nat]
           /\ mem[a].count = Cardinality(Holders(a))
           /\ IsFiniteSet(Holders(a))
<1>1. mem[a] \in [content : Contents, count : Nat]
    BY DEF Inv, TypeOK
<1>2. mem[a].count = Cardinality(Holders(a))
    BY DEF Inv, CountsHandles
<1>3. Holders(a) \subseteq Handles
    BY DEF Holders
<1>4. IsFiniteSet(Holders(a))
    BY <1>3, HandlesFinite, FS_Subset
<1> QED BY <1>1, <1>2, <1>4

\* Handing out one more reference to a pooled string of the right content
\* (try_find_existing, the second look of new, clone) keeps the invariant.
LEMMA ShareKeepsInv ==
    ASSUME Inv, NEW h \in Handles, NEW c \in Contents, NEW a \in pool,
           pc[h] \in {"none", "creating"}, mem[a].content = c,
           mem' = inc_strong(a), Hold(h, c, a), UNCHANGED <<pool, uaf, overlapped>>
    PROVE  Inv'
<1>1. a \in Addresses /\ mem[a] # None
    BY DEF Inv, TypeOK, PoolIsAllocated
<1>2. /\ mem[a] \in [content : Contents, count : Nat]
      /\ mem[a].count = Cardinality(Holders(a))
      /\ IsFiniteSet(Holders(a))
    BY <1>1, StringFacts
<1>3. /\ mem' = [mem EXCEPT ![a] = [mem[a] EXCEPT !.count = mem[a].count + 1]]
      /\ [mem[a] EXCEPT !.count = mem[a].count + 1] \in [content : Contents, count : Nat]
      /\ [mem[a] EXCEPT !.count = mem[a].count + 1].content = mem[a].content
      /\ [mem[a] EXCEPT !.count = mem[a].count + 1].count = mem[a].count + 1
    BY <1>1, <1>2 DEF inc_strong
<1>4. TypeOK'
    BY <1>1, <1>3 DEF Inv, TypeOK, Hold
<1>5. /\ mem' \in [Addresses -> [content : Contents, count : Nat] \cup {None}]
      /\ mem'[a] # None /\ mem'[a].content = mem[a].content
      /\ mem'[a].count = mem[a].count + 1
      /\ \A b \in Addresses : b # a => mem'[b] = mem[b]
    BY <1>1, <1>3, <1>4, NoneIsNew DEF Inv, TypeOK
<1>6. \A b \in Addresses : mem'[b] # None <=> mem[b] # None
    BY <1>1, <1>5
<1>7. \A b \in pool : b \in Addresses
    BY DEF Inv, TypeOK
<1>8. PoolIsAllocated'
    BY <1>6, <1>7 DEF Inv, PoolIsAllocated
<1>9. PoolIsInterned'
    <2>1. \A b \in pool : mem'[b].content = mem[b].content
        BY <1>5, <1>7
    <2> QED BY <2>1 DEF Inv, PoolIsInterned
<1>10. /\ pc' = [pc EXCEPT ![h] = "held"]
       /\ ptr' = [ptr EXCEPT ![h] = a]
       /\ want' = [want EXCEPT ![h] = c]
       /\ pc'[h] = "held" /\ ptr'[h] = a /\ want'[h] = c
       /\ \A g \in Handles : g # h => pc'[g] = pc[g] /\ ptr'[g] = ptr[g] /\ want'[g] = want[g]
    BY DEF Hold, Inv, TypeOK
<1>11. HandlesHaveTargets'
    BY <1>1, <1>10 DEF Inv, HandlesHaveTargets
<1>12. HandlesAreValid'
    <2>1. SUFFICES ASSUME NEW g \in Handles, pc'[g] = "held"
                   PROVE  ptr'[g] \in pool /\ mem'[ptr'[g]] # None
                            /\ mem'[ptr'[g]].content = want'[g]
        BY DEF HandlesAreValid
    <2>2. CASE g = h
        BY <2>2, <1>5, <1>10
    <2>3. CASE g # h
        <3>1. ptr[g] \in pool /\ mem[ptr[g]] # None /\ mem[ptr[g]].content = want[g]
            BY <2>1, <2>3, <1>10 DEF Inv, HandlesAreValid
        <3> QED BY <3>1, <2>3, <1>5, <1>7, <1>10
    <2> QED BY <2>2, <2>3
<1>13. CountsHandles'
    <2>1. SUFFICES ASSUME NEW b \in Addresses, mem'[b] # None
                   PROVE  mem'[b].count = Cardinality(Holders(b)')
        BY DEF CountsHandles
    <2>2. CASE b = a
        <3>1. h \notin Holders(a)
            BY DEF Holders
        <3>2. Holders(a)' = Holders(a) \cup {h}
            BY <1>10 DEF Holders
        <3>3. Cardinality(Holders(a) \cup {h}) = Cardinality(Holders(a)) + 1
            BY <1>2, <3>1, FS_AddElement
        <3> QED BY <2>2, <3>2, <3>3, <1>2, <1>5
    <2>3. CASE b # a
        <3>1. Holders(b)' = Holders(b)
            BY <1>10, <2>3 DEF Holders
        <3> QED BY <2>1, <2>3, <3>1, <1>5 DEF Inv, CountsHandles
    <2> QED BY <2>2, <2>3
<1>14. FreedOnce'
    <2>1. SUFFICES ASSUME NEW g \in Handles, pc'[g] = "freeing"
                   PROVE  /\ mem'[ptr'[g]] # None /\ ptr'[g] \notin pool
                          /\ \A f \in Handles : (pc'[f] = "freeing" /\ ptr'[f] = ptr'[g]) => f = g
        BY DEF FreedOnce
    <2>2. g # h /\ pc[g] = "freeing" /\ ptr'[g] = ptr[g] /\ ptr[g] \in Addresses
        BY <2>1, <1>10 DEF Inv, HandlesHaveTargets
    <2> QED BY <2>2, <1>6, <1>10 DEF Inv, FreedOnce
<1> QED BY <1>4, <1>8, <1>9, <1>11, <1>12, <1>13, <1>14 DEF Inv

\* Found returns pooled strings of the content that was asked for.
LEMMA FoundFacts ==
    ASSUME Inv, NEW c, NEW a \in Found(c)
    PROVE  a \in pool /\ mem[a].content = c
BY DEF Found

\* A new string in fresh memory, entered in the pool when it has none of that
\* content, keeps the invariant (the vacant entry of ArcStr::new).
LEMMA InsertKeepsInv ==
    ASSUME Inv, NEW h \in Handles, pc[h] = "creating",
           NEW a \in Addresses, mem[a] = None, Found(want[h]) = {},
           mem' = [mem EXCEPT ![a] = [content |-> want[h], count |-> 1]],
           pool' = pool \cup {a}, Hold(h, want[h], a), UNCHANGED <<uaf, overlapped>>
    PROVE  Inv'
<1> DEFINE c == want[h]
           s == [content |-> c, count |-> 1]
<1>1. c \in Contents
    BY DEF Inv, HandlesHaveTargets
<1>2. s \in [content : Contents, count : Nat] /\ s # None /\ s.content = c /\ s.count = 1
    BY <1>1, NoneIsNew
<1>3. a \notin pool
    BY DEF Inv, PoolIsAllocated
<1>4. /\ mem'[a] = s
      /\ \A b \in Addresses : b # a => mem'[b] = mem[b]
    BY DEF Inv, TypeOK
<1>5. /\ pc'[h] = "held" /\ ptr'[h] = a /\ want'[h] = c
      /\ \A g \in Handles : g # h => pc'[g] = pc[g] /\ ptr'[g] = ptr[g] /\ want'[g] = want[g]
    BY DEF Hold, Inv, TypeOK
<1>6. TypeOK'
    BY <1>1, <1>2 DEF Inv, TypeOK, Hold
<1> HIDE DEF s, c
<1>7. \A b \in pool : b \in Addresses /\ b # a /\ mem[b] # None /\ mem'[b] = mem[b]
    BY <1>3, <1>4 DEF Inv, TypeOK, PoolIsAllocated
<1>8. PoolIsAllocated'
    BY <1>2, <1>4, <1>7 DEF PoolIsAllocated
<1>9. PoolIsInterned'
    <2>1. \A b \in pool : mem[b].content # c
        BY <1>7 DEF Found, c
    <2>2. \A b \in pool : mem'[b].content # mem'[a].content
        BY <2>1, <1>2, <1>4, <1>7
    <2> QED BY <2>2, <1>7 DEF Inv, PoolIsInterned
<1>10. HandlesHaveTargets'
    BY <1>1, <1>5 DEF Inv, HandlesHaveTargets
<1>11. \A g \in Handles : pc[g] = "held" => ptr[g] \in pool
    BY DEF Inv, HandlesAreValid
<1>12. HandlesAreValid'
    <2>1. SUFFICES ASSUME NEW g \in Handles, pc'[g] = "held"
                   PROVE  ptr'[g] \in pool' /\ mem'[ptr'[g]] # None
                            /\ mem'[ptr'[g]].content = want'[g]
        BY DEF HandlesAreValid
    <2>2. CASE g = h
        BY <2>2, <1>2, <1>4, <1>5
    <2>3. CASE g # h
        <3>1. ptr[g] \in pool /\ mem[ptr[g]].content = want[g]
            BY <2>1, <2>3, <1>5 DEF Inv, HandlesAreValid
        <3> QED BY <3>1, <2>3, <1>5, <1>7
    <2> QED BY <2>2, <2>3
<1>13. CountsHandles'
    <2>1. SUFFICES ASSUME NEW b \in Addresses, mem'[b] # None
                   PROVE  mem'[b].count = Cardinality(Holders(b)')
        BY DEF CountsHandles
    <2>2. CASE b = a
        <3>1. Holders(a)' = {h}
            BY <1>3, <1>5, <1>11 DEF Holders
        <3>2. Cardinality({h}) = 1
            BY FS_Singleton
        <3>3. Holders(b)' = {h}
            BY <2>2, <3>1
        <3> QED BY <2>2, <3>2, <3>3, <1>2, <1>4
    <2>3. CASE b # a
        <3>1. Holders(b)' = Holders(b)
            BY <1>5, <2>3 DEF Holders
        <3> QED BY <2>1, <2>3, <3>1, <1>4 DEF Inv, CountsHandles
    <2> QED BY <2>2, <2>3
<1>14. FreedOnce'
    <2>1. SUFFICES ASSUME NEW g \in Handles, pc'[g] = "freeing"
                   PROVE  /\ mem'[ptr'[g]] # None /\ ptr'[g] \notin pool'
                          /\ \A f \in Handles : (pc'[f] = "freeing" /\ ptr'[f] = ptr'[g]) => f = g
        BY DEF FreedOnce
    <2>2. g # h /\ pc[g] = "freeing" /\ ptr'[g] = ptr[g] /\ ptr[g] \in Addresses
        BY <2>1, <1>5 DEF Inv, HandlesHaveTargets
    <2>3. mem[ptr[g]] # None /\ ptr[g] \notin pool
        BY <2>2 DEF Inv, FreedOnce
    <2>4. ptr[g] # a
        BY <2>3
    <2> QED BY <2>2, <2>3, <2>4, <1>4, <1>5 DEF Inv, FreedOnce
<1> QED BY <1>6, <1>8, <1>9, <1>10, <1>12, <1>13, <1>14 DEF Inv

\* dec_strong keeps the invariant: the count of a string in use is positive.
LEMMA DropKeepsInv ==
    ASSUME Inv, NEW h \in Handles, drop(h)
    PROVE  Inv'
<1> DEFINE a == ptr[h]
           s == [mem[a] EXCEPT !.count = mem[a].count - 1]
<1>1. a \in Addresses /\ a \in pool /\ mem[a] # None
    BY DEF drop, Inv, HandlesAreValid, HandlesHaveTargets
<1>2. /\ mem[a] \in [content : Contents, count : Nat]
      /\ mem[a].count = Cardinality(Holders(a))
      /\ IsFiniteSet(Holders(a))
    BY <1>1, StringFacts
<1>3. h \in Holders(a)
    BY DEF Holders, drop
<1>4. Cardinality(Holders(a) \ {h}) = Cardinality(Holders(a)) - 1
        /\ Cardinality(Holders(a) \ {h}) \in Nat
    <2>1. IsFiniteSet(Holders(a) \ {h})
        BY <1>2, FS_RemoveElement
    <2> QED BY <1>2, <1>3, <2>1, FS_RemoveElement, FS_CardinalityType
<1>5. mem[a].count - 1 \in Nat
    BY <1>2, <1>4
<1>6. /\ mem' = [mem EXCEPT ![a] = s]
      /\ s \in [content : Contents, count : Nat]
      /\ s.content = mem[a].content /\ s.count = mem[a].count - 1
    BY <1>1, <1>2, <1>5 DEF drop, dec_strong
<1>7. s # None
    BY <1>6, NoneIsNew
<1> HIDE DEF s
<1>8. /\ mem'[a] = s
      /\ \A b \in Addresses : b # a => mem'[b] = mem[b]
    BY <1>1, <1>6 DEF Inv, TypeOK
<1>9. /\ pc'[h] \in {"last", "none"}
      /\ \A g \in Handles : g # h => pc'[g] = pc[g]
      /\ UNCHANGED <<pool, ptr, want, uaf>>
      /\ overlapped' \in BOOLEAN
    BY <1>1 DEF drop, Inv, TypeOK
<1>10. TypeOK'
    <2>1. mem' \in [Addresses -> [content : Contents, count : Nat] \cup {None}]
        BY <1>6 DEF Inv, TypeOK
    <2>2. pc' \in [Handles -> {"none", "creating", "held", "last", "locking", "freeing"}]
        BY DEF Inv, TypeOK, drop
    <2> QED BY <2>1, <2>2, <1>9 DEF Inv, TypeOK
<1>11. PoolIsAllocated'
    BY <1>7, <1>8, <1>9 DEF Inv, PoolIsAllocated, TypeOK
<1>12. \A b \in pool : mem'[b].content = mem[b].content
    BY <1>6, <1>8 DEF Inv, TypeOK
<1>13. PoolIsInterned'
    BY <1>9, <1>12 DEF Inv, PoolIsInterned
<1>14. HandlesHaveTargets'
    BY <1>1, <1>9 DEF Inv, HandlesHaveTargets
<1>15. HandlesAreValid'
    <2>1. SUFFICES ASSUME NEW g \in Handles, pc'[g] = "held"
                   PROVE  ptr[g] \in pool /\ mem'[ptr[g]] # None /\ mem'[ptr[g]].content = want[g]
        BY <1>9 DEF HandlesAreValid
    <2>2. ptr[g] \in pool /\ mem[ptr[g]].content = want[g]
        BY <2>1, <1>9 DEF Inv, HandlesAreValid
    <2> QED BY <2>2, <1>9, <1>11, <1>12 DEF PoolIsAllocated
<1>16. CountsHandles'
    <2>1. SUFFICES ASSUME NEW b \in Addresses, mem'[b] # None
                   PROVE  mem'[b].count = Cardinality(Holders(b)')
        BY DEF CountsHandles
    <2>2. CASE b = a
        <3>1. Holders(a)' = Holders(a) \ {h}
            BY <1>9 DEF Holders
        <3>2. Holders(b)' = Holders(a)'
            BY <2>2, <1>9 DEF Holders
        <3> QED BY <2>2, <3>1, <3>2, <1>2, <1>4, <1>6, <1>8
    <2>3. CASE b # a
        <3>1. Holders(b)' = Holders(b)
            BY <1>9, <2>3 DEF Holders
        <3> QED BY <2>1, <2>3, <3>1, <1>8 DEF Inv, CountsHandles
    <2> QED BY <2>2, <2>3
<1>17. FreedOnce'
    <2>1. SUFFICES ASSUME NEW g \in Handles, pc'[g] = "freeing"
                   PROVE  /\ mem'[ptr[g]] # None /\ ptr[g] \notin pool
                          /\ \A f \in Handles : (pc'[f] = "freeing" /\ ptr[f] = ptr[g]) => f = g
        BY <1>9 DEF FreedOnce
    <2>2. g # h /\ pc[g] = "freeing" /\ ptr[g] \in Addresses
        BY <2>1, <1>9 DEF Inv, HandlesHaveTargets
    <2> QED BY <2>2, <1>7, <1>8, <1>9 DEF Inv, FreedOnce
<1> QED BY <1>10, <1>11, <1>13, <1>14, <1>15, <1>16, <1>17 DEF Inv

\* Taking a string out of the pool keeps the invariant: its count is 0, so no
\* handle in use points to it, and being in the pool it is not being freed.
LEMMA TakeOutKeepsInv ==
    ASSUME Inv, NEW h \in Handles, take_out(h)
    PROVE  Inv'
<1> DEFINE a == ptr[h]
<1>1. /\ a \in Addresses
      /\ UNCHANGED <<mem, ptr, want, uaf, overlapped>>
      /\ \A g \in Handles : g # h => pc'[g] = pc[g]
      /\ pc[h] = "locking"
    BY DEF take_out, Inv, HandlesHaveTargets, TypeOK
<1>2. \A b : Holders(b)' = Holders(b)
    BY <1>1 DEF Holders, take_out, Inv, TypeOK
<1>3. CASE Unshared(h)
    <2>0. mem[a] # None /\ a \in pool /\ mem[a].count = 0
        BY <1>3 DEF Unshared, StillUnused, Inv, PoolIsAllocated
    <2>1. pool' = pool \ {a} /\ pc' = [pc EXCEPT ![h] = "freeing"] /\ pc'[h] = "freeing"
        BY <1>3 DEF take_out, Inv, TypeOK
    <2>2. Holders(a) = {}
        <3>1. Cardinality(Holders(a)) = 0 /\ IsFiniteSet(Holders(a))
            BY <1>1, <2>0, StringFacts
        <3> QED BY <3>1, FS_EmptySet
    <2>3. TypeOK' /\ PoolIsAllocated' /\ PoolIsInterned' /\ HandlesHaveTargets'
        BY <1>1, <2>1 DEF Inv, TypeOK, PoolIsAllocated, PoolIsInterned, HandlesHaveTargets
    <2>4. HandlesAreValid'
        BY <1>1, <2>1, <2>2 DEF Inv, HandlesAreValid, Holders
    <2>5. CountsHandles'
        BY <1>1, <1>2 DEF Inv, CountsHandles
    <2>6. FreedOnce'
        <3>1. \A g \in Handles : pc[g] = "freeing" => ptr[g] # a
            BY <2>0 DEF Inv, FreedOnce
        <3> QED BY <1>1, <2>0, <2>1, <3>1 DEF Inv, FreedOnce
    <2> QED BY <2>3, <2>4, <2>5, <2>6 DEF Inv
<1>4. CASE ~Unshared(h)
    <2>1. pool' = pool /\ pc' = [pc EXCEPT ![h] = "none"] /\ pc'[h] = "none"
        BY <1>4 DEF take_out, Inv, TypeOK
    <2>2. TypeOK' /\ PoolIsAllocated' /\ PoolIsInterned' /\ HandlesHaveTargets'
        BY <1>1, <2>1 DEF Inv, TypeOK, PoolIsAllocated, PoolIsInterned, HandlesHaveTargets
    <2>3. HandlesAreValid' /\ FreedOnce'
        BY <1>1, <2>1 DEF Inv, HandlesAreValid, FreedOnce
    <2>4. CountsHandles'
        BY <1>1, <1>2 DEF Inv, CountsHandles
    <2> QED BY <2>2, <2>3, <2>4 DEF Inv
<1> QED BY <1>3, <1>4

\* Freeing keeps the invariant: the string is in no pool entry, so no handle in
\* use points to it, and no other handle is about to free it.
LEMMA DeallocKeepsInv ==
    ASSUME Inv, NEW h \in Handles, dealloc(h)
    PROVE  Inv'
<1> DEFINE a == ptr[h]
<1>1. a \in Addresses /\ a \notin pool
    BY DEF dealloc, Inv, HandlesHaveTargets, FreedOnce
<1>2. \A g \in Handles : pc[g] = "freeing" /\ ptr[g] = a => g = h
    BY DEF dealloc, Inv, FreedOnce
<1>3. /\ UNCHANGED <<pool, ptr, want, uaf, overlapped>>
      /\ pc[h] = "freeing" /\ pc'[h] = "none"
      /\ \A g \in Handles : g # h => pc'[g] = pc[g]
      /\ mem'[a] = None
      /\ \A b \in Addresses : b # a => mem'[b] = mem[b]
    BY <1>1 DEF dealloc, Inv, TypeOK
<1>4. \A b \in pool : b \in Addresses /\ b # a
    BY <1>1 DEF Inv, TypeOK
<1>5. TypeOK'
    BY <1>1 DEF Inv, TypeOK, dealloc
<1>6. PoolIsAllocated' /\ PoolIsInterned' /\ HandlesHaveTargets'
    BY <1>3, <1>4 DEF Inv, PoolIsAllocated, PoolIsInterned, HandlesHaveTargets
<1>7. HandlesAreValid'
    BY <1>3, <1>4 DEF Inv, HandlesAreValid
<1>8. CountsHandles'
    <2>1. \A b : Holders(b)' = Holders(b)
        BY <1>3 DEF Holders
    <2> QED BY <1>3, <2>1 DEF Inv, CountsHandles
<1>9. FreedOnce'
    BY <1>2, <1>3 DEF Inv, FreedOnce, HandlesHaveTargets
<1> QED BY <1>5, <1>6, <1>7, <1>8, <1>9 DEF Inv

\* Every step of every handle keeps the invariant.
LEMMA InvStep == Inv /\ [Next]_vars => Inv'
<1>1. SUFFICES ASSUME Inv, [Next]_vars PROVE Inv'
    OBVIOUS
<1>2. CASE UNCHANGED vars
    <2>1. \A a : Holders(a)' = Holders(a)
        BY <1>2 DEF vars, Holders
    <2> QED BY <1>1, <1>2, <2>1 DEF vars, Inv, TypeOK, PoolIsAllocated, PoolIsInterned,
            HandlesHaveTargets, HandlesAreValid, CountsHandles, FreedOnce
<1>3. ASSUME NEW h \in Handles, NEW c \in Contents, try_find_existing(h, c) PROVE Inv'
    <2>1. ASSUME NEW a \in Found(c), mem' = inc_strong(a), Hold(h, c, a) PROVE Inv'
        BY <1>1, <1>3, <2>1, FoundFacts, ShareKeepsInv DEF try_find_existing
    <2>2. CASE /\ pc' = [pc EXCEPT ![h] = "creating"]
               /\ want' = [want EXCEPT ![h] = c]
               /\ UNCHANGED <<mem, ptr>>
        <3>1. /\ UNCHANGED <<mem, pool, ptr, uaf, overlapped>>
              /\ pc[h] = "none" /\ pc'[h] = "creating" /\ want'[h] = c
              /\ \A g \in Handles : g # h => pc'[g] = pc[g] /\ want'[g] = want[g]
            BY <1>1, <1>3, <2>2 DEF try_find_existing, Inv, TypeOK
        <3>2. \A a : Holders(a)' = Holders(a)
            BY <3>1 DEF Holders
        <3>3. TypeOK'
            BY <1>1, <2>2, <3>1 DEF Inv, TypeOK
        <3>4. PoolIsAllocated' /\ PoolIsInterned' /\ HandlesHaveTargets'
            BY <1>1, <3>1 DEF Inv, PoolIsAllocated, PoolIsInterned, HandlesHaveTargets
        <3>5. HandlesAreValid' /\ FreedOnce'
            BY <1>1, <3>1 DEF Inv, HandlesAreValid, FreedOnce
        <3>6. CountsHandles'
            BY <1>1, <3>1, <3>2 DEF Inv, CountsHandles
        <3> QED BY <3>3, <3>4, <3>5, <3>6 DEF Inv
    <2> QED BY <1>3, <2>1, <2>2 DEF try_find_existing
<1>4. ASSUME NEW h \in Handles, create(h) PROVE Inv'
    <2>1. want[h] \in Contents /\ pc[h] = "creating" /\ UNCHANGED <<uaf, overlapped>>
        BY <1>1, <1>4 DEF create, Inv, HandlesHaveTargets
    <2>2. ASSUME NEW a \in Found(want[h]), mem' = inc_strong(a), Hold(h, want[h], a), UNCHANGED pool
          PROVE  Inv'
        BY <1>1, <2>1, <2>2, FoundFacts, ShareKeepsInv
    <2>3. ASSUME Found(want[h]) = {}, NEW a \in Addresses, mem[a] = None,
                 mem' = [mem EXCEPT ![a] = [content |-> want[h], count |-> 1]],
                 pool' = pool \cup {a}, Hold(h, want[h], a)
          PROVE  Inv'
        BY <1>1, <2>1, <2>3, InsertKeepsInv
    <2> QED BY <1>4, <2>2, <2>3 DEF create
<1>5. ASSUME NEW g \in Handles, NEW h \in Handles, clone(g, h) PROVE Inv'
    <2>1. want[g] \in Contents /\ ptr[g] \in pool /\ mem[ptr[g]].content = want[g] /\ uaf' = uaf
        BY <1>1, <1>5 DEF clone, Inv, TypeOK, HandlesHaveTargets, HandlesAreValid
    <2> QED BY <1>1, <1>5, <2>1, ShareKeepsInv DEF clone
<1>6. ASSUME NEW h \in Handles, read_hash(h) PROVE Inv'
    <2>1. ptr[h] \in Addresses
        BY <1>1, <1>6 DEF read_hash, Inv, HandlesHaveTargets
    <2>2. /\ want' \in [Handles -> Contents \cup {None}]
          /\ uaf' \in BOOLEAN
          /\ \A g \in Handles : g # h => want'[g] = want[g]
        <3>1. mem[ptr[h]] # None => mem[ptr[h]].content \in Contents
            BY <1>1, <2>1 DEF Inv, TypeOK
        <3> QED BY <1>1, <1>6, <3>1, ZenonT(60) DEF read_hash, Inv, TypeOK
    <2>3. /\ pc' = [pc EXCEPT ![h] = "locking"]
          /\ UNCHANGED <<mem, pool, ptr, overlapped>>
          /\ pc[h] = "last" /\ pc'[h] = "locking"
          /\ \A g \in Handles : g # h => pc'[g] = pc[g]
        BY <1>1, <1>6 DEF read_hash, Inv, TypeOK
    <2>4. \A a : Holders(a)' = Holders(a)
        BY <2>3 DEF Holders
    <2>5. TypeOK'
        BY <1>1, <2>2, <2>3 DEF Inv, TypeOK
    <2>6. PoolIsAllocated' /\ PoolIsInterned' /\ HandlesHaveTargets'
        BY <1>1, <2>1, <2>2, <2>3 DEF Inv, PoolIsAllocated, PoolIsInterned, HandlesHaveTargets
    <2>7. HandlesAreValid' /\ FreedOnce'
        BY <1>1, <2>2, <2>3 DEF Inv, HandlesAreValid, FreedOnce
    <2>8. CountsHandles'
        BY <1>1, <2>3, <2>4 DEF Inv, CountsHandles
    <2> QED BY <2>5, <2>6, <2>7, <2>8 DEF Inv
<1> QED BY <1>1, <1>2, <1>3, <1>4, <1>5, <1>6, DropKeepsInv, TakeOutKeepsInv, DeallocKeepsInv DEF Next

\* A handle in use points to an allocated, pooled string of its own content,
\* the count of a string is its number of handles and no string is freed twice,
\* for every number of handles, contents and addresses.
THEOREM StringsAreSafe == Spec => [](HandlesAreValid /\ CountsHandles /\ FreedOnce)
<1>1. Inv => HandlesAreValid /\ CountsHandles /\ FreedOnce
    BY DEF Inv
<1> QED BY <1>1, InvInit, InvStep, PTL DEF Spec

\* Two handles of equal content point to the same string, which is what makes
\* the comparison of addresses in PartialEq an equality of strings.
THEOREM EqualityIsIdentity == Spec => []EqualContentsShare
<1>1. Inv => EqualContentsShare
    BY DEF Inv, EqualContentsShare, HandlesAreValid, PoolIsInterned
<1> QED BY <1>1, InvInit, InvStep, PTL DEF Spec

-----------------------------------------------------------------------------
(* Drop reads freed memory only after overlapping clean-ups.                *)

\* Without an overlap a string has at most one clean-up that has not yet taken
\* it out of the pool, so the string is still there.
OverlapInv ==
    /\ Inv
    /\ uaf => overlapped
    /\ ~overlapped => \A h \in Handles : pc[h] \in {"last", "locking"} =>
          /\ ptr[h] \in pool
          /\ \A g \in Handles : (pc[g] \in {"last", "locking"} /\ ptr[g] = ptr[h]) => g = h

\* Every step of every handle keeps the stronger invariant.
LEMMA OverlapStep == OverlapInv /\ [Next]_vars => OverlapInv'
<1>1. SUFFICES ASSUME OverlapInv, [Next]_vars PROVE OverlapInv'
    OBVIOUS
<1>2. Inv /\ Inv'
    BY <1>1, InvStep DEF OverlapInv
<1> DEFINE P == ~overlapped => \A h \in Handles : pc[h] \in {"last", "locking"} =>
                  /\ ptr[h] \in pool
                  /\ \A g \in Handles : (pc[g] \in {"last", "locking"} /\ ptr[g] = ptr[h]) => g = h
<1>3. SUFFICES (uaf => overlapped)' /\ P'
    BY <1>2 DEF OverlapInv
<1>4. CASE UNCHANGED vars
    BY <1>1, <1>4 DEF OverlapInv, vars
<1>5. ASSUME NEW h \in Handles, pool \subseteq pool', UNCHANGED <<uaf, overlapped>>,
             pc'[h] \notin {"last", "locking"},
             \A g \in Handles : g # h => pc'[g] = pc[g] /\ ptr'[g] = ptr[g]
      PROVE  (uaf => overlapped)' /\ P'
    BY <1>1, <1>5 DEF OverlapInv
<1>6. ASSUME NEW h \in Handles, NEW c \in Contents, try_find_existing(h, c)
      PROVE  (uaf => overlapped)' /\ P'
    <2>1. /\ pc'[h] \in {"held", "creating"}
          /\ \A g \in Handles : g # h => pc'[g] = pc[g] /\ ptr'[g] = ptr[g]
          /\ UNCHANGED <<pool, uaf, overlapped>>
        BY <1>2, <1>6 DEF try_find_existing, Hold, Inv, TypeOK
    <2> QED BY <2>1, <1>5
<1>7. ASSUME NEW h \in Handles, create(h) PROVE (uaf => overlapped)' /\ P'
    <2>1. /\ pc'[h] = "held"
          /\ \A g \in Handles : g # h => pc'[g] = pc[g] /\ ptr'[g] = ptr[g]
          /\ pool \subseteq pool' /\ UNCHANGED <<uaf, overlapped>>
        BY <1>2, <1>7 DEF create, Hold, Inv, TypeOK
    <2> QED BY <2>1, <1>5
<1>8. ASSUME NEW g \in Handles, NEW h \in Handles, clone(g, h) PROVE (uaf => overlapped)' /\ P'
    <2>1. /\ pc'[h] = "held"
          /\ \A f \in Handles : f # h => pc'[f] = pc[f] /\ ptr'[f] = ptr[f]
          /\ UNCHANGED <<pool, uaf, overlapped>>
        BY <1>2, <1>8 DEF clone, Hold, Inv, TypeOK, HandlesAreValid
    <2> QED BY <2>1, <1>5
<1>9. ASSUME NEW h \in Handles, dealloc(h) PROVE (uaf => overlapped)' /\ P'
    <2>1. /\ pc'[h] = "none"
          /\ \A g \in Handles : g # h => pc'[g] = pc[g] /\ ptr'[g] = ptr[g]
          /\ UNCHANGED <<pool, uaf, overlapped>>
        BY <1>2, <1>9 DEF dealloc, Inv, TypeOK
    <2> QED BY <2>1, <1>5
<1>10. ASSUME NEW h \in Handles, drop(h) PROVE (uaf => overlapped)' /\ P'
    <2>1. /\ pc[h] = "held" /\ ptr[h] \in pool
          /\ UNCHANGED <<pool, ptr, want, uaf>>
          /\ \A g \in Handles : g # h => pc'[g] = pc[g]
        BY <1>2, <1>10 DEF drop, Inv, TypeOK, HandlesAreValid
    <2>2. CASE IsLast(ptr[h])
        <3>1. pc'[h] = "last" /\ overlapped' = (overlapped \/ CleaningUp(ptr[h]) # {})
            BY <1>2, <1>10, <2>2 DEF drop, Inv, TypeOK
        <3>2. (uaf => overlapped)'
            BY <1>1, <2>1, <3>1 DEF OverlapInv
        <3>3. ~overlapped' => ~overlapped /\ \A g \in Handles : pc[g] \in {"last", "locking"} => ptr[g] # ptr[h]
            BY <3>1 DEF CleaningUp
        <3>4. P'
            BY <1>1, <2>1, <3>1, <3>3 DEF OverlapInv
        <3> QED BY <3>2, <3>4
    <2>3. CASE ~IsLast(ptr[h])
        <3>1. pc'[h] = "none" /\ overlapped' = overlapped
            BY <1>2, <1>10, <2>3 DEF drop, Inv, TypeOK
        <3> QED BY <2>1, <3>1, <1>5
    <2> QED BY <2>2, <2>3
<1>11. ASSUME NEW h \in Handles, read_hash(h) PROVE (uaf => overlapped)' /\ P'
    <2>1. /\ pc[h] = "last" /\ pc'[h] = "locking"
          /\ UNCHANGED <<mem, pool, ptr, overlapped>>
          /\ \A g \in Handles : g # h => pc'[g] = pc[g]
        BY <1>2, <1>11 DEF read_hash, Inv, TypeOK
    <2>2. P'
        BY <1>1, <2>1 DEF OverlapInv
    <2>3. ~overlapped => mem[ptr[h]] # None
        BY <1>1, <1>2, <2>1 DEF OverlapInv, Inv, PoolIsAllocated
    <2>4. (uaf => overlapped)'
        <3>1. (mem[ptr[h]] # None /\ uaf' = uaf) \/ mem[ptr[h]] = None
            BY <1>11 DEF read_hash
        <3>2. CASE mem[ptr[h]] = None
            BY <2>1, <2>3, <3>2
        <3>3. CASE uaf' = uaf
            BY <1>1, <2>1, <3>3 DEF OverlapInv
        <3> QED BY <3>1, <3>2, <3>3
    <2> QED BY <2>2, <2>4
<1>12. ASSUME NEW h \in Handles, take_out(h) PROVE (uaf => overlapped)' /\ P'
    <2>1. /\ pc[h] = "locking" /\ pc'[h] \in {"freeing", "none"}
          /\ UNCHANGED <<mem, ptr, want, uaf, overlapped>>
          /\ pool \ {ptr[h]} \subseteq pool'
          /\ \A g \in Handles : g # h => pc'[g] = pc[g]
        BY <1>2, <1>12 DEF take_out, Inv, TypeOK
    <2>2. (uaf => overlapped)'
        BY <1>1, <2>1 DEF OverlapInv
    <2>3. P'
        BY <1>1, <2>1 DEF OverlapInv
    <2> QED BY <2>2, <2>3
<1> QED BY <1>1, <1>4, <1>6, <1>7, <1>8, <1>9, <1>10, <1>11, <1>12 DEF Next

\* Drop never reads freed memory unless a string was brought back by a lookup
\* and dropped again while an earlier clean-up of it was under way.
THEOREM ReadsAreValidWithoutOverlap == Spec => []LateReadNeedsOverlap
<1>1. Init => OverlapInv
    BY InvInit DEF Init, OverlapInv
<1>2. OverlapInv => LateReadNeedsOverlap
    BY DEF OverlapInv, LateReadNeedsOverlap
<1> QED BY <1>1, <1>2, OverlapStep, PTL DEF Spec

-----------------------------------------------------------------------------
(* No string is forgotten.                                                  *)

\* A string out of the pool is being freed.
Unpooled(a) == (mem[a] # None /\ a \notin pool) =>
    \E h \in Handles : pc[h] = "freeing" /\ ptr[h] = a

\* Handle h has yet to look at the unused string at a under the lock of its own
\* entry: its clean-up is not one that read the hash of an earlier string, or of
\* freed memory, at the same address.
WillTakeOut(h, a) ==
    /\ ptr[h] = a
    /\ pc[h] = "last" \/ (pc[h] = "locking" /\ want[h] = mem[a].content)

Unused(a) == (a \in pool /\ mem[a].count = 0) => \E h \in Handles : WillTakeOut(h, a)

LeakInv ==
    /\ Inv
    /\ \A a \in Addresses : Unpooled(a) /\ Unused(a)

\* Every step of every handle keeps the invariant.
LEMMA LeakStep == LeakInv /\ [Next]_vars => LeakInv'
<1>1. SUFFICES ASSUME LeakInv, [Next]_vars PROVE LeakInv'
    OBVIOUS
<1>2. Inv /\ Inv'
    BY <1>1, InvStep DEF LeakInv
<1>3. SUFFICES ASSUME NEW a \in Addresses PROVE Unpooled(a)' /\ Unused(a)'
    BY <1>2 DEF LeakInv
<1>4. Unpooled(a) /\ Unused(a)
    BY <1>1 DEF LeakInv
<1>5. CASE UNCHANGED vars
    BY <1>4, <1>5 DEF vars, Unpooled, Unused, WillTakeOut
\* The steps of handles that clean nothing up.
<1>6. ASSUME NEW h \in Handles, pc[h] \in {"none", "creating"},
             \A g \in Handles : g # h => pc'[g] = pc[g] /\ ptr'[g] = ptr[g] /\ want'[g] = want[g],
             \/ mem'[a] = mem[a] /\ (a \in pool' <=> a \in pool)
             \/ a \in pool' /\ mem'[a].count # 0
      PROVE  Unpooled(a)' /\ Unused(a)'
    <2>1. CASE mem'[a] = mem[a] /\ (a \in pool' <=> a \in pool)
        <3>1. Unpooled(a)'
            BY <1>4, <1>6, <2>1 DEF Unpooled
        <3>2. Unused(a)'
            BY <1>4, <1>6, <2>1 DEF Unused, WillTakeOut
        <3> QED BY <3>1, <3>2
    <2>2. CASE a \in pool' /\ mem'[a].count # 0
        BY <2>2 DEF Unpooled, Unused
    <2> QED BY <1>6, <2>1, <2>2
<1>7. ASSUME NEW h \in Handles, NEW c \in Contents, NEW b \in pool,
             pc[h] \in {"none", "creating"},
             mem' = inc_strong(b), Hold(h, c, b), pool' = pool
      PROVE  Unpooled(a)' /\ Unused(a)'
    <2>1. b \in Addresses /\ mem[b] # None
        BY <1>2 DEF Inv, TypeOK, PoolIsAllocated
    <2>2. mem[b] \in [content : Contents, count : Nat]
        BY <1>2, <2>1, StringFacts
    <2>3. mem'[b].count = mem[b].count + 1 /\ (a # b => mem'[a] = mem[a])
        BY <1>2, <1>7, <2>1, <2>2 DEF inc_strong, Inv, TypeOK
    <2>4. mem'[b].count # 0
        BY <2>2, <2>3
    <2>5. \A g \in Handles : g # h => pc'[g] = pc[g] /\ ptr'[g] = ptr[g] /\ want'[g] = want[g]
        BY <1>2, <1>7 DEF Hold, Inv, TypeOK
    <2> QED BY <1>6, <1>7, <2>3, <2>4, <2>5
<1>8. ASSUME NEW h \in Handles, NEW c \in Contents, try_find_existing(h, c)
      PROVE  Unpooled(a)' /\ Unused(a)'
    <2>1. ASSUME NEW b \in Found(c), mem' = inc_strong(b), Hold(h, c, b)
          PROVE  Unpooled(a)' /\ Unused(a)'
        BY <1>2, <1>7, <1>8, <2>1, FoundFacts DEF try_find_existing
    <2>2. CASE /\ pc' = [pc EXCEPT ![h] = "creating"]
               /\ want' = [want EXCEPT ![h] = c]
               /\ UNCHANGED <<mem, ptr>>
        <3>1. /\ UNCHANGED <<mem, pool, ptr>> /\ pc[h] = "none"
              /\ \A g \in Handles : g # h => pc'[g] = pc[g] /\ want'[g] = want[g]
            BY <1>2, <1>8, <2>2 DEF try_find_existing, Inv, TypeOK
        <3> QED BY <1>6, <3>1
    <2> QED BY <1>8, <2>1, <2>2 DEF try_find_existing
<1>9. ASSUME NEW h \in Handles, create(h)
      PROVE  Unpooled(a)' /\ Unused(a)'
    <2>1. want[h] \in Contents /\ pc[h] = "creating"
        BY <1>2, <1>9 DEF create, Inv, HandlesHaveTargets
    <2>2. ASSUME NEW b \in Found(want[h]), mem' = inc_strong(b), Hold(h, want[h], b), UNCHANGED pool
          PROVE  Unpooled(a)' /\ Unused(a)'
        BY <1>2, <1>7, <2>1, <2>2, FoundFacts
    <2>3. ASSUME NEW b \in Addresses, mem[b] = None,
                 mem' = [mem EXCEPT ![b] = [content |-> want[h], count |-> 1]],
                 pool' = pool \cup {b}, Hold(h, want[h], b)
          PROVE  Unpooled(a)' /\ Unused(a)'
        <3>1. mem'[b].count = 1 /\ (a # b => mem'[a] = mem[a])
            BY <1>2, <2>3 DEF Inv, TypeOK
        <3>2. \A g \in Handles : g # h => pc'[g] = pc[g] /\ ptr'[g] = ptr[g] /\ want'[g] = want[g]
            BY <1>2, <2>3 DEF Hold, Inv, TypeOK
        <3>3. a # b => (a \in pool' <=> a \in pool)
            BY <2>3
        <3> QED BY <1>6, <2>1, <2>3, <3>1, <3>2, <3>3
    <2> QED BY <1>9, <2>2, <2>3 DEF create
<1>10. ASSUME NEW g \in Handles, NEW h \in Handles, clone(g, h)
       PROVE  Unpooled(a)' /\ Unused(a)'
    <2>1. want[g] \in Contents /\ ptr[g] \in pool
        BY <1>2, <1>10 DEF clone, Inv, HandlesHaveTargets, HandlesAreValid
    <2> QED BY <1>7, <1>10, <2>1 DEF clone
<1>11. ASSUME NEW h \in Handles, drop(h)
       PROVE  Unpooled(a)' /\ Unused(a)'
    <2>1. ptr[h] \in Addresses /\ ptr[h] \in pool /\ mem[ptr[h]] # None
        BY <1>2, <1>11 DEF drop, Inv, HandlesAreValid, HandlesHaveTargets
    <2>2. mem[ptr[h]] \in [content : Contents, count : Nat]
        BY <1>2, <2>1, StringFacts
    <2>3. /\ pc[h] = "held" /\ UNCHANGED <<pool, ptr, want>>
          /\ \A g \in Handles : g # h => pc'[g] = pc[g]
          /\ pc'[h] = IF IsLast(ptr[h]) THEN "last" ELSE "none"
        BY <1>2, <1>11 DEF drop, Inv, TypeOK
    <2>4. /\ mem'[ptr[h]].count = mem[ptr[h]].count - 1
          /\ a # ptr[h] => mem'[a] = mem[a]
        BY <1>2, <1>11, <2>1, <2>2 DEF drop, dec_strong, Inv, TypeOK
    <2>5. CASE a = ptr[h]
        <3>1. Unpooled(a)'
            BY <2>1, <2>3, <2>5 DEF Unpooled
        <3>2. mem'[a].count = 0 => pc'[h] = "last"
            BY <2>1, <2>2, <2>3, <2>4, <2>5 DEF IsLast
        <3>3. Unused(a)'
            BY <2>3, <2>5, <3>2 DEF Unused, WillTakeOut
        <3> QED BY <3>1, <3>3
    <2>6. CASE a # ptr[h]
        <3>1. Unpooled(a)'
            BY <1>4, <2>3, <2>4, <2>6 DEF Unpooled
        <3>2. Unused(a)'
            BY <1>4, <2>3, <2>4, <2>6 DEF Unused, WillTakeOut
        <3> QED BY <3>1, <3>2
    <2> QED BY <2>5, <2>6
<1>12. ASSUME NEW h \in Handles, read_hash(h)
       PROVE  Unpooled(a)' /\ Unused(a)'
    <2>1. /\ pc[h] = "last" /\ pc'[h] = "locking" /\ UNCHANGED <<mem, pool, ptr>>
          /\ \A g \in Handles : g # h => pc'[g] = pc[g] /\ want'[g] = want[g]
          /\ mem[ptr[h]] # None => want'[h] = mem[ptr[h]].content
        BY <1>2, <1>12 DEF read_hash, Inv, TypeOK
    <2>2. Unpooled(a)'
        BY <1>4, <2>1 DEF Unpooled
    <2>3. Unused(a)'
        <3>1. SUFFICES ASSUME a \in pool, mem[a].count = 0
                       PROVE  \E g \in Handles : WillTakeOut(g, a)'
            BY <2>1 DEF Unused
        <3>2. PICK g \in Handles : WillTakeOut(g, a)
            BY <1>4, <3>1 DEF Unused
        <3>3. mem[a] # None
            BY <1>2, <3>1 DEF Inv, PoolIsAllocated
        <3>4. WillTakeOut(g, a)'
            BY <2>1, <3>2, <3>3 DEF WillTakeOut
        <3> QED BY <3>4
    <2> QED BY <2>2, <2>3
<1>13. ASSUME NEW h \in Handles, take_out(h)
       PROVE  Unpooled(a)' /\ Unused(a)'
    <2>1. /\ pc[h] = "locking" /\ UNCHANGED <<mem, ptr, want>>
          /\ \A g \in Handles : g # h => pc'[g] = pc[g]
        BY <1>2, <1>13 DEF take_out, Inv, TypeOK
    <2>2. CASE Unshared(h)
        <3>1. pool' = pool \ {ptr[h]} /\ pc'[h] = "freeing"
            BY <1>2, <1>13, <2>2 DEF take_out, Inv, TypeOK
        <3>2. Unpooled(a)'
            BY <1>4, <2>1, <3>1 DEF Unpooled
        <3>3. Unused(a)'
            BY <1>4, <2>1, <3>1 DEF Unused, WillTakeOut
        <3> QED BY <3>2, <3>3
    <2>3. CASE ~Unshared(h)
        <3>1. pool' = pool /\ pc'[h] = "none"
            BY <1>2, <1>13, <2>3 DEF take_out, Inv, TypeOK
        <3>2. Unpooled(a)'
            BY <1>4, <2>1, <3>1 DEF Unpooled
        <3>3. Unused(a)'
            <4>1. SUFFICES ASSUME a \in pool, mem[a].count = 0
                           PROVE  \E g \in Handles : WillTakeOut(g, a)'
                BY <2>1, <3>1 DEF Unused
            <4>2. PICK g \in Handles : WillTakeOut(g, a)
                BY <1>4, <4>1 DEF Unused
            <4>3. g # h
                BY <2>1, <2>3, <4>1, <4>2 DEF WillTakeOut, Unshared, StillUnused
            <4>4. WillTakeOut(g, a)'
                BY <2>1, <4>2, <4>3 DEF WillTakeOut
            <4> QED BY <4>4
        <3> QED BY <3>2, <3>3
    <2> QED BY <2>2, <2>3
<1>14. ASSUME NEW h \in Handles, dealloc(h)
       PROVE  Unpooled(a)' /\ Unused(a)'
    <2>1. /\ pc[h] = "freeing" /\ UNCHANGED <<pool, ptr, want>> /\ pc'[h] = "none"
          /\ \A g \in Handles : g # h => pc'[g] = pc[g]
          /\ ptr[h] \in Addresses /\ ptr[h] \notin pool
        BY <1>2, <1>14 DEF dealloc, Inv, TypeOK, HandlesHaveTargets, FreedOnce
    <2>2. mem'[ptr[h]] = None /\ (a # ptr[h] => mem'[a] = mem[a])
        BY <1>2, <1>14, <2>1 DEF dealloc, Inv, TypeOK
    <2>3. Unpooled(a)'
        BY <1>4, <2>1, <2>2 DEF Unpooled
    <2>4. Unused(a)'
        BY <1>4, <2>1, <2>2 DEF Unused, WillTakeOut
    <2> QED BY <2>3, <2>4
<1> QED BY <1>1, <1>5, <1>8, <1>9, <1>10, <1>11, <1>12, <1>13, <1>14 DEF Next

\* A string without handles always has a clean-up under way that will free it,
\* although overlapping clean-ups may look under the hash of another string.
THEOREM NoStringLeaks == Spec => []NothingLeaks
<1>1. Init => LeakInv
    BY InvInit DEF Init, LeakInv, Unpooled, Unused
<1>2. LeakInv => NothingLeaks
    BY DEF LeakInv, Unpooled, Unused, WillTakeOut, NothingLeaks
<1> QED BY <1>1, <1>2, LeakStep, PTL DEF Spec

=============================================================================
