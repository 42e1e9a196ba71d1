----------------------------- MODULE TokenCache -----------------------------
(***************************************************************************)
(* The reference-counted Token of src/src/app/model/token/cache.rs and its *)
(* global cache TOKEN_MAP.  It is built like ArcStr, with two differences  *)
(* that matter: the cache is keyed by TokenKey, which does not determine   *)
(* the RawToken, and Drop looks its entry up by that key, not by address.  *)
(*                                                                         *)
(* Each Token value is a handle with a thread of its own.  A map lookup    *)
(* holds the lock of its bucket until the entry is gone, so it is one step *)
(* with what is done to the entry.  Using freed memory and the abort on a  *)
(* count that wrapped below 0 end the behaviour: `fault' says which.       *)
(***************************************************************************)
EXTENDS Integers, FiniteSets

CONSTANTS Handles, Keys, Rests, Addresses, None,
    MaxWrap  \* bound: how far below 0 a count may wrap

\* A RawToken: its key (user id and randomness) and the rest (signature, times).
RawToken == [key : Keys, rest : Rests]

\* A count below 0 stands for the usize it wraps to.
TokenInner == [raw : RawToken, count : Int]

ASSUME HandlesFinite == IsFiniteSet(Handles)
ASSUME NoneIsNew == None \notin Addresses /\ None \notin RawToken /\ None \notin TokenInner

VARIABLES
    mem,    \* the TokenInner at each address, or None where nothing is allocated
    cache,  \* TOKEN_MAP
    pc,     \* what each handle is doing
    ptr,    \* the address a handle points to
    want,   \* the RawToken a handle was made from; in its clean-up, the one it read
    clean,  \* history: no token of another RawToken was handed out and no two
            \* clean-ups of one token overlapped
    fault   \* "none", "freed" (memory used after free) or "aborted"

vars == <<mem, cache, pc, ptr, want, clean, fault>>

Init ==
    /\ mem = [a \in Addresses |-> None]
    /\ cache = [k \in Keys |-> None]
    /\ pc = [h \in Handles |-> "none"]
    /\ ptr = [h \in Handles |-> None]
    /\ want = [h \in Handles |-> None]
    /\ clean = TRUE
    /\ fault = "none"

Hold(h, raw, a) ==
    /\ pc' = [pc EXCEPT ![h] = "held"]
    /\ ptr' = [ptr EXCEPT ![h] = a]
    /\ want' = [want EXCEPT ![h] = raw]

\* The Token value is gone; its clean-up, if it has one, is over.
Gone(h) ==
    /\ pc' = [pc EXCEPT ![h] = "none"]
    /\ ptr' = [ptr EXCEPT ![h] = None]
    /\ want' = [want EXCEPT ![h] = None]

Fail(why) ==
    /\ fault' = why
    /\ UNCHANGED <<mem, cache, pc, ptr, want, clean>>

\* One more handle for the token at a: fetch_add, and abort on a count beyond
\* isize::MAX, which a wrapped one is.
Share(h, raw, a) ==
    \/ /\ mem[a].count < 0
       /\ Fail("aborted")
    \/ /\ mem[a].count >= 0
       /\ mem' = [mem EXCEPT ![a].count = @ + 1]
       /\ Hold(h, raw, a)
       /\ UNCHANGED <<cache, clean, fault>>

\* The cached token of raw's key, if it was made from the very same raw.
Reusable(raw) == cache[raw.key] # None /\ mem[cache[raw.key]].raw = raw

\* A lookup of a key whose entry leads to freed memory.
Dangling(key) == cache[key] # None /\ mem[cache[key]] = None

\* Token::new, fast path.
new_fast(h, raw) ==
    /\ fault = "none"
    /\ pc[h] = "none"
    /\ IF Dangling(raw.key) THEN Fail("freed")
       ELSE IF Reusable(raw) THEN Share(h, raw, cache[raw.key])
       ELSE /\ pc' = [pc EXCEPT ![h] = "creating"]
            /\ want' = [want EXCEPT ![h] = raw]
            /\ UNCHANGED <<mem, cache, ptr, clean, fault>>

\* Allocate a token with one reference and enter it in the cache.
Insert(h, raw) ==
    \E a \in Addresses :
        /\ mem[a] = None
        /\ mem' = [mem EXCEPT ![a] = [raw |-> raw, count |-> 1]]
        /\ cache' = [cache EXCEPT ![raw.key] = a]
        /\ Hold(h, raw, a)
        /\ UNCHANGED <<clean, fault>>

\* Slow path, under the entry's lock: look again.  The token of another
\* RawToken with the same key is returned as it is, without counting.
new_slow(h) ==
    /\ fault = "none"
    /\ pc[h] = "creating"
    /\ LET raw == want[h]
           a == cache[raw.key]
       IN  IF Dangling(raw.key) THEN Fail("freed")
           ELSE IF Reusable(raw) THEN Share(h, raw, a)
           ELSE \/ /\ a # None
                   /\ Hold(h, raw, a)
                   /\ clean' = FALSE
                   /\ UNCHANGED <<mem, cache, fault>>
                \/ /\ a = None
                   /\ Insert(h, raw)

clone(g, h) ==
    /\ fault = "none"
    /\ pc[g] = "held"
    /\ pc[h] = "none"
    /\ IF mem[ptr[g]] = None THEN Fail("freed") ELSE Share(h, want[g], ptr[g])

\* The value fetch_sub returns tells who drops the last reference.
IsLast(a) == mem[a].count = 1

\* Drop, first step: fetch_sub.
drop(h) ==
    /\ fault = "none"
    /\ pc[h] = "held"
    /\ LET a == ptr[h]
       IN  IF mem[a] = None THEN Fail("freed")
           ELSE /\ mem[a].count > -MaxWrap
                /\ mem' = [mem EXCEPT ![a].count = @ - 1]
                /\ IF IsLast(a)
                     THEN /\ pc' = [pc EXCEPT ![h] = "last"]
                          /\ clean' = (clean /\ \A g \in Handles : pc[g] \in {"last", "locking"} => ptr[g] # a)
                          /\ UNCHANGED <<ptr, want>>
                     ELSE Gone(h) /\ UNCHANGED clean
                /\ UNCHANGED <<cache, fault>>

\* Mutant: the count is not looked at again.
StillUnused_unchecked(a) == TRUE

\* The second look at the count, under the entry's lock.
StillUnused(a) == mem[a].count = 0

\* Second step: the key is read from the token.
read_key(h) ==
    /\ fault = "none"
    /\ pc[h] = "last"
    /\ IF mem[ptr[h]] = None THEN Fail("freed")
       ELSE /\ want' = [want EXCEPT ![h] = mem[ptr[h]].raw]
            /\ pc' = [pc EXCEPT ![h] = "locking"]
            /\ UNCHANGED <<mem, cache, ptr, clean, fault>>

\* Mutant: the entry stays in the cache.
WithoutEntry_kept(key) == cache

WithoutEntry(key) == [cache EXCEPT ![key] = None]

\* Third step, under the lock of that key's entry: if there is one and the
\* token's count is still 0, the entry is removed, whichever token it leads to.
take_out(h) ==
    /\ fault = "none"
    /\ pc[h] = "locking"
    /\ LET a == ptr[h]
           key == want[h].key
       IN  \/ /\ cache[key] # None /\ mem[a] = None
              /\ Fail("freed")
           \/ /\ cache[key] # None /\ mem[a] # None /\ StillUnused(a)
              /\ cache' = WithoutEntry(key)
              /\ pc' = [pc EXCEPT ![h] = "freeing"]
              /\ UNCHANGED <<mem, ptr, want, clean, fault>>
           \/ /\ cache[key] = None \/ (mem[a] # None /\ ~StillUnused(a))
              /\ Gone(h)
              /\ UNCHANGED <<mem, cache, clean, fault>>

\* Fourth step: the memory is given back; string_len is read from it first.
dealloc(h) ==
    /\ fault = "none"
    /\ pc[h] = "freeing"
    /\ IF mem[ptr[h]] = None THEN Fail("freed")
       ELSE /\ mem' = [mem EXCEPT ![ptr[h]] = None]
            /\ Gone(h)
            /\ UNCHANGED <<cache, clean, fault>>

Next ==
    \E h \in Handles :
        \/ \E raw \in RawToken : new_fast(h, raw)
        \/ new_slow(h)
        \/ \E g \in Handles : clone(g, h)
        \/ drop(h)
        \/ read_key(h)
        \/ take_out(h)
        \/ dealloc(h)

Spec == Init /\ [][Next]_vars

-----------------------------------------------------------------------------

\* The state of the cache, the tokens and their handles.
TypeOK ==
    /\ mem \in [Addresses -> TokenInner \cup {None}]
    /\ cache \in [Keys -> Addresses \cup {None}]
    /\ pc \in [Handles -> {"none", "creating", "held", "last", "locking", "freeing"}]
    /\ ptr \in [Handles -> Addresses \cup {None}]
    /\ want \in [Handles -> RawToken \cup {None}]
    /\ clean \in BOOLEAN
    /\ fault \in {"none", "freed", "aborted"}

\* While no token of another RawToken was handed out and no two clean-ups of
\* one token overlapped, a token in use is allocated, is the one that was asked
\* for and is the cached one of its key, whatever clean-up of it is under way.
HandlesAreValid ==
    clean => \A h \in Handles : pc[h] = "held" =>
        /\ mem[ptr[h]] # None
        /\ mem[ptr[h]].raw = want[h]
        /\ cache[want[h].key] = ptr[h]

\* A token without handles has exactly one clean-up under way: it is neither
\* leaked in TOKEN_MAP nor freed twice.
OneCleanUp ==
    \A a \in Addresses : (mem[a] # None /\ mem[a].count = 0) =>
        Cardinality({h \in Handles : pc[h] \in {"last", "locking", "freeing"} /\ ptr[h] = a}) = 1

\* In the same case no freed memory is used, the process does not abort and
\* every token is cleaned up once: the two events are the only ways to go
\* wrong.  (After either of them it can go wrong: a clean-up frees a token that
\* another still uses or reads.)
CleanUseIsSafe == clean => fault = "none" /\ OneCleanUp

=============================================================================
