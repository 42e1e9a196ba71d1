------------------------------- MODULE ArcStr -------------------------------
(***************************************************************************)
(* The interned string of src/crates/interned/src/arc_str.rs: a global     *)
(* pool of strings, an atomic reference count in each, and a Drop that     *)
(* takes the string out of the pool when the count reaches 0.              *)
(*                                                                         *)
(* Each ArcStr value is a handle, and every handle is used as if by a      *)
(* thread of its own.  A pool lookup holds the lock of its bucket until    *)
(* the entry guard is gone, so looking up and acting on the entry is one   *)
(* step; the counter is changed by a step of its own.  The allocator may   *)
(* hand out a freed address again.                                         *)
(***************************************************************************)
EXTENDS Integers, FiniteSets

CONSTANTS Handles, Contents, Addresses, None

ASSUME NoneIsNew ==
    None \notin Addresses /\ None \notin Contents /\ None \notin [content : Contents, count : Nat]

ASSUME HandlesFinite == IsFiniteSet(Handles)

VARIABLES
    mem,   \* the ArcStrInner at each address, or None where nothing is allocated
    pool,  \* ARC_STR_POOL: the addresses in it
    pc,    \* what each handle is doing
    ptr,   \* the address a handle points to
    want,  \* the content a handle was made for; in its clean-up, that of the hash it read
    uaf,   \* whether freed memory was read
    overlapped  \* history: a string was brought back and dropped again while an
                \* earlier clean-up of it was still under way

vars == <<mem, pool, pc, ptr, want, uaf, overlapped>>

Init ==
    /\ mem = [a \in Addresses |-> None]
    /\ pool = {}
    /\ pc = [h \in Handles |-> "none"]
    /\ ptr = [h \in Handles |-> None]
    /\ want = [h \in Handles |-> None]
    /\ uaf = FALSE
    /\ overlapped = FALSE

\* The pool entries that str::equivalent finds for content c.
Found(c) == {a \in pool : mem[a] # None /\ mem[a].content = c}

\* Nothing is counted in memory that was freed.
inc_strong(a) == IF mem[a] = None THEN mem ELSE [mem EXCEPT ![a].count = @ + 1]

\* An ArcStr for content c at address a comes into being.
Hold(h, c, a) ==
    /\ pc' = [pc EXCEPT ![h] = "held"]
    /\ ptr' = [ptr EXCEPT ![h] = a]
    /\ want' = [want EXCEPT ![h] = c]

\* ArcStr::new, first phase: use the string of that content if there is one.
try_find_existing(h, c) ==
    /\ pc[h] = "none"
    /\ \/ \E a \in Found(c) : mem' = inc_strong(a) /\ Hold(h, c, a)
       \/ /\ Found(c) = {}
          /\ pc' = [pc EXCEPT ![h] = "creating"]
          /\ want' = [want EXCEPT ![h] = c]
          /\ UNCHANGED <<mem, ptr>>
    /\ UNCHANGED <<pool, uaf, overlapped>>

\* Mutant: no second look before creating.
create_unchecked(h) ==
    /\ pc[h] = "creating"
    /\ \E a \in Addresses :
          /\ mem[a] = None
          /\ mem' = [mem EXCEPT ![a] = [content |-> want[h], count |-> 1]]
          /\ pool' = pool \cup {a}
          /\ Hold(h, want[h], a)
    /\ UNCHANGED <<uaf, overlapped>>

\* Second phase, under the entry's lock: look again, else allocate and insert.
create(h) ==
    /\ pc[h] = "creating"
    /\ \/ /\ \E a \in Found(want[h]) : mem' = inc_strong(a) /\ Hold(h, want[h], a)
          /\ UNCHANGED pool
       \/ /\ Found(want[h]) = {}
          /\ \E a \in Addresses :
                /\ mem[a] = None
                /\ mem' = [mem EXCEPT ![a] = [content |-> want[h], count |-> 1]]
                /\ pool' = pool \cup {a}
                /\ Hold(h, want[h], a)
    /\ UNCHANGED <<uaf, overlapped>>

clone(g, h) ==
    /\ pc[g] = "held"
    /\ pc[h] = "none"
    /\ mem' = inc_strong(ptr[g])
    /\ uaf' = (uaf \/ mem[ptr[g]] = None)
    /\ Hold(h, want[g], ptr[g])
    /\ UNCHANGED <<pool, overlapped>>

\* Mutant: off by one, the last reference is not noticed.
IsLast_late(a) == mem[a] # None /\ mem[a].count = 0

\* dec_strong returns whether this reference was the last one.
IsLast(a) == mem[a] # None /\ mem[a].count = 1

dec_strong(a) == IF mem[a] = None THEN mem ELSE [mem EXCEPT ![a].count = @ - 1]

\* The handles that have dropped the last reference to the string at a and have
\* not yet looked whether it is still unused.
CleaningUp(a) == {g \in Handles : pc[g] \in {"last", "locking"} /\ ptr[g] = a}

\* Drop, first step: dec_strong.  Only the one that takes the count to 0 goes
\* on to clean up.
drop(h) ==
    /\ pc[h] = "held"
    /\ mem' = dec_strong(ptr[h])
    /\ uaf' = (uaf \/ mem[ptr[h]] = None)
    /\ pc' = [pc EXCEPT ![h] = IF IsLast(ptr[h]) THEN "last" ELSE "none"]
    /\ overlapped' = (overlapped \/ (IsLast(ptr[h]) /\ CleaningUp(ptr[h]) # {}))
    /\ UNCHANGED <<pool, ptr, want>>

\* Mutant: the count is not looked at again.
StillUnused_unchecked(a) == TRUE

\* The second look at the count, under the entry's lock.
StillUnused(a) == mem[a].count = 0

\* Second step: the hash is read from the string.  The string may have been
\* freed meanwhile by another handle's clean-up: then anything may be read.
read_hash(h) ==
    /\ pc[h] = "last"
    /\ pc' = [pc EXCEPT ![h] = "locking"]
    /\ \/ /\ mem[ptr[h]] # None
          /\ want' = [want EXCEPT ![h] = mem[ptr[h]].content]
          /\ uaf' = uaf
       \/ /\ mem[ptr[h]] = None
          /\ \E c \in Contents : want' = [want EXCEPT ![h] = c]
          /\ uaf' = TRUE
    /\ UNCHANGED <<mem, pool, ptr, overlapped>>

\* The bucket of the hash has the entry of the handle's own address, and its
\* count is still 0.
Unshared(h) ==
    /\ ptr[h] \in pool
    /\ mem[ptr[h]].content = want[h]
    /\ StillUnused(ptr[h])

\* Third step, under the entry's lock.
take_out(h) ==
    /\ pc[h] = "locking"
    /\ IF Unshared(h)
         THEN pool' = pool \ {ptr[h]} /\ pc' = [pc EXCEPT ![h] = "freeing"]
         ELSE pc' = [pc EXCEPT ![h] = "none"] /\ UNCHANGED pool
    /\ UNCHANGED <<mem, ptr, want, uaf, overlapped>>

\* Fourth step: the memory is given back.
dealloc(h) ==
    /\ pc[h] = "freeing"
    /\ mem' = [mem EXCEPT ![ptr[h]] = None]
    /\ pc' = [pc EXCEPT ![h] = "none"]
    /\ UNCHANGED <<pool, ptr, want, uaf, overlapped>>

Next ==
    \E h \in Handles :
        \/ \E c \in Contents : try_find_existing(h, c)
        \/ create(h)
        \/ \E g \in Handles : clone(g, h)
        \/ drop(h)
        \/ read_hash(h)
        \/ take_out(h)
        \/ dealloc(h)

Spec == Init /\ [][Next]_vars

-----------------------------------------------------------------------------

\* The state of the pool, its strings and their handles; no count is below 0.
TypeOK ==
    /\ mem \in [Addresses -> [content : Contents, count : Nat] \cup {None}]
    /\ pool \subseteq Addresses
    /\ pc \in [Handles -> {"none", "creating", "held", "last", "locking", "freeing"}]
    /\ ptr \in [Handles -> Addresses \cup {None}]
    /\ want \in [Handles -> Contents \cup {None}]
    /\ uaf \in BOOLEAN
    /\ overlapped \in BOOLEAN

Holders(a) == {h \in Handles : pc[h] = "held" /\ ptr[h] = a}

\* A handle in use points to an allocated string in the pool, with the content
\* the handle was made for, although clean-ups of the same string race with
\* lookups that bring it back and with each other.
HandlesAreValid ==
    \A h \in Handles : pc[h] = "held" =>
        /\ ptr[h] \in pool
        /\ mem[ptr[h]] # None
        /\ mem[ptr[h]].content = want[h]

\* The count of a string is the number of its handles.
CountsHandles ==
    \A a \in Addresses : mem[a] # None => mem[a].count = Cardinality(Holders(a))

\* Handles of equal content point to the same string: ArcStr compares pointers
\* for equality.
EqualContentsShare ==
    \A g, h \in Handles :
        (pc[g] = "held" /\ pc[h] = "held" /\ want[g] = want[h]) => ptr[g] = ptr[h]

\* A string that is about to be freed is allocated, is out of the pool and is
\* freed by one handle only.
FreedOnce ==
    \A h \in Handles : pc[h] = "freeing" =>
        /\ mem[ptr[h]] # None
        /\ ptr[h] \notin pool
        /\ \A g \in Handles : (pc[g] = "freeing" /\ ptr[g] = ptr[h]) => g = h

\* A string without handles is about to be cleaned up by somebody: none stays
\* in the pool for good.
NothingLeaks ==
    \A a \in Addresses : (mem[a] # None /\ mem[a].count = 0) =>
        \E h \in Handles : pc[h] \in {"last", "locking", "freeing"} /\ ptr[h] = a

\* No clone and no drop of a handle in use reads freed memory, and the clean-up
\* in Drop does so only if the string was brought back and dropped again while
\* an earlier clean-up of it was under way.  (Then it can: the first clean-up
\* frees the string and the second one reads its hash.)
LateReadNeedsOverlap == uaf => overlapped

=============================================================================
