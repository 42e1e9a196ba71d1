--------------------------- MODULE TokenRegistry ----------------------------
(***************************************************************************)
(* What the token manager promises to its callers, whatever slots, free    *)
(* ids and indexes it uses: a token is found under the one name it was     *)
(* given, tokens without a name are a bag, an operation touches one token, *)
(* and a restart brings back what was saved last.  A save that fails may   *)
(* destroy what was saved before: it leaves the old contents, the new ones *)
(* or none at all, never a part, and a file that is torn brings nothing    *)
(* back.  So a restart changes nothing unless something was dirty.         *)
(***************************************************************************)
EXTENDS Integers

CONSTANTS Names,   \* names a user chooses
          Infos,   \* tokens
          None

VARIABLES named,    \* the token of each name, or None
          unnamed,  \* how many tokens of each kind have no name
          disk,     \* what was saved last
          torn,     \* what was saved cannot be read
          dirty     \* a change is not saved, or the last save failed

vars == <<named, unnamed, disk, torn, dirty>>

Empty == [named |-> [n \in Names |-> None], unnamed |-> [t \in Infos |-> 0]]

Init ==
    /\ named = Empty.named
    /\ unnamed = Empty.unnamed
    /\ disk = Empty
    /\ torn = FALSE
    /\ dirty = FALSE

With(t) == [unnamed EXCEPT ![t] = @ + 1]
Without(t) == [unnamed EXCEPT ![t] = @ - 1]

Add(t) ==
    \/ \E n \in Names : /\ named[n] = None
                        /\ named' = [named EXCEPT ![n] = t]
                        /\ UNCHANGED unnamed
    \/ unnamed' = With(t) /\ UNCHANGED named

Remove(t) ==
    \/ \E n \in Names : /\ named[n] = t
                        /\ named' = [named EXCEPT ![n] = None]
                        /\ UNCHANGED unnamed
    \/ unnamed[t] > 0 /\ unnamed' = Without(t) /\ UNCHANGED named

\* A token without a name gets one, or one with a name another or none.
Rename(t) ==
    \/ \E n \in Names : /\ named[n] = None
                        /\ unnamed[t] > 0
                        /\ named' = [named EXCEPT ![n] = t]
                        /\ unnamed' = Without(t)
    \/ \E m, n \in Names : /\ named[m] = t
                           /\ named[n] = None
                           /\ named' = [named EXCEPT ![m] = None, ![n] = t]
                           /\ UNCHANGED unnamed
    \/ \E m \in Names : /\ named[m] = t
                        /\ named' = [named EXCEPT ![m] = None]
                        /\ unnamed' = With(t)

Change(t, u) ==
    \/ \E n \in Names : /\ named[n] = t
                        /\ named' = [named EXCEPT ![n] = u]
                        /\ UNCHANGED unnamed
    \/ /\ unnamed[t] > 0
       /\ unnamed' = [unnamed EXCEPT ![t] = @ - 1, ![u] = @ + 1]
       /\ UNCHANGED named

Clear == named' = Empty.named /\ unnamed' = Empty.unnamed

Operation ==
    \/ \E t \in Infos : Add(t) \/ Remove(t) \/ Rename(t)
    \/ \E t, u \in Infos : t # u /\ Change(t, u)
    \/ Clear

Save ==
    /\ disk' = [named |-> named', unnamed |-> unnamed']
    /\ torn' = FALSE
    /\ dirty' = FALSE

\* There is no save, or it fails.
NoSave ==
    /\ dirty' = TRUE
    /\ \/ UNCHANGED <<disk, torn>>
       \/ disk' = Empty /\ torn' \in BOOLEAN
       \/ disk' = [named |-> named', unnamed |-> unnamed'] /\ torn' = FALSE

Restart ==
    /\ ~torn
    /\ named' = disk.named
    /\ unnamed' = disk.unnamed
    /\ dirty' = FALSE
    /\ UNCHANGED <<disk, torn>>

Next ==
    \/ /\ Operation \/ UNCHANGED <<named, unnamed>>
       /\ Save \/ NoSave
    \/ Restart

Spec == Init /\ [][Next]_vars
=============================================================================
