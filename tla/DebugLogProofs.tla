--------------------------- MODULE DebugLogProofs ---------------------------
(***************************************************************************)
(* The debug log writes every message once and, unless one came after it   *)
(* was given up, in order; it never lets too many wait; and a flush that   *)
(* returns in time has written all that was sent before it.  For every     *)
(* value of the limits and any number of messages.                         *)
(***************************************************************************)
EXTENDS DebugLog, FiniteSetTheorems, SequenceTheorems, WellFoundedInduction, TLAPS

\* Types; a message is at hand only after it was logged.
TypeInv ==
    /\ LOG_SEQUENCE \in Nat /\ LOG_SEQUENCE <= MaxSeq
    /\ spawned \subseteq Messages /\ due \subseteq Messages
    /\ lost \subseteq Messages /\ discarded \subseteq Messages
    /\ pending_messages \subseteq Messages
    /\ channel \in Seq(Messages) /\ buffer \in Seq(Messages) /\ file \in Seq(Messages)
    /\ next_seq \in Nat /\ next_seq <= MaxSeq
    /\ writer \in {"absent", "select", "drain", "closing", "ended", "stopped"}
    /\ flush \in {"idle", "waiting", "done", "late"}
    /\ late \in BOOLEAN
    /\ fails \in Nat /\ fails <= MaxFails

\* EveryMessageOnce with its places written out.
OnceInv ==
    /\ IsInjective(channel) /\ IsInjective(log)
    /\ spawned \cap ToSet(channel) = {} /\ spawned \cap pending_messages = {}
    /\ spawned \cap ToSet(log) = {} /\ spawned \cap lost = {}
    /\ ToSet(channel) \cap pending_messages = {} /\ ToSet(channel) \cap ToSet(log) = {}
    /\ ToSet(channel) \cap lost = {}
    /\ pending_messages \cap ToSet(log) = {} /\ pending_messages \cap lost = {}
    /\ ToSet(log) \cap lost = {}
    /\ discarded \cap spawned = {} /\ discarded \cap ToSet(channel) = {}
    /\ discarded \cap pending_messages = {} /\ discarded \cap ToSet(log) = {}
    /\ discarded \cap lost = {}
    /\ spawned \cup ToSet(channel) \cup pending_messages \cup ToSet(log) \cup lost \cup discarded
         = 0 .. LOG_SEQUENCE - 1

\* What was put into the buffer is behind the number that the writer waits for,
\* and what waits is not.
OrderInv ==
    ~late => /\ InOrder(log)
             /\ \A m \in ToSet(log) : m < next_seq
             /\ \A m \in pending_messages : next_seq <= m

\* One message too many may wait while the writer drains, if it is the next.
BoundInv ==
    /\ writer \in {"absent", "select"} => Cardinality(pending_messages) <= MAX_PENDING_MESSAGES
    /\ writer = "drain" =>
         \/ Cardinality(pending_messages) <= MAX_PENDING_MESSAGES
         \/ /\ Cardinality(pending_messages) = MAX_PENDING_MESSAGES + 1
            /\ next_seq \in pending_messages

\* Whether the writer will still look into the channel.
Listening == writer \in {"absent", "select", "drain"}

\* Until a write fails, what was sent before the flush is on its way to the file:
\* nothing is lost before the flush, and the channel counts while it is read.
FlushInv ==
    /\ writer = "absent" => spawned = 0 .. LOG_SEQUENCE - 1
    /\ ~Listening => flush # "idle"
    /\ writer \in {"ended", "stopped"} => pending_messages = {} /\ buffer = <<>>
    /\ flush = "done" => writer = "stopped" \/ due = {}
    /\ fails = 0 =>
         /\ flush = "idle" => lost = {}
         /\ flush # "idle" =>
              due \subseteq pending_messages \cup ToSet(log)
                              \cup (IF Listening THEN ToSet(channel) ELSE {})

\* What is discarded with the receiver was sent after the writer had looked into
\* the channel for the last time, so it was not due.
DiscardInv ==
    /\ discarded # {} => writer = "stopped"
    /\ discarded \cap due = {}
    /\ due \cap spawned = {} /\ due \subseteq 0 .. LOG_SEQUENCE - 1
    /\ ~Listening => ToSet(channel) \cap due = {}

\* The inductive invariant.
IInv == TypeInv /\ OnceInv /\ OrderInv /\ BoundInv /\ FlushInv /\ DiscardInv

-----------------------------------------------------------------------------
\* Numbers and sequences.

\* keys().next() of a map that is not empty: the oldest message of a set.
LEMMA OldestFacts ==
    ASSUME NEW S \in SUBSET Messages, S # {}
    PROVE  Oldest(S) \in S /\ \A t \in S : Oldest(S) <= t
<1> DEFINE R == OpToRel(<, Nat)
<1>1. S \subseteq Nat
  BY LogAssumption DEF Messages
<1>2. IsWellFoundedOn(R, Nat)
  BY NatLessThanWellFounded
<1>3. PICK d \in S : \A e \in S : ~(<<e, d>> \in R)
  <2> HIDE DEF R
  <2> QED BY <1>1, <1>2, WFMin
<1>4. \A e \in S : d <= e
  <2> SUFFICES ASSUME NEW e \in S, e < d PROVE FALSE
    BY <1>1
  <2>1. <<e, d>> \in R
    BY <1>1 DEF OpToRel
  <2> QED BY <2>1, <1>3
<1> QED BY <1>4 DEF Oldest

\* What waits can be counted.
LEMMA WaitingIsFinite ==
    ASSUME NEW S \in SUBSET Messages
    PROVE  IsFiniteSet(S) /\ Cardinality(S) \in Nat
<1>1. IsFiniteSet(Messages)
  BY FS_Interval, LogAssumption DEF Messages
<1>2. IsFiniteSet(S)
  BY <1>1, FS_Subset
<1> QED BY <1>2, FS_CardinalityType

\* A message put behind others.
LEMMA AppendFacts ==
    ASSUME NEW s \in Seq(Messages), NEW x \in Messages
    PROVE  /\ Append(s, x) \in Seq(Messages)
           /\ ToSet(Append(s, x)) = ToSet(s) \cup {x}
           /\ IsInjective(s) /\ x \notin ToSet(s) => IsInjective(Append(s, x))
           /\ InOrder(s) /\ (\A m \in ToSet(s) : m < x) => InOrder(Append(s, x))
<1> DEFINE a == Append(s, x)
<1>1. /\ Len(s) \in Nat /\ DOMAIN s = 1 .. Len(s)
      /\ a \in Seq(Messages) /\ Len(a) = Len(s) + 1 /\ DOMAIN a = 1 .. (Len(s) + 1)
      /\ \A i \in 1 .. Len(s) : a[i] = s[i]
      /\ a[Len(s) + 1] = x
  OBVIOUS
<1> HIDE DEF a
<1>2. \A i \in DOMAIN a : i = Len(s) + 1 \/ (i \in DOMAIN s /\ a[i] = s[i] /\ s[i] \in ToSet(s))
  BY <1>1 DEF ToSet
<1>3. ToSet(a) = ToSet(s) \cup {x}
  <2>1. x \in ToSet(a)
    BY <1>1 DEF ToSet
  <2>2. ToSet(s) \subseteq ToSet(a)
    BY <1>1 DEF ToSet
  <2>3. ToSet(a) \subseteq ToSet(s) \cup {x}
    BY <1>1, <1>2 DEF ToSet
  <2> QED BY <2>1, <2>2, <2>3
<1>4. ASSUME IsInjective(s), x \notin ToSet(s) PROVE IsInjective(a)
  BY <1>1, <1>2, <1>4 DEF IsInjective
<1>5. ASSUME InOrder(s), \A m \in ToSet(s) : m < x PROVE InOrder(a)
  BY <1>1, <1>2, <1>5 DEF InOrder
<1> QED BY <1>1, <1>3, <1>4, <1>5 DEF a

\* The first message is taken.
LEMMA TailFacts ==
    ASSUME NEW s \in Seq(Messages), s # <<>>
    PROVE  /\ Head(s) \in Messages /\ Tail(s) \in Seq(Messages)
           /\ ToSet(s) = ToSet(Tail(s)) \cup {Head(s)}
           /\ IsInjective(s) => IsInjective(Tail(s)) /\ Head(s) \notin ToSet(Tail(s))
<1> DEFINE t == Tail(s)
<1>1. /\ Len(s) \in Nat /\ Len(s) > 0 /\ DOMAIN s = 1 .. Len(s)
      /\ t \in Seq(Messages) /\ Len(t) = Len(s) - 1 /\ DOMAIN t = 1 .. (Len(s) - 1)
      /\ \A i \in 1 .. (Len(s) - 1) : t[i] = s[i + 1]
      /\ Head(s) = s[1] /\ Head(s) \in Messages
  OBVIOUS
<1> HIDE DEF t
<1>2. ToSet(s) = ToSet(t) \cup {Head(s)}
  <2>1. ASSUME NEW i \in DOMAIN s PROVE s[i] = Head(s) \/ s[i] \in ToSet(t)
    <3>1. CASE i = 1
      BY <3>1, <1>1
    <3>2. CASE i # 1
      <4>1. i - 1 \in 1 .. (Len(s) - 1) /\ t[i - 1] = s[(i - 1) + 1] /\ (i - 1) + 1 = i
        BY <3>2, <1>1
      <4> QED BY <4>1, <1>1 DEF ToSet
    <3> QED BY <3>1, <3>2
  <2>2. \A i \in DOMAIN t : t[i] = s[i + 1] /\ i + 1 \in DOMAIN s
    BY <1>1
  <2>3. Head(s) \in ToSet(s)
    BY <1>1 DEF ToSet
  <2> QED BY <2>1, <2>2, <2>3 DEF ToSet
<1>3. ASSUME IsInjective(s) PROVE IsInjective(t) /\ Head(s) \notin ToSet(t)
  <2>1. \A i, j \in DOMAIN t : t[i] = t[j] => i + 1 = j + 1
    BY <1>1, <1>3 DEF IsInjective
  <2>2. \A i \in DOMAIN t : t[i] # s[1]
    BY <1>1, <1>3 DEF IsInjective
  <2> QED BY <1>1, <2>1, <2>2 DEF IsInjective, ToSet
<1> QED BY <1>1, <1>2, <1>3 DEF t

\* The order of two sequences one after the other.
LEMMA ConcatFacts ==
    ASSUME NEW f \in Seq(Messages), NEW b \in Seq(Messages)
    PROVE  /\ f \o b \in Seq(Messages)
           /\ Len(f \o b) = Len(f) + Len(b)
           /\ Len(f) \in Nat /\ Len(b) \in Nat
           /\ DOMAIN (f \o b) = 1 .. (Len(f) + Len(b))
           /\ \A i \in 1 .. Len(f) : (f \o b)[i] = f[i]
           /\ \A i \in 1 .. Len(b) : (f \o b)[Len(f) + i] = b[i]
  OBVIOUS

\* flush_byte_buffer, after a complete or a failed write: the file gets a prefix
\* of what was to be written, and the others are lost only if the write failed.
LEMMA FlushFacts ==
    ASSUME file \in Seq(Messages), lost \subseteq Messages, fails \in Nat, fails <= MaxFails,
           NEW b \in Seq(Messages), flush_byte_buffer(b)
    PROVE  /\ file' \in Seq(Messages) /\ buffer' = <<>> /\ log' = file'
           /\ lost' \subseteq Messages
           /\ fails' \in Nat /\ fails' <= MaxFails
           /\ \E L : /\ lost' = lost \cup L
                     /\ ToSet(file \o b) = ToSet(log') \cup L
                     /\ IsInjective(file \o b) => IsInjective(log') /\ ToSet(log') \cap L = {}
                     /\ InOrder(file \o b) => InOrder(log')
                     /\ fails' = 0 => L = {} /\ fails = 0
<1>1. PICK n \in 0 .. Len(b) :
        /\ n < Len(b) => fails < MaxFails
        /\ fails' = IF n = Len(b) THEN fails ELSE fails + 1
        /\ file' = file \o SubSeq(b, 1, n)
        /\ buffer' = <<>>
        /\ lost' = lost \cup ToSet(SubSeq(b, n + 1, Len(b)))
  BY DEF flush_byte_buffer
<1> DEFINE c == SubSeq(b, 1, n)
           r == SubSeq(b, n + 1, Len(b))
           all == file \o b
           g == file \o c
           L == ToSet(r)
<1>2. /\ Len(b) \in Nat /\ n \in Nat /\ n <= Len(b)
      /\ c \in Seq(Messages) /\ Len(c) = n /\ \A i \in 1 .. n : c[i] = b[i]
      /\ r \in Seq(Messages) /\ Len(r) = Len(b) - n
      /\ \A i \in 1 .. (Len(b) - n) : r[i] = b[n + i]
  <2>1. Len(b) \in Nat /\ n \in Nat /\ n <= Len(b) /\ \A i \in 1 .. Len(b) : b[i] \in Messages
    OBVIOUS
  <2>2. c \in Seq(Messages) /\ Len(c) = n /\ \A i \in 1 .. n : c[i] = b[i]
    <3>1. \A i \in 1 .. n : b[i] \in Messages
      BY <2>1
    <3> QED BY <2>1, <3>1, SubSeqProperties
  <2>3. /\ r \in Seq(Messages) /\ Len(r) = Len(b) - n
        /\ \A i \in 1 .. (Len(b) - n) : r[i] = b[n + i]
    BY <2>1, SubSeqProperties
  <2> QED BY <2>1, <2>2, <2>3
<1>3. /\ DOMAIN r = 1 .. (Len(b) - n)
      /\ all \in Seq(Messages) /\ Len(file) \in Nat /\ DOMAIN all = 1 .. (Len(file) + Len(b))
      /\ \A i \in 1 .. Len(file) : all[i] = file[i]
      /\ \A i \in 1 .. Len(b) : all[Len(file) + i] = b[i]
  BY <1>2, ConcatFacts
<1>4. /\ g \in Seq(Messages) /\ DOMAIN g = 1 .. (Len(file) + n)
      /\ \A i \in 1 .. Len(file) : g[i] = file[i]
      /\ \A i \in 1 .. n : g[Len(file) + i] = c[i]
  BY <1>2, ConcatFacts, SMTT(60)
<1>5. file' = g /\ buffer' = <<>> /\ lost' = lost \cup L
  BY <1>1
<1>6. log' = g
  <2>1. g \o <<>> = g
    BY <1>4
  <2> QED BY <1>5, <2>1 DEF log
<1> HIDE DEF c, r, all, g
<1>7. \A i \in 1 .. (Len(file) + n) : g[i] = all[i]
  <2> TAKE i \in 1 .. (Len(file) + n)
  <2>1. CASE i <= Len(file)
    BY <2>1, <1>3, <1>4
  <2>2. CASE i > Len(file)
    <3> DEFINE k == i - Len(file)
    <3>1. k \in 1 .. n /\ k \in 1 .. Len(b) /\ i = Len(file) + k
      BY <2>2, <1>2, <1>3
    <3> HIDE DEF k
    <3> QED BY <3>1, <1>2, <1>3, <1>4
  <2> QED BY <2>1, <2>2, <1>3
<1>8. \A i \in DOMAIN r : r[i] = all[Len(file) + n + i]
  <2> TAKE i \in DOMAIN r
  <2>1. n + i \in 1 .. Len(b) /\ Len(file) + (n + i) = Len(file) + n + i
    BY <1>2, <1>3
  <2> QED BY <2>1, <1>2, <1>3
<1>d. /\ Len(file) \in Nat /\ Len(b) \in Nat /\ n \in Nat /\ n <= Len(b)
      /\ DOMAIN all = 1 .. (Len(file) + Len(b))
      /\ DOMAIN g = 1 .. (Len(file) + n)
      /\ DOMAIN r = 1 .. (Len(b) - n)
  BY <1>2, <1>3, <1>4
<1>p. \A i \in DOMAIN g : i \in DOMAIN all /\ g[i] = all[i]
  BY <1>d, <1>7
<1>q. \A i \in DOMAIN r : Len(file) + n + i \in DOMAIN all /\ r[i] = all[Len(file) + n + i]
  BY <1>d, <1>8
<1>9. ToSet(all) = ToSet(g) \cup L
  <2>1. ASSUME NEW i \in DOMAIN all PROVE all[i] \in ToSet(g) \cup L
    <3>1. CASE i <= Len(file) + n
      <4>1. i \in DOMAIN g
        BY <3>1, <1>d
      <4> QED BY <4>1, <1>p DEF ToSet
    <3>2. CASE i > Len(file) + n
      <4> DEFINE k == i - (Len(file) + n)
      <4>1. k \in DOMAIN r /\ i = Len(file) + n + k
        BY <3>2, <1>d
      <4> HIDE DEF k
      <4>2. all[i] = r[k]
        BY <4>1, <1>8
      <4> QED BY <4>1, <4>2 DEF ToSet
    <3> QED BY <3>1, <3>2, <1>d
  <2>2. ToSet(g) \subseteq ToSet(all)
    BY <1>p DEF ToSet
  <2>3. L \subseteq ToSet(all)
    BY <1>q DEF ToSet
  <2>4. ToSet(all) \subseteq ToSet(g) \cup L
    <3> SUFFICES ASSUME NEW x \in ToSet(all) PROVE x \in ToSet(g) \cup L
      OBVIOUS
    <3>1. PICK i \in DOMAIN all : x = all[i]
      BY DEF ToSet
    <3> QED BY <3>1, <2>1
  <2> QED BY <2>2, <2>3, <2>4
<1>10. ASSUME IsInjective(all) PROVE IsInjective(g) /\ ToSet(g) \cap L = {}
  <2>1. IsInjective(g)
    BY <1>10, <1>p DEF IsInjective
  <2>2. ASSUME NEW i \in DOMAIN g, NEW j \in DOMAIN r, g[i] = r[j] PROVE FALSE
    <3>1. i # Len(file) + n + j
      BY <1>d
    <3> QED BY <3>1, <2>2, <1>p, <1>q, <1>10 DEF IsInjective
  <2> QED BY <2>1, <2>2 DEF ToSet
<1>11. ASSUME InOrder(all) PROVE InOrder(g)
  BY <1>11, <1>p DEF InOrder
<1>12. L \subseteq Messages
  BY <1>2, <1>3 DEF ToSet
<1>13. fails' \in Nat /\ fails' <= MaxFails
  BY <1>1, <1>2, LogAssumption
<1>14. fails' = 0 => L = {} /\ fails = 0
  <2> SUFFICES ASSUME fails' = 0 PROVE L = {} /\ fails = 0
    OBVIOUS
  <2>1. n = Len(b) /\ fails = 0
    BY <1>1, <1>2
  <2>2. DOMAIN r = {}
    BY <2>1, <1>2, <1>3
  <2> QED BY <2>1, <2>2 DEF ToSet
<1>15. /\ ToSet(all) = ToSet(log') \cup L
       /\ IsInjective(all) => IsInjective(log') /\ ToSet(log') \cap L = {}
       /\ InOrder(all) => InOrder(log')
  BY <1>6, <1>9, <1>10, <1>11
<1> HIDE DEF L
<1> QED BY <1>4, <1>5, <1>6, <1>12, <1>13, <1>14, <1>15 DEF all

-----------------------------------------------------------------------------
\* The steps.

\* What has been put into the buffer is a sequence of messages.
LEMMA LogType ==
    ASSUME TypeInv
    PROVE  /\ log \in Seq(Messages)
           /\ ToSet(log) \subseteq Messages /\ ToSet(channel) \subseteq Messages
           /\ Messages \subseteq Nat
<1>1. log \in Seq(Messages)
  BY DEF TypeInv, log
<1> QED BY <1>1, LogAssumption DEF TypeInv, ToSet, Messages

\* Init establishes the invariant.
LEMMA InitInv == Init => IInv
<1> SUFFICES ASSUME Init PROVE IInv
  OBVIOUS
<1>1. <<>> \in Seq(Messages) /\ <<>> \o <<>> = <<>> /\ ToSet(<<>>) = {} /\ DOMAIN <<>> = {}
  BY DEF ToSet
<1>2. TypeInv
  <2>1. late \in BOOLEAN
    BY DEF Init
  <2>2. /\ spawned \subseteq Messages /\ lost \subseteq Messages /\ due \subseteq Messages
        /\ discarded \subseteq Messages /\ pending_messages \subseteq Messages
        /\ channel \in Seq(Messages) /\ buffer \in Seq(Messages) /\ file \in Seq(Messages)
    BY <1>1 DEF Init
  <2>3. /\ LOG_SEQUENCE \in Nat /\ LOG_SEQUENCE <= MaxSeq /\ next_seq \in Nat /\ next_seq <= MaxSeq
        /\ fails \in Nat /\ fails <= MaxFails
    BY LogAssumption DEF Init
  <2> QED BY <2>1, <2>2, <2>3 DEF Init, TypeInv
<1>3. OnceInv
  BY <1>1 DEF Init, OnceInv, log, IsInjective
<1>4. OrderInv
  BY <1>1 DEF Init, OrderInv, log, InOrder
<1>5. BoundInv
  BY FS_EmptySet, LogAssumption DEF Init, BoundInv
<1>6. FlushInv
  BY DEF Init, FlushInv, Listening
<1>7. DiscardInv
  BY <1>1 DEF Init, DiscardInv
<1> QED BY <1>2, <1>3, <1>4, <1>5, <1>6, <1>7 DEF IInv

\* A number is given out once.
LEMMA DebugLogKeeps == ASSUME IInv, debug_log PROVE IInv'
<1>1. TypeInv /\ OnceInv /\ OrderInv /\ BoundInv /\ FlushInv /\ DiscardInv
  BY DEF IInv
<1>2. /\ LOG_SEQUENCE < MaxSeq /\ LOG_SEQUENCE' = LOG_SEQUENCE + 1
      /\ spawned' = spawned \cup {LOG_SEQUENCE}
      /\ UNCHANGED <<channel, pending_messages, next_seq, buffer, file, lost,
                     writer, flush, due, discarded, late, fails>>
      /\ log' = log
  BY DEF debug_log, log
<1>3. /\ LOG_SEQUENCE \in Nat /\ LOG_SEQUENCE \notin 0 .. (LOG_SEQUENCE - 1)
      /\ LOG_SEQUENCE \in Messages
      /\ 0 .. (LOG_SEQUENCE' - 1) = (0 .. (LOG_SEQUENCE - 1)) \cup {LOG_SEQUENCE}
  BY <1>1, <1>2, LogAssumption DEF TypeInv, Messages
<1>4. TypeInv'
  BY <1>1, <1>2, <1>3, LogAssumption DEF TypeInv
<1>5. OnceInv'
  BY <1>1, <1>2, <1>3 DEF OnceInv
<1>6. OrderInv' /\ BoundInv'
  BY <1>1, <1>2 DEF OrderInv, BoundInv
<1>7. FlushInv'
  BY <1>1, <1>2, <1>3 DEF FlushInv, Listening
<1>d. DiscardInv'
  BY <1>1, <1>2, <1>3 DEF DiscardInv, Listening
<1> QED BY <1>4, <1>5, <1>6, <1>7, <1>d DEF IInv

\* A sending task moves its message to the channel, or loses it when the writer
\* is gone: it was then not sent before the flush.
LEMMA SubmitKeeps == ASSUME NEW m \in spawned, IInv, submit_debug_log(m) PROVE IInv'
<1>1. TypeInv /\ OnceInv /\ OrderInv /\ BoundInv /\ FlushInv /\ DiscardInv
  BY DEF IInv
<1>2. /\ m \in Messages /\ spawned' = spawned \ {m}
      /\ writer' = IF writer = "absent" THEN "select" ELSE writer
      /\ UNCHANGED <<LOG_SEQUENCE, pending_messages, next_seq, buffer, file,
                     flush, due, discarded, late, fails>>
      /\ log' = log
      /\ m \notin ToSet(channel)
  BY <1>1 DEF submit_debug_log, log, TypeInv, OnceInv
<1>3. OrderInv'
  BY <1>1, <1>2 DEF OrderInv
<1>4. BoundInv'
  BY <1>1, <1>2 DEF BoundInv
<1>5. CASE writer # "stopped" /\ channel' = Append(channel, m) /\ UNCHANGED lost
  <2>1. /\ channel' \in Seq(Messages) /\ ToSet(channel') = ToSet(channel) \cup {m}
        /\ IsInjective(channel')
    BY <1>1, <1>2, <1>5, AppendFacts DEF TypeInv, OnceInv
  <2>2. TypeInv'
    BY <1>1, <1>2, <1>5, <2>1 DEF TypeInv
  <2>3. OnceInv'
    BY <1>1, <1>2, <1>5, <2>1 DEF OnceInv
  <2>4. FlushInv'
    BY <1>1, <1>2, <1>5, <2>1 DEF FlushInv, Listening, TypeInv
  <2>5. DiscardInv'
    BY <1>1, <1>2, <1>5, <2>1 DEF DiscardInv, Listening
  <2> QED BY <2>2, <2>3, <2>4, <2>5, <1>3, <1>4 DEF IInv
<1>6. CASE writer = "stopped" /\ lost' = lost \cup {m} /\ UNCHANGED channel
  <2>1. TypeInv'
    BY <1>1, <1>2, <1>6 DEF TypeInv
  <2>2. OnceInv'
    BY <1>1, <1>2, <1>6 DEF OnceInv
  <2>3. FlushInv'
    BY <1>1, <1>2, <1>6 DEF FlushInv, Listening, TypeInv
  <2>4. DiscardInv'
    BY <1>1, <1>2, <1>6 DEF DiscardInv, Listening
  <2> QED BY <2>1, <2>2, <2>3, <2>4, <1>3, <1>4 DEF IInv
<1> QED BY <1>5, <1>6 DEF submit_debug_log

\* A message is received; the writer then waits for the same number or, if too
\* many wait, for the oldest one.
LEMMA ReceiveKeeps == ASSUME IInv, receive PROVE IInv'
<1>1. TypeInv /\ OnceInv /\ OrderInv /\ BoundInv /\ FlushInv /\ DiscardInv
  BY DEF IInv
<1> DEFINE m == Head(channel)
<1>2. /\ writer = "select" /\ writer' = "drain" /\ channel # <<>> /\ channel' = Tail(channel)
      /\ pending_messages' = pending_messages \cup {m}
      /\ late' = (late \/ m < next_seq)
      /\ next_seq' = IF Overfull(pending_messages') THEN Oldest(pending_messages') ELSE next_seq
      /\ UNCHANGED <<LOG_SEQUENCE, spawned, buffer, file, lost, flush, due, discarded, fails>>
      /\ log' = log
  BY DEF receive, SkipTo, log
<1>3. /\ m \in Messages /\ channel' \in Seq(Messages)
      /\ ToSet(channel) = ToSet(channel') \cup {m}
      /\ IsInjective(channel') /\ m \notin ToSet(channel')
  BY <1>1, <1>2, TailFacts DEF TypeInv, OnceInv
<1> HIDE DEF m
<1>4. pending_messages' \subseteq Messages /\ pending_messages' # {}
  BY <1>1, <1>2, <1>3 DEF TypeInv
<1>5. /\ Oldest(pending_messages') \in pending_messages'
      /\ \A t \in pending_messages' : Oldest(pending_messages') <= t
  BY <1>4, OldestFacts
<1>6. next_seq' \in Nat /\ next_seq' <= MaxSeq
  BY <1>1, <1>2, <1>4, <1>5, LogAssumption DEF TypeInv, Messages
<1>7. TypeInv'
  BY <1>1, <1>2, <1>3, <1>4, <1>6 DEF TypeInv
<1>8. OnceInv'
  BY <1>1, <1>2, <1>3 DEF OnceInv
<1>9. OrderInv'
  <2> SUFFICES ASSUME ~late' PROVE /\ InOrder(log) /\ \A x \in ToSet(log) : x < next_seq'
                                   /\ \A x \in pending_messages' : next_seq' <= x
    BY <1>2 DEF OrderInv
  <2>1. ~late /\ ~(m < next_seq)
    BY <1>2
  <2>2. InOrder(log) /\ \A x \in ToSet(log) : x < next_seq
    BY <1>1, <2>1 DEF OrderInv
  <2>3. \A x \in pending_messages' : x \in Nat /\ next_seq <= x
    BY <1>1, <1>2, <1>3, <1>4, <2>1, LogType DEF OrderInv, TypeInv
  <2>4. next_seq <= next_seq' /\ \A x \in pending_messages' : next_seq' <= x
    <3>1. CASE next_seq' = next_seq
      BY <3>1, <1>1, <2>3 DEF TypeInv
    <3>2. CASE next_seq' = Oldest(pending_messages')
      BY <3>2, <1>5, <2>3
    <3> QED BY <3>1, <3>2, <1>2
  <2> QED BY <1>1, <1>6, <2>2, <2>4, LogType DEF TypeInv
<1>10. BoundInv'
  <2>1. IsFiniteSet(pending_messages) /\ Cardinality(pending_messages) \in Nat
    BY <1>1, WaitingIsFinite DEF TypeInv
  <2>2. /\ Cardinality(pending_messages') <= Cardinality(pending_messages) + 1
        /\ Cardinality(pending_messages') \in Nat
    <3>1. Cardinality(pending_messages \cup {m}) =
            IF m \in pending_messages THEN Cardinality(pending_messages)
            ELSE Cardinality(pending_messages) + 1
      BY <2>1, FS_AddElement
    <3> QED BY <3>1, <2>1, <1>2
  <2>3. Cardinality(pending_messages) <= MAX_PENDING_MESSAGES
    BY <1>1, <1>2 DEF BoundInv
  <2>4. Cardinality(pending_messages') > MAX_PENDING_MESSAGES
          => next_seq' \in pending_messages'
    BY <1>2, <1>5 DEF Overfull
  <2>5. \/ Cardinality(pending_messages') <= MAX_PENDING_MESSAGES
        \/ Cardinality(pending_messages') = MAX_PENDING_MESSAGES + 1
    BY <2>1, <2>2, <2>3, LogAssumption
  <2> QED BY <1>2, <2>2, <2>4, <2>5, LogAssumption DEF BoundInv
<1>11. FlushInv'
  BY <1>1, <1>2, <1>3 DEF FlushInv, Listening
<1>d. DiscardInv'
  BY <1>1, <1>2 DEF DiscardInv, Listening
<1> QED BY <1>7, <1>8, <1>9, <1>10, <1>11, <1>d DEF IInv

\* The message next in line goes to the buffer, which may be flushed; or the
\* loop ends at a gap.
LEMMA DrainKeeps == ASSUME IInv, drain PROVE IInv'
<1>1. TypeInv /\ OnceInv /\ OrderInv /\ BoundInv /\ FlushInv /\ DiscardInv
  BY DEF IInv
<1>2. /\ writer = "drain"
      /\ UNCHANGED <<LOG_SEQUENCE, spawned, channel, flush, due, discarded, late>>
  BY DEF drain
<1>3. CASE /\ next_seq \notin pending_messages /\ writer' = "select"
           /\ UNCHANGED <<pending_messages, next_seq, buffer, file, lost, fails>>
  <2>1. log' = log
    BY <1>3 DEF log
  <2>2. TypeInv' /\ OrderInv'
    BY <1>1, <1>2, <1>3, <2>1 DEF TypeInv, OrderInv
  <2>3. OnceInv'
    BY <1>1, <1>2, <1>3, <2>1 DEF OnceInv
  <2>4. BoundInv'
    BY <1>1, <1>2, <1>3 DEF BoundInv
  <2>5. FlushInv'
    BY <1>1, <1>2, <1>3, <2>1 DEF FlushInv, Listening
  <2>6. DiscardInv'
    BY <1>1, <1>2, <1>3 DEF DiscardInv, Listening
  <2> QED BY <2>2, <2>3, <2>4, <2>5, <2>6 DEF IInv
<1>4. CASE /\ next_seq \in pending_messages
           /\ pending_messages' = pending_messages \ {next_seq}
           /\ next_seq' = next_seq + 1
           /\ IF Len(buffer) + 1 >= BUFFER_CAPACITY
                THEN flush_byte_buffer(Append(buffer, next_seq))
                ELSE buffer' = Append(buffer, next_seq) /\ UNCHANGED <<file, lost, fails>>
           /\ UNCHANGED writer
  <2> DEFINE all == Append(log, next_seq)
  <2>1. next_seq \in Messages /\ next_seq \in Nat /\ next_seq' \in Nat /\ next_seq' <= MaxSeq
    BY <1>1, <1>4, LogAssumption DEF TypeInv, Messages
  <2>2. /\ all \in Seq(Messages) /\ ToSet(all) = ToSet(log) \cup {next_seq}
        /\ IsInjective(all)
        /\ ~late => InOrder(all)
    <3>1. log \in Seq(Messages) /\ next_seq \notin ToSet(log) /\ IsInjective(log)
      BY <1>1, <1>4, LogType DEF OnceInv
    <3> QED BY <1>1, <2>1, <3>1, AppendFacts DEF OrderInv
  <2>3. Append(buffer, next_seq) \in Seq(Messages) /\ all = file \o Append(buffer, next_seq)
    <3>1. file \in Seq(Messages) /\ buffer \in Seq(Messages)
      BY <1>1 DEF TypeInv
    <3> QED BY <2>1, <3>1, SMTT(60) DEF log
  <2> HIDE DEF all
  <2>4. PICK L : /\ buffer' \in Seq(Messages) /\ file' \in Seq(Messages)
                 /\ lost' \subseteq Messages /\ lost' = lost \cup L
                 /\ fails' \in Nat /\ fails' <= MaxFails
                 /\ ToSet(all) = ToSet(log') \cup L
                 /\ IsInjective(log') /\ ToSet(log') \cap L = {}
                 /\ InOrder(all) => InOrder(log')
                 /\ fails' = 0 => L = {} /\ fails = 0
    <3>1. CASE flush_byte_buffer(Append(buffer, next_seq))
      <4>1. <<>> \in Seq(Messages)
        OBVIOUS
      <4>2. /\ file \in Seq(Messages) /\ lost \subseteq Messages /\ fails \in Nat /\ fails <= MaxFails
        BY <1>1 DEF TypeInv
      <4> QED BY <3>1, <4>1, <4>2, <2>2, <2>3, FlushFacts
    <3>2. CASE buffer' = Append(buffer, next_seq) /\ UNCHANGED <<file, lost, fails>>
      <4>1. log' = all
        BY <3>2, <2>3 DEF log
      <4> WITNESS {}
      <4> QED BY <1>1, <3>2, <4>1, <2>2, <2>3 DEF TypeInv
    <3> QED BY <3>1, <3>2, <1>4
  <2>5. TypeInv'
    BY <1>1, <1>2, <1>4, <2>1, <2>4 DEF TypeInv
  <2>6. OnceInv'
    BY <1>1, <1>2, <1>4, <2>2, <2>4 DEF OnceInv
  <2>7. OrderInv'
    <3> SUFFICES ASSUME ~late PROVE /\ InOrder(log') /\ \A x \in ToSet(log') : x < next_seq + 1
                                    /\ \A x \in pending_messages' : next_seq + 1 <= x
      BY <1>2, <1>4 DEF OrderInv
    <3>1. InOrder(log')
      BY <2>2, <2>4
    <3>2. \A x \in ToSet(all) : x < next_seq + 1
      <4>1. \A x \in ToSet(log) : x \in Nat /\ x < next_seq
        BY <1>1, LogType DEF OrderInv
      <4> QED BY <2>1, <2>2, <4>1
    <3>3. \A x \in pending_messages' : next_seq + 1 <= x
      BY <1>1, <1>4, <2>1, LogType DEF OrderInv, TypeInv
    <3> QED BY <3>1, <3>2, <3>3, <2>4
  <2>8. BoundInv'
    <3>1. IsFiniteSet(pending_messages) /\ Cardinality(pending_messages) \in Nat
      BY <1>1, WaitingIsFinite DEF TypeInv
    <3>2. Cardinality(pending_messages') = Cardinality(pending_messages) - 1
      BY <3>1, <1>4, FS_RemoveElement
    <3>3. Cardinality(pending_messages) <= MAX_PENDING_MESSAGES + 1
      BY <1>1, <1>2, <3>1, LogAssumption DEF BoundInv
    <3>4. Cardinality(pending_messages') <= MAX_PENDING_MESSAGES
      BY <3>1, <3>2, <3>3, LogAssumption
    <3> QED BY <1>2, <1>4, <3>4 DEF BoundInv
  <2>9. FlushInv'
    <3>1. writer' = "drain" /\ Listening /\ Listening'
      BY <1>2, <1>4 DEF Listening
    <3>2. ASSUME fails' = 0 PROVE /\ flush' = "idle" => lost' = {}
                                  /\ flush' # "idle" =>
                                       due' \subseteq pending_messages' \cup ToSet(log') \cup ToSet(channel')
      <4>1. fails = 0 /\ lost' = lost /\ ToSet(log') = ToSet(log) \cup {next_seq}
        BY <2>2, <2>4, <3>2
      <4> QED BY <1>1, <1>2, <1>4, <3>1, <4>1 DEF FlushInv
    <3>3. flush' = "done" => due' = {}
      BY <1>1, <1>2 DEF FlushInv
    <3> QED BY <3>1, <3>2, <3>3 DEF FlushInv
  <2>10. DiscardInv'
    BY <1>1, <1>2, <1>4 DEF DiscardInv, Listening
  <2> QED BY <2>5, <2>6, <2>7, <2>8, <2>9, <2>10 DEF IInv
<1> QED BY <1>3, <1>4 DEF drain

\* The flush of the buffer as it is, with a number to wait for that leaves nothing
\* behind: the timer and the last flush.
LEMMA FlushKeeps ==
    ASSUME IInv, flush_byte_buffer(buffer),
           UNCHANGED <<LOG_SEQUENCE, spawned, channel, pending_messages, flush, due, discarded, late>>
    PROVE  /\ OnceInv'
           /\ file' \in Seq(Messages) /\ buffer' = <<>> /\ lost' \subseteq Messages
           /\ fails' \in Nat /\ fails' <= MaxFails
           /\ ToSet(log') \subseteq ToSet(log)
           /\ InOrder(log) => InOrder(log')
           /\ fails' = 0 => lost' = lost /\ ToSet(log') = ToSet(log) /\ fails = 0
<1>1. TypeInv /\ OnceInv
  BY DEF IInv
<1>2. /\ file \in Seq(Messages) /\ lost \subseteq Messages /\ fails \in Nat /\ fails <= MaxFails
      /\ buffer \in Seq(Messages) /\ log = file \o buffer
  BY <1>1 DEF TypeInv, log
<1>3. PICK L : /\ buffer' = <<>> /\ file' \in Seq(Messages)
               /\ lost' \subseteq Messages /\ lost' = lost \cup L
               /\ fails' \in Nat /\ fails' <= MaxFails
               /\ ToSet(log) = ToSet(log') \cup L
               /\ IsInjective(log) => IsInjective(log') /\ ToSet(log') \cap L = {}
               /\ InOrder(log) => InOrder(log')
               /\ fails' = 0 => L = {} /\ fails = 0
  BY <1>2, FlushFacts
<1>4. OnceInv'
  BY <1>1, <1>3 DEF OnceInv
<1> QED BY <1>3, <1>4

\* The timer.
LEMMA TickKeeps == ASSUME IInv, tick PROVE IInv'
<1>1. TypeInv /\ OnceInv /\ OrderInv /\ BoundInv /\ FlushInv /\ DiscardInv
  BY DEF IInv
<1>2. /\ writer = "select" /\ writer' = "select" /\ flush_byte_buffer(buffer)
      /\ UNCHANGED <<LOG_SEQUENCE, spawned, channel, pending_messages, flush, due, discarded, late>>
      /\ \/ next_seq' = next_seq
         \/ pending_messages # {} /\ next_seq' = Oldest(pending_messages)
              /\ Oldest(pending_messages) > next_seq + OUT_OF_ORDER_THRESHOLD
  BY DEF tick, SkipTo
<1>3. /\ OnceInv'
      /\ file' \in Seq(Messages) /\ buffer' = <<>> /\ lost' \subseteq Messages
      /\ fails' \in Nat /\ fails' <= MaxFails
      /\ ToSet(log') \subseteq ToSet(log)
      /\ InOrder(log) => InOrder(log')
      /\ fails' = 0 => lost' = lost /\ ToSet(log') = ToSet(log) /\ fails = 0
  BY <1>2, FlushKeeps
<1>4. /\ next_seq \in Nat /\ next_seq' \in Nat /\ next_seq' <= MaxSeq /\ next_seq <= next_seq'
      /\ (\A x \in pending_messages : next_seq <= x) => \A x \in pending_messages : next_seq' <= x
  <2>1. CASE next_seq' = next_seq
    BY <2>1, <1>1 DEF TypeInv
  <2>2. CASE pending_messages # {} /\ next_seq' = Oldest(pending_messages)
               /\ Oldest(pending_messages) > next_seq + OUT_OF_ORDER_THRESHOLD
    <3>1. /\ next_seq' \in pending_messages /\ \A x \in pending_messages : next_seq' <= x
          /\ pending_messages \subseteq Messages /\ next_seq \in Nat
      BY <1>1, <2>2, OldestFacts DEF TypeInv
    <3>2. next_seq' \in Nat /\ next_seq' <= MaxSeq
      BY <3>1, LogAssumption DEF Messages
    <3> QED BY <2>2, <3>1, <3>2, LogAssumption
  <2> QED BY <1>2, <2>1, <2>2
<1>5. TypeInv'
  <2>1. <<>> \in Seq(Messages)
    OBVIOUS
  <2> QED BY <2>1, <1>1, <1>2, <1>3, <1>4 DEF TypeInv
<1>6. OrderInv'
  BY <1>1, <1>2, <1>3, <1>4, LogType DEF OrderInv
<1>7. BoundInv'
  BY <1>1, <1>2 DEF BoundInv
<1>8. FlushInv'
  BY <1>1, <1>2, <1>3 DEF FlushInv, Listening
<1>d. DiscardInv'
  BY <1>1, <1>2 DEF DiscardInv, Listening
<1> QED BY <1>3, <1>5, <1>6, <1>7, <1>8, <1>d DEF IInv

\* The flush is asked for: what was sent by now is due, nothing if there is no
\* writer yet.
LEMMA FlushAllKeeps == ASSUME IInv, flush_all_debug_logs PROVE IInv'
<1>1. TypeInv /\ OnceInv /\ OrderInv /\ BoundInv /\ FlushInv /\ DiscardInv
  BY DEF IInv
<1>2. /\ flush = "idle" /\ due' = (0 .. LOG_SEQUENCE - 1) \ spawned
      /\ flush' = IF writer = "absent" THEN "done" ELSE "waiting"
      /\ UNCHANGED <<LOG_SEQUENCE, spawned, channel, pending_messages, next_seq,
                     buffer, file, lost, discarded, writer, late, fails>>
      /\ log' = log
  BY DEF flush_all_debug_logs, log
<1>3. /\ Listening /\ Listening' /\ discarded = {}
      /\ writer = "absent" => due' = {}
      /\ due' \subseteq Messages
      /\ fails = 0 => due' \subseteq pending_messages \cup ToSet(log) \cup ToSet(channel)
  <2>1. Listening /\ Listening'
    BY <1>1, <1>2 DEF FlushInv, Listening
  <2>2. 0 .. (LOG_SEQUENCE - 1) \subseteq Messages
    BY <1>1, LogAssumption DEF TypeInv, Messages
  <2>3. writer = "absent" => due' = {}
    BY <1>1, <1>2 DEF FlushInv
  <2>4. discarded = {}
    BY <1>1, <2>1 DEF DiscardInv, Listening
  <2>5. fails = 0 => due' \subseteq pending_messages \cup ToSet(log) \cup ToSet(channel)
    BY <1>1, <1>2, <2>4 DEF FlushInv, OnceInv
  <2> QED BY <2>1, <2>2, <2>3, <2>4, <2>5, <1>2
<1>4. TypeInv'
  BY <1>1, <1>2, <1>3 DEF TypeInv
<1>5. OnceInv'
  BY <1>1, <1>2 DEF OnceInv
<1>6. OrderInv' /\ BoundInv'
  BY <1>1, <1>2 DEF OrderInv, BoundInv
<1>7. FlushInv'
  <2>1. /\ writer' = "absent" => spawned' = 0 .. LOG_SEQUENCE' - 1
        /\ writer' \in {"ended", "stopped"} => pending_messages' = {} /\ buffer' = <<>>
    BY <1>1, <1>2 DEF FlushInv
  <2>2. flush' # "idle" /\ (flush' = "done" => due' = {})
    BY <1>2, <1>3
  <2> QED BY <2>1, <2>2, <1>2, <1>3 DEF FlushInv
<1>d. DiscardInv'
  BY <1>2, <1>3 DEF DiscardInv
<1> QED BY <1>4, <1>5, <1>6, <1>7, <1>d DEF IInv

\* The writer stops listening: the channel joins what waits.
LEMMA StopKeeps == ASSUME IInv, stop PROVE IInv'
<1>1. TypeInv /\ OnceInv /\ OrderInv /\ BoundInv /\ FlushInv /\ DiscardInv
  BY DEF IInv
<1>2. /\ writer = "select" /\ writer' = "closing" /\ flush # "idle"
      /\ pending_messages' = pending_messages \cup ToSet(channel)
      /\ late' = (late \/ \E s \in ToSet(channel) : s < next_seq)
      /\ channel' = <<>>
      /\ UNCHANGED <<LOG_SEQUENCE, spawned, next_seq, buffer, file, lost, flush, due, discarded, fails>>
      /\ log' = log
  BY DEF stop, Remaining, log
<1>3. channel' \in Seq(Messages) /\ ToSet(channel') = {} /\ IsInjective(channel')
  BY <1>2 DEF ToSet, IsInjective
<1>4. TypeInv'
  BY <1>1, <1>2, <1>3, LogType DEF TypeInv
<1>5. OnceInv'
  BY <1>1, <1>2, <1>3 DEF OnceInv
<1>6. OrderInv'
  <2> SUFFICES ASSUME ~late' PROVE /\ InOrder(log) /\ \A m \in ToSet(log) : m < next_seq
                                   /\ \A m \in pending_messages' : next_seq <= m
    BY <1>2 DEF OrderInv
  <2>1. ~late /\ \A s \in ToSet(channel) : ~(s < next_seq)
    BY <1>2
  <2>2. \A m \in ToSet(channel) : next_seq <= m
    BY <1>1, <2>1, LogType DEF TypeInv
  <2> QED BY <1>1, <1>2, <2>1, <2>2 DEF OrderInv
<1>7. BoundInv'
  BY <1>2 DEF BoundInv
<1>8. FlushInv'
  BY <1>1, <1>2 DEF FlushInv, Listening
<1>d. DiscardInv'
  BY <1>1, <1>2, <1>3 DEF DiscardInv, Listening
<1> QED BY <1>4, <1>5, <1>6, <1>7, <1>8, <1>d DEF IInv

\* The oldest message that waits is put into the buffer.
LEMMA WriteRestKeeps == ASSUME IInv, write_rest PROVE IInv'
<1>1. TypeInv /\ OnceInv /\ OrderInv /\ BoundInv /\ FlushInv /\ DiscardInv
  BY DEF IInv
<1> DEFINE seq == Oldest(pending_messages)
<1>2. /\ writer = "closing" /\ writer' = "closing"
      /\ pending_messages' = pending_messages \ {seq}
      /\ buffer' = Append(buffer, seq)
      /\ next_seq' = seq + 1
      /\ UNCHANGED <<LOG_SEQUENCE, spawned, channel, file, lost, flush, due, discarded, late, fails>>
  BY DEF write_rest
<1>3. /\ seq \in pending_messages /\ \A t \in pending_messages : seq <= t
      /\ seq \in Messages /\ seq \in Nat /\ seq < MaxSeq
  <2>1. pending_messages \in SUBSET Messages /\ pending_messages # {}
    BY <1>1 DEF write_rest, TypeInv
  <2>2. seq \in pending_messages /\ \A t \in pending_messages : seq <= t
    BY <2>1, OldestFacts
  <2> HIDE DEF seq
  <2> QED BY <2>1, <2>2, LogAssumption DEF Messages
<1> HIDE DEF seq
<1>4. buffer' \in Seq(Messages) /\ log' = Append(log, seq)
  BY <1>1, <1>2, <1>3 DEF TypeInv, log
<1>5. /\ ToSet(log') = ToSet(log) \cup {seq} /\ IsInjective(log')
      /\ InOrder(log) /\ (\A m \in ToSet(log) : m < seq) => InOrder(log')
  <2>1. log \in Seq(Messages) /\ IsInjective(log) /\ seq \notin ToSet(log)
    BY <1>1, <1>3, LogType DEF OnceInv
  <2> QED BY <2>1, <1>3, <1>4, AppendFacts
<1>6. TypeInv'
  BY <1>1, <1>2, <1>3, <1>4, LogAssumption DEF TypeInv
<1>7. OnceInv'
  BY <1>1, <1>2, <1>3, <1>5 DEF OnceInv
<1>8. OrderInv'
  <2> SUFFICES ASSUME ~late PROVE /\ InOrder(log') /\ \A m \in ToSet(log') : m < seq + 1
                                  /\ \A m \in pending_messages' : seq + 1 <= m
    BY <1>2 DEF OrderInv
  <2>1. \A m \in ToSet(log) : m \in Nat /\ m < seq
    <3>1. \A m \in ToSet(log) : m \in Nat /\ m < next_seq
      BY <1>1, LogType DEF OrderInv
    <3>2. next_seq \in Nat /\ next_seq <= seq
      BY <1>1, <1>3 DEF OrderInv, TypeInv
    <3> QED BY <1>3, <3>1, <3>2
  <2>2. InOrder(log')
    BY <1>1, <1>5, <2>1 DEF OrderInv
  <2>3. \A m \in ToSet(log') : m < seq + 1
    BY <1>3, <1>5, <2>1
  <2>4. \A m \in pending_messages' : seq + 1 <= m
    BY <1>1, <1>2, <1>3, LogType DEF TypeInv
  <2> QED BY <2>2, <2>3, <2>4
<1>9. BoundInv'
  BY <1>2 DEF BoundInv
<1>10. FlushInv'
  BY <1>1, <1>2, <1>3, <1>5 DEF FlushInv, Listening
<1>d. DiscardInv'
  BY <1>1, <1>2 DEF DiscardInv, Listening
<1> QED BY <1>6, <1>7, <1>8, <1>9, <1>10, <1>d DEF IInv

\* The last flush.
LEMMA CloseKeeps == ASSUME IInv, close PROVE IInv'
<1>1. TypeInv /\ OnceInv /\ OrderInv /\ BoundInv /\ FlushInv /\ DiscardInv
  BY DEF IInv
<1>2. /\ writer = "closing" /\ writer' = "ended" /\ flush_byte_buffer(buffer)
      /\ pending_messages = {}
      /\ UNCHANGED <<LOG_SEQUENCE, spawned, channel, pending_messages, next_seq, flush, due, discarded, late>>
  BY DEF close
<1>3. /\ OnceInv'
      /\ file' \in Seq(Messages) /\ buffer' = <<>> /\ lost' \subseteq Messages
      /\ fails' \in Nat /\ fails' <= MaxFails
      /\ ToSet(log') \subseteq ToSet(log)
      /\ InOrder(log) => InOrder(log')
      /\ fails' = 0 => lost' = lost /\ ToSet(log') = ToSet(log) /\ fails = 0
  BY <1>2, FlushKeeps
<1>4. TypeInv'
  <2>1. <<>> \in Seq(Messages)
    OBVIOUS
  <2> QED BY <2>1, <1>1, <1>2, <1>3 DEF TypeInv
<1>5. OrderInv'
  BY <1>1, <1>2, <1>3 DEF OrderInv
<1>6. BoundInv'
  BY <1>2 DEF BoundInv
<1>7. FlushInv'
  BY <1>1, <1>2, <1>3 DEF FlushInv, Listening
<1>d. DiscardInv'
  BY <1>1, <1>2 DEF DiscardInv, Listening
<1> QED BY <1>3, <1>4, <1>5, <1>6, <1>7, <1>d DEF IInv

\* The receiver is dropped with what came in after the writer stopped listening.
LEMMA DropKeeps == ASSUME IInv, drop_receiver PROVE IInv'
<1>1. TypeInv /\ OnceInv /\ OrderInv /\ BoundInv /\ FlushInv /\ DiscardInv
  BY DEF IInv
<1>2. /\ writer = "ended" /\ writer' = "stopped"
      /\ discarded' = ToSet(channel) /\ channel' = <<>>
      /\ UNCHANGED <<LOG_SEQUENCE, spawned, pending_messages, next_seq, buffer, file, lost,
                     flush, due, late, fails>>
      /\ log' = log
  BY DEF drop_receiver, log
<1>3. channel' \in Seq(Messages) /\ ToSet(channel') = {} /\ IsInjective(channel')
  BY <1>2 DEF ToSet, IsInjective
<1>4. TypeInv'
  BY <1>1, <1>2, <1>3, LogType DEF TypeInv
<1>n. discarded = {}
  BY <1>1, <1>2 DEF DiscardInv
<1>5. OnceInv'
  BY <1>1, <1>2, <1>3, <1>n DEF OnceInv
<1>6. OrderInv' /\ BoundInv'
  BY <1>1, <1>2 DEF OrderInv, BoundInv
<1>7. FlushInv'
  BY <1>1, <1>2 DEF FlushInv, Listening
<1>d. DiscardInv'
  BY <1>1, <1>2, <1>3 DEF DiscardInv, Listening
<1> QED BY <1>4, <1>5, <1>6, <1>7, <1>d DEF IInv

\* The flush returns.
LEMMA FlushedKeeps == ASSUME IInv, flushed PROVE IInv'
<1>1. TypeInv /\ OnceInv /\ OrderInv /\ BoundInv /\ FlushInv /\ DiscardInv
  BY DEF IInv
<1>2. /\ flush = "waiting" /\ flush' \in {"done", "late"}
      /\ flush' = "done" => writer = "stopped"
      /\ UNCHANGED <<LOG_SEQUENCE, spawned, channel, pending_messages, next_seq,
                     buffer, file, lost, writer, due, discarded, late, fails>>
      /\ log' = log
  BY DEF flushed, log
<1>3. TypeInv'
  BY <1>1, <1>2 DEF TypeInv
<1>4. OnceInv'
  BY <1>1, <1>2 DEF OnceInv
<1>5. OrderInv' /\ BoundInv'
  BY <1>1, <1>2 DEF OrderInv, BoundInv
<1>6. FlushInv'
  BY <1>1, <1>2 DEF FlushInv, Listening
<1>d. DiscardInv'
  BY <1>1, <1>2 DEF DiscardInv, Listening
<1> QED BY <1>3, <1>4, <1>5, <1>6, <1>d DEF IInv

\* Every step of the log keeps the invariant.
LEMMA StepKeeps == IInv /\ [Next]_vars => IInv'
<1> SUFFICES ASSUME IInv, [Next]_vars PROVE IInv'
  OBVIOUS
<1>1. CASE UNCHANGED vars
  <2>1. log' = log
    BY <1>1 DEF vars, log
  <2>2. TypeInv'
    BY <1>1 DEF IInv, TypeInv, vars
  <2>3. OnceInv'
    BY <1>1, <2>1 DEF IInv, OnceInv, vars
  <2>4. OrderInv' /\ BoundInv' /\ FlushInv'
    BY <1>1, <2>1 DEF IInv, OrderInv, BoundInv, FlushInv, Listening, vars
  <2>5. DiscardInv'
    BY <1>1 DEF IInv, DiscardInv, Listening, vars
  <2> QED BY <2>2, <2>3, <2>4, <2>5 DEF IInv
<1>2. CASE Next
  BY <1>2, DebugLogKeeps, SubmitKeeps, ReceiveKeeps, DrainKeeps, TickKeeps, FlushAllKeeps,
     StopKeeps, WriteRestKeeps, CloseKeeps, DropKeeps, FlushedKeeps DEF Next
<1> QED BY <1>1, <1>2

-----------------------------------------------------------------------------
\* The theorems.

\* The invariant holds throughout.
LEMMA LogInvariant == Spec => []IInv
  BY InitInv, StepKeeps, PTL DEF Spec

\* The state of the log is well typed: no message has a number that was not given
\* out, and no more writes fail than the bound allows.
THEOREM DebugLogTypes == Spec => []TypeOK
<1>1. IInv => TypeOK
  BY LogAssumption DEF IInv, TypeInv, TypeOK
<1> QED BY <1>1, LogInvariant, PTL

\* Every message logged is in one place, whatever gaps the writer gives up and
\* whatever writes fail: none is written twice, and only what was sent after the
\* shutdown had been asked for can be dropped with no error printed.
THEOREM MessagesAreKept == Spec => []EveryMessageOnce
<1>1. IInv => EveryMessageOnce
  <2> SUFFICES ASSUME OnceInv, DiscardInv PROVE EveryMessageOnce
    BY DEF IInv
  <2>1. /\ DOMAIN Places = 1 .. 6
        /\ Places[1] = spawned /\ Places[2] = ToSet(channel) /\ Places[3] = pending_messages
        /\ Places[4] = ToSet(log) /\ Places[5] = lost /\ Places[6] = discarded
    BY DEF Places
  <2>2. \A i \in DOMAIN Places : i = 1 \/ i = 2 \/ i = 3 \/ i = 4 \/ i = 5 \/ i = 6
    BY <2>1
  <2>3. ASSUME NEW i \in DOMAIN Places, NEW j \in DOMAIN Places, i # j
        PROVE  Places[i] \cap Places[j] = {}
    BY <2>1, <2>2, <2>3 DEF OnceInv
  <2>4. UNION {Places[i] : i \in DOMAIN Places} = 0 .. LOG_SEQUENCE - 1
    <3>1. UNION {Places[i] : i \in DOMAIN Places}
            = spawned \cup ToSet(channel) \cup pending_messages \cup ToSet(log) \cup lost
                \cup discarded
      <4>1. 1 \in 1 .. 6 /\ 2 \in 1 .. 6 /\ 3 \in 1 .. 6 /\ 4 \in 1 .. 6 /\ 5 \in 1 .. 6 /\ 6 \in 1 .. 6
        OBVIOUS
      <4> QED BY <2>1, <2>2, <4>1
    <3> QED BY <3>1 DEF OnceInv
  <2> QED BY <2>3, <2>4 DEF EveryMessageOnce, OnceInv, DiscardInv
<1> QED BY <1>1, LogInvariant, PTL

\* Unless a message came after it was given up, the file is in order.
THEOREM LogIsOrdered == Spec => []OrderedUnlessLate
<1>1. IInv => OrderedUnlessLate
  <2> SUFFICES ASSUME IInv, ~late PROVE InOrder(log) /\ \A s \in pending_messages : s >= next_seq
    BY DEF OrderedUnlessLate
  <2>1. TypeInv /\ InOrder(log) /\ \A m \in pending_messages : next_seq <= m
    BY DEF IInv, OrderInv
  <2> QED BY <2>1, LogType DEF TypeInv
<1> QED BY <1>1, LogInvariant, PTL

\* At most MAX_PENDING_MESSAGES messages wait when the writer turns to the next
\* event: giving a gap up frees at least the oldest one.
PendingIsBounded ==
    writer = "select" => Cardinality(pending_messages) <= MAX_PENDING_MESSAGES

\* The writer never lets more than MAX_PENDING_MESSAGES wait for the next event.
THEOREM WaitingIsBounded == Spec => []PendingIsBounded
<1>1. IInv => PendingIsBounded
  BY DEF IInv, BoundInv, PendingIsBounded
<1> QED BY <1>1, LogInvariant, PTL

\* A flush that returned in time, without a failed write, has written everything
\* that was sent before it was asked for.
THEOREM FlushIsComplete == Spec => []FlushWritesAll
<1>1. IInv => FlushWritesAll
  <2> SUFFICES ASSUME IInv, flush = "done", fails = 0 PROVE due \subseteq ToSet(file)
    BY DEF FlushWritesAll
  <2>1. TypeInv /\ FlushInv
    BY DEF IInv
  <2>2. CASE due = {}
    BY <2>2
  <2>3. CASE writer = "stopped"
    <3>1. pending_messages = {} /\ buffer = <<>> /\ ~Listening
      BY <2>1, <2>3 DEF FlushInv, Listening
    <3>2. log = file
      BY <2>1, <3>1 DEF TypeInv, log
    <3> QED BY <2>1, <3>1, <3>2 DEF FlushInv
  <2> QED BY <2>1, <2>2, <2>3 DEF FlushInv
<1> QED BY <1>1, LogInvariant, PTL

=============================================================================
