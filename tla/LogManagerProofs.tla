-------------------------- MODULE LogManagerProofs --------------------------
(***************************************************************************)
(* What the request-log actor guarantees, for every number of requests,    *)
(* keys and viewers, every limit and every capacity of its channel: the    *)
(* associations match the logs, whoever waits has a question queued, the   *)
(* actor dies only by answering somebody who is gone, the counters cover   *)
(* the logs, and updates reach a foreign log only after an overlap.        *)
(***************************************************************************)
EXTENDS LogManager, FunctionTheorems, SequenceTheorems, FiniteSetTheorems,
        WellFoundedInduction, TLAPS

-----------------------------------------------------------------------------
\* How often the members of a set occur in a sequence.

Count(s, S) == Cardinality({i \in DOMAIN s : s[i] \in S})

\* The places of a sequence where a member of S stands are finitely many.
LEMMA CountType ==
    ASSUME NEW T, NEW s \in Seq(T), NEW S
    PROVE  /\ IsFiniteSet({i \in DOMAIN s : s[i] \in S})
           /\ Count(s, S) \in Nat
           /\ Count(s, S) <= Len(s)
           /\ Count(s, S) = 0 <=> \A i \in 1 .. Len(s) : s[i] \notin S
<1> DEFINE P == {i \in DOMAIN s : s[i] \in S}
<1>1. Len(s) \in Nat /\ DOMAIN s = 1 .. Len(s)
  BY LenProperties
<1>2. IsFiniteSet(1 .. Len(s)) /\ Cardinality(1 .. Len(s)) = Len(s)
  BY <1>1, FS_Interval
<1>3. P \in SUBSET (1 .. Len(s))
  BY <1>1
<1>4. IsFiniteSet(P) /\ Cardinality(P) <= Cardinality(1 .. Len(s))
  <2> HIDE DEF P
  <2> QED BY <1>2, <1>3, FS_Subset
<1>5. Cardinality(P) \in Nat /\ (Cardinality(P) = 0 <=> P = {})
  <2> HIDE DEF P
  <2> QED BY <1>4, FS_CardinalityType, FS_EmptySet
<1> QED BY <1>1, <1>2, <1>4, <1>5 DEF Count

\* A sequence's count is that of its first n entries and that of the others.
LEMMA CountSplit ==
    ASSUME NEW T, NEW s \in Seq(T), NEW S, NEW n \in 0 .. Len(s)
    PROVE  Count(s, S) = Count(SubSeq(s, 1, n), S) + Count(SubSeq(s, n + 1, Len(s)), S)
<1> DEFINE P == {i \in 1 .. Len(s) : s[i] \in S}
           A == {i \in 1 .. n : s[i] \in S}
           B == {i \in (n + 1) .. Len(s) : s[i] \in S}
           C == {i \in 1 .. (Len(s) - n) : s[n + i] \in S}
           f == [i \in C |-> n + i]
<1>0. /\ Len(s) \in Nat
      /\ DOMAIN s = 1 .. Len(s)
      /\ n \in Int
      /\ \A i \in 1 .. Len(s) : s[i] \in T
  BY LenProperties, ElementOfSeq
<1>1. Count(SubSeq(s, 1, n), S) = Cardinality(A)
  <2> DEFINE t == SubSeq(s, 1, n)
  <2>1. \A i \in 1 .. n : s[i] \in T
    BY <1>0
  <2>2. /\ t \in Seq(T)
        /\ Len(t) = IF 1 <= n THEN n - 1 + 1 ELSE 0
        /\ \A i \in 1 .. (n - 1 + 1) : t[i] = s[1 + i - 1]
    <3> HIDE DEF t
    <3> QED BY <1>0, <2>1, SubSeqProperties DEF t
  <2> HIDE DEF t
  <2>3. DOMAIN t = 1 .. n /\ \A i \in 1 .. n : t[i] = s[i]
    BY <2>2, <1>0, LenProperties
  <2>4. {i \in DOMAIN t : t[i] \in S} = A
    BY <2>3
  <2> QED BY <2>4 DEF Count, t
<1>2. Count(SubSeq(s, n + 1, Len(s)), S) = Cardinality(C)
  <2> DEFINE t == SubSeq(s, n + 1, Len(s))
  <2>1. \A i \in (n + 1) .. Len(s) : s[i] \in T
    BY <1>0
  <2>2. /\ t \in Seq(T)
        /\ Len(t) = IF n + 1 <= Len(s) THEN Len(s) - (n + 1) + 1 ELSE 0
        /\ \A i \in 1 .. (Len(s) - (n + 1) + 1) : t[i] = s[(n + 1) + i - 1]
    <3> HIDE DEF t
    <3> QED BY <1>0, <2>1, SubSeqProperties DEF t
  <2> HIDE DEF t
  <2>3. DOMAIN t = 1 .. (Len(s) - n) /\ \A i \in 1 .. (Len(s) - n) : t[i] = s[n + i]
    <3>1. Len(t) = Len(s) - n
      <4>1. /\ n + 1 <= Len(s) => Len(s) - (n + 1) + 1 = Len(s) - n
            /\ ~(n + 1 <= Len(s)) => Len(s) - n = 0
        <5>1. Len(s) \in Nat /\ n \in Nat /\ n <= Len(s)
          BY <1>0
        <5> QED BY <5>1
      <4> QED BY <2>2, <4>1
    <3>2. \A i \in 1 .. (Len(s) - n) :
            /\ i \in 1 .. (Len(s) - (n + 1) + 1)
            /\ (n + 1) + i - 1 = n + i
      BY <1>0
    <3>3. \A i \in 1 .. (Len(s) - n) : t[i] = s[n + i]
      BY <2>2, <3>2
    <3> QED BY <2>2, <3>1, <3>3, LenProperties
  <2>4. {i \in DOMAIN t : t[i] \in S} = C
    BY <2>3
  <2> QED BY <2>4 DEF Count, t
<1>3. Count(s, S) = Cardinality(P) /\ IsFiniteSet(P)
  BY <1>0, CountType DEF Count
<1>4. IsFiniteSet(A) /\ IsFiniteSet(B)
  <2>1. A \in SUBSET P /\ B \in SUBSET P
    BY <1>0
  <2> HIDE DEF A, B, P
  <2> QED BY <1>3, <2>1, FS_Subset
<1>5. Cardinality(P) = Cardinality(A) + Cardinality(B)
  <2>1. P = A \cup B /\ A \cap B = {}
    BY <1>0
  <2> HIDE DEF A, B, P
  <2>2. Cardinality(A \cup B) = Cardinality(A) + Cardinality(B) - Cardinality(A \cap B)
    BY <1>4, FS_Union
  <2>3. Cardinality(A) \in Nat /\ Cardinality(B) \in Nat
    BY <1>4, FS_CardinalityType
  <2>4. Cardinality(A \cap B) = 0
    BY <2>1, FS_EmptySet
  <2> QED BY <2>1, <2>2, <2>3, <2>4
<1>6. f \in Injection(C, B) /\ f \in Surjection(C, B)
  <2>1. f \in [C -> B]
    BY <1>0
  <2>2. \A i, j \in C : f[i] = f[j] => i = j
    BY <1>0
  <2>3. \A b \in B : \E i \in C : f[i] = b
    <3> SUFFICES ASSUME NEW b \in B PROVE \E i \in C : f[i] = b
      OBVIOUS
    <3>1. b - n \in C /\ n + (b - n) = b
      BY <1>0
    <3> QED BY <3>1
  <2> HIDE DEF A, B, C, f
  <2> QED BY <2>1, <2>2, <2>3, Fun_IsInj, Fun_IsSurj
<1>7. Cardinality(C) = Cardinality(B)
  <2> HIDE DEF A, B, C, P, f
  <2> QED BY <1>4, <1>6, FS_Injection
<1> QED BY <1>1, <1>2, <1>3, <1>5, <1>7

\* Appending an entry counts it.
LEMMA CountAppend ==
    ASSUME NEW T, NEW s \in Seq(T), NEW S, NEW x \in T
    PROVE  Count(Append(s, x), S) = Count(s, S) + (IF x \in S THEN 1 ELSE 0)
<1> DEFINE t == Append(s, x)
           P == {i \in DOMAIN s : s[i] \in S}
           Q == {i \in DOMAIN t : t[i] \in S}
<1>1. /\ Len(s) \in Nat
      /\ DOMAIN s = 1 .. Len(s)
      /\ IsFiniteSet(P)
      /\ Cardinality(P) \in Nat
  BY LenProperties, CountType DEF Count
<1>2. /\ DOMAIN t = 1 .. (Len(s) + 1)
      /\ \A i \in 1 .. Len(s) : t[i] = s[i]
      /\ t[Len(s) + 1] = x
  BY AppendProperties, LenProperties
<1>3. CASE x \in S
  <2>1. Q = P \cup {Len(s) + 1}
    BY <1>1, <1>2, <1>3
  <2>2. Len(s) + 1 \notin P
    BY <1>1
  <2> HIDE DEF P, Q, t
  <2>3. Cardinality(Q) = Cardinality(P) + 1
    BY <1>1, <2>1, <2>2, FS_AddElement
  <2> QED BY <1>3, <2>3 DEF Count, P, Q, t
<1>4. CASE x \notin S
  <2>1. Q = P
    BY <1>1, <1>2, <1>4
  <2>2. Cardinality(Q) = Cardinality(P) + 0
    <3> HIDE DEF P, Q
    <3> QED BY <1>1, <2>1
  <2> QED BY <1>4, <2>2 DEF Count
<1> QED BY <1>3, <1>4

\* Taking the first entry off takes its count.
LEMMA CountTail ==
    ASSUME NEW T, NEW s \in Seq(T), NEW S, s # <<>>
    PROVE  Count(s, S) = Count(Tail(s), S) + (IF Head(s) \in S THEN 1 ELSE 0)
<1>1. Len(s) \in Nat \ {0} /\ 1 \in 0 .. Len(s)
  BY EmptySeq
<1>2. Tail(s) = SubSeq(s, 1 + 1, Len(s))
  BY TailIsSubSeq
<1>3. Count(s, S) = Count(SubSeq(s, 1, 1), S) + Count(Tail(s), S)
  BY <1>1, <1>2, CountSplit
<1>4. Count(SubSeq(s, 1, 1), S) = IF Head(s) \in S THEN 1 ELSE 0
  <2> DEFINE t == SubSeq(s, 1, 1)
  <2>1. \A i \in 1 .. 1 : s[i] \in T
    BY <1>1, ElementOfSeq
  <2>2. t \in Seq(T) /\ Len(t) = 1 /\ t[1] = s[1]
    <3> HIDE DEF t
    <3>1. /\ t \in Seq(T)
          /\ Len(t) = IF 1 <= 1 THEN 1 - 1 + 1 ELSE 0
          /\ \A i \in 1 .. (1 - 1 + 1) : t[i] = s[1 + i - 1]
      BY <2>1, SubSeqProperties DEF t
    <3> QED BY <3>1
  <2>3. Head(s) = s[1]
    BY <1>1
  <2> HIDE DEF t
  <2>4. DOMAIN t = {1}
    BY <2>2, LenProperties
  <2>5. CASE Head(s) \in S
    <3>1. {i \in DOMAIN t : t[i] \in S} = {1}
      BY <2>2, <2>3, <2>4, <2>5
    <3> QED BY <3>1, <2>5, FS_Singleton DEF Count, t
  <2>6. CASE Head(s) \notin S
    <3>1. {i \in DOMAIN t : t[i] \in S} = {}
      BY <2>2, <2>3, <2>4, <2>6
    <3> QED BY <3>1, <2>6, FS_EmptySet DEF Count, t
  <2> QED BY <2>5, <2>6
<1>5. Count(Tail(s), S) \in Nat
  BY HeadTailProperties, CountType
<1> QED BY <1>3, <1>4, <1>5

\* Replacing an entry changes the count by at most that entry.
LEMMA CountReplace ==
    ASSUME NEW T, NEW s \in Seq(T), NEW S, NEW j \in 1 .. Len(s), NEW x \in T
    PROVE  /\ Count([s EXCEPT ![j] = x], S) <= Count(s, S) + (IF x \in S THEN 1 ELSE 0)
           /\ (x \in S <=> s[j] \in S) => Count([s EXCEPT ![j] = x], S) = Count(s, S)
<1> DEFINE t == [s EXCEPT ![j] = x]
           P == {i \in DOMAIN s : s[i] \in S}
           Q == {i \in DOMAIN t : t[i] \in S}
<1>1. /\ Len(s) \in Nat
      /\ DOMAIN s = 1 .. Len(s)
      /\ IsFiniteSet(P)
      /\ Cardinality(P) \in Nat
  BY LenProperties, CountType DEF Count
<1>2. /\ DOMAIN t = 1 .. Len(s)
      /\ \A i \in 1 .. Len(s) : t[i] = IF i = j THEN x ELSE s[i]
  BY <1>1
<1>3. (x \in S <=> s[j] \in S) => Q = P
  BY <1>1, <1>2
<1>4. Q \in SUBSET (P \cup {j}) /\ (x \notin S => Q \in SUBSET P)
  BY <1>1, <1>2
<1>5. Cardinality(Q) <= Cardinality(P) + (IF x \in S THEN 1 ELSE 0)
  <2> HIDE DEF P, Q, t
  <2>1. /\ IsFiniteSet(P \cup {j})
        /\ Cardinality(P \cup {j}) <= Cardinality(P) + 1
    <3>1. /\ IsFiniteSet(P \cup {j})
          /\ Cardinality(P \cup {j}) =
               IF j \in P THEN Cardinality(P) ELSE Cardinality(P) + 1
      BY <1>1, FS_AddElement
    <3> QED BY <1>1, <3>1
  <2>2. Cardinality(Q) <= Cardinality(P \cup {j})
    BY <2>1, <1>4, FS_Subset
  <2>3. IsFiniteSet(Q)
    BY <2>1, <1>4, FS_Subset
  <2>4. Cardinality(Q) \in Nat /\ Cardinality(P \cup {j}) \in Nat
    BY <2>1, <2>3, FS_CardinalityType
  <2>5. x \notin S => Cardinality(Q) <= Cardinality(P)
    BY <1>1, <1>4, FS_Subset
  <2> QED BY <1>1, <2>1, <2>2, <2>4, <2>5
<1> QED BY <1>3, <1>5 DEF Count

-----------------------------------------------------------------------------
\* The inductive invariant.

Associations == [Keys -> AssociatedToken \cup {None}]
Saved == [logs : Seq(Log), tokens : Associations]

\* Two counters may a priori be any numbers, and a copy is whole.
TypeInv ==
    /\ logs \in Seq(Log)
    /\ tokens \in Associations
    /\ limit \in Limits
    /\ chan \in Seq(Command)
    /\ Len(chan) <= Capacity
    /\ alive \in BOOLEAN
    /\ pc \in [Requests -> Phases]
    /\ cur \in [Requests -> Nat]
    /\ waiting \subseteq Queriers
    /\ left \subseteq Viewers
    /\ total_requests \in Int
    /\ active_requests \in Int
    /\ error_requests \in Nat
    /\ dropped \subseteq Requests
    /\ disk \in Saved \cup {None}
    /\ overlapped \in BOOLEAN

\* What AssociationsMatchLogs says, of the logs l and the associations t.
Matches(l, t) ==
    \A k \in Keys :
        IF CountKey(l, k) = 0 THEN t[k] = None
                              ELSE t[k] # None /\ t[k].ref_count = CountKey(l, k)

AssocInv ==
    /\ Matches(logs, tokens)
    /\ disk # None => Matches(disk.logs, disk.tokens)

Question(c) == c.op \in {"GetNextLogId", "GetLogs", "GetToken", "CloneToSave"}

\* Nobody has two questions in the channel; a request's question is there
\* while it asks, or after it was dropped, and a querier's while it waits, or
\* after it hung up.
QueueInv ==
    /\ \A i, j \in 1 .. Len(chan) :
          Question(chan[i]) /\ Question(chan[j]) /\ chan[i].from = chan[j].from => i = j
    /\ \A i \in 1 .. Len(chan) :
          /\ chan[i].op = "GetNextLogId" => pc[chan[i].from] \in {"asking", "gone"}
          /\ chan[i].op \in {"GetLogs", "GetToken", "CloneToSave"} =>
                chan[i].from \in waiting \cup left
    /\ alive => \A r \in Requests : pc[r] = "asking" =>
          \E i \in 1 .. Len(chan) : chan[i].op = "GetNextLogId" /\ chan[i].from = r
    /\ alive => \A v \in waiting : \E i \in 1 .. Len(chan) : chan[i].from = v
    /\ waiting \cap left = {}

EnteringPhases == {"counted", "asking", "has_id"}
ActivePhases == {"counted", "asking", "has_id", "logged", "answered", "failing"}
ErringPhases == {"failing", "erring"}

\* The phases of a request whose log was sent, and of one that may send updates.
Past == {"logged", "answered", "failing", "erring", "success", "failed", "gone"}
Updating == {"logged", "answered", "success"}

In(P) == {r \in Requests : pc[r] \in P}
Entering == In(EnteringPhases)
Active == In(ActivePhases)
Erring == In(ErringPhases)

FailedLogs == {l \in Log : l.status = "Failure"}
Additions == {c \in Command : c.op = "AddLog"}
FailureUpdates == {c \in Command : c.op = "UpdateLog" /\ c.ops = "Failure"}

\* Every log that is stored, on its way or about to be sent was counted, and
\* every failure that is stored or on its way was counted or is about to be.
CountInv ==
    /\ IsFiniteSet(Active)
    /\ IsFiniteSet(Erring)
    /\ IsFiniteSet(dropped)
    /\ \A r \in dropped : pc[r] = "gone"
    /\ active_requests = Cardinality(Active) + Cardinality(dropped)
    /\ total_requests >= Len(logs) + Count(chan, Additions) + Cardinality(Entering)
    /\ error_requests + Cardinality(Erring)
         >= Count(logs, FailedLogs) + Count(chan, FailureUpdates)

\* The ids of l grow, and updates have reached l's logs only from their owners.
Orderly(l) ==
    /\ \A i, j \in 1 .. Len(l) : i < j => l[i].id < l[j].id
    /\ \A i \in 1 .. Len(l) : l[i].writers \subseteq {l[i].owner}

\* The id has been used, and no log but one of request r has it.
Settled(r, id) ==
    /\ id < NextLogId
    /\ \A i \in 1 .. Len(logs) : logs[i].id = id => logs[i].owner = r

AddedAt(i, r, id) == chan[i].op = "AddLog" /\ chan[i].from = r /\ chan[i].id = id

\* The request that has an id has the next one.
HasNextId == \A r \in Requests : pc[r] = "has_id" => cur[r] = NextLogId

\* At most one log is on its way, and it has the next id.
OneAddition ==
    /\ \A i \in 1 .. Len(chan) : chan[i].op = "AddLog" =>
          /\ chan[i].id = NextLogId
          /\ pc[chan[i].from] \in Past
    /\ \A i, j \in 1 .. Len(chan) : chan[i].op = "AddLog" /\ chan[j].op = "AddLog" => i = j

\* The id of a request that may send updates is settled, or its log is on its way.
OwnIdsSettled ==
    \A r \in Requests : pc[r] \in Updating =>
        \/ Settled(r, cur[r])
        \/ \E i \in 1 .. Len(chan) : AddedAt(i, r, cur[r])

\* The id of an update is settled, or the log is ahead of it in the channel.
UpdatesSettled ==
    \A j \in 1 .. Len(chan) : chan[j].op = "UpdateLog" =>
        \/ Settled(chan[j].from, chan[j].id)
        \/ \E i \in 1 .. (j - 1) : AddedAt(i, chan[j].from, chan[j].id)

\* What holds as long as nobody overlapped.
Regular ==
    /\ Orderly(logs)
    /\ disk # None => Orderly(disk.logs)
    /\ HasNextId
    /\ OneAddition
    /\ OwnIdsSettled
    /\ UpdatesSettled

OverlapInv == ~overlapped => ~Overlap /\ Regular

IInv == TypeInv /\ AssocInv /\ QueueInv /\ CountInv /\ OverlapInv

-----------------------------------------------------------------------------
\* What the steps do to the channel and the logs.

\* The fields of a command, by its kind.
LEMMA CommandFields ==
    ASSUME NEW c \in Command
    PROVE  /\ c.op \in {"GetNextLogId", "AddLog", "UpdateLog", "GetLogs", "GetToken", "CloneToSave"}
           /\ c.op \in {"GetNextLogId", "AddLog", "UpdateLog"} => c.from \in Requests
           /\ c.op \in {"AddLog", "UpdateLog"} => c.id \in Nat
           /\ c.op = "AddLog" => c.key \in Keys
           /\ c.op = "UpdateLog" => c.ops \in Updates
           /\ c.op \in {"GetLogs", "GetToken"} => c.from \in Viewers
           /\ c.op = "CloneToSave" => c.from = Main
BY DEF Command

\* A sent command is the last one in the channel.
LEMMA Sent ==
    ASSUME TypeInv, NEW cmd \in Command, Send(cmd)
    PROVE  /\ alive
           /\ chan' \in Seq(Command)
           /\ Len(chan) \in Nat
           /\ Len(chan') = Len(chan) + 1
           /\ Len(chan') <= Capacity
           /\ \A i \in 1 .. Len(chan) : chan'[i] = chan[i] /\ chan[i] \in Command
           /\ chan'[Len(chan) + 1] = cmd
           /\ \A i \in 1 .. Len(chan') : i \in 1 .. Len(chan) \/ i = Len(chan) + 1
           /\ \A S : Count(chan', S) = Count(chan, S) + (IF cmd \in S THEN 1 ELSE 0)
<1>1. chan \in Seq(Command) /\ chan' = Append(chan, cmd) /\ alive /\ Len(chan) < Capacity
  BY DEF TypeInv, Send
<1>2. Capacity \in Nat /\ Len(chan) \in Nat
  BY <1>1, LogAssumption, LenProperties
<1>3. Len(chan') = Len(chan) + 1 /\ chan' \in Seq(Command)
  BY <1>1, AppendProperties
<1>4. \A i \in 1 .. Len(chan) : chan'[i] = chan[i] /\ chan[i] \in Command
  BY <1>1, AppendProperties, ElementOfSeq
<1>5. chan'[Len(chan) + 1] = cmd
  BY <1>1, AppendProperties
<1>6. \A S : Count(chan', S) = Count(chan, S) + (IF cmd \in S THEN 1 ELSE 0)
  BY <1>1, CountAppend
<1>7. \A i \in 1 .. Len(chan') : i \in 1 .. Len(chan) \/ i = Len(chan) + 1
  BY <1>2, <1>3
<1> QED BY <1>1, <1>2, <1>3, <1>4, <1>5, <1>6, <1>7

\* A received command was the first one in the channel, and the others move up.
LEMMA Received ==
    ASSUME TypeInv, NEW op, Receive(op)
    PROVE  /\ alive
           /\ Head(chan) = chan[1]
           /\ chan[1] \in Command
           /\ chan[1].op = op
           /\ chan' \in Seq(Command)
           /\ Len(chan) \in Nat \ {0}
           /\ Len(chan') = Len(chan) - 1
           /\ Len(chan') <= Capacity
           /\ \A i \in 1 .. Len(chan) : chan[i] \in Command
           /\ \A i \in 1 .. Len(chan') : i + 1 \in 1 .. Len(chan) /\ chan'[i] = chan[i + 1]
           /\ \A j \in 1 .. Len(chan) :
                 j = 1 \/ (j - 1 \in 1 .. Len(chan') /\ chan'[j - 1] = chan[j])
           /\ \A S : Count(chan, S) = Count(chan', S) + (IF chan[1] \in S THEN 1 ELSE 0)
<1>1. chan \in Seq(Command) /\ chan # <<>> /\ chan' = Tail(chan) /\ alive /\ Len(chan) <= Capacity
  BY DEF TypeInv, Receive
<1>2. Capacity \in Nat /\ Len(chan) \in Nat \ {0}
  BY <1>1, LogAssumption, EmptySeq
<1>3. Head(chan) = chan[1]
  BY <1>1, <1>2
<1>4. /\ Len(chan') = Len(chan) - 1
      /\ chan' \in Seq(Command)
      /\ \A i \in 1 .. Len(chan') : chan'[i] = chan[i + 1]
  BY <1>1, HeadTailProperties
<1>5. \A i \in 1 .. Len(chan) : chan[i] \in Command
  BY <1>1, ElementOfSeq
<1>6. \A S : Count(chan, S) = Count(chan', S) + (IF chan[1] \in S THEN 1 ELSE 0)
  BY <1>1, <1>3, CountTail
<1>7. chan[1].op = op /\ chan[1] \in Command
  BY <1>2, <1>3, <1>5 DEF Receive
<1>8. /\ \A i \in 1 .. Len(chan') : i + 1 \in 1 .. Len(chan)
      /\ \A j \in 1 .. Len(chan) : j = 1 \/ (j - 1 \in 1 .. Len(chan') /\ (j - 1) + 1 = j)
  BY <1>2, <1>4
<1> QED BY <1>1, <1>2, <1>3, <1>4, <1>5, <1>6, <1>7, <1>8

\* A log's fields.
LEMMA LogFields ==
    ASSUME TypeInv
    PROVE  /\ Len(logs) \in Nat
           /\ DOMAIN logs = 1 .. Len(logs)
           /\ \A i \in 1 .. Len(logs) :
                 /\ logs[i] \in Log
                 /\ logs[i].id \in Nat
                 /\ logs[i].key \in Keys
                 /\ logs[i].owner \in Requests
                 /\ logs[i].writers \subseteq Requests
           /\ NextLogId \in Nat
           /\ logs # <<>> => Len(logs) >= 1
<1>1. logs \in Seq(Log)
  BY DEF TypeInv
<1>2. Len(logs) \in Nat /\ DOMAIN logs = 1 .. Len(logs) /\ (logs # <<>> => Len(logs) >= 1)
  BY <1>1, LenProperties, EmptySeq
<1>3. \A i \in 1 .. Len(logs) : logs[i] \in Log
  BY <1>1, ElementOfSeq
<1>4. NextLogId \in Nat
  BY <1>2, <1>3 DEF NextLogId, Log
<1> QED BY <1>2, <1>3, <1>4 DEF Log

\* The logs that an addition keeps are the newest ones.
LEMMA KeptLogs ==
    ASSUME TypeInv
    PROVE  /\ Evictions \in 0 .. Len(logs)
           /\ Kept \in Seq(Log)
           /\ Len(Kept) = Len(logs) - Evictions
           /\ \A i \in 1 .. (Len(logs) - Evictions) : Kept[i] = logs[Evictions + i]
           /\ \A S : Count(logs, S) = Count(Evicted, S) + Count(Kept, S)
           /\ Evicted \in Seq(Log)
<1>1. logs \in Seq(Log) /\ limit \in Nat \ {0}
  BY LogAssumption DEF TypeInv
<1>2. Len(logs) \in Nat /\ Evictions \in Int /\ 0 <= Evictions /\ Evictions <= Len(logs)
  BY <1>1, LenProperties DEF Evictions
<1>3. \A i \in 1 .. Len(logs) : logs[i] \in Log
  BY <1>1, ElementOfSeq
<1>4. /\ Kept \in Seq(Log)
      /\ Len(Kept) = IF Evictions + 1 <= Len(logs) THEN Len(logs) - (Evictions + 1) + 1 ELSE 0
      /\ \A i \in 1 .. (Len(logs) - (Evictions + 1) + 1) : Kept[i] = logs[(Evictions + 1) + i - 1]
  <2>1. \A i \in (Evictions + 1) .. Len(logs) : logs[i] \in Log
    BY <1>2, <1>3
  <2> QED BY <1>2, <2>1, SubSeqProperties DEF Kept
<1>5. Len(Kept) = Len(logs) - Evictions
  <2>1. /\ Evictions + 1 <= Len(logs) => Len(logs) - (Evictions + 1) + 1 = Len(logs) - Evictions
        /\ ~(Evictions + 1 <= Len(logs)) => Len(logs) - Evictions = 0
    BY <1>2
  <2> QED BY <1>4, <2>1
<1>6. \A i \in 1 .. (Len(logs) - Evictions) : Kept[i] = logs[Evictions + i]
  <2>1. \A i \in 1 .. (Len(logs) - Evictions) :
          i \in 1 .. (Len(logs) - (Evictions + 1) + 1) /\ (Evictions + 1) + i - 1 = Evictions + i
    BY <1>2
  <2> QED BY <1>4, <2>1
<1>7. Evicted \in Seq(Log)
  <2>1. \A i \in 1 .. Evictions : logs[i] \in Log
    BY <1>2, <1>3
  <2> QED BY <1>2, <2>1, SubSeqProperties DEF Evicted
<1>8. \A S : Count(logs, S) = Count(Evicted, S) + Count(Kept, S)
  BY <1>1, <1>2, CountSplit DEF Evicted, Kept
<1> QED BY <1>2, <1>4, <1>5, <1>6, <1>7, <1>8

\* The log an AddLog command makes.
NewLog == [id |-> chan[1].id, key |-> chan[1].key, status |-> "Pending",
           owner |-> chan[1].from, writers |-> {}]

\* An addition keeps the newest logs and puts the new one behind them.
LEMMA Added ==
    ASSUME TypeInv, HandleAddLog
    PROVE  /\ NewLog \in Log
           /\ logs' = Append(Kept, NewLog)
           /\ logs' \in Seq(Log)
           /\ Len(logs') = Len(Kept) + 1
           /\ \A i \in 1 .. Len(Kept) : logs'[i] = Kept[i]
           /\ logs'[Len(Kept) + 1] = NewLog
           /\ chan[1].from \in Requests
           /\ chan[1].id \in Nat
           /\ chan[1].key \in Keys
<1>1. Receive("AddLog")
  BY DEF HandleAddLog
<1>2. /\ chan[1].from \in Requests
      /\ chan[1].id \in Nat
      /\ chan[1].key \in Keys
  BY <1>1, Received, CommandFields
<1>3. NewLog \in Log
  BY <1>2 DEF NewLog, Log, Statuses
<1>4. logs' = Append(Kept, NewLog)
  BY <1>1, Received DEF HandleAddLog, NewLog
<1>5. Kept \in Seq(Log)
  BY KeptLogs
<1> QED BY <1>2, <1>3, <1>4, <1>5, AppendProperties

\* The logs of a key.
OfKey(k) == {l \in Log : l.key = k}

\* CountKey counts them.
LEMMA KeyCount ==
    ASSUME NEW s \in Seq(Log), NEW k
    PROVE  CountKey(s, k) = Count(s, OfKey(k)) /\ CountKey(s, k) \in Nat
<1>1. \A i \in DOMAIN s : s[i] \in Log
  BY LenProperties, ElementOfSeq
<1>2. {i \in DOMAIN s : s[i].key = k} = {i \in DOMAIN s : s[i] \in OfKey(k)}
  BY <1>1 DEF OfKey
<1>3. Count(s, OfKey(k)) \in Nat
  BY CountType
<1> QED BY <1>2, <1>3 DEF CountKey, Count

\* A finite, non-empty set of numbers has a greatest one (the minimal counterexample
\* of the distances from n).
LEMMA MaxExists ==
    ASSUME NEW n \in Nat, NEW T \in SUBSET (1 .. n), T # {}
    PROVE  \E x \in T : \A y \in T : y <= x
<1> DEFINE D == {n - t : t \in T}
           R == OpToRel(<, Nat)
<1>0. \A t \in T : t \in Int /\ n - t \in Nat
  OBVIOUS
<1>1. D \subseteq Nat /\ D # {}
  BY <1>0
<1>2. IsWellFoundedOn(R, Nat)
  BY NatLessThanWellFounded
<1>3. PICK d \in D : \A e \in D : ~(<<e, d>> \in R)
  <2> HIDE DEF D, R
  <2> QED BY <1>1, <1>2, WFMin
<1>4. \A e \in D : ~(e < d)
  <2> SUFFICES ASSUME NEW e \in D, e < d PROVE FALSE
    OBVIOUS
  <2>1. e \in Nat /\ d \in Nat
    BY <1>1
  <2>2. <<e, d>> \in R
    BY <2>1 DEF OpToRel
  <2> QED BY <2>2, <1>3
<1>5. PICK x \in T : d = n - x
  OBVIOUS
<1>6. \A y \in T : y <= x
  <2> SUFFICES ASSUME NEW y \in T PROVE y <= x
    OBVIOUS
  <2>1. n - y \in D
    OBVIOUS
  <2>2. ~(n - y < n - x)
    BY <2>1, <1>4, <1>5
  <2> QED BY <2>2, <1>0
<1> QED BY <1>6

\* An update leaves the logs alone, or changes the status and the writers of
\* one log that has its id.
LEMMA UpdatedLogs ==
    ASSUME TypeInv, HandleUpdateLog
    PROVE  /\ chan[1].from \in Requests
           /\ \/ logs' = logs
              \/ \E t \in 1 .. Len(logs) :
                    /\ logs[t].id = chan[1].id
                    /\ Updated(logs[t], chan[1]) \in Log
                    /\ logs' = [logs EXCEPT ![t] = Updated(logs[t], chan[1])]
<1>1. Receive("UpdateLog")
  BY DEF HandleUpdateLog
<1>2. /\ chan[1].from \in Requests
      /\ chan[1].id \in Nat
      /\ chan[1].ops \in Updates
      /\ Head(chan) = chan[1]
  BY <1>1, Received, CommandFields
<1>3. CASE \E i \in DOMAIN logs : logs[i].id = chan[1].id
  <2> DEFINE T == {i \in DOMAIN logs : logs[i].id = chan[1].id}
             t == Target(chan[1].id)
  <2>1. Len(logs) \in Nat /\ T \in SUBSET (1 .. Len(logs)) /\ T # {}
    BY <1>3, LogFields
  <2>2. \E x \in T : \A y \in T : y <= x
    <3> HIDE DEF T
    <3> QED BY <2>1, MaxExists
  <2>3. T \subseteq Int
    BY <2>1
  <2>4. \E x \in T : \A y \in T : x >= y
    <3> HIDE DEF T
    <3> QED BY <2>2, <2>3
  <2>5. t \in T
    <3>1. t = CHOOSE x \in T : \A y \in T : x >= y
      BY DEF Target, Max
    <3> HIDE DEF T, t
    <3> QED BY <2>4, <3>1
  <2>6. t \in 1 .. Len(logs) /\ logs[t].id = chan[1].id
    BY <2>1, <2>5
  <2> HIDE DEF t
  <2>7. logs[t] \in Log
    BY <2>6, LogFields
  <2>8. Updated(logs[t], chan[1]) \in Log
    BY <1>2, <2>7 DEF Updated, Log, Statuses, Updates
  <2>9. \/ logs' = logs
        \/ logs' = [logs EXCEPT ![t] = Updated(logs[t], chan[1])]
    <3>1. \/ logs' = logs
          \/ logs' = [logs EXCEPT ![Target(Head(chan).id)] = Updated(@, Head(chan))]
      BY Zenon DEF HandleUpdateLog
    <3> QED BY <1>2, <3>1, Zenon DEF t
  <2> QED BY <1>2, <2>6, <2>8, <2>9
<1>4. CASE ~(\E i \in DOMAIN logs : logs[i].id = chan[1].id)
  BY <1>2, <1>4 DEF HandleUpdateLog
<1> QED BY <1>3, <1>4

\* What the senders send are commands.
LEMMA SentCommands ==
    ASSUME TypeInv
    PROVE  /\ \A r \in Requests :
                 /\ [op |-> "GetNextLogId", from |-> r] \in Command
                 /\ \A k \in Keys :
                       [op |-> "AddLog", from |-> r, id |-> cur[r], key |-> k] \in Command
                 /\ \A u \in Updates :
                       [op |-> "UpdateLog", from |-> r, id |-> cur[r], ops |-> u] \in Command
           /\ \A v \in Queriers, op \in {"GetLogs", "GetToken", "CloneToSave"} :
                 (op = "CloneToSave" <=> v = Main) => [op |-> op, from |-> v] \in Command
<1>1. \A r \in Requests : cur[r] \in Nat
  BY DEF TypeInv
<1>2. ASSUME NEW r \in Requests, NEW k \in Keys
      PROVE  [op |-> "AddLog", from |-> r, id |-> cur[r], key |-> k] \in Command
  BY <1>1, <1>2 DEF Command
<1>3. ASSUME NEW r \in Requests
      PROVE  [op |-> "GetNextLogId", from |-> r] \in Command
  BY DEF Command
<1>4. ASSUME NEW v \in Queriers, NEW op \in {"GetLogs", "GetToken", "CloneToSave"},
             op = "CloneToSave" <=> v = Main
      PROVE  [op |-> op, from |-> v] \in Command
  BY <1>4 DEF Command, Queriers
<1>5. ASSUME NEW r \in Requests, NEW u \in Updates
      PROVE  [op |-> "UpdateLog", from |-> r, id |-> cur[r], ops |-> u] \in Command
  BY <1>1, <1>5 DEF Command
<1> QED BY <1>2, <1>3, <1>4, <1>5

\* Every step keeps the variables in their types.
LEMMA TypeStep ==
    ASSUME TypeInv, Next
    PROVE  TypeInv'
<1> USE DEF actorVars, counters, others
<1>o. overlapped' \in BOOLEAN
  BY DEF Next
<1>1. ASSUME NEW r \in Requests, get_next_log_id(r) PROVE TypeInv'
  <2>1. Send([op |-> "GetNextLogId", from |-> r])
    BY <1>1 DEF get_next_log_id
  <2>2. chan' \in Seq(Command) /\ Len(chan') <= Capacity
    BY <2>1, Sent, SentCommands
  <2>3. pc' \in [Requests -> Phases]
    BY <1>1 DEF get_next_log_id, TypeInv, Phases
  <2> QED BY <1>1, <1>o, <2>2, <2>3 DEF get_next_log_id, TypeInv
<1>2. ASSUME NEW r \in Requests, NEW k \in Keys, add_log(r, k) PROVE TypeInv'
  <2>1. Send([op |-> "AddLog", from |-> r, id |-> cur[r], key |-> k])
    BY <1>2 DEF add_log
  <2>2. chan' \in Seq(Command) /\ Len(chan') <= Capacity
    BY <2>1, Sent, SentCommands
  <2>3. pc' \in [Requests -> Phases]
    BY <1>2 DEF add_log, TypeInv, Phases
  <2> QED BY <1>2, <1>o, <2>2, <2>3 DEF add_log, TypeInv
<1>3. ASSUME NEW r \in Requests, NEW u \in Updates, update_log(r, u) PROVE TypeInv'
  <2>1. Send([op |-> "UpdateLog", from |-> r, id |-> cur[r], ops |-> u])
    BY <1>3 DEF update_log
  <2>2. chan' \in Seq(Command) /\ Len(chan') <= Capacity
    BY <2>1, Sent, SentCommands
  <2>3. pc' \in [Requests -> Phases]
    BY <1>3 DEF update_log, TypeInv, Phases, Reported
  <2> QED BY <1>3, <1>o, <2>2, <2>3 DEF update_log, TypeInv
<1>4. ASSUME NEW r \in Requests, update_other(r) PROVE TypeInv'
  <2>1. Send([op |-> "UpdateLog", from |-> r, id |-> cur[r], ops |-> "Other"])
    BY <1>4 DEF update_other
  <2>2. chan' \in Seq(Command) /\ Len(chan') <= Capacity
    BY <2>1, Sent, SentCommands DEF Updates
  <2> QED BY <1>4, <1>o, <2>2 DEF update_other, TypeInv
<1>5. ASSUME NEW r \in Requests, disconnect(r) PROVE TypeInv'
  <2>1. pc' \in [Requests -> Phases] /\ dropped' \subseteq Requests
    BY <1>5 DEF disconnect, TypeInv, Phases
  <2> QED BY <1>5, <1>o, <2>1 DEF disconnect, TypeInv
<1>6. ASSUME NEW v \in Queriers, NEW op \in {"GetLogs", "GetToken", "CloneToSave"}, query(v, op)
      PROVE  TypeInv'
  <2>1. Send([op |-> op, from |-> v]) /\ (op = "CloneToSave" <=> v = Main)
    BY <1>6 DEF query
  <2>2. chan' \in Seq(Command) /\ Len(chan') <= Capacity
    BY <2>1, Sent, SentCommands
  <2>3. waiting' \subseteq Queriers
    BY <1>6 DEF query, TypeInv
  <2> QED BY <1>6, <1>o, <2>2, <2>3 DEF query, TypeInv
<1>7. ASSUME NEW v \in Viewers, hang_up(v) PROVE TypeInv'
  <2>1. waiting' \subseteq Queriers /\ left' \subseteq Viewers
    BY <1>7 DEF hang_up, TypeInv
  <2> QED BY <1>7, <1>o, <2>1 DEF hang_up, TypeInv
<1>8. ASSUME HandleGetNextLogId PROVE TypeInv'
  <2>1. Receive("GetNextLogId")
    BY <1>8 DEF HandleGetNextLogId
  <2>2. chan' \in Seq(Command) /\ Len(chan') <= Capacity
    BY <2>1, Received
  <2>3. Head(chan).from \in Requests /\ NextLogId \in Nat
    BY <2>1, Received, CommandFields, LogFields
  <2>4. pc' \in [Requests -> Phases] /\ cur' \in [Requests -> Nat]
    <3>1. \/ pc' = pc /\ cur' = cur
          \/ /\ pc' = [pc EXCEPT ![Head(chan).from] = "has_id"]
             /\ cur' = [cur EXCEPT ![Head(chan).from] = NextLogId]
      BY <1>8 DEF HandleGetNextLogId
    <3>2. /\ pc \in [Requests -> Phases] /\ cur \in [Requests -> Nat]
          /\ "has_id" \in Phases
      BY DEF TypeInv, Phases
    <3> QED BY <2>3, <3>1, <3>2
  <2>5. alive' \in BOOLEAN
    BY <1>8 DEF HandleGetNextLogId, TypeInv
  <2> QED BY <1>8, <1>o, <2>2, <2>4, <2>5 DEF HandleGetNextLogId, TypeInv
<1>9. ASSUME HandleAddLog PROVE TypeInv'
  <2>1. Receive("AddLog")
    BY <1>9 DEF HandleAddLog
  <2>2. chan' \in Seq(Command) /\ Len(chan') <= Capacity
    BY <2>1, Received
  <2>3. logs' \in Seq(Log) /\ chan[1].from \in Requests /\ Head(chan) = chan[1]
    BY <1>9, <2>1, Added, Received
  <2>4. tokens' \in Associations
    <3>1. ASSUME NEW k \in Keys PROVE Release(k) \in AssociatedToken \cup {None}
      <4>1. CountKey(Evicted, k) \in Nat
        BY KeptLogs, KeyCount
      <4>2. tokens[k] \in AssociatedToken \cup {None}
        BY DEF TypeInv, Associations
      <4>3. CASE tokens[k] # None /\ tokens[k].ref_count > CountKey(Evicted, k)
        <5>1. tokens[k] \in [token : Requests, ref_count : Nat]
          BY <4>2, <4>3 DEF AssociatedToken
        <5>2. [tokens[k] EXCEPT !.ref_count = @ - CountKey(Evicted, k)]
                \in [token : Requests, ref_count : Nat]
          BY <4>1, <4>3, <5>1
        <5> QED BY <4>3, <5>2 DEF Release, AssociatedToken
      <4>4. CASE ~(tokens[k] # None /\ tokens[k].ref_count > CountKey(Evicted, k))
        BY <4>4, Zenon DEF Release
      <4> QED BY <4>3, <4>4
    <3>2. ASSUME NEW k \in Keys PROVE Associate(Release(k), chan[1].from) \in AssociatedToken
      BY <2>3, <3>1 DEF Associate, AssociatedToken
    <3>3. tokens' = [k \in Keys |-> IF k = chan[1].key THEN Associate(Release(k), chan[1].from)
                                                       ELSE Release(k)]
      BY <1>9, <2>3 DEF HandleAddLog
    <3> QED BY <3>1, <3>2, <3>3 DEF Associations
  <2> QED BY <1>9, <1>o, <2>2, <2>3, <2>4 DEF HandleAddLog, TypeInv
<1>10. ASSUME HandleUpdateLog PROVE TypeInv'
  <2>1. Receive("UpdateLog")
    BY <1>10 DEF HandleUpdateLog
  <2>2. chan' \in Seq(Command) /\ Len(chan') <= Capacity
    BY <2>1, Received
  <2>3. logs' \in Seq(Log)
    <3>1. logs \in Seq(Log)
      BY DEF TypeInv
    <3> QED BY <1>10, <3>1, UpdatedLogs, ExceptSeq
  <2> QED BY <1>10, <1>o, <2>2, <2>3 DEF HandleUpdateLog, TypeInv
<1>11. ASSUME NEW op \in {"GetLogs", "GetToken"}, HandleQuery(op) PROVE TypeInv'
  <2>1. Receive(op)
    BY <1>11 DEF HandleQuery
  <2>2. chan' \in Seq(Command) /\ Len(chan') <= Capacity
    BY <2>1, Received
  <2>3. waiting' \subseteq Queriers
    BY <1>11 DEF HandleQuery, TypeInv
  <2>4. alive' \in BOOLEAN
    BY <1>11 DEF HandleQuery
  <2> QED BY <1>11, <1>o, <2>2, <2>3, <2>4 DEF HandleQuery, TypeInv
<1>12. ASSUME HandleCloneToSave PROVE TypeInv'
  <2>1. Receive("CloneToSave")
    BY <1>12 DEF HandleCloneToSave
  <2>2. chan' \in Seq(Command) /\ Len(chan') <= Capacity
    BY <2>1, Received
  <2>3. waiting' \subseteq Queriers /\ disk' \in Saved \cup {None}
    BY <1>12 DEF HandleCloneToSave, TypeInv, Saved
  <2> QED BY <1>12, <1>o, <2>2, <2>3 DEF HandleCloneToSave, TypeInv
<1>13. ASSUME load PROVE TypeInv'
  <2>1. disk \in Saved
    BY <1>13 DEF load, TypeInv
  <2>2. disk.logs \in Seq(Log) /\ disk.tokens \in Associations
    BY <2>1 DEF Saved
  <2>3. chan' \in Seq(Command) /\ Len(chan') <= Capacity
    BY <1>13, EmptySeq, LogAssumption DEF load
  <2>4. pc' \in [Requests -> Phases]
    BY <1>13 DEF load, Phases
  <2>5. total_requests' \in Int /\ error_requests' \in Nat /\ active_requests' \in Int
    <3>1. {i \in DOMAIN disk.logs : disk.logs[i].status # "Success"} \in SUBSET (1 .. Len(disk.logs))
      BY <2>2, LenProperties
    <3>2. Len(disk.logs) \in Nat /\ IsFiniteSet(1 .. Len(disk.logs))
      BY <2>2, LenProperties, FS_Interval
    <3>3. Cardinality({i \in DOMAIN disk.logs : disk.logs[i].status # "Success"}) \in Nat
      BY <3>1, <3>2, FS_Subset, FS_CardinalityType
    <3> QED BY <1>13, <3>2, <3>3 DEF load
  <2>6. waiting' \subseteq Queriers /\ disk' \in Saved \cup {None} /\ dropped' \subseteq Requests
    BY <1>13 DEF load
  <2> QED BY <1>13, <1>o, <2>2, <2>3, <2>4, <2>5, <2>6 DEF load, TypeInv
<1>14. ASSUME NEW r \in Requests, begin(r) PROVE TypeInv'
  <2>1. pc' \in [Requests -> Phases] /\ total_requests' \in Int /\ active_requests' \in Int
    BY <1>14 DEF begin, TypeInv, Phases
  <2> QED BY <1>14, <1>o, <2>1 DEF begin, TypeInv
<1>15. ASSUME NEW r \in Requests, count(r) PROVE TypeInv'
  <2>1. pc' \in [Requests -> Phases]
    BY <1>15 DEF count, TypeInv, Phases
  <2>2. active_requests' \in Int /\ error_requests' \in Nat
    BY <1>15 DEF count, TypeInv, StillActive, Errors
  <2> QED BY <1>15, <1>o, <2>1, <2>2 DEF count, TypeInv
<1> QED BY <1>1, <1>2, <1>3, <1>4, <1>5, <1>6, <1>7, <1>8, <1>9, <1>10, <1>11, <1>12, <1>13,
           <1>14, <1>15
        DEF Next, Client, Actor

\* Every step keeps the associations, and those of the copy, in accordance with
\* the logs.
LEMMA AssocStep ==
    ASSUME TypeInv, AssocInv, Next
    PROVE  AssocInv'
<1> USE DEF actorVars, counters, others
<1>u. UNCHANGED <<logs, tokens, disk>> => AssocInv'
  BY DEF AssocInv, Matches, CountKey
<1>1. ASSUME NEW r \in Requests, Client(r) \/ disconnect(r) PROVE AssocInv'
  BY <1>u, <1>1 DEF Client, begin, get_next_log_id, add_log, update_log, count, update_other,
                    disconnect
<1>2. ASSUME NEW v, NEW op, query(v, op) PROVE AssocInv'
  BY <1>u, <1>2 DEF query
<1>3. ASSUME NEW v, hang_up(v) PROVE AssocInv'
  BY <1>u, <1>3 DEF hang_up
<1>4. CASE HandleGetNextLogId
  BY <1>u, <1>4 DEF HandleGetNextLogId
<1>5. CASE HandleAddLog
  <2>1. Receive("AddLog") /\ UNCHANGED disk
    BY <1>5 DEF HandleAddLog
  <2>2. Head(chan) = chan[1]
    BY <2>1, Received
  <2>3. tokens' = [k \in Keys |-> IF k = chan[1].key THEN Associate(Release(k), chan[1].from)
                                                     ELSE Release(k)]
    BY <1>5, <2>2 DEF HandleAddLog
  <2>4. ASSUME NEW k \in Keys
        PROVE  IF CountKey(logs', k) = 0
                 THEN tokens'[k] = None
                 ELSE tokens'[k] # None /\ tokens'[k].ref_count = CountKey(logs', k)
    <3> DEFINE e == CountKey(Evicted, k)
               kept == CountKey(Kept, k)
    <3>1. e \in Nat /\ kept \in Nat /\ CountKey(logs, k) = e + kept
      <4>1. logs \in Seq(Log) /\ Evicted \in Seq(Log) /\ Kept \in Seq(Log)
        BY KeptLogs DEF TypeInv
      <4> QED BY <4>1, KeyCount, KeptLogs
    <3>2. CountKey(logs', k) = kept + (IF k = chan[1].key THEN 1 ELSE 0)
      <4>1. Kept \in Seq(Log) /\ NewLog \in Log /\ logs' = Append(Kept, NewLog) /\ logs' \in Seq(Log)
        BY <1>5, KeptLogs, Added
      <4>2. NewLog \in OfKey(k) <=> k = chan[1].key
        BY <4>1 DEF OfKey, NewLog
      <4>3. Count(logs', OfKey(k)) = Count(Kept, OfKey(k)) + (IF NewLog \in OfKey(k) THEN 1 ELSE 0)
        BY <4>1, CountAppend
      <4> QED BY <4>1, <4>2, <4>3, KeyCount
    <3>3. tokens[k] \in AssociatedToken \cup {None}
      BY DEF TypeInv, Associations
    <3>4. IF e + kept = 0 THEN tokens[k] = None
                          ELSE tokens[k] # None /\ tokens[k].ref_count = e + kept
      BY <3>1 DEF AssocInv, Matches
    <3> HIDE DEF e, kept
    <3>5. IF kept = 0 THEN Release(k) = None
                      ELSE Release(k) \in AssociatedToken /\ Release(k).ref_count = kept
      <4>1. CASE kept = 0
        <5>1. ~(tokens[k] # None /\ tokens[k].ref_count > e)
          BY <3>1, <3>4, <4>1
        <5> QED BY <4>1, <5>1 DEF Release, e
      <4>2. CASE kept # 0
        <5>1. tokens[k] # None /\ tokens[k].ref_count = e + kept /\ e + kept > e
          BY <3>1, <3>4, <4>2
        <5>2. tokens[k] \in [token : Requests, ref_count : Nat]
          BY <3>3, <5>1 DEF AssociatedToken
        <5>3. Release(k) = [tokens[k] EXCEPT !.ref_count = @ - e]
          BY <5>1 DEF Release, e
        <5>4. /\ [tokens[k] EXCEPT !.ref_count = @ - e] \in [token : Requests, ref_count : Nat]
              /\ [tokens[k] EXCEPT !.ref_count = @ - e].ref_count = kept
          BY <3>1, <5>1, <5>2
        <5> QED BY <4>2, <5>3, <5>4 DEF AssociatedToken
      <4> QED BY <4>1, <4>2
    <3>6. CASE k = chan[1].key
      <4>1. tokens'[k] = Associate(Release(k), chan[1].from)
        BY <2>3, <3>6
      <4>2. /\ Associate(Release(k), chan[1].from) \in AssociatedToken
            /\ Associate(Release(k), chan[1].from).ref_count = kept + 1
        <5>1. chan[1].from \in Requests
          BY <1>5, Added
        <5>2. Release(k) \in AssociatedToken => Release(k) # None /\ Release(k).ref_count \in Nat
          BY NoneAssumption DEF AssociatedToken
        <5> QED BY <3>1, <3>5, <5>1, <5>2 DEF Associate, AssociatedToken
      <4>3. CountKey(logs', k) = kept + 1 /\ kept + 1 # 0
        BY <3>1, <3>2, <3>6
      <4> QED BY <4>1, <4>2, <4>3, NoneAssumption
    <3>7. CASE k # chan[1].key
      <4>1. tokens'[k] = Release(k)
        BY <2>3, <3>7
      <4>2. CountKey(logs', k) = kept
        BY <3>1, <3>2, <3>7
      <4> QED BY <3>5, <4>1, <4>2, NoneAssumption
    <3> QED BY <3>6, <3>7
  <2>5. Matches(logs, tokens)'
    BY <2>4 DEF Matches
  <2>6. (disk # None => Matches(disk.logs, disk.tokens))'
    BY <2>1 DEF AssocInv, Matches
  <2> QED BY <2>5, <2>6 DEF AssocInv
<1>6. CASE HandleUpdateLog
  <2>1. UNCHANGED <<tokens, disk>> /\ logs \in Seq(Log) /\ logs' \in Seq(Log)
    BY <1>6, TypeStep DEF HandleUpdateLog, TypeInv
  <2>2. ASSUME NEW k \in Keys PROVE CountKey(logs', k) = CountKey(logs, k)
    <3>1. CASE logs' = logs
      BY <3>1
    <3>2. CASE \E t \in 1 .. Len(logs) :
                  /\ logs[t].id = chan[1].id
                  /\ Updated(logs[t], chan[1]) \in Log
                  /\ logs' = [logs EXCEPT ![t] = Updated(logs[t], chan[1])]
      <4>1. PICK t \in 1 .. Len(logs) :
                  /\ logs[t].id = chan[1].id
                  /\ Updated(logs[t], chan[1]) \in Log
                  /\ logs' = [logs EXCEPT ![t] = Updated(logs[t], chan[1])]
        BY <3>2
      <4>2. logs[t] \in Log
        BY LogFields
      <4>3. Updated(logs[t], chan[1]).key = logs[t].key
        BY <4>2 DEF Updated, Log
      <4>4. Updated(logs[t], chan[1]) \in OfKey(k) <=> logs[t] \in OfKey(k)
        BY <4>1, <4>2, <4>3 DEF OfKey
      <4>5. Count(logs', OfKey(k)) = Count(logs, OfKey(k))
        <5> DEFINE x == Updated(logs[t], chan[1])
        <5>1. x \in Log /\ logs' = [logs EXCEPT ![t] = x] /\ (x \in OfKey(k) <=> logs[t] \in OfKey(k))
          BY <4>1, <4>4
        <5> HIDE DEF x
        <5>2. x \in Log /\ logs \in Seq(Log) /\ t \in 1 .. Len(logs)
          BY <2>1, <4>1, <5>1
        <5>3. (x \in OfKey(k) <=> logs[t] \in OfKey(k)) =>
                Count([logs EXCEPT ![t] = x], OfKey(k)) = Count(logs, OfKey(k))
          BY <5>2, CountReplace
        <5> QED BY <5>1, <5>3
      <4> QED BY <2>1, <4>5, KeyCount
    <3> QED BY <1>6, <3>1, <3>2, UpdatedLogs
  <2>3. Matches(logs, tokens)'
    BY <2>1, <2>2 DEF AssocInv, Matches
  <2>4. (disk # None => Matches(disk.logs, disk.tokens))'
    BY <2>1 DEF AssocInv, Matches
  <2> QED BY <2>3, <2>4 DEF AssocInv
<1>7. ASSUME NEW op, HandleQuery(op) PROVE AssocInv'
  BY <1>u, <1>7 DEF HandleQuery
<1>8. CASE HandleCloneToSave
  <2>1. UNCHANGED <<logs, tokens>> /\ disk' = [logs |-> logs, tokens |-> tokens]
    BY <1>8 DEF HandleCloneToSave
  <2>2. disk'.logs = logs /\ disk'.tokens = tokens
    BY <2>1
  <2> QED BY <2>1, <2>2 DEF AssocInv, Matches, CountKey
<1>9. CASE load
  <2>1. logs' = disk.logs /\ tokens' = disk.tokens /\ disk # None /\ disk' = None
    BY <1>9 DEF load
  <2> QED BY <2>1 DEF AssocInv, Matches, CountKey
<1> QED BY <1>1, <1>2, <1>3, <1>4, <1>5, <1>6, <1>7, <1>8, <1>9 DEF Next, Actor

\* Sending a command that is no question disturbs no question.
LEMMA QueueSend ==
    ASSUME TypeInv, QueueInv, NEW cmd \in Command, Send(cmd), ~Question(cmd),
           UNCHANGED <<alive, waiting, left>>,
           \A r \in Requests : /\ pc[r] \in {"asking", "gone"} => pc'[r] = pc[r]
                               /\ pc'[r] = "asking" => pc[r] = "asking"
    PROVE  QueueInv'
<1>1. /\ Len(chan) \in Nat
      /\ Len(chan') = Len(chan) + 1
      /\ \A i \in 1 .. Len(chan) : chan'[i] = chan[i] /\ chan[i] \in Command
      /\ chan'[Len(chan) + 1] = cmd
      /\ \A i \in 1 .. Len(chan') : i \in 1 .. Len(chan) \/ i = Len(chan) + 1
  BY Sent
<1>2. \A i \in 1 .. Len(chan) : i \in 1 .. Len(chan')
  BY <1>1
<1>3. \A i \in 1 .. Len(chan') : Question(chan'[i]) => i \in 1 .. Len(chan) /\ chan'[i] = chan[i]
  BY <1>1
<1>4. \A i \in 1 .. Len(chan) : chan[i].op = "GetNextLogId" => chan[i].from \in Requests
  BY <1>1, CommandFields
<1>5. \A i, j \in 1 .. Len(chan') :
        Question(chan'[i]) /\ Question(chan'[j]) /\ chan'[i].from = chan'[j].from => i = j
  BY <1>3 DEF QueueInv
<1>6. ASSUME NEW i \in 1 .. Len(chan')
      PROVE  /\ chan'[i].op = "GetNextLogId" => pc'[chan'[i].from] \in {"asking", "gone"}
             /\ chan'[i].op \in {"GetLogs", "GetToken", "CloneToSave"} =>
                   chan'[i].from \in waiting' \cup left'
  <2>1. CASE ~Question(chan'[i])
    BY <2>1 DEF Question
  <2>2. CASE Question(chan'[i])
    <3>1. i \in 1 .. Len(chan) /\ chan'[i] = chan[i]
      BY <1>3, <2>2
    <3> QED BY <3>1, <1>4 DEF QueueInv
  <2> QED BY <2>1, <2>2
<1>7. alive' => \A r \in Requests : pc'[r] = "asking" =>
        \E i \in 1 .. Len(chan') : chan'[i].op = "GetNextLogId" /\ chan'[i].from = r
  BY <1>1, <1>2 DEF QueueInv
<1>8. alive' => \A v \in waiting' : \E i \in 1 .. Len(chan') : chan'[i].from = v
  BY <1>1, <1>2 DEF QueueInv
<1> QED BY <1>5, <1>6, <1>7, <1>8 DEF QueueInv, Question

\* Receiving a command that is no question disturbs no question either.
LEMMA QueueReceive ==
    ASSUME TypeInv, QueueInv, NEW op \in {"AddLog", "UpdateLog"}, Receive(op),
           UNCHANGED <<alive, pc, waiting, left>>
    PROVE  QueueInv'
<1>1. /\ alive
      /\ chan[1] \in Command
      /\ chan[1].op = op
      /\ Len(chan) \in Nat \ {0}
      /\ Len(chan') = Len(chan) - 1
      /\ \A i \in 1 .. Len(chan') : i + 1 \in 1 .. Len(chan) /\ chan'[i] = chan[i + 1]
      /\ \A j \in 1 .. Len(chan) :
            j = 1 \/ (j - 1 \in 1 .. Len(chan') /\ chan'[j - 1] = chan[j])
  BY Received
<1>2. chan[1].from \in Requests
  BY <1>1, CommandFields
<1>3. \A i, j \in 1 .. Len(chan') :
        Question(chan'[i]) /\ Question(chan'[j]) /\ chan'[i].from = chan'[j].from => i = j
  <2> SUFFICES ASSUME NEW i \in 1 .. Len(chan'), NEW j \in 1 .. Len(chan'),
                      Question(chan'[i]), Question(chan'[j]), chan'[i].from = chan'[j].from
               PROVE  i = j
    OBVIOUS
  <2>1. i + 1 = j + 1
    BY <1>1 DEF QueueInv
  <2> QED BY <2>1, <1>1
<1>4. \A i \in 1 .. Len(chan') :
          /\ chan'[i].op = "GetNextLogId" => pc'[chan'[i].from] \in {"asking", "gone"}
          /\ chan'[i].op \in {"GetLogs", "GetToken", "CloneToSave"} =>
                chan'[i].from \in waiting' \cup left'
  BY <1>1 DEF QueueInv
<1>5. \A r \in Requests : pc'[r] = "asking" =>
        \E i \in 1 .. Len(chan') : chan'[i].op = "GetNextLogId" /\ chan'[i].from = r
  <2> SUFFICES ASSUME NEW r \in Requests, pc'[r] = "asking"
               PROVE  \E i \in 1 .. Len(chan') : chan'[i].op = "GetNextLogId" /\ chan'[i].from = r
    OBVIOUS
  <2>1. PICK i \in 1 .. Len(chan) : chan[i].op = "GetNextLogId" /\ chan[i].from = r
    BY <1>1 DEF QueueInv
  <2> QED BY <2>1, <1>1
<1>6. \A v \in waiting' : \E i \in 1 .. Len(chan') : chan'[i].from = v
  <2> SUFFICES ASSUME NEW v \in waiting' PROVE \E i \in 1 .. Len(chan') : chan'[i].from = v
    OBVIOUS
  <2>1. PICK i \in 1 .. Len(chan) : chan[i].from = v
    BY <1>1 DEF QueueInv
  <2>2. v \notin Requests
    BY LogAssumption DEF TypeInv, Queriers
  <2> QED BY <2>1, <2>2, <1>1, <1>2
<1> QED BY <1>3, <1>4, <1>5, <1>6 DEF QueueInv

\* Every step keeps the questions in the channel in accordance with the askers.
LEMMA QueueStep ==
    ASSUME TypeInv, QueueInv, Next
    PROVE  QueueInv'
<1> USE DEF actorVars, counters, others
<1>p. \A r \in Requests : pc[r] \in Phases
  BY DEF TypeInv
<1>1. ASSUME NEW r \in Requests, get_next_log_id(r) PROVE QueueInv'
  <2> DEFINE cmd == [op |-> "GetNextLogId", from |-> r]
  <2>1. Send(cmd) /\ cmd \in Command
    BY <1>1, SentCommands DEF get_next_log_id
  <2>2. cmd.op = "GetNextLogId" /\ cmd.from = r
    OBVIOUS
  <2> HIDE DEF cmd
  <2>3. /\ alive
        /\ Len(chan) \in Nat
        /\ Len(chan') = Len(chan) + 1
        /\ \A i \in 1 .. Len(chan) : chan'[i] = chan[i] /\ chan[i] \in Command
        /\ chan'[Len(chan) + 1] = cmd
        /\ \A i \in 1 .. Len(chan') : i \in 1 .. Len(chan) \/ i = Len(chan) + 1
    BY <2>1, Sent
  <2>4. pc[r] = "counted" /\ pc' = [pc EXCEPT ![r] = "asking"] /\ UNCHANGED <<waiting, left>>
    BY <1>1 DEF get_next_log_id
  <2>5. /\ pc'[r] = "asking"
        /\ \A s \in Requests : s # r => pc'[s] = pc[s]
    BY <2>4 DEF TypeInv
  <2>6. \A i \in 1 .. Len(chan) : chan[i].op = "GetNextLogId" =>
          chan[i].from \in Requests /\ chan[i].from # r
    BY <2>3, <2>4, CommandFields DEF QueueInv
  <2>7. \A i \in 1 .. Len(chan) : Question(chan[i]) => chan[i].from # r
    <3> SUFFICES ASSUME NEW i \in 1 .. Len(chan), Question(chan[i]) PROVE chan[i].from # r
      OBVIOUS
    <3>1. CASE chan[i].op = "GetNextLogId"
      BY <2>6, <3>1
    <3>2. CASE chan[i].op # "GetNextLogId"
      BY <2>3, <3>2, CommandFields, LogAssumption DEF Question
    <3> QED BY <3>1, <3>2
  <2>8. \A i, j \in 1 .. Len(chan') :
          Question(chan'[i]) /\ Question(chan'[j]) /\ chan'[i].from = chan'[j].from => i = j
    BY <2>2, <2>3, <2>7 DEF QueueInv
  <2>9. \A i \in 1 .. Len(chan') :
            /\ chan'[i].op = "GetNextLogId" => pc'[chan'[i].from] \in {"asking", "gone"}
            /\ chan'[i].op \in {"GetLogs", "GetToken", "CloneToSave"} =>
                  chan'[i].from \in waiting' \cup left'
    BY <2>2, <2>3, <2>4, <2>5, <2>6 DEF QueueInv
  <2>10. \A s \in Requests : pc'[s] = "asking" =>
          \E i \in 1 .. Len(chan') : chan'[i].op = "GetNextLogId" /\ chan'[i].from = s
    <3> SUFFICES ASSUME NEW s \in Requests, pc'[s] = "asking"
                 PROVE  \E i \in 1 .. Len(chan') :
                           chan'[i].op = "GetNextLogId" /\ chan'[i].from = s
      OBVIOUS
    <3>0. \A i \in 1 .. Len(chan) : i \in 1 .. Len(chan')
      BY <2>3
    <3>1. CASE s = r
      <4>1. Len(chan) + 1 \in 1 .. Len(chan')
        BY <2>3
      <4> QED BY <3>1, <4>1, <2>2, <2>3
    <3>2. CASE s # r
      BY <3>0, <3>2, <2>3, <2>5 DEF QueueInv
    <3> QED BY <3>1, <3>2
  <2>11. \A v \in waiting' : \E i \in 1 .. Len(chan') : chan'[i].from = v
    <3>0. \A i \in 1 .. Len(chan) : i \in 1 .. Len(chan')
      BY <2>3
    <3> QED BY <3>0, <2>3, <2>4 DEF QueueInv
  <2> QED BY <2>4, <2>8, <2>9, <2>10, <2>11 DEF QueueInv
<1>2. ASSUME NEW r \in Requests, NEW k \in Keys, add_log(r, k) PROVE QueueInv'
  <2> DEFINE cmd == [op |-> "AddLog", from |-> r, id |-> cur[r], key |-> k]
  <2>1. Send(cmd) /\ cmd \in Command
    BY <1>2, SentCommands DEF add_log
  <2>2. ~Question(cmd)
    BY DEF Question
  <2>3. \A s \in Requests : /\ pc[s] \in {"asking", "gone"} => pc'[s] = pc[s]
                            /\ pc'[s] = "asking" => pc[s] = "asking"
    BY <1>2 DEF add_log, TypeInv
  <2>4. UNCHANGED <<alive, waiting, left>>
    BY <1>2 DEF add_log
  <2> HIDE DEF cmd
  <2> QED BY <2>1, <2>2, <2>3, <2>4, QueueSend
<1>3. ASSUME NEW r \in Requests, NEW u \in Updates, update_log(r, u) PROVE QueueInv'
  <2> DEFINE cmd == [op |-> "UpdateLog", from |-> r, id |-> cur[r], ops |-> u]
  <2>1. Send(cmd) /\ cmd \in Command
    BY <1>3, SentCommands DEF update_log
  <2>2. ~Question(cmd)
    BY DEF Question
  <2>3. \A s \in Requests : /\ pc[s] \in {"asking", "gone"} => pc'[s] = pc[s]
                            /\ pc'[s] = "asking" => pc[s] = "asking"
    BY <1>3 DEF update_log, TypeInv, Reports, Reported
  <2>4. UNCHANGED <<alive, waiting, left>>
    BY <1>3 DEF update_log
  <2> HIDE DEF cmd
  <2> QED BY <2>1, <2>2, <2>3, <2>4, QueueSend
<1>4. ASSUME NEW r \in Requests, update_other(r) PROVE QueueInv'
  <2> DEFINE cmd == [op |-> "UpdateLog", from |-> r, id |-> cur[r], ops |-> "Other"]
  <2>1. Send(cmd) /\ cmd \in Command
    BY <1>4, SentCommands DEF update_other, Updates
  <2>2. ~Question(cmd)
    BY DEF Question
  <2>3. UNCHANGED <<alive, waiting, left, pc>>
    BY <1>4 DEF update_other
  <2> HIDE DEF cmd
  <2> QED BY <2>1, <2>2, <2>3, QueueSend
<1>5. ASSUME NEW r \in Requests, begin(r) \/ count(r) \/ disconnect(r) PROVE QueueInv'
  <2>1. /\ UNCHANGED <<alive, chan, waiting, left>>
        /\ \E x : /\ pc' = [pc EXCEPT ![r] = x]
                  /\ x # "asking"
                  /\ pc[r] \in {"asking", "gone"} => x = "gone"
    <3>1. CASE begin(r)
      BY <3>1 DEF begin
    <3>2. CASE count(r)
      <4> DEFINE x == IF pc[r] = "answered" THEN "success" ELSE "failed"
      <4>1. pc' = [pc EXCEPT ![r] = x] /\ UNCHANGED <<alive, chan, waiting, left>>
        BY <3>2 DEF count
      <4>2. x # "asking" /\ pc[r] \notin {"asking", "gone"}
        BY <3>2 DEF count
      <4> QED BY <4>1, <4>2
    <3>3. CASE disconnect(r)
      BY <3>3 DEF disconnect
    <3> QED BY <1>5, <3>1, <3>2, <3>3
  <2>2. \A s \in Requests : /\ pc'[s] = "asking" => pc[s] = "asking"
                            /\ pc[s] \in {"asking", "gone"} => pc'[s] \in {"asking", "gone"}
    <3>1. PICK x : /\ pc' = [pc EXCEPT ![r] = x]
                   /\ x # "asking"
                   /\ pc[r] \in {"asking", "gone"} => x = "gone"
      BY <2>1
    <3>2. pc'[r] = x /\ \A s \in Requests : s # r => pc'[s] = pc[s]
      BY <3>1 DEF TypeInv
    <3> QED BY <3>1, <3>2
  <2>3. \A i \in 1 .. Len(chan) : chan[i].op = "GetNextLogId" => chan[i].from \in Requests
    <3>1. \A i \in 1 .. Len(chan) : chan[i] \in Command
      BY ElementOfSeq DEF TypeInv
    <3> QED BY <3>1, CommandFields
  <2>4. \A i \in 1 .. Len(chan) :
            chan[i].op = "GetNextLogId" => pc'[chan[i].from] \in {"asking", "gone"}
    BY <2>2, <2>3 DEF QueueInv
  <2>5. alive => \A s \in Requests : pc'[s] = "asking" =>
          \E i \in 1 .. Len(chan) : chan[i].op = "GetNextLogId" /\ chan[i].from = s
    BY <2>2 DEF QueueInv
  <2> QED BY <2>1, <2>4, <2>5 DEF QueueInv
<1>6. ASSUME NEW v \in Queriers, NEW op \in {"GetLogs", "GetToken", "CloneToSave"}, query(v, op)
      PROVE  QueueInv'
  <2> DEFINE cmd == [op |-> op, from |-> v]
  <2>1. Send(cmd) /\ cmd \in Command
    BY <1>6, SentCommands DEF query
  <2>2. cmd.op = op /\ cmd.from = v
    OBVIOUS
  <2> HIDE DEF cmd
  <2>3. /\ alive
        /\ Len(chan) \in Nat
        /\ Len(chan') = Len(chan) + 1
        /\ \A i \in 1 .. Len(chan) : chan'[i] = chan[i] /\ chan[i] \in Command
        /\ chan'[Len(chan) + 1] = cmd
        /\ \A i \in 1 .. Len(chan') : i \in 1 .. Len(chan) \/ i = Len(chan) + 1
    BY <2>1, Sent
  <2>4. v \notin waiting \cup left /\ waiting' = waiting \cup {v} /\ UNCHANGED <<pc, left>>
    BY <1>6 DEF query
  <2>5. \A i \in 1 .. Len(chan) : Question(chan[i]) => chan[i].from # v
    <3> SUFFICES ASSUME NEW i \in 1 .. Len(chan), Question(chan[i]) PROVE chan[i].from # v
      OBVIOUS
    <3>1. CASE chan[i].op = "GetNextLogId"
      BY <2>3, <3>1, CommandFields, LogAssumption DEF Queriers
    <3>2. CASE chan[i].op # "GetNextLogId"
      BY <2>4, <3>2 DEF Question, QueueInv
    <3> QED BY <3>1, <3>2
  <2>6. \A i, j \in 1 .. Len(chan') :
          Question(chan'[i]) /\ Question(chan'[j]) /\ chan'[i].from = chan'[j].from => i = j
    BY <2>2, <2>3, <2>5 DEF QueueInv
  <2>7. \A i \in 1 .. Len(chan') :
            /\ chan'[i].op = "GetNextLogId" => pc'[chan'[i].from] \in {"asking", "gone"}
            /\ chan'[i].op \in {"GetLogs", "GetToken", "CloneToSave"} =>
                  chan'[i].from \in waiting' \cup left'
    BY <2>2, <2>3, <2>4 DEF QueueInv
  <2>8. /\ \A i \in 1 .. Len(chan) : i \in 1 .. Len(chan')
        /\ Len(chan) + 1 \in 1 .. Len(chan')
    BY <2>3
  <2>9. \A s \in Requests : pc'[s] = "asking" =>
          \E i \in 1 .. Len(chan') : chan'[i].op = "GetNextLogId" /\ chan'[i].from = s
    BY <2>3, <2>4, <2>8 DEF QueueInv
  <2>10. \A w \in waiting' : \E i \in 1 .. Len(chan') : chan'[i].from = w
    BY <2>2, <2>3, <2>4, <2>8 DEF QueueInv
  <2> QED BY <2>4, <2>6, <2>7, <2>9, <2>10 DEF QueueInv
<1>7. ASSUME NEW v \in Viewers, hang_up(v) PROVE QueueInv'
  <2>1. /\ UNCHANGED <<alive, chan, pc>>
        /\ waiting' = waiting \ {v}
        /\ left' = left \cup {v}
    BY <1>7 DEF hang_up
  <2> QED BY <2>1 DEF QueueInv, Question
<1>8. ASSUME NEW op \in {"GetNextLogId", "GetLogs", "GetToken", "CloneToSave"}, Receive(op),
             UNCHANGED left,
             \A r \in Requests : pc'[r] = pc[r] \/ r = chan[1].from,
             op = "GetNextLogId" => pc'[chan[1].from] # "asking" \/ ~alive',
             waiting' = waiting \ {chan[1].from}
      PROVE  QueueInv'
  <2>1. /\ alive
        /\ chan[1] \in Command
        /\ chan[1].op = op
        /\ Len(chan) \in Nat \ {0}
        /\ Len(chan') = Len(chan) - 1
        /\ \A i \in 1 .. Len(chan) : chan[i] \in Command
        /\ \A i \in 1 .. Len(chan') : i + 1 \in 1 .. Len(chan) /\ chan'[i] = chan[i + 1]
        /\ \A j \in 1 .. Len(chan) :
              j = 1 \/ (j - 1 \in 1 .. Len(chan') /\ chan'[j - 1] = chan[j])
    BY <1>8, Received
  <2>2. 1 \in 1 .. Len(chan) /\ Question(chan[1])
    BY <2>1 DEF Question
  <2>3. \A i \in 1 .. Len(chan') : Question(chan'[i]) => chan'[i].from # chan[1].from
    <3> SUFFICES ASSUME NEW i \in 1 .. Len(chan'), Question(chan'[i]),
                        chan'[i].from = chan[1].from
                 PROVE  FALSE
      OBVIOUS
    <3>1. i + 1 = 1
      BY <2>1, <2>2 DEF QueueInv
    <3> QED BY <3>1, <2>1
  <2>4. \A i, j \in 1 .. Len(chan') :
          Question(chan'[i]) /\ Question(chan'[j]) /\ chan'[i].from = chan'[j].from => i = j
    <3> SUFFICES ASSUME NEW i \in 1 .. Len(chan'), NEW j \in 1 .. Len(chan'),
                        Question(chan'[i]), Question(chan'[j]), chan'[i].from = chan'[j].from
                 PROVE  i = j
      OBVIOUS
    <3>1. i + 1 = j + 1
      BY <2>1 DEF QueueInv
    <3> QED BY <3>1, <2>1
  <2>5. ASSUME NEW i \in 1 .. Len(chan')
        PROVE  /\ chan'[i].op = "GetNextLogId" => pc'[chan'[i].from] \in {"asking", "gone"}
               /\ chan'[i].op \in {"GetLogs", "GetToken", "CloneToSave"} =>
                     chan'[i].from \in waiting' \cup left'
    <3>1. i + 1 \in 1 .. Len(chan) /\ chan'[i] = chan[i + 1] /\ chan[i + 1] \in Command
      BY <2>1
    <3>2. CASE chan'[i].op = "GetNextLogId"
      <4>1. chan'[i].from # chan[1].from
        BY <2>3, <3>2 DEF Question
      <4>2. chan'[i].from \in Requests
        BY <3>1, <3>2, CommandFields
      <4>3. pc'[chan'[i].from] = pc[chan'[i].from]
        BY <4>1, <4>2, <1>8
      <4> QED BY <3>1, <3>2, <4>3 DEF QueueInv
    <3>3. CASE chan'[i].op \in {"GetLogs", "GetToken", "CloneToSave"}
      <4>1. chan'[i].from # chan[1].from
        BY <2>3, <3>3 DEF Question
      <4>2. chan'[i].from \in waiting \cup left
        BY <3>1, <3>3 DEF QueueInv
      <4> QED BY <3>3, <4>1, <4>2, <1>8
    <3> QED BY <3>2, <3>3
  <2>6. alive' => \A r \in Requests : pc'[r] = "asking" =>
          \E i \in 1 .. Len(chan') : chan'[i].op = "GetNextLogId" /\ chan'[i].from = r
    <3> SUFFICES ASSUME alive', NEW r \in Requests, pc'[r] = "asking"
                 PROVE  \E i \in 1 .. Len(chan') :
                           chan'[i].op = "GetNextLogId" /\ chan'[i].from = r
      OBVIOUS
    <3>1. r # chan[1].from
      <4>1. CASE op = "GetNextLogId"
        BY <4>1, <1>8
      <4>2. CASE op # "GetNextLogId"
        BY <4>2, <2>1, CommandFields, LogAssumption
      <4> QED BY <4>1, <4>2
    <3>2. pc[r] = "asking"
      BY <3>1, <1>8
    <3>3. PICK i \in 1 .. Len(chan) : chan[i].op = "GetNextLogId" /\ chan[i].from = r
      BY <3>2, <2>1 DEF QueueInv
    <3>4. i - 1 \in 1 .. Len(chan') /\ chan'[i - 1] = chan[i]
      BY <3>1, <3>3, <2>1
    <3> QED BY <3>3, <3>4
  <2>7. \A v \in waiting' : \E i \in 1 .. Len(chan') : chan'[i].from = v
    <3> SUFFICES ASSUME NEW v \in waiting' PROVE \E i \in 1 .. Len(chan') : chan'[i].from = v
      OBVIOUS
    <3>1. v \in waiting /\ v # chan[1].from
      BY <1>8
    <3>2. PICK i \in 1 .. Len(chan) : chan[i].from = v
      BY <3>1, <2>1 DEF QueueInv
    <3>3. i - 1 \in 1 .. Len(chan') /\ chan'[i - 1] = chan[i]
      BY <3>1, <3>2, <2>1
    <3> QED BY <3>2, <3>3
  <2>8. waiting' \cap left' = {}
    BY <1>8 DEF QueueInv
  <2> QED BY <2>4, <2>5, <2>6, <2>7, <2>8 DEF QueueInv
<1>9. CASE HandleGetNextLogId
  <2>1. Receive("GetNextLogId") /\ UNCHANGED <<waiting, left>>
    BY <1>9 DEF HandleGetNextLogId
  <2>2. chan[1] = Head(chan) /\ chan[1].from \in Requests
    BY <2>1, Received, CommandFields
  <2>3. \A r \in Requests : pc'[r] = pc[r] \/ r = chan[1].from
    BY <1>9, <2>2 DEF HandleGetNextLogId, TypeInv
  <2>4. pc'[chan[1].from] # "asking" \/ ~alive'
    BY <1>9, <2>2 DEF HandleGetNextLogId, TypeInv
  <2>5. waiting' = waiting \ {chan[1].from}
    BY <2>1, <2>2, LogAssumption DEF TypeInv, Queriers
  <2> QED BY <2>1, <2>3, <2>4, <2>5, <1>8
<1>10. CASE HandleAddLog
  <2>1. Receive("AddLog") /\ UNCHANGED <<alive, pc, waiting, left>>
    BY <1>10 DEF HandleAddLog
  <2> QED BY <2>1, QueueReceive
<1>11. CASE HandleUpdateLog
  <2>1. Receive("UpdateLog") /\ UNCHANGED <<alive, pc, waiting, left>>
    BY <1>11 DEF HandleUpdateLog
  <2> QED BY <2>1, QueueReceive
<1>12. ASSUME NEW op \in {"GetLogs", "GetToken"}, HandleQuery(op) PROVE QueueInv'
  <2>1. Receive(op) /\ UNCHANGED <<pc, left>> /\ waiting' = waiting \ {Head(chan).from}
    BY <1>12 DEF HandleQuery
  <2>2. chan[1] = Head(chan)
    BY <2>1, Received
  <2> QED BY <2>1, <2>2, <1>8
<1>13. CASE HandleCloneToSave
  <2>1. Receive("CloneToSave") /\ UNCHANGED <<pc, left>> /\ waiting' = waiting \ {Main}
    BY <1>13 DEF HandleCloneToSave
  <2>2. chan[1].from = Main
    BY <2>1, Received, CommandFields
  <2> QED BY <2>1, <2>2, <1>8
<1>14. CASE load
  <2>1. chan' = <<>> /\ waiting' = {} /\ Len(chan') = 0 /\ left' = {}
    BY <1>14, EmptySeq DEF load
  <2>2. \A r \in Requests : pc'[r] # "asking"
    BY <1>14 DEF load
  <2> QED BY <2>1, <2>2 DEF QueueInv
<1> QED BY <1>1, <1>2, <1>3, <1>4, <1>5, <1>6, <1>7, <1>9, <1>10, <1>11, <1>12, <1>13, <1>14
        DEF Next, Client, Actor

Indicator(b) == IF b THEN 1 ELSE 0

\* How a request's move to another phase changes the number of the requests in
\* some phases.
LEMMA MovedIn ==
    ASSUME TypeInv, NEW P, IsFiniteSet(In(P)), NEW r \in Requests, NEW x,
           pc' = [pc EXCEPT ![r] = x]
    PROVE  /\ Cardinality(In(P)) \in Nat /\ Cardinality(In(P)') \in Nat
           /\ IsFiniteSet(In(P)')
           /\ Cardinality(In(P)')
                = Cardinality(In(P)) + Indicator(x \in P) - Indicator(pc[r] \in P)
<1>1. pc'[r] = x /\ \A s \in Requests : s # r => pc'[s] = pc[s]
  BY DEF TypeInv
<1>2. r \in In(P) <=> pc[r] \in P
  BY DEF In
<1>3. Cardinality(In(P)) \in Nat
  BY FS_CardinalityType
<1>4. CASE x \in P
  <2>1. In(P)' = In(P) \cup {r}
    BY <1>1, <1>4 DEF In
  <2>2. /\ IsFiniteSet(In(P) \cup {r})
        /\ Cardinality(In(P) \cup {r}) = IF r \in In(P) THEN Cardinality(In(P))
                                                       ELSE Cardinality(In(P)) + 1
    BY FS_AddElement
  <2> QED BY <1>2, <1>3, <1>4, <2>1, <2>2, FS_CardinalityType DEF Indicator
<1>5. CASE x \notin P
  <2>1. In(P)' = In(P) \ {r}
    BY <1>1, <1>5 DEF In
  <2>2. /\ IsFiniteSet(In(P) \ {r})
        /\ Cardinality(In(P) \ {r}) = IF r \in In(P) THEN Cardinality(In(P)) - 1
                                                     ELSE Cardinality(In(P))
    BY FS_RemoveElement
  <2> QED BY <1>2, <1>3, <1>5, <2>1, <2>2, FS_CardinalityType DEF Indicator
<1> QED BY <1>4, <1>5

\* How it changes the numbers of those that are entering, active or erring.
LEMMA Moved ==
    ASSUME TypeInv, CountInv, NEW r \in Requests, NEW x,
           pc' = [pc EXCEPT ![r] = x]
    PROVE  /\ Cardinality(Active) \in Nat /\ Cardinality(Active') \in Nat
           /\ Cardinality(Entering) \in Nat /\ Cardinality(Entering') \in Nat
           /\ Cardinality(Erring) \in Nat /\ Cardinality(Erring') \in Nat
           /\ IsFiniteSet(Active') /\ IsFiniteSet(Erring')
           /\ Cardinality(Active') = Cardinality(Active)
                + Indicator(x \in ActivePhases) - Indicator(pc[r] \in ActivePhases)
           /\ Cardinality(Entering') = Cardinality(Entering)
                + Indicator(x \in EnteringPhases) - Indicator(pc[r] \in EnteringPhases)
           /\ Cardinality(Erring') = Cardinality(Erring)
                + Indicator(x \in ErringPhases) - Indicator(pc[r] \in ErringPhases)
<1>1. IsFiniteSet(In(ActivePhases)) /\ IsFiniteSet(In(ErringPhases))
  BY DEF CountInv, Active, Erring
<1>2. IsFiniteSet(In(EnteringPhases))
  <2>1. In(EnteringPhases) \in SUBSET In(ActivePhases)
    BY DEF In, EnteringPhases, ActivePhases
  <2> QED BY <1>1, <2>1, FS_Subset
<1> QED BY <1>1, <1>2, MovedIn DEF Active, Entering, Erring

\* The numbers in CountInv are numbers.
LEMMA CountTypes ==
    ASSUME TypeInv, CountInv
    PROVE  /\ Len(logs) \in Nat
           /\ Cardinality(Active) \in Nat
           /\ Cardinality(Entering) \in Nat
           /\ Cardinality(Erring) \in Nat
           /\ Cardinality(dropped) \in Nat
           /\ Count(chan, Additions) \in Nat
           /\ Count(chan, FailureUpdates) \in Nat
           /\ Count(logs, FailedLogs) \in Nat
<1>1. IsFiniteSet(Active) /\ IsFiniteSet(Erring) /\ Entering \in SUBSET Active
  BY DEF CountInv, Entering, Active, In, EnteringPhases, ActivePhases
<1>2. Cardinality(Active) \in Nat /\ Cardinality(Entering) \in Nat /\ Cardinality(Erring) \in Nat
  BY <1>1, FS_Subset, FS_CardinalityType
<1>3. Cardinality(dropped) \in Nat
  BY FS_CardinalityType DEF CountInv
<1>4. chan \in Seq(Command) /\ logs \in Seq(Log)
  BY DEF TypeInv
<1>5. Count(chan, Additions) \in Nat /\ Count(chan, FailureUpdates) \in Nat
      /\ Count(logs, FailedLogs) \in Nat /\ Len(logs) \in Nat
  BY <1>4, CountType, LenProperties
<1> QED BY <1>2, <1>3, <1>5

\* Every step keeps the counters in accordance with the requests and the logs.
LEMMA CountStep ==
    ASSUME TypeInv, CountInv, Next
    PROVE  CountInv'
<1> USE DEF actorVars, counters, others
<1>t. /\ total_requests \in Int /\ active_requests \in Int /\ error_requests \in Nat
  BY DEF TypeInv
<1>c. /\ IsFiniteSet(dropped)
      /\ IsFiniteSet(Erring)
      /\ \A r \in dropped : pc[r] = "gone"
      /\ active_requests = Cardinality(Active) + Cardinality(dropped)
      /\ total_requests >= Len(logs) + Count(chan, Additions) + Cardinality(Entering)
      /\ error_requests + Cardinality(Erring)
           >= Count(logs, FailedLogs) + Count(chan, FailureUpdates)
  BY DEF CountInv
<1>p. UNCHANGED pc => /\ Active' = Active
                      /\ Entering' = Entering
                      /\ Erring' = Erring
                      /\ IsFiniteSet(Active')
                      /\ IsFiniteSet(Erring')
  BY DEF Active, Entering, Erring, In, CountInv
<1>s. ASSUME NEW r \in Requests, NEW a \in Nat, NEW f \in Nat, UNCHANGED <<logs, dropped>>,
             Count(chan', Additions) = Count(chan, Additions) + a,
             Count(chan', FailureUpdates) = Count(chan, FailureUpdates) + f,
             \/ pc' = pc
             \/ \E x : pc' = [pc EXCEPT ![r] = x] /\ pc[r] # "gone",
             active_requests' - active_requests = Cardinality(Active') - Cardinality(Active),
             active_requests' \in Int,
             total_requests' \in Int,
             total_requests' >= total_requests + a + Cardinality(Entering') - Cardinality(Entering),
             error_requests' \in Nat,
             error_requests' + Cardinality(Erring') >= error_requests + Cardinality(Erring) + f
      PROVE  CountInv'
  <2>2. /\ IsFiniteSet(Active') /\ IsFiniteSet(Erring')
        /\ Cardinality(Active') \in Nat /\ Cardinality(Entering') \in Nat
        /\ Cardinality(Erring') \in Nat
    <3>1. CASE pc' = pc
      BY <1>p, <3>1, CountTypes
    <3>2. CASE \E x : pc' = [pc EXCEPT ![r] = x] /\ pc[r] # "gone"
      BY <3>2, Moved
    <3> QED BY <1>s, <3>1, <3>2
  <2>3. \A s \in dropped' : pc'[s] = "gone"
    BY <1>s, <1>c DEF TypeInv
  <2>5. active_requests' = Cardinality(Active') + Cardinality(dropped)
    <3>1. /\ active_requests' - active_requests = Cardinality(Active') - Cardinality(Active)
          /\ active_requests = Cardinality(Active) + Cardinality(dropped)
          /\ active_requests' \in Int
          /\ Cardinality(Active) \in Nat /\ Cardinality(Active') \in Nat
          /\ Cardinality(dropped) \in Nat
      BY <1>s, <1>c, <2>2, CountTypes
    <3> QED BY <3>1
  <2>6. total_requests' >= Len(logs) + Count(chan', Additions) + Cardinality(Entering')
    <3>1. /\ total_requests' >= total_requests + a + Cardinality(Entering') - Cardinality(Entering)
          /\ total_requests >= Len(logs) + Count(chan, Additions) + Cardinality(Entering)
          /\ Count(chan', Additions) = Count(chan, Additions) + a
          /\ total_requests' \in Int /\ total_requests \in Int
      BY <1>s, <1>c, <1>t
    <3>2. /\ Len(logs) \in Nat /\ Count(chan, Additions) \in Nat
          /\ Cardinality(Entering) \in Nat /\ Cardinality(Entering') \in Nat
      BY <2>2, CountTypes
    <3> QED BY <3>1, <3>2
  <2>7. error_requests' + Cardinality(Erring')
          >= Count(logs, FailedLogs) + Count(chan', FailureUpdates)
    <3>1. /\ error_requests' + Cardinality(Erring') >= error_requests + Cardinality(Erring) + f
          /\ error_requests + Cardinality(Erring)
               >= Count(logs, FailedLogs) + Count(chan, FailureUpdates)
          /\ Count(chan', FailureUpdates) = Count(chan, FailureUpdates) + f
          /\ error_requests' \in Nat /\ error_requests \in Nat
      BY <1>s, <1>c, <1>t
    <3>2. /\ Count(logs, FailedLogs) \in Nat /\ Count(chan, FailureUpdates) \in Nat
          /\ Cardinality(Erring) \in Nat /\ Cardinality(Erring') \in Nat
      BY <2>2, CountTypes
    <3> QED BY <3>1, <3>2
  <2> QED BY <1>s, <1>c, <2>2, <2>3, <2>5, <2>6, <2>7 DEF CountInv
<1>r. ASSUME NEW op, Receive(op), UNCHANGED <<counters, dropped>>,
             IsFiniteSet(Active'), Cardinality(Active') = Cardinality(Active),
             Cardinality(Entering') = Cardinality(Entering),
             IsFiniteSet(Erring'), Cardinality(Erring') = Cardinality(Erring),
             \A s \in dropped : pc'[s] = "gone",
             Len(logs') \in Nat,
             Len(logs') <= Len(logs) + Indicator(chan[1] \in Additions),
             Count(logs', FailedLogs) \in Nat,
             Count(logs', FailedLogs) <= Count(logs, FailedLogs) + Indicator(chan[1] \in FailureUpdates)
      PROVE  CountInv'
  <2>1. /\ Count(chan, Additions) = Count(chan', Additions) + Indicator(chan[1] \in Additions)
        /\ Count(chan, FailureUpdates)
             = Count(chan', FailureUpdates) + Indicator(chan[1] \in FailureUpdates)
        /\ chan' \in Seq(Command)
    BY <1>r, Received DEF Indicator
  <2>2. Count(chan', Additions) \in Nat /\ Count(chan', FailureUpdates) \in Nat
    BY <2>1, CountType
  <2>3. Indicator(chan[1] \in Additions) \in Nat /\ Indicator(chan[1] \in FailureUpdates) \in Nat
    BY DEF Indicator
  <2>4. total_requests' >= Len(logs') + Count(chan', Additions) + Cardinality(Entering')
    <3> DEFINE i == Indicator(chan[1] \in Additions)
    <3>1. /\ Len(logs') <= Len(logs) + i
          /\ total_requests >= Len(logs) + Count(chan, Additions) + Cardinality(Entering)
          /\ Count(chan, Additions) = Count(chan', Additions) + i
          /\ total_requests' = total_requests /\ total_requests \in Int
          /\ Cardinality(Entering') = Cardinality(Entering)
      BY <1>r, <1>c, <1>t, <2>1
    <3>2. /\ Len(logs) \in Nat /\ Len(logs') \in Nat /\ Count(chan', Additions) \in Nat
          /\ i \in Nat /\ Cardinality(Entering) \in Nat
      BY <1>r, <2>2, <2>3, CountTypes
    <3> HIDE DEF i
    <3> QED BY <3>1, <3>2
  <2>5. error_requests' + Cardinality(Erring')
          >= Count(logs', FailedLogs) + Count(chan', FailureUpdates)
    <3> DEFINE i == Indicator(chan[1] \in FailureUpdates)
    <3>1. /\ Count(logs', FailedLogs) <= Count(logs, FailedLogs) + i
          /\ error_requests + Cardinality(Erring)
               >= Count(logs, FailedLogs) + Count(chan, FailureUpdates)
          /\ Count(chan, FailureUpdates) = Count(chan', FailureUpdates) + i
          /\ error_requests' = error_requests /\ error_requests \in Nat
          /\ Cardinality(Erring') = Cardinality(Erring) /\ Cardinality(Erring) \in Nat
      BY CountTypes, <1>r, <1>c, <1>t, <2>1
    <3>2. /\ Count(logs, FailedLogs) \in Nat /\ Count(logs', FailedLogs) \in Nat
          /\ Count(chan', FailureUpdates) \in Nat /\ i \in Nat
      BY <1>r, <2>2, <2>3, CountTypes
    <3> HIDE DEF i
    <3> QED BY <3>1, <3>2
  <2> QED BY <1>r, <1>c, <2>4, <2>5 DEF CountInv
<1>1. ASSUME NEW r \in Requests, get_next_log_id(r) PROVE CountInv'
  <2> DEFINE cmd == [op |-> "GetNextLogId", from |-> r]
  <2>1. Send(cmd) /\ cmd \in Command
    BY <1>1, SentCommands DEF get_next_log_id, Updates
  <2>2. cmd.op = "GetNextLogId"
    OBVIOUS
  <2> HIDE DEF cmd
  <2>3. /\ pc[r] = "counted"
        /\ pc' = [pc EXCEPT ![r] = "asking"]
        /\ UNCHANGED <<logs, dropped, total_requests, active_requests, error_requests>>
    BY <1>1 DEF get_next_log_id
  <2>4. /\ Cardinality(Active') = Cardinality(Active)
        /\ Cardinality(Entering') = Cardinality(Entering)
        /\ Cardinality(Erring') = Cardinality(Erring)
    <3>1. /\ Cardinality(Active) \in Nat /\ Cardinality(Entering) \in Nat
          /\ Cardinality(Erring) \in Nat
          /\ Cardinality(Active') = Cardinality(Active)
               + Indicator("asking" \in ActivePhases) - Indicator(pc[r] \in ActivePhases)
          /\ Cardinality(Entering') = Cardinality(Entering)
               + Indicator("asking" \in EnteringPhases) - Indicator(pc[r] \in EnteringPhases)
          /\ Cardinality(Erring') = Cardinality(Erring)
               + Indicator("asking" \in ErringPhases) - Indicator(pc[r] \in ErringPhases)
      BY <2>3, Moved
    <3>2. /\ Indicator("asking" \in ActivePhases) = 1 /\ Indicator(pc[r] \in ActivePhases) = 1
          /\ Indicator("asking" \in EnteringPhases) = 1 /\ Indicator(pc[r] \in EnteringPhases) = 1
          /\ Indicator("asking" \in ErringPhases) = 0 /\ Indicator(pc[r] \in ErringPhases) = 0
      BY <2>3 DEF Indicator, ActivePhases, EnteringPhases, ErringPhases
    <3> QED BY <3>1, <3>2
  <2>5. /\ Count(chan', Additions) = Count(chan, Additions) + 0
        /\ Count(chan', FailureUpdates) = Count(chan, FailureUpdates) + 0
    <3>1. cmd \notin Additions /\ cmd \notin FailureUpdates
      BY <2>1, <2>2 DEF Additions, FailureUpdates
    <3> QED BY <2>1, <3>1, Sent
  <2>6. /\ active_requests' - active_requests = Cardinality(Active') - Cardinality(Active)
        /\ active_requests' \in Int
        /\ total_requests' \in Int
        /\ total_requests' >= total_requests + 0 + Cardinality(Entering') - Cardinality(Entering)
        /\ error_requests' \in Nat
        /\ error_requests' + Cardinality(Erring') >= error_requests + Cardinality(Erring) + 0
    BY <1>t, <2>3, <2>4, CountTypes
  <2> QED BY <2>3, <2>5, <2>6, <1>s
<1>2. ASSUME NEW r \in Requests, NEW k \in Keys, add_log(r, k) PROVE CountInv'
  <2> DEFINE cmd == [op |-> "AddLog", from |-> r, id |-> cur[r], key |-> k]
  <2>1. Send(cmd) /\ cmd \in Command
    BY <1>2, SentCommands DEF add_log, Updates
  <2>2. cmd.op = "AddLog"
    OBVIOUS
  <2> HIDE DEF cmd
  <2>3. /\ pc[r] = "has_id"
        /\ pc' = [pc EXCEPT ![r] = "logged"]
        /\ UNCHANGED <<logs, dropped, total_requests, active_requests, error_requests>>
    BY <1>2 DEF add_log
  <2>4. /\ Cardinality(Active') = Cardinality(Active)
        /\ Cardinality(Entering') = Cardinality(Entering) - 1
        /\ Cardinality(Erring') = Cardinality(Erring)
    <3>1. /\ Cardinality(Active) \in Nat /\ Cardinality(Entering) \in Nat
          /\ Cardinality(Erring) \in Nat
          /\ Cardinality(Active') = Cardinality(Active)
               + Indicator("logged" \in ActivePhases) - Indicator(pc[r] \in ActivePhases)
          /\ Cardinality(Entering') = Cardinality(Entering)
               + Indicator("logged" \in EnteringPhases) - Indicator(pc[r] \in EnteringPhases)
          /\ Cardinality(Erring') = Cardinality(Erring)
               + Indicator("logged" \in ErringPhases) - Indicator(pc[r] \in ErringPhases)
      BY <2>3, Moved
    <3>2. /\ Indicator("logged" \in ActivePhases) = 1 /\ Indicator(pc[r] \in ActivePhases) = 1
          /\ Indicator("logged" \in EnteringPhases) = 0 /\ Indicator(pc[r] \in EnteringPhases) = 1
          /\ Indicator("logged" \in ErringPhases) = 0 /\ Indicator(pc[r] \in ErringPhases) = 0
      BY <2>3 DEF Indicator, ActivePhases, EnteringPhases, ErringPhases
    <3> QED BY <3>1, <3>2
  <2>5. /\ Count(chan', Additions) = Count(chan, Additions) + 1
        /\ Count(chan', FailureUpdates) = Count(chan, FailureUpdates) + 0
    <3>1. cmd \in Additions /\ cmd \notin FailureUpdates
      BY <2>1, <2>2 DEF Additions, FailureUpdates
    <3> QED BY <2>1, <3>1, Sent
  <2>6. /\ active_requests' - active_requests = Cardinality(Active') - Cardinality(Active)
        /\ active_requests' \in Int
        /\ total_requests' \in Int
        /\ total_requests' >= total_requests + 1 + Cardinality(Entering') - Cardinality(Entering)
        /\ error_requests' \in Nat
        /\ error_requests' + Cardinality(Erring') >= error_requests + Cardinality(Erring) + 0
    BY <1>t, <2>3, <2>4, CountTypes
  <2> QED BY <2>3, <2>5, <2>6, <1>s
<1>3. ASSUME NEW r \in Requests, NEW u \in Updates, update_log(r, u) PROVE CountInv'
  <2> DEFINE cmd == [op |-> "UpdateLog", from |-> r, id |-> cur[r], ops |-> u]
             x == Reported(r, u)
             f == IF u = "Failure" THEN 1 ELSE 0
             before == IF pc[r] = "logged" THEN 1 ELSE 0
             after == IF x = "erring" THEN 0 ELSE 1
  <2>1. Send(cmd) /\ cmd \in Command
    BY <1>3, SentCommands DEF update_log
  <2>2. cmd.op = "UpdateLog" /\ cmd.ops = u
    OBVIOUS
  <2> HIDE DEF cmd
  <2>3. /\ pc[r] \in {"logged", "success"}
        /\ pc' = [pc EXCEPT ![r] = x]
        /\ x \in {"answered", "failing", "erring"}
        /\ x = "answered" <=> u # "Failure"
        /\ x = "erring" <=> pc[r] = "success"
        /\ UNCHANGED <<logs, dropped, total_requests, active_requests, error_requests>>
    BY <1>3 DEF update_log, Reports, Reported
  <2> HIDE DEF x
  <2>4. /\ Cardinality(Active') = Cardinality(Active)
        /\ Cardinality(Entering') = Cardinality(Entering)
        /\ Cardinality(Erring') = Cardinality(Erring) + f
    <3>0. before = after /\ before \in Nat /\ f \in Nat
      BY <2>3
    <3>1. /\ Cardinality(Active) \in Nat /\ Cardinality(Entering) \in Nat
          /\ Cardinality(Erring) \in Nat
          /\ Cardinality(Active') = Cardinality(Active)
               + Indicator(x \in ActivePhases) - Indicator(pc[r] \in ActivePhases)
          /\ Cardinality(Entering') = Cardinality(Entering)
               + Indicator(x \in EnteringPhases) - Indicator(pc[r] \in EnteringPhases)
          /\ Cardinality(Erring') = Cardinality(Erring)
               + Indicator(x \in ErringPhases) - Indicator(pc[r] \in ErringPhases)
      BY <2>3, Moved
    <3>2. /\ Indicator(x \in ActivePhases) = after /\ Indicator(pc[r] \in ActivePhases) = before
          /\ Indicator(x \in EnteringPhases) = 0 /\ Indicator(pc[r] \in EnteringPhases) = 0
          /\ Indicator(x \in ErringPhases) = f /\ Indicator(pc[r] \in ErringPhases) = 0
      BY <2>3 DEF Indicator, ActivePhases, EnteringPhases, ErringPhases
    <3> HIDE DEF f, before, after
    <3> QED BY <3>0, <3>1, <3>2
  <2>5. /\ Count(chan', Additions) = Count(chan, Additions) + 0
        /\ Count(chan', FailureUpdates) = Count(chan, FailureUpdates) + f
    <3>1. cmd \notin Additions /\ (cmd \in FailureUpdates <=> u = "Failure")
      BY <2>1, <2>2 DEF Additions, FailureUpdates
    <3> QED BY <2>1, <3>1, Sent
  <2>6. f \in Nat
    OBVIOUS
  <2> HIDE DEF f
  <2>7. /\ active_requests' - active_requests = Cardinality(Active') - Cardinality(Active)
        /\ active_requests' \in Int
        /\ total_requests' \in Int
        /\ total_requests' >= total_requests + 0 + Cardinality(Entering') - Cardinality(Entering)
        /\ error_requests' \in Nat
        /\ error_requests' + Cardinality(Erring') >= error_requests + Cardinality(Erring) + f
    BY <1>t, <2>3, <2>4, <2>6, CountTypes
  <2> QED BY <2>3, <2>5, <2>6, <2>7, <1>s
<1>4. ASSUME NEW r \in Requests, update_other(r) PROVE CountInv'
  <2> DEFINE cmd == [op |-> "UpdateLog", from |-> r, id |-> cur[r], ops |-> "Other"]
  <2>1. Send(cmd) /\ cmd \in Command
    BY <1>4, SentCommands DEF update_other, Updates
  <2>2. cmd.op = "UpdateLog" /\ cmd.ops = "Other"
    OBVIOUS
  <2> HIDE DEF cmd
  <2>3. UNCHANGED <<pc, logs, dropped, total_requests, active_requests, error_requests>>
    BY <1>4 DEF update_other
  <2>4. /\ Count(chan', Additions) = Count(chan, Additions) + 0
        /\ Count(chan', FailureUpdates) = Count(chan, FailureUpdates) + 0
    <3>1. cmd \notin Additions /\ cmd \notin FailureUpdates
      BY <2>2 DEF Additions, FailureUpdates
    <3> QED BY <2>1, <3>1, Sent
  <2>5. /\ active_requests' - active_requests = Cardinality(Active') - Cardinality(Active)
        /\ active_requests' \in Int
        /\ total_requests' \in Int
        /\ total_requests' >= total_requests + 0 + Cardinality(Entering') - Cardinality(Entering)
        /\ error_requests' \in Nat
        /\ error_requests' + Cardinality(Erring') >= error_requests + Cardinality(Erring) + 0
    BY <1>t, <1>p, <2>3, CountTypes
  <2> QED BY <2>3, <2>4, <2>5, <1>s
<1>13. ASSUME NEW r \in Requests, begin(r) PROVE CountInv'
  <2>3. /\ pc[r] = "new"
        /\ pc' = [pc EXCEPT ![r] = "counted"]
        /\ total_requests' = total_requests + 1
        /\ active_requests' = active_requests + 1
        /\ UNCHANGED <<logs, chan, dropped, error_requests>>
    BY <1>13 DEF begin
  <2>4. /\ Cardinality(Active') = Cardinality(Active) + 1
        /\ Cardinality(Entering') = Cardinality(Entering) + 1
        /\ Cardinality(Erring') = Cardinality(Erring)
    <3>1. /\ Cardinality(Active) \in Nat /\ Cardinality(Entering) \in Nat
          /\ Cardinality(Erring) \in Nat
          /\ Cardinality(Active') = Cardinality(Active)
               + Indicator("counted" \in ActivePhases) - Indicator(pc[r] \in ActivePhases)
          /\ Cardinality(Entering') = Cardinality(Entering)
               + Indicator("counted" \in EnteringPhases) - Indicator(pc[r] \in EnteringPhases)
          /\ Cardinality(Erring') = Cardinality(Erring)
               + Indicator("counted" \in ErringPhases) - Indicator(pc[r] \in ErringPhases)
      BY <2>3, Moved
    <3>2. /\ Indicator("counted" \in ActivePhases) = 1 /\ Indicator(pc[r] \in ActivePhases) = 0
          /\ Indicator("counted" \in EnteringPhases) = 1 /\ Indicator(pc[r] \in EnteringPhases) = 0
          /\ Indicator("counted" \in ErringPhases) = 0 /\ Indicator(pc[r] \in ErringPhases) = 0
      BY <2>3 DEF Indicator, ActivePhases, EnteringPhases, ErringPhases
    <3> QED BY <3>1, <3>2
  <2>5. /\ Count(chan', Additions) = Count(chan, Additions) + 0
        /\ Count(chan', FailureUpdates) = Count(chan, FailureUpdates) + 0
    BY <2>3, CountTypes
  <2>6. /\ active_requests' - active_requests = Cardinality(Active') - Cardinality(Active)
        /\ active_requests' \in Int
        /\ total_requests' \in Int
        /\ total_requests' >= total_requests + 0 + Cardinality(Entering') - Cardinality(Entering)
        /\ error_requests' \in Nat
        /\ error_requests' + Cardinality(Erring') >= error_requests + Cardinality(Erring) + 0
    BY <1>t, <2>3, <2>4, CountTypes
  <2> QED BY <2>3, <2>5, <2>6, <1>s
<1>14. ASSUME NEW r \in Requests, count(r) PROVE CountInv'
  <2> DEFINE x == IF pc[r] = "answered" THEN "success" ELSE "failed"
             d == IF pc[r] = "erring" THEN 0 ELSE 1
             e == IF pc[r] = "answered" THEN 0 ELSE 1
  <2>3. /\ pc[r] \in {"answered", "failing", "erring"}
        /\ pc' = [pc EXCEPT ![r] = x]
        /\ x \in {"success", "failed"}
        /\ active_requests' = active_requests - d
        /\ error_requests' = error_requests + e
        /\ UNCHANGED <<logs, chan, dropped, total_requests>>
    BY <1>14 DEF count, StillActive, Errors
  <2> HIDE DEF x
  <2>4. /\ Cardinality(Active') = Cardinality(Active) - d
        /\ Cardinality(Entering') = Cardinality(Entering)
        /\ Cardinality(Erring') = Cardinality(Erring) - e
    <3>0. d \in Nat /\ e \in Nat
      OBVIOUS
    <3>1. /\ Cardinality(Active) \in Nat /\ Cardinality(Entering) \in Nat
          /\ Cardinality(Erring) \in Nat
          /\ Cardinality(Active') = Cardinality(Active)
               + Indicator(x \in ActivePhases) - Indicator(pc[r] \in ActivePhases)
          /\ Cardinality(Entering') = Cardinality(Entering)
               + Indicator(x \in EnteringPhases) - Indicator(pc[r] \in EnteringPhases)
          /\ Cardinality(Erring') = Cardinality(Erring)
               + Indicator(x \in ErringPhases) - Indicator(pc[r] \in ErringPhases)
      BY <2>3, Moved
    <3>2. /\ Indicator(x \in ActivePhases) = 0 /\ Indicator(pc[r] \in ActivePhases) = d
          /\ Indicator(x \in EnteringPhases) = 0 /\ Indicator(pc[r] \in EnteringPhases) = 0
          /\ Indicator(x \in ErringPhases) = 0 /\ Indicator(pc[r] \in ErringPhases) = e
      BY <2>3 DEF Indicator, ActivePhases, EnteringPhases, ErringPhases
    <3> HIDE DEF d, e
    <3> QED BY <3>0, <3>1, <3>2
  <2>5. /\ Count(chan', Additions) = Count(chan, Additions) + 0
        /\ Count(chan', FailureUpdates) = Count(chan, FailureUpdates) + 0
    BY <2>3, CountTypes
  <2>6. d \in Nat /\ e \in Nat
    OBVIOUS
  <2> HIDE DEF d, e
  <2>7. /\ active_requests' - active_requests = Cardinality(Active') - Cardinality(Active)
        /\ active_requests' \in Int
        /\ total_requests' \in Int
        /\ total_requests' >= total_requests + 0 + Cardinality(Entering') - Cardinality(Entering)
        /\ error_requests' \in Nat
        /\ error_requests' + Cardinality(Erring') >= error_requests + Cardinality(Erring) + 0
    BY <1>t, <2>3, <2>4, <2>6, CountTypes
  <2>8. pc[r] # "gone"
    BY <2>3
  <2> QED BY <2>3, <2>5, <2>7, <2>8, <1>s
<1>5. ASSUME NEW r \in Requests, disconnect(r) PROVE CountInv'
  <2> DEFINE d == IF pc[r] = "success" THEN 0 ELSE 1
             e == Indicator(pc[r] \in EnteringPhases)
  <2>0. d \in Nat /\ e \in Nat
    BY DEF Indicator
  <2>1. /\ pc[r] \in {"counted", "asking", "has_id", "logged", "success"}
        /\ pc' = [pc EXCEPT ![r] = "gone"]
        /\ dropped' = IF pc[r] = "success" THEN dropped ELSE dropped \cup {r}
        /\ UNCHANGED <<logs, chan, total_requests, active_requests, error_requests>>
    BY <1>5 DEF disconnect
  <2>2. /\ Cardinality(Active') = Cardinality(Active) - d
        /\ Cardinality(Entering') = Cardinality(Entering) - e
        /\ Cardinality(Erring') = Cardinality(Erring)
    <3>1. /\ Cardinality(Active) \in Nat /\ Cardinality(Entering) \in Nat
          /\ Cardinality(Erring) \in Nat
          /\ Cardinality(Active') = Cardinality(Active)
               + Indicator("gone" \in ActivePhases) - Indicator(pc[r] \in ActivePhases)
          /\ Cardinality(Entering') = Cardinality(Entering)
               + Indicator("gone" \in EnteringPhases) - Indicator(pc[r] \in EnteringPhases)
          /\ Cardinality(Erring') = Cardinality(Erring)
               + Indicator("gone" \in ErringPhases) - Indicator(pc[r] \in ErringPhases)
      BY <2>1, Moved
    <3>2. /\ Indicator("gone" \in ActivePhases) = 0 /\ Indicator(pc[r] \in ActivePhases) = d
          /\ Indicator("gone" \in EnteringPhases) = 0 /\ Indicator(pc[r] \in EnteringPhases) = e
          /\ Indicator("gone" \in ErringPhases) = 0 /\ Indicator(pc[r] \in ErringPhases) = 0
      BY <2>1 DEF Indicator, ActivePhases, EnteringPhases, ErringPhases
    <3> HIDE DEF d, e
    <3> QED BY <2>0, <3>1, <3>2
  <2>f. IsFiniteSet(Active') /\ IsFiniteSet(Erring')
    BY <2>1, Moved
  <2>3. r \notin dropped /\ \A s \in dropped' : pc'[s] = "gone"
    BY <1>c, <2>1 DEF TypeInv
  <2>4. IsFiniteSet(dropped') /\ Cardinality(dropped') = Cardinality(dropped) + d
    <3>1. IsFiniteSet(dropped \cup {r}) /\ Cardinality(dropped \cup {r}) = Cardinality(dropped) + 1
      BY <1>c, <2>3, FS_AddElement
    <3> QED BY <1>c, <2>1, <3>1, CountTypes
  <2> HIDE DEF d, e
  <2>5. active_requests = Cardinality(Active') + Cardinality(dropped')
    BY <1>c, <2>0, <2>2, <2>4, CountTypes
  <2>6. total_requests >= Len(logs) + Count(chan, Additions) + Cardinality(Entering')
    <3>1. /\ total_requests >= Len(logs) + Count(chan, Additions) + Cardinality(Entering)
          /\ total_requests \in Int /\ e \in Nat
          /\ Cardinality(Entering') = Cardinality(Entering) - e
      BY <1>c, <1>t, <2>0, <2>2
    <3>2. Len(logs) \in Nat /\ Count(chan, Additions) \in Nat /\ Cardinality(Entering) \in Nat
      BY CountTypes
    <3> QED BY <3>1, <3>2
  <2>7. error_requests + Cardinality(Erring')
          >= Count(logs, FailedLogs) + Count(chan, FailureUpdates)
    BY <1>c, <2>2
  <2> QED BY <2>1, <2>f, <2>3, <2>4, <2>5, <2>6, <2>7 DEF CountInv
<1>6. ASSUME NEW v \in Queriers, NEW op \in {"GetLogs", "GetToken", "CloneToSave"}, query(v, op)
      PROVE  CountInv'
  <2> DEFINE cmd == [op |-> op, from |-> v]
  <2>1. Send(cmd) /\ cmd \in Command
    BY <1>6, SentCommands DEF query
  <2>2. cmd.op = op
    OBVIOUS
  <2> HIDE DEF cmd
  <2>3. UNCHANGED <<pc, logs, dropped, total_requests, active_requests, error_requests>>
    BY <1>6 DEF query
  <2>4. cmd \notin Additions /\ cmd \notin FailureUpdates
    BY <2>2 DEF Additions, FailureUpdates
  <2>5. Count(chan', Additions) = Count(chan, Additions)
        /\ Count(chan', FailureUpdates) = Count(chan, FailureUpdates)
    BY <2>1, <2>4, Sent, CountTypes
  <2> QED BY <1>c, <1>p, <2>3, <2>5 DEF CountInv
<1>7. ASSUME NEW v, hang_up(v) PROVE CountInv'
  <2>1. UNCHANGED <<pc, logs, chan, dropped, total_requests, active_requests, error_requests>>
    BY <1>7 DEF hang_up
  <2> QED BY <1>c, <1>p, <2>1 DEF CountInv
<1>8. CASE HandleGetNextLogId
  <2>1. Receive("GetNextLogId") /\ UNCHANGED <<logs, counters, dropped>>
    BY <1>8 DEF HandleGetNextLogId
  <2>2. chan[1].from \in Requests /\ Head(chan) = chan[1]
    BY <2>1, Received, CommandFields
  <2>3. \/ pc' = pc
        \/ pc[chan[1].from] = "asking" /\ pc' = [pc EXCEPT ![chan[1].from] = "has_id"]
    BY <1>8, <2>2 DEF HandleGetNextLogId
  <2>4. /\ IsFiniteSet(Active') /\ IsFiniteSet(Erring')
        /\ Cardinality(Active') = Cardinality(Active)
        /\ Cardinality(Entering') = Cardinality(Entering)
        /\ Cardinality(Erring') = Cardinality(Erring)
    <3>1. CASE pc' = pc
      BY <1>p, <3>1
    <3>2. CASE pc[chan[1].from] = "asking" /\ pc' = [pc EXCEPT ![chan[1].from] = "has_id"]
      <4>1. /\ Cardinality(Active) \in Nat /\ Cardinality(Entering) \in Nat
            /\ Cardinality(Erring) \in Nat
            /\ Cardinality(Active') = Cardinality(Active)
                 + Indicator("has_id" \in ActivePhases) - Indicator(pc[chan[1].from] \in ActivePhases)
            /\ Cardinality(Entering') = Cardinality(Entering)
                 + Indicator("has_id" \in EnteringPhases) - Indicator(pc[chan[1].from] \in EnteringPhases)
            /\ Cardinality(Erring') = Cardinality(Erring)
                 + Indicator("has_id" \in ErringPhases) - Indicator(pc[chan[1].from] \in ErringPhases)
        BY <2>2, <3>2, Moved
      <4>2. /\ Indicator("has_id" \in ActivePhases) = 1 /\ Indicator(pc[chan[1].from] \in ActivePhases) = 1
            /\ Indicator("has_id" \in EnteringPhases) = 1 /\ Indicator(pc[chan[1].from] \in EnteringPhases) = 1
            /\ Indicator("has_id" \in ErringPhases) = 0 /\ Indicator(pc[chan[1].from] \in ErringPhases) = 0
        BY <2>2, <3>2 DEF Indicator, ActivePhases, EnteringPhases, ErringPhases
      <4>3. IsFiniteSet(Active') /\ IsFiniteSet(Erring')
        BY <2>2, <3>2, Moved
      <4> QED BY <4>1, <4>2, <4>3
    <3> QED BY <2>3, <3>1, <3>2
  <2>5. \A s \in dropped : pc'[s] = "gone"
    BY <1>c, <2>3 DEF TypeInv
  <2>6. Indicator(chan[1] \in Additions) \in Nat /\ Indicator(chan[1] \in FailureUpdates) \in Nat
    BY DEF Indicator
  <2>7. /\ Len(logs') \in Nat
        /\ Len(logs') <= Len(logs) + Indicator(chan[1] \in Additions)
        /\ Count(logs', FailedLogs) \in Nat
        /\ Count(logs', FailedLogs) <= Count(logs, FailedLogs) + Indicator(chan[1] \in FailureUpdates)
    BY <2>1, <2>6, CountTypes
  <2> QED BY <2>1, <2>4, <2>5, <2>7, <1>r
<1>9. CASE HandleAddLog
  <2>1. Receive("AddLog") /\ UNCHANGED <<pc, counters, dropped>>
    BY <1>9 DEF HandleAddLog
  <2>2. chan[1] \in Additions
    BY <2>1, Received DEF Additions
  <2>3. Indicator(chan[1] \in Additions) = 1 /\ Indicator(chan[1] \in FailureUpdates) \in Nat
    BY <2>2 DEF Indicator
  <2>4. Kept \in Seq(Log) /\ Evicted \in Seq(Log) /\ Len(Kept) \in Nat /\ Len(Kept) <= Len(logs)
    BY KeptLogs, LenProperties, CountTypes
  <2>5. Len(logs') \in Nat /\ Len(logs') <= Len(logs) + 1
    BY <1>9, <2>4, Added, CountTypes
  <2>6. NewLog \notin FailedLogs
    BY DEF NewLog, FailedLogs
  <2>7. Count(logs', FailedLogs) = Count(Kept, FailedLogs)
    <3>1. Count(logs', FailedLogs) = Count(Kept, FailedLogs) + (IF NewLog \in FailedLogs THEN 1 ELSE 0)
      <4>1. NewLog \in Log /\ logs' = Append(Kept, NewLog)
        BY <1>9, Added
      <4> QED BY <2>4, <4>1, CountAppend
    <3>2. Count(Kept, FailedLogs) \in Nat
      BY <2>4, CountType
    <3> QED BY <2>6, <3>1, <3>2
  <2>8. Count(logs', FailedLogs) \in Nat /\ Count(logs', FailedLogs) <= Count(logs, FailedLogs)
    <3>1. Count(Kept, FailedLogs) \in Nat /\ Count(Evicted, FailedLogs) \in Nat
      BY <2>4, CountType
    <3>2. Count(logs, FailedLogs) = Count(Evicted, FailedLogs) + Count(Kept, FailedLogs)
      BY KeptLogs
    <3> QED BY <2>7, <3>1, <3>2
  <2>9. Count(logs', FailedLogs) <= Count(logs, FailedLogs) + Indicator(chan[1] \in FailureUpdates)
    BY <2>3, <2>8, CountTypes
  <2> QED BY <1>c, <1>p, <2>1, <2>3, <2>5, <2>8, <2>9, <1>r
<1>10. CASE HandleUpdateLog
  <2>1. Receive("UpdateLog") /\ UNCHANGED <<pc, counters, dropped>>
    BY <1>10 DEF HandleUpdateLog
  <2>2. chan[1] \in Command /\ chan[1].op = "UpdateLog" /\ chan[1].ops \in Updates
    BY <2>1, Received, CommandFields
  <2>3. /\ Indicator(chan[1] \in Additions) \in Nat
        /\ Indicator(chan[1] \in FailureUpdates) = IF chan[1].ops = "Failure" THEN 1 ELSE 0
    BY <2>2 DEF Indicator, FailureUpdates
  <2>4. logs \in Seq(Log) /\ logs' \in Seq(Log)
    BY TypeStep DEF TypeInv
  <2>5. Count(logs', FailedLogs) \in Nat /\ Len(logs') \in Nat
    BY <2>4, CountType, LenProperties
  <2>6. CASE logs' = logs
    <3>1. /\ Len(logs') <= Len(logs) + Indicator(chan[1] \in Additions)
          /\ Count(logs', FailedLogs)
               <= Count(logs, FailedLogs) + Indicator(chan[1] \in FailureUpdates)
      BY <2>3, <2>6, CountTypes
    <3> QED BY <1>c, <1>p, <2>1, <2>5, <3>1, <1>r
  <2>7. CASE \E t \in 1 .. Len(logs) :
                /\ logs[t].id = chan[1].id
                /\ Updated(logs[t], chan[1]) \in Log
                /\ logs' = [logs EXCEPT ![t] = Updated(logs[t], chan[1])]
    <3>1. PICK t \in 1 .. Len(logs) :
                /\ logs[t].id = chan[1].id
                /\ Updated(logs[t], chan[1]) \in Log
                /\ logs' = [logs EXCEPT ![t] = Updated(logs[t], chan[1])]
      BY <2>7
    <3> DEFINE x == Updated(logs[t], chan[1])
    <3>2. logs[t] \in Log
      BY <3>1, LogFields
    <3>3. x.status = IF chan[1].ops = "Other" THEN logs[t].status ELSE chan[1].ops
      BY <3>2 DEF Updated, Log
    <3>4. x \in Log /\ logs' = [logs EXCEPT ![t] = x] /\ t \in 1 .. Len(logs)
      BY <3>1
    <3> HIDE DEF x
    <3>5. Len(logs') = Len(logs)
      BY <2>4, <3>4, ExceptSeq
    <3>6. Count(logs', FailedLogs)
            <= Count(logs, FailedLogs) + Indicator(chan[1] \in FailureUpdates)
      <4>1. CASE chan[1].ops = "Failure"
        <5>1. Count([logs EXCEPT ![t] = x], FailedLogs)
                <= Count(logs, FailedLogs) + (IF x \in FailedLogs THEN 1 ELSE 0)
          BY <2>4, <3>4, CountReplace
        <5> QED BY <2>3, <2>5, <3>4, <4>1, <5>1, CountTypes
      <4>2. CASE chan[1].ops = "Success"
        <5>1. x \notin FailedLogs
          BY <3>3, <4>2 DEF FailedLogs
        <5>2. Count([logs EXCEPT ![t] = x], FailedLogs)
                <= Count(logs, FailedLogs) + (IF x \in FailedLogs THEN 1 ELSE 0)
          BY <2>4, <3>4, CountReplace
        <5> QED BY <2>3, <2>5, <3>4, <4>2, <5>1, <5>2, CountTypes
      <4>3. CASE chan[1].ops = "Other"
        <5>1. x \in FailedLogs <=> logs[t] \in FailedLogs
          BY <3>2, <3>3, <3>4, <4>3 DEF FailedLogs
        <5>2. (x \in FailedLogs <=> logs[t] \in FailedLogs) =>
                Count([logs EXCEPT ![t] = x], FailedLogs) = Count(logs, FailedLogs)
          <6>1. x \in Log /\ logs \in Seq(Log) /\ t \in 1 .. Len(logs)
            BY <2>4, <3>4
          <6> QED BY <6>1, CountReplace
        <5> QED BY <2>3, <3>4, <4>3, <5>1, <5>2, CountTypes
      <4> QED BY <2>2, <4>1, <4>2, <4>3 DEF Updates
    <3>7. Len(logs') <= Len(logs) + Indicator(chan[1] \in Additions)
      BY <2>3, <3>5, CountTypes
    <3> QED BY <1>c, <1>p, <2>1, <2>5, <3>6, <3>7, <1>r
  <2> QED BY <1>10, <2>6, <2>7, UpdatedLogs
<1>11. ASSUME NEW op, HandleQuery(op) \/ (op = "CloneToSave" /\ HandleCloneToSave)
       PROVE  CountInv'
  <2>1. Receive(op) /\ UNCHANGED <<logs, pc, counters, dropped>>
    BY <1>11 DEF HandleQuery, HandleCloneToSave
  <2>2. Indicator(chan[1] \in Additions) \in Nat /\ Indicator(chan[1] \in FailureUpdates) \in Nat
    BY DEF Indicator
  <2>3. /\ Len(logs') \in Nat
        /\ Len(logs') <= Len(logs) + Indicator(chan[1] \in Additions)
        /\ Count(logs', FailedLogs) \in Nat
        /\ Count(logs', FailedLogs) <= Count(logs, FailedLogs) + Indicator(chan[1] \in FailureUpdates)
    BY <2>1, <2>2, CountTypes
  <2> QED BY <1>c, <1>p, <2>1, <2>3, <1>r
<1>12. CASE load
  <2>1. /\ logs' = disk.logs
        /\ chan' = <<>>
        /\ dropped' = {}
        /\ total_requests' = Len(disk.logs)
        /\ active_requests' = 0
        /\ error_requests' = Cardinality({i \in DOMAIN disk.logs : disk.logs[i].status # "Success"})
    BY <1>12 DEF load
  <2>2. disk.logs \in Seq(Log)
    BY <1>12 DEF load, TypeInv, Saved
  <2>3. Active' = {} /\ Entering' = {} /\ Erring' = {}
    BY <1>12 DEF load, Active, Entering, Erring, In, ActivePhases, EnteringPhases, ErringPhases
  <2>4. /\ Cardinality({}) = 0 /\ IsFiniteSet({})
    BY FS_EmptySet
  <2>5. /\ Count(chan', Additions) = 0 /\ Count(chan', FailureUpdates) = 0
    <3>1. chan' \in Seq(Command) /\ Len(chan') = 0
      BY <2>1, EmptySeq
    <3>2. \A S : Count(chan', S) = 0 <=> \A i \in 1 .. Len(chan') : chan'[i] \notin S
      BY <3>1, CountType
    <3>3. 1 .. Len(chan') = {}
      BY <3>1
    <3> QED BY <3>2, <3>3
  <2>6. Count(disk.logs, FailedLogs)
          <= Cardinality({i \in DOMAIN disk.logs : disk.logs[i].status # "Success"})
    <3> DEFINE F == {i \in DOMAIN disk.logs : disk.logs[i] \in FailedLogs}
               N == {i \in DOMAIN disk.logs : disk.logs[i].status # "Success"}
    <3>1. F \in SUBSET N
      BY DEF FailedLogs
    <3>2. Len(disk.logs) \in Nat /\ N \in SUBSET (1 .. Len(disk.logs))
      BY <2>2, LenProperties
    <3> HIDE DEF F, N
    <3>3. IsFiniteSet(N)
      <4>1. IsFiniteSet(1 .. Len(disk.logs))
        BY <3>2, FS_Interval
      <4> QED BY <3>2, <4>1, FS_Subset
    <3>4. Cardinality(F) <= Cardinality(N)
      BY <3>1, <3>3, FS_Subset
    <3> QED BY <3>4 DEF Count, F, N
  <2>7. Count(disk.logs, FailedLogs) \in Nat /\ Len(disk.logs) \in Nat
    BY <2>2, CountType, LenProperties
  <2>8. error_requests' \in Nat
    BY TypeStep DEF TypeInv
  <2>9. total_requests' >= Len(logs') + Count(chan', Additions) + Cardinality(Entering')
    BY <2>1, <2>3, <2>4, <2>5, <2>7
  <2>10. error_requests' + Cardinality(Erring')
           >= Count(logs', FailedLogs) + Count(chan', FailureUpdates)
    BY <2>1, <2>3, <2>4, <2>5, <2>6, <2>7, <2>8
  <2> QED BY <2>1, <2>3, <2>4, <2>9, <2>10 DEF CountInv
<1> QED BY <1>1, <1>2, <1>3, <1>4, <1>5, <1>6, <1>7, <1>8, <1>9, <1>10, <1>11, <1>12, <1>13,
           <1>14
        DEF Next, Client, Actor

\* What a sender may do to the phases without sending a log.
PhasesKept ==
    \A s \in Requests :
        /\ pc'[s] = "has_id" => pc[s] = "has_id"
        /\ pc[s] \in Past => pc'[s] \in Past
        /\ pc'[s] \in Updating => pc[s] \in Updating

\* Sending anything but a log leaves everything regular.
LEMMA RegularSend ==
    ASSUME TypeInv, Regular, NEW cmd \in Command, Send(cmd), cmd.op # "AddLog",
           UNCHANGED <<logs, disk, cur>>, PhasesKept,
           cmd.op = "UpdateLog" => /\ pc[cmd.from] \in Updating
                                   /\ cmd.id = cur[cmd.from]
    PROVE  Regular'
<1>1. /\ Len(chan) \in Nat
      /\ Len(chan') = Len(chan) + 1
      /\ \A i \in 1 .. Len(chan) : chan'[i] = chan[i] /\ chan[i] \in Command
      /\ chan'[Len(chan) + 1] = cmd
      /\ \A i \in 1 .. Len(chan') : i \in 1 .. Len(chan) \/ i = Len(chan) + 1
  BY Sent
<1>2. \A i \in 1 .. Len(chan) : i \in 1 .. Len(chan')
  BY <1>1
<1>3. NextLogId' = NextLogId /\ \A r, id : Settled(r, id)' <=> Settled(r, id)
  BY DEF NextLogId, Settled
<1>4. Orderly(logs)' /\ (disk # None => Orderly(disk.logs))'
  BY DEF Regular, Orderly
<1>5. HasNextId'
  BY <1>3 DEF Regular, HasNextId, PhasesKept
<1>6. OneAddition'
  <2>1. \A i \in 1 .. Len(chan') : chan'[i].op = "AddLog" => i \in 1 .. Len(chan) /\ chan'[i] = chan[i]
    BY <1>1
  <2>2. \A i \in 1 .. Len(chan) : chan[i].op = "AddLog" => chan[i].from \in Requests
    BY <1>1, CommandFields
  <2>3. \A i \in 1 .. Len(chan') : chan'[i].op = "AddLog" =>
          /\ chan'[i].id = NextLogId'
          /\ pc'[chan'[i].from] \in Past
    BY <1>3, <2>1, <2>2 DEF Regular, OneAddition, PhasesKept, Past
  <2>4. \A i, j \in 1 .. Len(chan') : chan'[i].op = "AddLog" /\ chan'[j].op = "AddLog" => i = j
    BY <2>1 DEF Regular, OneAddition
  <2> QED BY <2>3, <2>4 DEF OneAddition
<1>7. OwnIdsSettled'
  <2> SUFFICES ASSUME NEW r \in Requests, pc'[r] \in Updating,
                      ~Settled(r, cur[r])
               PROVE  \E i \in 1 .. Len(chan') : AddedAt(i, r, cur[r])'
    BY <1>3 DEF OwnIdsSettled
  <2>1. PICK i \in 1 .. Len(chan) : AddedAt(i, r, cur[r])
    BY DEF Regular, OwnIdsSettled, PhasesKept
  <2> QED BY <2>1, <1>1, <1>2 DEF AddedAt
<1>8. UpdatesSettled'
  <2> SUFFICES ASSUME NEW j \in 1 .. Len(chan'), chan'[j].op = "UpdateLog",
                      ~Settled(chan'[j].from, chan'[j].id)
               PROVE  \E i \in 1 .. (j - 1) :
                         chan'[i].op = "AddLog" /\ chan'[i].from = chan'[j].from
                           /\ chan'[i].id = chan'[j].id
    BY <1>3 DEF UpdatesSettled, AddedAt
  <2>1. CASE j \in 1 .. Len(chan)
    <3>1. PICK i \in 1 .. (j - 1) : AddedAt(i, chan[j].from, chan[j].id)
      BY <2>1, <1>1 DEF Regular, UpdatesSettled
    <3>2. i \in 1 .. Len(chan)
      BY <2>1, <3>1, <1>1
    <3> QED BY <2>1, <3>1, <3>2, <1>1 DEF AddedAt
  <2>2. CASE j = Len(chan) + 1
    <3>1. cmd.op = "UpdateLog" /\ ~Settled(cmd.from, cur[cmd.from]) /\ cmd.from \in Requests
      BY <2>2, <1>1, CommandFields
    <3>2. PICK i \in 1 .. Len(chan) : AddedAt(i, cmd.from, cur[cmd.from])
      BY <3>1 DEF Regular, OwnIdsSettled
    <3>3. i \in 1 .. (j - 1)
      BY <2>2, <3>2, <1>1
    <3> QED BY <2>2, <3>1, <3>2, <3>3, <1>1 DEF AddedAt
  <2> QED BY <2>1, <2>2, <1>1
<1> QED BY <1>4, <1>5, <1>6, <1>7, <1>8 DEF Regular

\* Receiving anything but a log leaves everything regular, when the logs keep
\* their ids and owners.
LEMMA RegularReceive ==
    ASSUME TypeInv, Regular, NEW op, Receive(op), op # "AddLog",
           Len(logs') = Len(logs), (logs' = <<>>) <=> (logs = <<>>),
           \A i \in 1 .. Len(logs) : logs'[i].id = logs[i].id /\ logs'[i].owner = logs[i].owner,
           Orderly(logs)', (disk # None => Orderly(disk.logs))',
           HasNextId', \A s \in Requests : pc[s] \in Past => pc'[s] \in Past,
           \A s \in Requests : pc'[s] \in Updating =>
               pc[s] \in Updating /\ cur'[s] = cur[s]
    PROVE  Regular'
<1>1. /\ alive
      /\ chan[1] \in Command
      /\ chan[1].op = op
      /\ Len(chan) \in Nat \ {0}
      /\ Len(chan') = Len(chan) - 1
      /\ \A i \in 1 .. Len(chan) : chan[i] \in Command
      /\ \A i \in 1 .. Len(chan') : i + 1 \in 1 .. Len(chan) /\ chan'[i] = chan[i + 1]
      /\ \A j \in 1 .. Len(chan) :
            j = 1 \/ (j - 1 \in 1 .. Len(chan') /\ chan'[j - 1] = chan[j])
  BY Received
<1>2. NextLogId' = NextLogId
  <2>1. logs # <<>> => Len(logs) \in 1 .. Len(logs)
    BY LogFields
  <2> QED BY <2>1 DEF NextLogId
<1>3. \A r, id : Settled(r, id)' <=> Settled(r, id)
  BY <1>2 DEF Settled
<1>4. OneAddition'
  <2>1. \A i \in 1 .. Len(chan') : chan'[i].op = "AddLog" =>
          /\ chan'[i].id = NextLogId'
          /\ pc'[chan'[i].from] \in Past
    <3> SUFFICES ASSUME NEW i \in 1 .. Len(chan'), chan'[i].op = "AddLog"
                 PROVE  /\ chan'[i].id = NextLogId'
                        /\ pc'[chan'[i].from] \in Past
      BY DEF Past
    <3>1. i + 1 \in 1 .. Len(chan) /\ chan'[i] = chan[i + 1] /\ chan[i + 1] \in Command
      BY <1>1
    <3>2. chan[i + 1].from \in Requests
      BY <3>1, CommandFields
    <3> QED BY <1>2, <3>1, <3>2 DEF Regular, OneAddition, Past
  <2>2. ASSUME NEW i \in 1 .. Len(chan'), NEW j \in 1 .. Len(chan'),
               chan'[i].op = "AddLog", chan'[j].op = "AddLog"
        PROVE  i = j
    <3>1. i + 1 = j + 1
      BY <2>2, <1>1 DEF Regular, OneAddition
    <3> QED BY <3>1, <1>1
  <2> QED BY <2>1, <2>2 DEF OneAddition
<1>5. OwnIdsSettled'
  <2> SUFFICES ASSUME NEW r \in Requests, pc'[r] \in Updating,
                      ~Settled(r, cur[r])
               PROVE  \E i \in 1 .. Len(chan') : AddedAt(i, r, cur[r])'
    BY <1>3 DEF OwnIdsSettled
  <2>1. PICK i \in 1 .. Len(chan) : AddedAt(i, r, cur[r])
    BY DEF Regular, OwnIdsSettled
  <2>2. i - 1 \in 1 .. Len(chan') /\ chan'[i - 1] = chan[i]
    BY <2>1, <1>1 DEF AddedAt
  <2> QED BY <2>1, <2>2 DEF AddedAt
<1>6. UpdatesSettled'
  <2> SUFFICES ASSUME NEW j \in 1 .. Len(chan'), chan'[j].op = "UpdateLog",
                      ~Settled(chan'[j].from, chan'[j].id)
               PROVE  \E i \in 1 .. (j - 1) :
                         chan'[i].op = "AddLog" /\ chan'[i].from = chan'[j].from
                           /\ chan'[i].id = chan'[j].id
    BY <1>3 DEF UpdatesSettled, AddedAt
  <2>1. j + 1 \in 1 .. Len(chan) /\ chan'[j] = chan[j + 1]
    BY <1>1
  <2>2. PICK i \in 1 .. ((j + 1) - 1) : AddedAt(i, chan[j + 1].from, chan[j + 1].id)
    BY <2>1 DEF Regular, UpdatesSettled
  <2>3. i \in 1 .. Len(chan) /\ i # 1
    BY <2>1, <2>2, <1>1 DEF AddedAt
  <2>4. i - 1 \in 1 .. (j - 1) /\ chan'[i - 1] = chan[i]
    BY <2>2, <2>3, <1>1
  <2> QED BY <2>1, <2>2, <2>4 DEF AddedAt
<1> QED BY <1>4, <1>5, <1>6 DEF Regular

\* Adding the one log that is on its way leaves everything regular.
LEMMA RegularAdd ==
    ASSUME TypeInv, ~Overlap, Regular, HandleAddLog
    PROVE  Regular'
<1> DEFINE n == NextLogId
           r == chan[1].from
           last == Len(Kept) + 1
<1>1. Receive("AddLog") /\ UNCHANGED <<pc, cur, disk>>
  BY DEF HandleAddLog
<1>2. /\ chan[1] \in Command
      /\ chan[1].op = "AddLog"
      /\ Len(chan) \in Nat \ {0}
      /\ Len(chan') = Len(chan) - 1
      /\ \A i \in 1 .. Len(chan) : chan[i] \in Command
      /\ \A i \in 1 .. Len(chan') : i + 1 \in 1 .. Len(chan) /\ chan'[i] = chan[i + 1]
  BY <1>1, Received
<1>3. 1 \in 1 .. Len(chan)
  BY <1>2
<1>4. r \in Requests /\ pc[r] \in Past /\ chan[1].id = n /\ n \in Nat
  BY <1>2, <1>3, CommandFields, LogFields DEF Regular, OneAddition, Past
<1>5. \A i \in 1 .. Len(chan) : chan[i].op = "AddLog" => i = 1
  BY <1>2, <1>3 DEF Regular, OneAddition
<1>6. \A i \in 1 .. Len(logs) : logs[i].id < n
  <2> SUFFICES ASSUME NEW i \in 1 .. Len(logs) PROVE logs[i].id < n
    OBVIOUS
  <2>1. Len(logs) \in Nat /\ Len(logs) \in 1 .. Len(logs) /\ logs # <<>>
    BY LogFields, EmptySeq
  <2>2. logs[i].id \in Nat /\ logs[Len(logs)].id \in Nat /\ n = logs[Len(logs)].id + 1
    BY <2>1, LogFields DEF NextLogId
  <2>3. i = Len(logs) \/ logs[i].id < logs[Len(logs)].id
    BY <2>1 DEF Regular, Orderly
  <2> QED BY <2>2, <2>3
<1>7. /\ Evictions \in 0 .. Len(logs)
      /\ Len(logs) \in Nat
      /\ Len(Kept) = Len(logs) - Evictions
      /\ Len(Kept) \in Nat
      /\ Len(logs') = last
  BY KeptLogs, Added, LogFields, LenProperties
<1>8. \A j \in 1 .. Len(Kept) : Evictions + j \in 1 .. Len(logs) /\ logs'[j] = logs[Evictions + j]
  <2>1. \A j \in 1 .. Len(Kept) : Evictions + j \in 1 .. Len(logs) /\ j \in 1 .. (Len(logs) - Evictions)
    BY <1>7
  <2> QED BY <2>1, KeptLogs, Added
<1>9. /\ logs'[last].id = n
      /\ logs'[last].owner = r
      /\ logs'[last].writers = {}
  BY <1>4, Added DEF NewLog
<1>10. NextLogId' = n + 1
  <2>1. logs' # <<>>
    BY <1>7, EmptySeq
  <2> QED BY <2>1, <1>7, <1>9 DEF NextLogId
<1>11. \A j \in 1 .. Len(logs') : j \in 1 .. Len(Kept) \/ j = last
  BY <1>7
<1> HIDE DEF n, r, last
<1>12. Orderly(logs)'
  <2>1. ASSUME NEW i \in 1 .. Len(logs'), NEW j \in 1 .. Len(logs'), i < j
        PROVE  logs'[i].id < logs'[j].id
    <3>1. i \in 1 .. Len(Kept)
      BY <2>1, <1>7, <1>11 DEF last
    <3>2. CASE j \in 1 .. Len(Kept)
      <4>1. Evictions + i < Evictions + j
        BY <2>1, <1>7
      <4> QED BY <3>1, <3>2, <4>1, <1>8 DEF Regular, Orderly
    <3>3. CASE j = last
      BY <3>1, <3>3, <1>6, <1>8, <1>9
    <3> QED BY <3>2, <3>3, <1>11
  <2>2. ASSUME NEW i \in 1 .. Len(logs') PROVE logs'[i].writers \subseteq {logs'[i].owner}
    <3>1. CASE i \in 1 .. Len(Kept)
      BY <3>1, <1>8 DEF Regular, Orderly
    <3>2. CASE i = last
      BY <3>2, <1>9
    <3> QED BY <3>1, <3>2, <1>11
  <2> QED BY <2>1, <2>2 DEF Orderly
<1>13. (disk # None => Orderly(disk.logs))'
  BY <1>1 DEF Regular, Orderly
<1>14. HasNextId'
  <2> SUFFICES ASSUME NEW s \in Requests, pc[s] = "has_id" PROVE FALSE
    BY <1>1 DEF HasNextId
  <2>1. Allocating(s)
    BY DEF Allocating
  <2>2. Allocating(r)
    <3>1. 1 \in DOMAIN chan
      BY <1>3, LenProperties DEF TypeInv
    <3> QED BY <1>2, <3>1 DEF Allocating, r
  <2>3. s = r
    BY <1>4, <2>1, <2>2 DEF Overlap
  <2> QED BY <1>4, <2>3 DEF Past
<1>15. \A i \in 1 .. Len(chan') : chan'[i].op # "AddLog"
  <2> SUFFICES ASSUME NEW i \in 1 .. Len(chan'), chan'[i].op = "AddLog" PROVE FALSE
    OBVIOUS
  <2>1. i + 1 = 1
    BY <1>2, <1>5
  <2> QED BY <2>1, <1>2
<1>16. OneAddition'
  BY <1>15 DEF OneAddition
<1>17. ASSUME NEW s, NEW id \in Nat, Settled(s, id)
       PROVE  id < NextLogId' /\ \A j \in 1 .. Len(logs') : logs'[j].id = id => logs'[j].owner = s
  <2>1. id < n
    BY <1>17 DEF Settled, n
  <2>2. id < NextLogId'
    BY <2>1, <1>4, <1>10
  <2>3. ASSUME NEW j \in 1 .. Len(logs'), logs'[j].id = id PROVE logs'[j].owner = s
    <3>1. j # last
      BY <2>1, <2>3, <1>4, <1>9
    <3> QED BY <2>3, <3>1, <1>8, <1>11, <1>17 DEF Settled
  <2> QED BY <2>2, <2>3
<1>18. n < NextLogId' /\ \A j \in 1 .. Len(logs') : logs'[j].id = n => logs'[j].owner = r
  <2>1. ASSUME NEW j \in 1 .. Len(Kept) PROVE logs'[j].id # n
    <3>1. logs[Evictions + j].id < n /\ logs[Evictions + j].id \in Nat
      BY <1>6, <1>8, LogFields
    <3> QED BY <3>1, <1>4, <1>8
  <2> QED BY <2>1, <1>4, <1>9, <1>10, <1>11
<1>19. OwnIdsSettled'
  <2> SUFFICES ASSUME NEW s \in Requests, pc[s] \in Updating
               PROVE  /\ cur[s] < NextLogId'
                      /\ \A j \in 1 .. Len(logs') : logs'[j].id = cur[s] => logs'[j].owner = s
    BY <1>1 DEF OwnIdsSettled, Settled
  <2>1. cur[s] \in Nat
    BY DEF TypeInv
  <2>2. CASE Settled(s, cur[s])
    BY <2>1, <2>2, <1>17
  <2>3. CASE ~Settled(s, cur[s])
    <3>1. PICK i \in 1 .. Len(chan) : AddedAt(i, s, cur[s])
      BY <2>3 DEF Regular, OwnIdsSettled
    <3>2. s = r /\ cur[s] = n
      BY <3>1, <1>4, <1>5 DEF AddedAt, r
    <3> QED BY <3>2, <1>18
  <2> QED BY <2>2, <2>3
<1>20. UpdatesSettled'
  <2> SUFFICES ASSUME NEW j \in 1 .. Len(chan'), chan'[j].op = "UpdateLog"
               PROVE  /\ chan'[j].id < NextLogId'
                      /\ \A i \in 1 .. Len(logs') :
                            logs'[i].id = chan'[j].id => logs'[i].owner = chan'[j].from
    BY DEF UpdatesSettled, Settled
  <2>1. j + 1 \in 1 .. Len(chan) /\ chan'[j] = chan[j + 1] /\ chan[j + 1] \in Command
    BY <1>2
  <2>2. chan[j + 1].id \in Nat
    BY <2>1, CommandFields
  <2>3. CASE Settled(chan[j + 1].from, chan[j + 1].id)
    BY <2>1, <2>2, <2>3, <1>17
  <2>4. CASE ~Settled(chan[j + 1].from, chan[j + 1].id)
    <3>1. PICK i \in 1 .. ((j + 1) - 1) : AddedAt(i, chan[j + 1].from, chan[j + 1].id)
      BY <2>1, <2>4 DEF Regular, UpdatesSettled
    <3>2. i \in 1 .. Len(chan)
      BY <2>1, <3>1, <1>2
    <3>3. chan[j + 1].from = r /\ chan[j + 1].id = n
      BY <3>1, <3>2, <1>4, <1>5 DEF AddedAt, r
    <3> QED BY <2>1, <3>3, <1>18
  <2> QED BY <2>3, <2>4
<1> QED BY <1>12, <1>13, <1>14, <1>16, <1>19, <1>20 DEF Regular

\* Sending the log of the one request that allocates leaves everything regular.
LEMMA RegularSendLog ==
    ASSUME TypeInv, ~Overlap, Regular, NEW r \in Requests, NEW k \in Keys, add_log(r, k)
    PROVE  Regular'
<1> DEFINE cmd == [op |-> "AddLog", from |-> r, id |-> cur[r], key |-> k]
<1>1. Send(cmd) /\ cmd \in Command
  BY SentCommands DEF add_log
<1>2. cmd.op = "AddLog" /\ cmd.from = r /\ cmd.id = cur[r]
  OBVIOUS
<1> HIDE DEF cmd
<1>3. /\ Len(chan) \in Nat
      /\ Len(chan') = Len(chan) + 1
      /\ \A i \in 1 .. Len(chan) : chan'[i] = chan[i] /\ chan[i] \in Command
      /\ chan'[Len(chan) + 1] = cmd
      /\ \A i \in 1 .. Len(chan') : i \in 1 .. Len(chan) \/ i = Len(chan) + 1
  BY <1>1, Sent
<1>4. /\ pc[r] = "has_id"
      /\ pc' = [pc EXCEPT ![r] = "logged"]
      /\ UNCHANGED <<logs, disk, cur>>
  BY DEF add_log, actorVars
<1>5. pc'[r] = "logged" /\ \A s \in Requests : s # r => pc'[s] = pc[s]
  BY <1>4 DEF TypeInv
<1>6. NextLogId' = NextLogId /\ \A s, id : Settled(s, id)' <=> Settled(s, id)
  BY <1>4 DEF NextLogId, Settled
<1>7. \A i \in 1 .. Len(chan) : chan[i].op # "AddLog"
  <2> SUFFICES ASSUME NEW i \in 1 .. Len(chan), chan[i].op = "AddLog" PROVE FALSE
    OBVIOUS
  <2>1. chan[i].from \in Requests /\ pc[chan[i].from] \in Past
    BY <1>3, CommandFields DEF Regular, OneAddition, Past
  <2>2. i \in DOMAIN chan
    BY LenProperties DEF TypeInv
  <2>3. Allocating(chan[i].from) /\ Allocating(r)
    BY <1>4, <2>2 DEF Allocating
  <2>4. chan[i].from = r
    BY <2>1, <2>3 DEF Overlap
  <2> QED BY <1>4, <2>1, <2>4 DEF Past
<1>8. Len(chan) + 1 \in 1 .. Len(chan') /\ \A i \in 1 .. Len(chan) : i \in 1 .. Len(chan')
  BY <1>3
<1>9. Orderly(logs)' /\ (disk # None => Orderly(disk.logs))'
  BY <1>4 DEF Regular, Orderly
<1>10. HasNextId'
  BY <1>4, <1>5, <1>6 DEF Regular, HasNextId
<1>11. OneAddition'
  <2>1. cur[r] = NextLogId'
    BY <1>4, <1>6 DEF Regular, HasNextId
  <2>2. \A i \in 1 .. Len(chan') : chan'[i].op = "AddLog" => i = Len(chan) + 1
    BY <1>3, <1>7
  <2> QED BY <1>2, <1>3, <1>5, <2>1, <2>2 DEF OneAddition, Past
<1>12. OwnIdsSettled'
  <2> SUFFICES ASSUME NEW s \in Requests, pc'[s] \in Updating, ~Settled(s, cur[s])
               PROVE  \E i \in 1 .. Len(chan') : AddedAt(i, s, cur[s])'
    BY <1>4, <1>6 DEF OwnIdsSettled
  <2>1. CASE s = r
    BY <2>1, <1>2, <1>3, <1>4, <1>8 DEF AddedAt
  <2>2. CASE s # r
    BY <2>2, <1>5, <1>7 DEF Regular, OwnIdsSettled, AddedAt
  <2> QED BY <2>1, <2>2
<1>13. UpdatesSettled'
  <2> SUFFICES ASSUME NEW j \in 1 .. Len(chan'), chan'[j].op = "UpdateLog"
               PROVE  Settled(chan'[j].from, chan'[j].id)
    BY <1>6 DEF UpdatesSettled
  <2>1. j \in 1 .. Len(chan) /\ chan'[j] = chan[j]
    BY <1>2, <1>3
  <2>2. \A i \in 1 .. (j - 1) : i \in 1 .. Len(chan)
    BY <2>1, <1>3
  <2> QED BY <2>1, <2>2, <1>7 DEF Regular, UpdatesSettled, AddedAt
<1> QED BY <1>9, <1>10, <1>11, <1>12, <1>13 DEF Regular

\* An update reaches a log of the request that sent it.
LEMMA RegularUpdate ==
    ASSUME TypeInv, Regular, HandleUpdateLog
    PROVE  Regular'
<1>1. Receive("UpdateLog") /\ UNCHANGED <<pc, cur, disk>>
  BY DEF HandleUpdateLog
<1>2. chan[1].op = "UpdateLog" /\ Len(chan) \in Nat \ {0}
  BY <1>1, Received
<1>3. Settled(chan[1].from, chan[1].id)
  <2>1. 1 \in 1 .. Len(chan) /\ 1 .. (1 - 1) = {}
    BY <1>2
  <2> QED BY <1>2, <2>1 DEF Regular, UpdatesSettled
<1>4. (disk # None => Orderly(disk.logs))'
  BY <1>1 DEF Regular, Orderly
<1>5. CASE logs' = logs
  <2>1. Orderly(logs)' /\ HasNextId'
    BY <1>1, <1>5 DEF Regular, Orderly, HasNextId, NextLogId
  <2> QED BY <1>1, <1>4, <1>5, <2>1, RegularReceive
<1>6. CASE \E t \in 1 .. Len(logs) :
              /\ logs[t].id = chan[1].id
              /\ Updated(logs[t], chan[1]) \in Log
              /\ logs' = [logs EXCEPT ![t] = Updated(logs[t], chan[1])]
  <2>1. PICK t \in 1 .. Len(logs) :
              /\ logs[t].id = chan[1].id
              /\ Updated(logs[t], chan[1]) \in Log
              /\ logs' = [logs EXCEPT ![t] = Updated(logs[t], chan[1])]
    BY <1>6
  <2> DEFINE x == Updated(logs[t], chan[1])
  <2>2. logs[t] \in Log /\ logs[t].owner = chan[1].from
    BY <1>3, <2>1, LogFields DEF Settled
  <2>3. /\ x.id = logs[t].id
        /\ x.owner = logs[t].owner
        /\ x.writers = logs[t].writers \cup {chan[1].from}
    BY <2>2 DEF Updated, Log
  <2>4. x \in Log /\ logs' = [logs EXCEPT ![t] = x] /\ t \in 1 .. Len(logs) /\ logs \in Seq(Log)
    BY <2>1 DEF TypeInv
  <2> HIDE DEF x
  <2>5. /\ Len(logs') = Len(logs)
        /\ logs' \in Seq(Log)
        /\ \A j \in 1 .. Len(logs) : logs'[j] = IF j = t THEN x ELSE logs[j]
    BY <2>4, ExceptSeq
  <2>6. \A i \in 1 .. Len(logs) : logs'[i].id = logs[i].id /\ logs'[i].owner = logs[i].owner
    BY <2>3, <2>5
  <2>7. \A i \in 1 .. Len(logs) : logs'[i].writers \subseteq {logs'[i].owner}
    BY <2>2, <2>3, <2>5 DEF Regular, Orderly
  <2>8. Orderly(logs)'
    BY <2>5, <2>6, <2>7 DEF Regular, Orderly
  <2>9. logs # <<>> /\ logs' # <<>> /\ Len(logs) \in 1 .. Len(logs)
    BY <2>4, <2>5, EmptySeq, LenProperties
  <2>10. NextLogId' = NextLogId
    BY <2>5, <2>6, <2>9 DEF NextLogId
  <2>11. HasNextId'
    BY <1>1, <2>10 DEF Regular, HasNextId
  <2> QED BY <1>1, <1>4, <2>5, <2>6, <2>8, <2>9, <2>11, RegularReceive
<1> QED BY <1>5, <1>6, UpdatedLogs

\* Every step leaves everything regular as long as nobody overlapped.
LEMMA OverlapStep ==
    ASSUME TypeInv, OverlapInv, Next
    PROVE  OverlapInv'
<1> USE DEF actorVars, counters, others
<1> SUFFICES ASSUME ~overlapped' PROVE ~Overlap' /\ Regular'
  BY DEF OverlapInv
<1>1. ~overlapped /\ ~Overlap'
  BY DEF Next
<1>2. ~Overlap /\ Regular
  BY <1>1 DEF OverlapInv
<1>3. ASSUME NEW r \in Requests, get_next_log_id(r) PROVE Regular'
  <2> DEFINE cmd == [op |-> "GetNextLogId", from |-> r]
  <2>1. Send(cmd) /\ cmd \in Command /\ cmd.op = "GetNextLogId"
    BY <1>3, SentCommands DEF get_next_log_id
  <2> HIDE DEF cmd
  <2>2. PhasesKept /\ UNCHANGED <<logs, disk, cur>>
    BY <1>3 DEF get_next_log_id, PhasesKept, TypeInv, Past, Updating
  <2> QED BY <1>2, <2>1, <2>2, RegularSend
<1>4. ASSUME NEW r \in Requests, NEW k \in Keys, add_log(r, k) PROVE Regular'
  BY <1>2, <1>4, RegularSendLog
<1>5. ASSUME NEW r \in Requests, NEW u \in Updates, update_log(r, u) PROVE Regular'
  <2> DEFINE cmd == [op |-> "UpdateLog", from |-> r, id |-> cur[r], ops |-> u]
  <2>1. Send(cmd) /\ cmd \in Command /\ cmd.op = "UpdateLog" /\ cmd.from = r /\ cmd.id = cur[r]
    BY <1>5, SentCommands DEF update_log
  <2> HIDE DEF cmd
  <2>2. pc[r] \in {"logged", "success"} /\ UNCHANGED <<logs, disk, cur>>
    BY <1>5 DEF update_log, Reports
  <2>3. PhasesKept
    BY <1>5, <2>2 DEF update_log, PhasesKept, TypeInv, Past, Updating, Reported
  <2>4. pc[r] \in Updating
    BY <2>2 DEF Updating
  <2> QED BY <1>2, <2>1, <2>2, <2>3, <2>4, RegularSend
<1>6. ASSUME NEW r \in Requests, update_other(r) PROVE Regular'
  <2> DEFINE cmd == [op |-> "UpdateLog", from |-> r, id |-> cur[r], ops |-> "Other"]
  <2>1. Send(cmd) /\ cmd \in Command /\ cmd.op = "UpdateLog" /\ cmd.from = r /\ cmd.id = cur[r]
    BY <1>6, SentCommands DEF update_other, Updates
  <2> HIDE DEF cmd
  <2>2. pc[r] = "success" /\ PhasesKept /\ UNCHANGED <<logs, disk, cur>>
    BY <1>6 DEF update_other, PhasesKept
  <2>3. pc[r] \in Updating
    BY <2>2 DEF Updating
  <2> QED BY <1>2, <2>1, <2>2, <2>3, RegularSend
<1>7. ASSUME NEW r \in Requests, begin(r) \/ count(r) \/ disconnect(r) PROVE Regular'
  <2>1. UNCHANGED <<chan, logs, disk, cur>>
    BY <1>7 DEF begin, count, disconnect
  <2>2. PhasesKept
    BY <1>7 DEF begin, count, disconnect, PhasesKept, TypeInv, Past, Updating
  <2>3. NextLogId' = NextLogId
    BY <2>1 DEF NextLogId
  <2>4. HasNextId'
    BY <1>2, <2>1, <2>2, <2>3 DEF Regular, HasNextId, PhasesKept
  <2>5. \A i \in 1 .. Len(chan) : chan[i].op = "AddLog" => chan[i].from \in Requests
    <3>1. \A i \in 1 .. Len(chan) : chan[i] \in Command
      BY ElementOfSeq DEF TypeInv
    <3> QED BY <3>1, CommandFields
  <2>6. OneAddition'
    BY <1>2, <2>1, <2>2, <2>3, <2>5 DEF Regular, OneAddition, PhasesKept
  <2>7. OwnIdsSettled' /\ UpdatesSettled'
    BY <1>2, <2>1, <2>2, <2>3
       DEF Regular, OwnIdsSettled, UpdatesSettled, Settled, AddedAt, PhasesKept
  <2>8. Orderly(logs)' /\ (disk # None => Orderly(disk.logs))'
    BY <1>2, <2>1 DEF Regular, Orderly
  <2> QED BY <2>4, <2>6, <2>7, <2>8 DEF Regular
<1>8. ASSUME NEW v \in Queriers, NEW op \in {"GetLogs", "GetToken", "CloneToSave"}, query(v, op)
      PROVE  Regular'
  <2> DEFINE cmd == [op |-> op, from |-> v]
  <2>1. Send(cmd) /\ cmd \in Command /\ cmd.op = op
    BY <1>8, SentCommands DEF query
  <2> HIDE DEF cmd
  <2>2. PhasesKept /\ UNCHANGED <<logs, disk, cur>>
    BY <1>8 DEF query, PhasesKept
  <2> QED BY <1>2, <2>1, <2>2, RegularSend
<1>9. ASSUME NEW v, hang_up(v) PROVE Regular'
  <2>1. UNCHANGED <<chan, pc, logs, disk, cur>>
    BY <1>9 DEF hang_up
  <2> QED BY <1>2, <2>1 DEF Regular, Orderly, HasNextId, OneAddition, OwnIdsSettled,
                          UpdatesSettled, Settled, AddedAt, NextLogId
<1>10. CASE HandleGetNextLogId
  <2>1. Receive("GetNextLogId") /\ UNCHANGED <<logs, disk>>
    BY <1>10 DEF HandleGetNextLogId
  <2>2. chan[1].from \in Requests /\ Head(chan) = chan[1]
    BY <2>1, Received, CommandFields
  <2>3. \/ pc' = pc /\ cur' = cur
        \/ /\ pc[chan[1].from] = "asking"
           /\ pc' = [pc EXCEPT ![chan[1].from] = "has_id"]
           /\ cur' = [cur EXCEPT ![chan[1].from] = NextLogId]
    BY <1>10, <2>2 DEF HandleGetNextLogId
  <2>4. NextLogId' = NextLogId
    BY <2>1 DEF NextLogId
  <2>5. HasNextId'
    BY <1>2, <2>2, <2>3, <2>4 DEF Regular, HasNextId, TypeInv
  <2>6. /\ \A s \in Requests : pc[s] \in Past => pc'[s] \in Past
        /\ \A s \in Requests : pc'[s] \in Updating =>
              pc[s] \in Updating /\ cur'[s] = cur[s]
    BY <2>2, <2>3 DEF TypeInv, Past, Updating
  <2>7. Orderly(logs)' /\ (disk # None => Orderly(disk.logs))'
    BY <1>2, <2>1 DEF Regular, Orderly
  <2> QED BY <1>1, <1>2, <2>1, <2>5, <2>6, <2>7, RegularReceive
<1>11. CASE HandleAddLog
  BY <1>1, <1>2, <1>11, RegularAdd
<1>12. CASE HandleUpdateLog
  BY <1>1, <1>2, <1>12, RegularUpdate
<1>13. ASSUME NEW op, HandleQuery(op) PROVE Regular'
  <2>1. Receive(op) /\ op # "AddLog" /\ UNCHANGED <<logs, disk, pc, cur>>
    BY <1>13 DEF HandleQuery
  <2>2. HasNextId' /\ Orderly(logs)' /\ (disk # None => Orderly(disk.logs))'
    BY <1>2, <2>1 DEF Regular, Orderly, HasNextId, NextLogId
  <2> QED BY <1>2, <2>1, <2>2, RegularReceive
<1>14. CASE HandleCloneToSave
  <2>1. /\ Receive("CloneToSave")
        /\ UNCHANGED <<logs, pc, cur>>
        /\ disk' = [logs |-> logs, tokens |-> tokens]
    BY <1>14 DEF HandleCloneToSave
  <2>2. disk'.logs = logs
    BY <2>1
  <2>3. HasNextId' /\ Orderly(logs)' /\ (disk # None => Orderly(disk.logs))'
    BY <1>2, <2>1, <2>2 DEF Regular, Orderly, HasNextId, NextLogId
  <2> QED BY <1>1, <1>2, <2>1, <2>3, RegularReceive
<1>15. CASE load
  <2>1. logs' = disk.logs /\ disk # None /\ disk' = None /\ chan' = <<>> /\ Len(chan') = 0
    BY <1>15, EmptySeq DEF load
  <2>2. \A s \in Requests : pc'[s] \in {"new", "gone"}
    BY <1>15 DEF load
  <2>3. Orderly(logs)' /\ (disk # None => Orderly(disk.logs))'
    BY <1>2, <2>1 DEF Regular, Orderly
  <2> QED BY <1>1, <2>1, <2>2, <2>3 DEF Regular, HasNextId, OneAddition, OwnIdsSettled, UpdatesSettled,
                                        Updating
<1>16. Regular'
  BY <1>3, <1>4, <1>5, <1>6, <1>7, <1>8, <1>9, <1>10, <1>11, <1>12, <1>13, <1>14, <1>15
     DEF Next, Client, Actor
<1> QED BY <1>1, <1>16

-----------------------------------------------------------------------------

\* The inductive invariant holds in every behaviour.
THEOREM LogInvariant == Spec => []IInv
<1>1. Init => IInv
  <2> SUFFICES ASSUME Init PROVE IInv
    OBVIOUS
  <2> USE DEF Init
  <2>1. <<>> \in Seq(Log) /\ <<>> \in Seq(Command) /\ Len(<<>>) = 0 /\ DOMAIN <<>> = {}
    BY EmptySeq
  <2>2. TypeInv
    <3>1. tokens \in Associations /\ pc \in [Requests -> Phases] /\ cur \in [Requests -> Nat]
      BY DEF Associations, Phases
    <3>2. Len(chan) <= Capacity /\ disk \in Saved \cup {None}
      BY <2>1, LogAssumption
    <3>3. logs \in Seq(Log) /\ chan \in Seq(Command)
      BY <2>1
    <3>4. limit \in Limits /\ alive \in BOOLEAN /\ overlapped \in BOOLEAN
      <4>1. limit \in Limits /\ alive = TRUE /\ overlapped = FALSE
        BY Zenon
      <4> HIDE DEF Init
      <4> QED BY <4>1, Zenon
    <3>5. waiting \subseteq Queriers /\ left \subseteq Viewers /\ dropped \subseteq Requests
      OBVIOUS
    <3>6. total_requests \in Int /\ active_requests \in Int /\ error_requests \in Nat
      OBVIOUS
    <3> HIDE DEF Init
    <3> QED BY <3>1, <3>2, <3>3, <3>4, <3>5, <3>6 DEF TypeInv
  <2>3. AssocInv
    <3>1. \A k : {i \in DOMAIN logs : logs[i].key = k} = {}
      BY <2>1
    <3>2. \A k : CountKey(logs, k) = 0
      BY <3>1, FS_EmptySet DEF CountKey
    <3> QED BY <3>2 DEF AssocInv, Matches
  <2>4. QueueInv
    BY <2>1 DEF QueueInv
  <2>5. CountInv
    <3>1. Active = {} /\ Entering = {} /\ Erring = {}
      BY DEF Active, Entering, Erring, In, ActivePhases, EnteringPhases, ErringPhases
    <3>2. \A S : {i \in DOMAIN logs : logs[i] \in S} = {} /\ {i \in DOMAIN chan : chan[i] \in S} = {}
      BY <2>1
    <3>3. \A S : Count(logs, S) = 0 /\ Count(chan, S) = 0
      BY <3>2, FS_EmptySet DEF Count
    <3> QED BY <2>1, <3>1, <3>3, FS_EmptySet DEF CountInv
  <2>6. OverlapInv
    <3>1. ~Overlap
      BY <2>1 DEF Overlap, Allocating
    <3>2. Regular
      BY <2>1 DEF Regular, Orderly, HasNextId, OneAddition, OwnIdsSettled, UpdatesSettled,
                  Updating
    <3> QED BY <3>1, <3>2 DEF OverlapInv
  <2> QED BY <2>2, <2>3, <2>4, <2>5, <2>6 DEF IInv
<1>2. IInv /\ [Next]_vars => IInv'
  <2>1. ASSUME IInv, Next PROVE IInv'
    BY <2>1, TypeStep, AssocStep, QueueStep, CountStep, OverlapStep DEF IInv
  <2>2. ASSUME IInv, UNCHANGED vars PROVE IInv'
    <3>1. /\ UNCHANGED <<logs, tokens, limit, alive, disk, chan, pc, cur, waiting, left>>
          /\ UNCHANGED <<total_requests, active_requests, error_requests, dropped, overlapped>>
      BY <2>2 DEF vars, actorVars, counters
    <3>2. TypeInv'
      BY <2>2, <3>1 DEF IInv, TypeInv
    <3>3. AssocInv'
      BY <2>2, <3>1 DEF IInv, AssocInv, Matches, CountKey
    <3>4. QueueInv'
      BY <2>2, <3>1 DEF IInv, QueueInv, Question
    <3>5. CountInv'
      BY <2>2, <3>1 DEF IInv, CountInv, Active, Entering, Erring, In, Count
    <3>6. OverlapInv'
      BY <2>2, <3>1 DEF IInv, OverlapInv, Overlap, Allocating, Regular, Orderly, HasNextId,
                       OneAddition, OwnIdsSettled, UpdatesSettled, Settled, AddedAt, NextLogId
    <3> QED BY <3>2, <3>3, <3>4, <3>5, <3>6 DEF IInv
  <2> QED BY <2>1, <2>2
<1> QED BY <1>1, <1>2, PTL DEF Spec

\* The types, and no counter is ever negative: decrement_active never runs
\* without its increment.
THEOREM LogTypes == Spec => []TypeOK
<1>1. IInv => TypeOK
  <2> SUFFICES ASSUME IInv PROVE TypeOK
    OBVIOUS
  <2>1. total_requests \in Nat /\ active_requests \in Nat /\ error_requests \in Nat
    <3>1. /\ total_requests \in Int /\ active_requests \in Int /\ error_requests \in Nat
          /\ active_requests = Cardinality(Active) + Cardinality(dropped)
          /\ total_requests >= Len(logs) + Count(chan, Additions) + Cardinality(Entering)
      BY DEF IInv, TypeInv, CountInv
    <3>2. /\ Len(logs) \in Nat
          /\ Cardinality(Active) \in Nat
          /\ Cardinality(Entering) \in Nat
          /\ Cardinality(dropped) \in Nat
          /\ Count(chan, Additions) \in Nat
      BY CountTypes DEF IInv
    <3> QED BY <3>1, <3>2
  <2>2. disk = None \/ disk.logs \in Seq(Log)
    BY DEF IInv, TypeInv, Saved
  <2> QED BY <2>1, <2>2 DEF IInv, TypeInv, TypeOK, Associations, Phases
<1> QED BY <1>1, LogInvariant, PTL

\* Evictions, restarts and smaller limits included, every key's association
\* counts exactly the logs of the key.
THEOREM AssociationsExact == Spec => []AssociationsMatchLogs
<1>1. IInv => AssociationsMatchLogs
  BY DEF IInv, AssocInv, Matches, AssociationsMatchLogs
<1> QED BY <1>1, LogInvariant, PTL

\* The gauge of active requests, and the lower bounds of the other counters.
THEOREM CountersCoverLogs == Spec => []CountersAgree
<1>1. IInv => CountersAgree
  <2> SUFFICES ASSUME IInv PROVE CountersAgree
    OBVIOUS
  <2>1. /\ total_requests \in Int /\ error_requests \in Nat
        /\ active_requests = Cardinality(Active) + Cardinality(dropped)
        /\ total_requests >= Len(logs) + Count(chan, Additions) + Cardinality(Entering)
        /\ error_requests + Cardinality(Erring)
             >= Count(logs, FailedLogs) + Count(chan, FailureUpdates)
    BY DEF IInv, TypeInv, CountInv
  <2>2. /\ Len(logs) \in Nat
        /\ Cardinality(Entering) \in Nat
        /\ Cardinality(Erring) \in Nat
        /\ Count(chan, Additions) \in Nat
        /\ Count(chan, FailureUpdates) \in Nat
        /\ Count(logs, FailedLogs) \in Nat
    BY CountTypes DEF IInv
  <2>3. /\ total_requests >= Len(logs)
        /\ error_requests + Cardinality(Erring) >= Count(logs, FailedLogs)
    BY <2>1, <2>2
  <2>4. Count(logs, FailedLogs) = Cardinality({i \in DOMAIN logs : logs[i].status = "Failure"})
    <3>1. \A i \in DOMAIN logs : logs[i] \in Log
      BY LogFields DEF IInv
    <3>2. {i \in DOMAIN logs : logs[i] \in FailedLogs} = {i \in DOMAIN logs : logs[i].status = "Failure"}
      BY <3>1 DEF FailedLogs
    <3> QED BY <3>2 DEF Count
  <2>5. Active = Unreleased /\ Erring = Uncounted
    BY DEF Active, Erring, In, ActivePhases, ErringPhases, Unreleased, Uncounted
  <2> QED BY <2>1, <2>3, <2>4, <2>5 DEF CountersAgree
<1> QED BY <1>1, LogInvariant, PTL

\* Evictions, restarts and requests dropped halfway never make an update reach a
\* foreign log: only two requests that allocate at a time do.
THEOREM UpdatesStrayOnlyAfterOverlap == Spec => []ForeignUpdateNeedsOverlap
<1>1. IInv => ForeignUpdateNeedsOverlap
  <2> SUFFICES ASSUME IInv, ~overlapped PROVE UpdatesReachOwnLog
    BY DEF ForeignUpdateNeedsOverlap
  <2>1. Orderly(logs)
    BY DEF IInv, OverlapInv, Regular
  <2>2. DOMAIN logs = 1 .. Len(logs)
    BY LogFields DEF IInv
  <2> QED BY <2>1, <2>2 DEF Orderly, UpdatesReachOwnLog
<1> QED BY <1>1, LogInvariant, PTL

\* Whoever waits for an answer has one question in the channel.
THEOREM WaitersQueued == Spec => []WaitersAreQueued
<1>1. IInv => WaitersAreQueued
  <2> SUFFICES ASSUME IInv, alive PROVE WaitersAreQueued
    BY DEF WaitersAreQueued
  <2>1. chan \in Seq(Command) /\ DOMAIN chan = 1 .. Len(chan)
    BY LenProperties DEF IInv, TypeInv
  <2>2. \A i \in DOMAIN chan : chan[i] \in Command
    BY <2>1, ElementOfSeq
  <2>3. ASSUME NEW r \in Requests, pc[r] = "asking"
        PROVE  Cardinality({i \in DOMAIN chan : chan[i].op = "GetNextLogId" /\ chan[i].from = r}) = 1
    <3>1. PICK i \in DOMAIN chan : chan[i].op = "GetNextLogId" /\ chan[i].from = r
      BY <2>1, <2>3 DEF IInv, QueueInv
    <3>2. {j \in DOMAIN chan : chan[j].op = "GetNextLogId" /\ chan[j].from = r} = {i}
      BY <2>1, <3>1 DEF IInv, QueueInv, Question
    <3> QED BY <3>2, FS_Singleton
  <2>4. ASSUME NEW v \in Queriers, NEW i \in DOMAIN chan, chan[i].from = v
        PROVE  Question(chan[i]) /\ v \in waiting \cup left
    <3>1. chan[i].op \in {"GetLogs", "GetToken", "CloneToSave"}
      BY <2>2, <2>4, CommandFields, LogAssumption DEF Queriers
    <3> QED BY <2>1, <2>4, <3>1 DEF IInv, QueueInv, Question
  <2>5. \A v \in Queriers :
           v \in waiting <=> v \notin left /\ \E i \in DOMAIN chan : chan[i].from = v
    <3> SUFFICES ASSUME NEW v \in Queriers
                 PROVE  v \in waiting <=> v \notin left /\ \E i \in DOMAIN chan : chan[i].from = v
      OBVIOUS
    <3>1. v \in waiting => v \notin left /\ \E i \in DOMAIN chan : chan[i].from = v
      BY <2>1 DEF IInv, QueueInv
    <3>2. v \notin left /\ (\E i \in DOMAIN chan : chan[i].from = v) => v \in waiting
      BY <2>4
    <3> QED BY <3>1, <3>2
  <2>6. ASSUME NEW v \in Queriers
        PROVE  Cardinality({i \in DOMAIN chan : chan[i].from = v}) <= 1
    <3>1. CASE {i \in DOMAIN chan : chan[i].from = v} = {}
      BY <3>1, FS_EmptySet
    <3>2. CASE \E i \in DOMAIN chan : chan[i].from = v
      <4>1. PICK i \in DOMAIN chan : chan[i].from = v
        BY <3>2
      <4>2. {j \in DOMAIN chan : chan[j].from = v} = {i}
        BY <2>1, <2>4, <4>1 DEF IInv, QueueInv
      <4>3. Cardinality({i}) = 1
        BY FS_Singleton
      <4> QED BY <4>2, <4>3
    <3> QED BY <3>1, <3>2
  <2> QED BY <2>3, <2>5, <2>6 DEF WaitersAreQueued
<1> QED BY <1>1, LogInvariant, PTL

\* The actor's own expectation, that every log has an association, never fails:
\* a step that kills it answers somebody who is gone.
THEOREM ActorDiesOnlyOnHangUp == Spec => ActorDiesOnlyByDisconnect
<1> DEFINE Death == (alive /\ ~alive') =>
          LET asker == Head(chan).from
          IN  IF asker \in Requests THEN pc[asker] = "gone" ELSE asker \in left
<1>1. IInv /\ [Next]_vars => [Death]_vars
  <2> SUFFICES ASSUME IInv, Next, alive, ~alive'
               PROVE  IF Head(chan).from \in Requests THEN pc[Head(chan).from] = "gone"
                                                     ELSE Head(chan).from \in left
    OBVIOUS
  <2> USE DEF actorVars, counters, others
  <2>t. TypeInv
    BY DEF IInv
  <2>1. CASE HandleGetNextLogId
    <3>1. Receive("GetNextLogId")
      BY <2>1 DEF HandleGetNextLogId
    <3>2. /\ Head(chan) = chan[1]
          /\ chan[1].from \in Requests
          /\ chan[1].op = "GetNextLogId"
          /\ 1 \in 1 .. Len(chan)
      BY <2>t, <3>1, Received, CommandFields
    <3>3. pc[chan[1].from] # "asking"
      BY <2>1, <3>2 DEF HandleGetNextLogId
    <3>4. pc[chan[1].from] \in {"asking", "gone"}
      BY <3>2 DEF IInv, QueueInv
    <3> QED BY <3>2, <3>3, <3>4
  <2>2. ASSUME NEW op \in {"GetLogs", "GetToken"}, HandleQuery(op)
        PROVE  Head(chan).from \notin Requests /\ Head(chan).from \in left
    <3>1. Receive(op)
      BY <2>2 DEF HandleQuery
    <3>2. /\ Head(chan) = chan[1]
          /\ chan[1].op = op
          /\ chan[1].from \in Viewers
          /\ 1 \in 1 .. Len(chan)
      BY <2>t, <3>1, Received, CommandFields
    <3>3. \A i \in DOMAIN logs : tokens[logs[i].key] # None
      <4> SUFFICES ASSUME NEW i \in DOMAIN logs PROVE tokens[logs[i].key] # None
        OBVIOUS
      <4>1. logs \in Seq(Log) /\ i \in 1 .. Len(logs) /\ logs[i] \in Log /\ logs[i].key \in Keys
        BY <2>t, LogFields DEF TypeInv
      <4>2. logs[i] \in OfKey(logs[i].key)
        BY <4>1 DEF OfKey
      <4>3. Count(logs, OfKey(logs[i].key)) # 0
        BY <4>1, <4>2, CountType
      <4>4. CountKey(logs, logs[i].key) # 0
        BY <4>1, <4>3, KeyCount
      <4> QED BY <4>1, <4>4 DEF IInv, AssocInv, Matches
    <3>4. chan[1].from \notin waiting
      BY <2>2, <3>2, <3>3 DEF HandleQuery
    <3>5. chan[1].from \in waiting \cup left
      BY <3>2 DEF IInv, QueueInv
    <3> QED BY <3>2, <3>4, <3>5, LogAssumption
  <2>3. ASSUME NEW r \in Requests, Client(r) \/ disconnect(r) PROVE FALSE
    BY <2>3 DEF Client, begin, get_next_log_id, add_log, update_log, count, update_other,
                disconnect
  <2>4. ASSUME NEW v, NEW op, query(v, op) \/ hang_up(v) PROVE FALSE
    BY <2>4 DEF query, hang_up
  <2>5. ~HandleAddLog /\ ~HandleUpdateLog /\ ~HandleCloneToSave /\ ~load
    BY DEF HandleAddLog, HandleUpdateLog, HandleCloneToSave, load
  <2> QED BY <2>1, <2>2, <2>3, <2>4, <2>5 DEF Next, Actor
<1> QED BY <1>1, LogInvariant, PTL DEF Spec, ActorDiesOnlyByDisconnect

=============================================================================
