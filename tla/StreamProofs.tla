---------------------------- MODULE StreamProofs ----------------------------
(***************************************************************************)
(* What becomes of the upstream's answer, for answers of any length and    *)
(* any number of requests.                                                 *)
(*                                                                         *)
(* StreamDecoder: however the answer is cut into chunks, every message     *)
(* that was read is kept back or answered exactly once, in order unless    *)
(* the first result stayed back, and a finished answer that left nothing   *)
(* in the buffer is whole.                                                 *)
(*                                                                         *)
(* ToolCalls: the arguments of every counted call arrive once, in order    *)
(* and complete unless an earlier call ended uncounted; the blocks follow  *)
(* the calls, the finish reason tells whether there are any, and the calls *)
(* of a session share one model_call_id.                                   *)
(***************************************************************************)
EXTENDS StreamDecoder, ToolCalls, FiniteSetTheorems, SequenceTheorems,
        WellFoundedInduction, TLAPS

\* In the order of the upstream.
Ascending(s) == \A i, j \in DOMAIN s : i < j => s[i] < s[j]

\* The frames are those of an answer: the trailer is the last one.
FramesOK ==
    /\ frames \in Seq(Inner \cup Trailers)
    /\ \A i \in DOMAIN frames : frames[i] \in Trailers => i = Len(frames)

\* The types of the data; the buffer was advanced to the end of a frame.
TypeInv ==
    /\ FramesOK
    /\ received \in Nat /\ received <= Total
    /\ consumed <= received
    /\ \E b \in 0 .. Len(frames) : consumed = Ends[b]
    /\ first_result = None \/ (first_result \in Seq(DOMAIN frames) /\ first_result # <<>>)
    /\ out \in Seq(DOMAIN frames)

\* The types of the rest.
FlagInv ==
    /\ frames \in Answers
    /\ first_result_ready \in BOOLEAN /\ first_result_taken \in BOOLEAN
    /\ has_seen_content \in BOOLEAN /\ over \in BOOLEAN /\ drop_stream \in BOOLEAN
    /\ answered \in BOOLEAN /\ late \in BOOLEAN
    /\ phase \in {"first", "stream", "collect", "hung", "refused", "done"}

\* What the decoder's flags say: the first result grows until it is ready, stays
\* until it is taken, and a request without streaming has none.
PhaseInv ==
    /\ first_result_taken => first_result = None
    /\ phase = "first" => ~first_result_ready /\ ~first_result_taken /\ out = <<>> /\ ~answered
    /\ phase = "stream" => first_result_ready /\ (first_result = None => first_result_taken)
    /\ phase = "collect" => first_result_ready /\ first_result_taken

\* ReadIsAnsweredOnce, and when an error can have been answered: with the last
\* byte, and never advanced over.
OnceInv ==
    /\ IsInjective(out) /\ ToSet(Held) \cap ToSet(out) = {}
    /\ Read \subseteq ToSet(Held) \cup ToSet(out)
    /\ ToSet(Held) \subseteq Read
    /\ \A i \in ToSet(out) :
          i \in Read \/ (frames[i] = "error" /\ received = Total /\ consumed < Total)

\* The first result is in order, and nothing is answered before it unless late.
OrderInv ==
    /\ Ascending(Held)
    /\ ~late => Ascending(out) /\ (first_result = None \/ out = <<>>)

\* Once a chunk was answered, the first result stays back only while a part of
\* a frame is in the buffer.
SentInv == answered /\ consumed = received => first_result = None

\* The inductive invariant.
IInv == TypeInv /\ FlagInv /\ PhaseInv /\ OnceInv /\ OrderInv /\ SentInv

-----------------------------------------------------------------------------
\* Numbers.

\* A non-empty set of natural numbers has a least one.
LEMMA LeastExists ==
    ASSUME NEW T \in SUBSET Nat, T # {}
    PROVE  \E x \in T : \A y \in T : x <= y
<1> DEFINE R == OpToRel(<, Nat)
<1>1. IsWellFoundedOn(R, Nat)
  BY NatLessThanWellFounded
<1>2. PICK d \in T : \A e \in T : ~(<<e, d>> \in R)
  <2> HIDE DEF R
  <2> QED BY <1>1, WFMin
<1>3. \A e \in T : d <= e
  <2> SUFFICES ASSUME NEW e \in T, e < d PROVE FALSE
    OBVIOUS
  <2>1. <<e, d>> \in R
    BY DEF OpToRel
  <2> QED BY <2>1, <1>2
<1> QED BY <1>3

\* A non-empty set of natural numbers with a bound has a greatest one.
LEMMA GreatestExists ==
    ASSUME NEW n \in Nat, NEW T \in SUBSET (0 .. n), T # {}
    PROVE  \E x \in T : \A y \in T : y <= x
<1> DEFINE D == {n - t : t \in T}
<1>0. \A t \in T : t \in Int /\ n - t \in Nat
  OBVIOUS
<1>1. D \in SUBSET Nat /\ D # {}
  BY <1>0
<1>2. PICK d \in D : \A e \in D : d <= e
  <2> HIDE DEF D
  <2> QED BY <1>1, LeastExists
<1>3. PICK x \in T : d = n - x
  OBVIOUS
<1>4. \A y \in T : y <= x
  <2> SUFFICES ASSUME NEW y \in T PROVE y <= x
    OBVIOUS
  <2>1. n - y \in D
    OBVIOUS
  <2>2. n - x <= n - y
    BY <2>1, <1>2, <1>3
  <2> QED BY <2>2
<1> QED BY <1>4

-----------------------------------------------------------------------------
\* Where the frames end.

\* A frame is not empty.
LEMMA SizePositive == \A k : total_size(k) \in Nat /\ total_size(k) > 0
  BY FrameAssumption DEF total_size

\* There are sums of the sizes up to every frame: the least one without would have
\* a predecessor with one.
LEMMA SumsExist ==
    ASSUME FramesOK
    PROVE  \A n \in 0 .. Len(frames) : \E g \in [0 .. n -> Nat] :
              g[0] = 0 /\ \A i \in 1 .. n : g[i] = g[i - 1] + total_size(frames[i])
<1> DEFINE P(n) == \E g \in [0 .. n -> Nat] :
                      g[0] = 0 /\ \A i \in 1 .. n : g[i] = g[i - 1] + total_size(frames[i])
           T == {n \in 0 .. Len(frames) : ~P(n)}
<1>0. Len(frames) \in Nat
  BY DEF FramesOK
<1> SUFFICES ASSUME T # {} PROVE FALSE
  OBVIOUS
<1>1. T \in SUBSET Nat
  BY <1>0
<1>2. PICK n \in T : \A m \in T : n <= m
  <2> HIDE DEF T
  <2> QED BY <1>1, LeastExists
<1>3. n \in 0 .. Len(frames) /\ ~P(n) /\ n \in Nat
  BY <1>0
<1>4. n # 0
  <2> SUFFICES P(0)
    BY <1>3
  <2> DEFINE z == [i \in 0 .. 0 |-> 0]
  <2>1. z \in [0 .. 0 -> Nat] /\ z[0] = 0 /\ \A i \in 1 .. 0 : FALSE
    OBVIOUS
  <2> HIDE DEF z
  <2> QED BY <2>1
<1>5. P(n - 1)
  <2>1. n - 1 \in 0 .. Len(frames) /\ ~(n <= n - 1)
    BY <1>0, <1>3, <1>4
  <2> QED BY <1>2, <2>1
<1>6. PICK g \in [0 .. (n - 1) -> Nat] :
        g[0] = 0 /\ \A i \in 1 .. (n - 1) : g[i] = g[i - 1] + total_size(frames[i])
  BY <1>5
<1> DEFINE h == [i \in 0 .. n |-> IF i = n THEN g[n - 1] + total_size(frames[n]) ELSE g[i]]
<1>7. n - 1 \in 0 .. (n - 1) /\ \A i \in 0 .. n : i # n => i \in 0 .. (n - 1)
  BY <1>3, <1>4
<1>8. h \in [0 .. n -> Nat]
  BY <1>3, <1>7, SizePositive
<1>9. h[0] = 0
  BY <1>3, <1>4, <1>6
<1>10. ASSUME NEW i \in 1 .. n PROVE h[i] = h[i - 1] + total_size(frames[i])
  <2>1. i \in 0 .. n /\ i - 1 \in 0 .. n /\ i - 1 # n
    BY <1>3
  <2>2. h[i - 1] = g[i - 1]
    BY <2>1
  <2>3. CASE i = n
    BY <2>1, <2>2, <2>3
  <2>4. CASE i # n
    <3>1. i \in 1 .. (n - 1)
      BY <1>3, <2>4
    <3> QED BY <2>1, <2>2, <2>4, <3>1, <1>6
  <2> QED BY <2>3, <2>4
<1> HIDE DEF h
<1>11. P(n)
  BY <1>8, <1>9, <1>10
<1> QED BY <1>3, <1>11

\* Ends as its recursive definition says.
LEMMA EndsEquation ==
    ASSUME FramesOK
    PROVE  Ends = [i \in 0 .. Len(frames) |->
                      IF i = 0 THEN 0 ELSE Ends[i - 1] + total_size(frames[i])]
<1> DEFINE F(e) == [i \in 0 .. Len(frames) |->
                      IF i = 0 THEN 0 ELSE e[i - 1] + total_size(frames[i])]
<1>0. Len(frames) \in Nat
  BY DEF FramesOK
<1>1. PICK g \in [0 .. Len(frames) -> Nat] :
         g[0] = 0 /\ \A i \in 1 .. Len(frames) : g[i] = g[i - 1] + total_size(frames[i])
  <2>1. Len(frames) \in 0 .. Len(frames)
    BY <1>0
  <2> QED BY <2>1, SumsExist
<1>2. g = F(g)
  <2>1. \A i \in 0 .. Len(frames) :
           g[i] = IF i = 0 THEN 0 ELSE g[i - 1] + total_size(frames[i])
    BY <1>0, <1>1
  <2> QED BY <2>1
<1>3. Ends = CHOOSE e : e = F(e)
  BY DEF Ends
<1> HIDE DEF F
<1>4. Ends = F(Ends)
  BY <1>2, <1>3
<1> QED BY <1>4 DEF F

\* The ends start at 0 and each is past the one before.
LEMMA EndsSteps ==
    ASSUME FramesOK
    PROVE  /\ Len(frames) \in Nat
           /\ Ends[0] = 0
           /\ \A i \in 1 .. Len(frames) : Ends[i] = Ends[i - 1] + total_size(frames[i])
<1>1. Len(frames) \in Nat
  BY DEF FramesOK
<1>2. \A i \in 0 .. Len(frames) :
         Ends[i] = IF i = 0 THEN 0 ELSE Ends[i - 1] + total_size(frames[i])
  BY EndsEquation
<1>3. 0 \in 0 .. Len(frames) /\ \A i \in 1 .. Len(frames) : i \in 0 .. Len(frames) /\ i # 0
  BY <1>1
<1> QED BY <1>1, <1>2, <1>3

\* The ends are numbers.
LEMMA EndsNat ==
    ASSUME FramesOK
    PROVE  \A i \in 0 .. Len(frames) : Ends[i] \in Nat
<1> DEFINE T == {i \in 0 .. Len(frames) : Ends[i] \notin Nat}
<1> SUFFICES ASSUME T # {} PROVE FALSE
  OBVIOUS
<1>0. Len(frames) \in Nat
  BY DEF FramesOK
<1>1. T \in SUBSET Nat
  BY <1>0
<1>2. PICK n \in T : \A m \in T : n <= m
  <2> HIDE DEF T
  <2> QED BY <1>1, LeastExists
<1>3. n \in 0 .. Len(frames) /\ Ends[n] \notin Nat /\ n \in Nat
  BY <1>0
<1>4. n # 0
  BY <1>3, EndsSteps
<1>5. n - 1 \in 0 .. Len(frames) /\ ~(n <= n - 1) /\ n \in 1 .. Len(frames)
  BY <1>0, <1>3, <1>4
<1>6. Ends[n - 1] \in Nat
  BY <1>2, <1>5
<1>7. Ends[n] = Ends[n - 1] + total_size(frames[n])
  BY <1>5, EndsSteps
<1> QED BY <1>3, <1>6, <1>7, SizePositive

\* The ends grow.
LEMMA EndsGrow ==
    ASSUME FramesOK, NEW i \in 0 .. Len(frames), NEW j \in 0 .. Len(frames), i < j
    PROVE  Ends[i] < Ends[j]
<1> DEFINE T == {k \in 0 .. Len(frames) : i < k /\ ~(Ends[i] < Ends[k])}
<1>0. Len(frames) \in Nat /\ i \in Nat
  BY DEF FramesOK
<1> SUFFICES ASSUME T # {} PROVE FALSE
  OBVIOUS
<1>1. T \in SUBSET Nat
  BY <1>0
<1>2. PICK n \in T : \A m \in T : n <= m
  <2> HIDE DEF T
  <2> QED BY <1>1, LeastExists
<1>3. n \in 0 .. Len(frames) /\ i < n /\ ~(Ends[i] < Ends[n]) /\ n \in Nat
  BY <1>0
<1>4. n - 1 \in 0 .. Len(frames) /\ ~(n <= n - 1) /\ n \in 1 .. Len(frames) /\ i <= n - 1
  BY <1>0, <1>3
<1>5. Ends[n - 1] \in Nat /\ Ends[i] \in Nat /\ Ends[n] \in Nat
  BY <1>3, <1>4, EndsNat
<1>6. Ends[n] = Ends[n - 1] + total_size(frames[n])
  BY <1>4, EndsSteps
<1>7. i = n - 1 \/ Ends[i] < Ends[n - 1]
  <2>1. n - 1 \notin T
    BY <1>2, <1>4
  <2> QED BY <2>1, <1>0, <1>3, <1>4
<1> HIDE DEF T
<1>8. Ends[i] <= Ends[n - 1]
  BY <1>5, <1>7
<1> QED BY <1>3, <1>5, <1>6, <1>8, SizePositive

\* The ends are in the order of the frames.
LEMMA EndsOrder ==
    ASSUME FramesOK, NEW i \in 0 .. Len(frames), NEW j \in 0 .. Len(frames)
    PROVE  Ends[i] <= Ends[j] <=> i <= j
<1>1. Ends[i] \in Nat /\ Ends[j] \in Nat /\ i \in Int /\ j \in Int
  BY EndsNat
<1>2. CASE i < j
  BY <1>1, <1>2, EndsGrow
<1>3. CASE j < i
  <2>1. Ends[j] < Ends[i]
    BY <1>3, EndsGrow
  <2> QED BY <1>1, <1>3, <2>1
<1>4. CASE i = j
  BY <1>1, <1>4
<1> QED BY <1>1, <1>2, <1>3, <1>4

-----------------------------------------------------------------------------
\* Sequences of messages.

\* Two sequences one after the other.
LEMMA ConcatFacts ==
    ASSUME NEW D \in SUBSET Nat, NEW s \in Seq(D), NEW t \in Seq(D)
    PROVE  /\ s \o t \in Seq(D)
           /\ ToSet(s \o t) = ToSet(s) \cup ToSet(t)
           /\ IsInjective(s) /\ IsInjective(t) /\ ToSet(s) \cap ToSet(t) = {}
                => IsInjective(s \o t)
           /\ Ascending(s) /\ Ascending(t) /\ (\A x \in ToSet(s), y \in ToSet(t) : x < y)
                => Ascending(s \o t)
           /\ s \o t = <<>> => s = <<>> /\ t = <<>>
           /\ s \o t = s => t = <<>>
<1> DEFINE c == s \o t
           m == Len(s)
           n == Len(t)
<1>1. /\ m \in Nat /\ n \in Nat /\ c \in Seq(D) /\ Len(c) = m + n
      /\ DOMAIN s = 1 .. m /\ DOMAIN t = 1 .. n /\ DOMAIN c = 1 .. (m + n)
      /\ \A i \in 1 .. (m + n) : c[i] = IF i <= m THEN s[i] ELSE t[i - m]
  OBVIOUS
<1>2. /\ s \o t = <<>> => s = <<>> /\ t = <<>>
      /\ s \o t = s => t = <<>>
  <2>1. c = <<>> => m = 0 /\ n = 0
    BY <1>1
  <2>2. c = s => n = 0
    BY <1>1
  <2> QED BY <2>1, <2>2
<1> HIDE DEF c, m, n
<1>3. \A i \in DOMAIN s : i \in DOMAIN c /\ c[i] = s[i]
  BY <1>1
<1>4. \A i \in DOMAIN t : m + i \in DOMAIN c /\ c[m + i] = t[i]
  <2> TAKE i \in DOMAIN t
  <2>1. m + i \in 1 .. (m + n) /\ ~(m + i <= m) /\ (m + i) - m = i
    BY <1>1
  <2> QED BY <1>1, <2>1
<1>5. \A i \in DOMAIN c : \/ i \in DOMAIN s /\ c[i] = s[i]
                          \/ i > m /\ i - m \in DOMAIN t /\ c[i] = t[i - m]
  <2> TAKE i \in DOMAIN c
  <2>1. CASE i <= m
    BY <2>1, <1>1
  <2>2. CASE i > m
    <3>1. i \in 1 .. (m + n) /\ ~(i <= m) /\ i - m \in 1 .. n
      BY <2>2, <1>1
    <3> QED BY <2>2, <3>1, <1>1
  <2> QED BY <2>1, <2>2, <1>1
<1>6. ToSet(c) = ToSet(s) \cup ToSet(t)
  <2>1. ToSet(s) \subseteq ToSet(c)
    BY <1>3 DEF ToSet
  <2>2. ToSet(t) \subseteq ToSet(c)
    BY <1>4 DEF ToSet
  <2>3. ASSUME NEW x \in ToSet(c) PROVE x \in ToSet(s) \cup ToSet(t)
    <3>1. PICK i \in DOMAIN c : x = c[i]
      BY DEF ToSet
    <3>2. CASE i \in DOMAIN s /\ c[i] = s[i]
      BY <3>1, <3>2 DEF ToSet
    <3>3. CASE i - m \in DOMAIN t /\ c[i] = t[i - m]
      BY <3>1, <3>3 DEF ToSet
    <3> QED BY <3>2, <3>3, <1>5
  <2> QED BY <2>1, <2>2, <2>3
<1>7. ASSUME IsInjective(s), IsInjective(t), ToSet(s) \cap ToSet(t) = {}
      PROVE  IsInjective(c)
  <2> SUFFICES ASSUME NEW i \in DOMAIN c, NEW j \in DOMAIN c, c[i] = c[j] PROVE i = j
    BY DEF IsInjective
  <2>1. \A k \in DOMAIN s : s[k] \in ToSet(s)
    BY DEF ToSet
  <2>2. \A k \in DOMAIN t : t[k] \in ToSet(t)
    BY DEF ToSet
  <2>3. CASE i \in DOMAIN s /\ j \in DOMAIN s
    BY <2>3, <1>3, <1>7 DEF IsInjective
  <2>4. CASE i \notin DOMAIN s /\ j \notin DOMAIN s
    <3>1. i - m \in DOMAIN t /\ j - m \in DOMAIN t /\ t[i - m] = t[j - m]
      BY <2>4, <1>5
    <3>2. i - m = j - m
      BY <3>1, <1>7 DEF IsInjective
    <3> QED BY <3>2, <1>1
  <2>5. CASE i \in DOMAIN s /\ j \notin DOMAIN s
    BY <2>1, <2>2, <2>5, <1>5, <1>3, <1>7
  <2>6. CASE i \notin DOMAIN s /\ j \in DOMAIN s
    BY <2>1, <2>2, <2>6, <1>5, <1>3, <1>7
  <2> QED BY <2>3, <2>4, <2>5, <2>6
<1>8. ASSUME Ascending(s), Ascending(t), \A x \in ToSet(s), y \in ToSet(t) : x < y
      PROVE  Ascending(c)
  <2> SUFFICES ASSUME NEW i \in DOMAIN c, NEW j \in DOMAIN c, i < j PROVE c[i] < c[j]
    BY DEF Ascending
  <2>1. \A k \in DOMAIN s : s[k] \in ToSet(s)
    BY DEF ToSet
  <2>2. \A k \in DOMAIN t : t[k] \in ToSet(t)
    BY DEF ToSet
  <2>3. CASE i \in DOMAIN s /\ j \in DOMAIN s
    BY <2>3, <1>3, <1>8 DEF Ascending
  <2>4. CASE i \notin DOMAIN s /\ j \notin DOMAIN s
    <3>1. /\ i - m \in DOMAIN t /\ j - m \in DOMAIN t /\ c[i] = t[i - m] /\ c[j] = t[j - m]
          /\ i - m < j - m
      BY <2>4, <1>5, <1>1
    <3> QED BY <3>1, <1>8 DEF Ascending
  <2>5. CASE i \in DOMAIN s /\ j \notin DOMAIN s
    <3>1. c[i] = s[i] /\ c[j] = t[j - m] /\ j - m \in DOMAIN t
      BY <2>5, <1>5, <1>3
    <3> QED BY <2>1, <2>2, <2>5, <3>1, <1>8
  <2>6. CASE i \notin DOMAIN s /\ j \in DOMAIN s
    BY <2>6, <1>1
  <2> QED BY <2>3, <2>4, <2>5, <2>6
<1> QED BY <1>1, <1>2, <1>6, <1>7, <1>8 DEF c

\* What is in order is there once.
LEMMA AscendingOnce ==
    ASSUME NEW D \in SUBSET Nat, NEW s \in Seq(D), Ascending(s)
    PROVE  IsInjective(s)
<1> SUFFICES ASSUME NEW i \in DOMAIN s, NEW j \in DOMAIN s, s[i] = s[j], i # j PROVE FALSE
  BY DEF IsInjective
<1>1. i \in Int /\ j \in Int /\ s[i] \in Int /\ s[j] \in Int
  <2>1. i \in 1 .. Len(s) /\ j \in 1 .. Len(s)
    OBVIOUS
  <2>2. s[i] \in D /\ s[j] \in D
    BY <2>1, ElementOfSeq
  <2>3. s[i] \in Nat /\ s[j] \in Nat
    BY <2>2
  <2>4. \A k \in 1 .. Len(s) : k \in Int
    OBVIOUS
  <2>5. i \in Int /\ j \in Int
    BY <2>1, <2>4
  <2> QED BY <2>3, <2>5
<1>2. i < j \/ j < i
  BY <1>1
<1> QED BY <1>1, <1>2 DEF Ascending

\* The ranks of the members of S in S are the numbers below its size, so that
\* InOrder lists each member once, in order.
LEMMA InOrderLists ==
    ASSUME NEW N \in Nat, NEW S \in SUBSET (1 .. N)
    PROVE  /\ InOrder(S) \in Seq(S)
           /\ ToSet(InOrder(S)) = S
           /\ Ascending(InOrder(S))
<1> DEFINE n == Cardinality(S)
           Below(x) == {y \in S : y < x}
           rank == [x \in S |-> Cardinality(Below(x)) + 1]
<1>0. IsFiniteSet(1 .. N)
  BY FS_Interval
<1>1. IsFiniteSet(S) /\ n \in Nat
  BY <1>0, FS_Subset, FS_CardinalityType
<1>2. \A x \in S : x \in Int
  OBVIOUS
<1>3. ASSUME NEW x \in S
      PROVE  /\ IsFiniteSet(Below(x))
             /\ Cardinality(Below(x)) \in Nat
             /\ Cardinality(Below(x)) < n
  <2>1. Below(x) \in SUBSET S /\ x \notin Below(x)
    BY <1>2
  <2> HIDE DEF Below
  <2>2. /\ IsFiniteSet(Below(x))
        /\ Cardinality(Below(x)) <= n
        /\ n = Cardinality(Below(x)) => S = Below(x)
    BY <1>1, <2>1, FS_Subset
  <2>3. Cardinality(Below(x)) \in Nat
    BY <2>2, FS_CardinalityType
  <2>4. n # Cardinality(Below(x))
    BY <2>1, <2>2
  <2> HIDE DEF n
  <2> QED BY <1>1, <2>2, <2>3, <2>4
<1>4. ASSUME NEW x \in S, NEW y \in S, x < y
      PROVE  Cardinality(Below(x)) < Cardinality(Below(y))
  <2>1. Below(x) \in SUBSET Below(y) /\ x \in Below(y) /\ x \notin Below(x)
    <3>1. x \in Int /\ y \in Int
      BY <1>2
    <3>2. x \in Below(y)
      BY <1>4
    <3>3. x \notin Below(x)
      BY <3>1
    <3>4. ASSUME NEW z \in Below(x) PROVE z \in Below(y)
      <4>1. z \in S /\ z < x
        OBVIOUS
      <4>2. z \in Int
        BY <4>1, <1>2
      <4>3. z < y
        BY <3>1, <4>1, <4>2, <1>4
      <4> QED BY <4>1, <4>3
    <3> QED BY <3>2, <3>3, <3>4
  <2>2. /\ IsFiniteSet(Below(y)) /\ Cardinality(Below(y)) \in Nat
        /\ Cardinality(Below(x)) \in Nat
    BY <1>3
  <2> HIDE DEF Below
  <2>3. /\ Cardinality(Below(x)) <= Cardinality(Below(y))
        /\ Cardinality(Below(y)) = Cardinality(Below(x)) => Below(y) = Below(x)
    BY <2>1, <2>2, FS_Subset
  <2>4. Cardinality(Below(y)) # Cardinality(Below(x))
    BY <2>1, <2>3
  <2> QED BY <2>2, <2>3, <2>4
<1> HIDE DEF Below, n
<1>5. rank \in [S -> 1 .. n]
  <2> SUFFICES ASSUME NEW x \in S PROVE Cardinality(Below(x)) + 1 \in 1 .. n
    OBVIOUS
  <2> QED BY <1>1, <1>3
<1>6. \A x, y \in S : rank[x] = rank[y] => x = y
  <2> SUFFICES ASSUME NEW x \in S, NEW y \in S, rank[x] = rank[y], x # y PROVE FALSE
    OBVIOUS
  <2>1. Cardinality(Below(x)) = Cardinality(Below(y))
        /\ Cardinality(Below(x)) \in Nat /\ Cardinality(Below(y)) \in Nat
    BY <1>3
  <2>2. x < y \/ y < x
    BY <1>2
  <2>3. CASE x < y
    BY <2>1, <2>3, <1>4
  <2>4. CASE y < x
    BY <2>1, <2>4, <1>4
  <2> QED BY <2>2, <2>3, <2>4
<1>7. \A i \in 1 .. n : \E x \in S : rank[x] = i
  <2> HIDE DEF rank
  <2>1. rank \in Injection(S, 1 .. n)
    BY <1>5, <1>6 DEF Injection, IsInjective
  <2>2. IsFiniteSet(1 .. n) /\ Cardinality(1 .. n) = n
    <3>1. 1 \in Int /\ n \in Int /\ (IF 1 > n THEN 0 ELSE n - 1 + 1) = n
      BY <1>1
    <3>2. IsFiniteSet(1 .. n) /\ Cardinality(1 .. n) = IF 1 > n THEN 0 ELSE n - 1 + 1
      BY <3>1, FS_Interval
    <3> QED BY <3>1, <3>2
  <2>3. rank \in Surjection(S, 1 .. n)
    BY <2>1, <2>2, FS_Injection DEF n
  <2> QED BY <2>3 DEF Surjection
<1>8. ASSUME NEW i \in 1 .. n
      PROVE  InOrder(S)[i] \in S /\ rank[InOrder(S)[i]] = i
  <2>1. InOrder(S)[i] = CHOOSE x \in S : Cardinality(Below(x)) = i - 1
    BY <1>1 DEF InOrder, n, Below
  <2>2. PICK x \in S : rank[x] = i
    BY <1>7
  <2>3. Cardinality(Below(x)) = i - 1
    BY <2>2, <1>1, <1>3
  <2>4. InOrder(S)[i] \in S /\ Cardinality(Below(InOrder(S)[i])) = i - 1
    BY <2>1, <2>3
  <2> QED BY <2>4, <1>1, <1>3
<1>9. \A x \in S : \E i \in 1 .. n : InOrder(S)[i] = x
  <2> SUFFICES ASSUME NEW x \in S PROVE InOrder(S)[rank[x]] = x
    BY <1>5
  <2>1. rank[x] \in 1 .. n
    BY <1>5
  <2> HIDE DEF rank
  <2> QED BY <2>1, <1>8, <1>6
<1>10. ASSUME NEW i \in 1 .. n, NEW j \in 1 .. n, i < j PROVE InOrder(S)[i] < InOrder(S)[j]
  <2> DEFINE x == InOrder(S)[i]
             y == InOrder(S)[j]
  <2>1. x \in S /\ y \in S /\ rank[x] = i /\ rank[y] = j
    BY <1>8
  <2> HIDE DEF x, y
  <2>2. Cardinality(Below(x)) < Cardinality(Below(y))
    <3>1. Cardinality(Below(x)) + 1 = i /\ Cardinality(Below(y)) + 1 = j
      BY <2>1
    <3>2. Cardinality(Below(x)) \in Nat /\ Cardinality(Below(y)) \in Nat
      BY <2>1, <1>3
    <3> QED BY <3>1, <3>2, <1>10
  <2> HIDE DEF rank
  <2>3. ~(y < x) /\ x # y
    <3>1. Cardinality(Below(x)) \in Nat /\ Cardinality(Below(y)) \in Nat
      BY <2>1, <1>3
    <3>2. y < x => Cardinality(Below(y)) < Cardinality(Below(x))
      BY <2>1, <1>4
    <3> QED BY <2>2, <3>1, <3>2
  <2>4. x < y
    BY <2>1, <2>3, <1>2
  <2> QED BY <2>4 DEF x, y
<1>11. DOMAIN InOrder(S) = 1 .. n /\ InOrder(S) = [k \in 1 .. n |-> InOrder(S)[k]]
  <2> DEFINE f == [k \in 1 .. n |-> CHOOSE x \in S : Cardinality({y \in S : y < x}) = k - 1]
  <2>1. InOrder(S) = f
    BY DEF InOrder, n
  <2>2. DOMAIN f = 1 .. n /\ f = [k \in 1 .. n |-> f[k]]
    OBVIOUS
  <2> QED BY <2>1, <2>2
<1> HIDE DEF rank
<1>12. InOrder(S) \in Seq(S)
  <2>1. \A k \in 1 .. n : InOrder(S)[k] \in S
    BY <1>8
  <2>2. InOrder(S) \in [1 .. n -> S]
    BY <1>11, <2>1
  <2> QED BY <2>2, <1>1
<1>13. ToSet(InOrder(S)) = S
  BY <1>8, <1>9, <1>11 DEF ToSet
<1>14. Ascending(InOrder(S))
  BY <1>10, <1>11 DEF Ascending
<1> QED BY <1>12, <1>13, <1>14

\* process_messages leaves nothing of an ordered sequence out: the end of the
\* stream is the last message there can be.
LEMMA ProcessedWhole ==
    ASSUME FramesOK, NEW m \in Seq(DOMAIN frames), Ascending(m)
    PROVE  Processed(m) = m
<1> DEFINE ends == {i \in DOMAIN m : frames[m[i]] = "end"}
<1>0. /\ Len(frames) \in Nat /\ DOMAIN frames = 1 .. Len(frames)
      /\ Len(m) \in Nat /\ DOMAIN m = 1 .. Len(m)
      /\ \A i \in DOMAIN m : m[i] \in DOMAIN frames
  BY ElementOfSeq DEF FramesOK
<1>1. CASE ends = {}
  BY <1>1 DEF Processed
<1>2. CASE ends # {}
  <2>1. ASSUME NEW i \in ends PROVE i = Len(m)
    <3>1. i \in 1 .. Len(m) /\ m[i] = Len(frames)
      BY <1>0 DEF FramesOK, Trailers
    <3> SUFFICES ASSUME i # Len(m) PROVE FALSE
      OBVIOUS
    <3>2. i < Len(m) /\ Len(m) \in DOMAIN m
      BY <3>1, <1>0
    <3>3. m[i] < m[Len(m)]
      BY <3>1, <3>2, <1>0 DEF Ascending
    <3>4. m[Len(m)] \in 1 .. Len(frames)
      BY <3>2, <1>0
    <3> QED BY <3>1, <3>3, <3>4, <1>0
  <2>2. ends = {Len(m)}
    BY <1>2, <2>1
  <2>3. Min(ends) = Len(m)
    BY <2>2, <1>0 DEF Min
  <2>4. SubSeq(m, 1, Len(m)) = m
    BY <1>0
  <2>5. Processed(m) = SubSeq(m, 1, Min(ends))
    BY <1>2 DEF Processed
  <2> QED BY <2>3, <2>4, <2>5
<1> QED BY <1>1, <1>2

-----------------------------------------------------------------------------
\* What a chunk completes.

\* A chunk completes the frames after the buffer's position up to one of them, and
\* the buffer is advanced to its end.
LEMMA CompleteFacts ==
    ASSUME TypeInv, NEW n \in Nat
    PROVE  \E b \in 0 .. Len(frames), d \in 0 .. Len(frames) :
              /\ b <= d
              /\ consumed = Ends[b]
              /\ Complete(n) = (b + 1) .. d
              /\ \A i \in 0 .. Len(frames) : Ends[i] <= received + n <=> i <= d
              /\ Max({consumed} \cup {Ends[i] : i \in Complete(n)}) = Ends[d]
<1> DEFINE T == {i \in 0 .. Len(frames) : Ends[i] <= received + n}
<1>0. /\ FramesOK /\ Len(frames) \in Nat /\ DOMAIN frames = 1 .. Len(frames)
      /\ received \in Nat /\ consumed <= received
  BY DEF TypeInv, FramesOK
<1>1. PICK b \in 0 .. Len(frames) : consumed = Ends[b]
  BY DEF TypeInv
<1>2. \A i \in 0 .. Len(frames) : Ends[i] \in Nat /\ i \in Nat
  BY <1>0, EndsNat
<1>3. b \in T
  BY <1>0, <1>1, <1>2
<1>4. T \in SUBSET (0 .. Len(frames)) /\ T # {}
  BY <1>3
<1>5. PICK d \in T : \A i \in T : i <= d
  <2> HIDE DEF T
  <2> QED BY <1>0, <1>4, GreatestExists
<1>6. d \in 0 .. Len(frames) /\ b <= d /\ Ends[d] <= received + n
  BY <1>3, <1>5
<1>7. ASSUME NEW i \in 0 .. Len(frames) PROVE Ends[i] <= received + n <=> i <= d
  <2>1. Ends[i] <= received + n => i <= d
    BY <1>5
  <2>2. i <= d => Ends[i] <= Ends[d]
    BY <1>0, <1>6, EndsOrder
  <2>3. Ends[i] \in Nat /\ Ends[d] \in Nat
    BY <1>2, <1>6
  <2> QED BY <2>1, <2>2, <2>3, <1>0, <1>6
<1> HIDE DEF T
<1>8. Complete(n) = (b + 1) .. d
  <2>1. ASSUME NEW i \in 1 .. Len(frames)
        PROVE  Ends[i - 1] >= consumed <=> b + 1 <= i
    <3>1. i - 1 \in 0 .. Len(frames) /\ i \in Nat /\ b \in Nat
      BY <1>0, <1>2
    <3>2. Ends[b] <= Ends[i - 1] <=> b <= i - 1
      BY <3>1, <1>0, EndsOrder
    <3>3. Ends[b] \in Nat /\ Ends[i - 1] \in Nat
      BY <3>1, <1>2
    <3> QED BY <3>1, <3>2, <3>3, <1>1
  <2>2. ASSUME NEW i \in 1 .. Len(frames) PROVE Ends[i] <= received + n <=> i <= d
    BY <1>7, <1>0
  <2>3. \A i \in (b + 1) .. d : i \in 1 .. Len(frames)
    BY <1>0, <1>6
  <2>4. \A i \in 1 .. Len(frames) : i \in (b + 1) .. d <=> b + 1 <= i /\ i <= d
    BY <1>0, <1>6
  <2>5. \A i : i \in Complete(n) <=> i \in (b + 1) .. d
    BY <2>1, <2>2, <2>3, <2>4, <1>0 DEF Complete
  <2> QED BY <2>5
<1>9. Max({consumed} \cup {Ends[i] : i \in Complete(n)}) = Ends[d]
  <2> DEFINE M == {consumed} \cup {Ends[i] : i \in Complete(n)}
  <2>1. Ends[d] \in M
    <3>1. CASE b = d
      BY <3>1, <1>1
    <3>2. CASE b # d
      <4>1. d \in (b + 1) .. d
        BY <3>2, <1>6, <1>2
      <4> QED BY <4>1, <1>8
    <3> QED BY <3>1, <3>2
  <2>2. ASSUME NEW x \in M PROVE x <= Ends[d] /\ x \in Nat
    <3>1. CASE x = consumed
      BY <3>1, <1>0, <1>1, <1>2, <1>6, EndsOrder
    <3>2. CASE \E i \in (b + 1) .. d : x = Ends[i]
      <4>1. PICK i \in (b + 1) .. d : x = Ends[i]
        BY <3>2
      <4>2. i \in 0 .. Len(frames) /\ i <= d
        BY <1>0, <1>2, <1>6
      <4> QED BY <4>1, <4>2, <1>0, <1>2, <1>6, EndsOrder
    <3> QED BY <3>1, <3>2, <1>8
  <2> HIDE DEF M
  <2>3. \A x \in M : x >= Ends[d] => x = Ends[d]
    <3> SUFFICES ASSUME NEW x \in M, x >= Ends[d] PROVE x = Ends[d]
      OBVIOUS
    <3>1. x \in Nat /\ Ends[d] \in Nat /\ x <= Ends[d]
      BY <2>2, <1>2, <1>6
    <3> QED BY <3>1
  <2>4. \A y \in M : Ends[d] >= y
    <3> SUFFICES ASSUME NEW y \in M PROVE Ends[d] >= y
      OBVIOUS
    <3>1. y \in Nat /\ Ends[d] \in Nat /\ y <= Ends[d]
      BY <2>2, <1>2, <1>6
    <3> QED BY <3>1
  <2>5. \A x \in M : (\A y \in M : x >= y) => x = Ends[d]
    BY <2>1, <2>3
  <2>6. Max(M) = Ends[d]
    BY <2>1, <2>4, <2>5 DEF Max
  <2> QED BY <2>6 DEF M
<1> QED BY <1>1, <1>6, <1>7, <1>8, <1>9

\* The answers the upstream sends have the trailer last.
LEMMA AnswersFramed == ASSUME frames \in Answers PROVE FramesOK
<1> DEFINE inner == UNION {[1 .. n -> Inner] : n \in 0 .. MaxFrames}
<1>1. ASSUME NEW s \in inner
      PROVE  s \in Seq(Inner) /\ \A i \in DOMAIN s : s[i] \in Inner
  <2>1. PICK n \in 0 .. MaxFrames : s \in [1 .. n -> Inner]
    OBVIOUS
  <2>2. n \in Nat
    BY FrameAssumption
  <2> QED BY <2>1, <2>2
<1>2. \A k \in Inner : k \notin Trailers
  BY DEF Inner, Trailers
<1>3. CASE frames \in inner
  <2>1. frames \in Seq(Inner) /\ \A i \in DOMAIN frames : frames[i] \in Inner
    BY <1>1, <1>3
  <2> HIDE DEF inner
  <2>2. frames \in Seq(Inner \cup Trailers)
    <3>1. Len(frames) \in Nat /\ DOMAIN frames = 1 .. Len(frames)
      BY <2>1
    <3>2. frames \in [1 .. Len(frames) -> Inner \cup Trailers]
      BY <2>1, <3>1
    <3> QED BY <3>1, <3>2
  <2> QED BY <2>1, <2>2, <1>2 DEF FramesOK
<1>4. CASE \E s \in inner, k \in Trailers : frames = Append(s, k)
  <2>1. PICK s \in inner, k \in Trailers : frames = Append(s, k)
    BY <1>4
  <2>2. s \in Seq(Inner) /\ \A i \in DOMAIN s : s[i] \in Inner
    BY <1>1
  <2> HIDE DEF inner
  <2>3. /\ Len(s) \in Nat /\ DOMAIN s = 1 .. Len(s)
        /\ Len(frames) = Len(s) + 1 /\ DOMAIN frames = 1 .. (Len(s) + 1)
        /\ \A i \in 1 .. (Len(s) + 1) : frames[i] = IF i <= Len(s) THEN s[i] ELSE k
    BY <2>1, <2>2
  <2>4. ASSUME NEW i \in 1 .. (Len(s) + 1)
        PROVE  IF i = Len(s) + 1 THEN frames[i] = k ELSE frames[i] \in Inner
    <3>1. CASE i = Len(s) + 1
      <4>1. ~(i <= Len(s))
        BY <3>1, <2>3
      <4> QED BY <3>1, <4>1, <2>3
    <3>2. CASE i # Len(s) + 1
      <4>1. i <= Len(s) /\ i \in DOMAIN s
        BY <3>2, <2>3
      <4> QED BY <3>2, <4>1, <2>2, <2>3
    <3> QED BY <3>1, <3>2
  <2>5. frames \in Seq(Inner \cup Trailers)
    <3>1. \A i \in 1 .. (Len(s) + 1) : frames[i] \in Inner \cup Trailers
      BY <2>4
    <3>2. s \in Seq(Inner \cup Trailers)
      <4>1. s \in [1 .. Len(s) -> Inner \cup Trailers]
        BY <2>2, <2>3
      <4> QED BY <4>1, <2>3
    <3> QED BY <2>1, <3>2
  <2>6. \A i \in DOMAIN frames : frames[i] \in Trailers => i = Len(frames)
    BY <2>3, <2>4, <1>2
  <2> QED BY <2>5, <2>6 DEF FramesOK
<1> QED BY <1>3, <1>4 DEF Answers

\* The frames do not change, and so neither does where they end.
LEMMA EndsKept == ASSUME frames' = frames PROVE Ends' = Ends /\ Total' = Total
  BY DEF Ends, Total

\* A chunk is a number of bytes that were not received yet.
LEMMA ChunkFacts ==
    ASSUME TypeInv, NEW n, Chunk(n)
    PROVE  n \in Nat /\ received + n <= Total /\ Total \in Nat
<1>1. received \in Nat /\ Len(frames) \in Nat /\ FramesOK
  BY DEF TypeInv, FramesOK
<1>2. Total \in Nat
  <2>1. Len(frames) \in 0 .. Len(frames)
    BY <1>1
  <2> QED BY <2>1, <1>1, EndsNat DEF Total
<1> QED BY <1>1, <1>2 DEF Chunk

\* What a successful decode reads: new messages, in order and after those read
\* before; the buffer is advanced to the end of a frame.
LEMMA DecodeFacts ==
    ASSUME TypeInv, NEW n, Chunk(n), decode_ok(n), frames' = frames
    PROVE  /\ Decoded(n) \in Seq(DOMAIN frames)
           /\ Ascending(Decoded(n))
           /\ Read' = Read \cup ToSet(Decoded(n))
           /\ \A x \in Read, y \in ToSet(Decoded(n)) : x < y
           /\ received < Total
           /\ received' \in Nat /\ received' <= Total /\ consumed' <= received'
           /\ \E b \in 0 .. Len(frames) : consumed' = Ends[b]
           /\ consumed' = received' <=> Takes(n)
<1>0. /\ FramesOK /\ Len(frames) \in Nat /\ DOMAIN frames = 1 .. Len(frames)
      /\ received \in Nat
  BY DEF TypeInv, FramesOK
<1>1. n \in Nat /\ received + n <= Total /\ Total \in Nat /\ n # 0 /\ received' = received + n
  BY ChunkFacts DEF decode_ok, Short
<1>2. PICK b \in 0 .. Len(frames), d \in 0 .. Len(frames) :
              /\ b <= d
              /\ consumed = Ends[b]
              /\ Complete(n) = (b + 1) .. d
              /\ \A i \in 0 .. Len(frames) : Ends[i] <= received + n <=> i <= d
              /\ Max({consumed} \cup {Ends[i] : i \in Complete(n)}) = Ends[d]
  BY <1>1, CompleteFacts
<1> DEFINE S == {i \in Complete(n) : HasMessage(frames[i])}
<1>3. S \in SUBSET (1 .. Len(frames))
  BY <1>0, <1>2
<1>4. Decoded(n) = InOrder(S)
  BY DEF Decoded
<1>5. Decoded(n) \in Seq(S) /\ ToSet(Decoded(n)) = S /\ Ascending(Decoded(n))
  <2> HIDE DEF S
  <2> QED BY <1>0, <1>3, <1>4, InOrderLists
<1>6. Decoded(n) \in Seq(DOMAIN frames)
  <2> HIDE DEF S
  <2>0. Len(Decoded(n)) \in Nat /\ Decoded(n) \in [1 .. Len(Decoded(n)) -> S]
    BY <1>5
  <2>1. Len(Decoded(n)) \in Nat /\ Decoded(n) \in [1 .. Len(Decoded(n)) -> DOMAIN frames]
    BY <1>0, <1>3, <2>0
  <2> QED BY <2>1
<1>7. consumed' = Ends[d]
  BY <1>2 DEF decode_ok
<1>8. Ends' = Ends /\ Total' = Total
  BY EndsKept
<1>9. \A i \in 1 .. Len(frames) : Ends[i] <= consumed <=> i <= b
  <2> SUFFICES ASSUME NEW i \in 1 .. Len(frames) PROVE Ends[i] <= Ends[b] <=> i <= b
    BY <1>2
  <2>1. i \in 0 .. Len(frames)
    BY <1>0
  <2> QED BY <2>1, <1>0, EndsOrder
<1>10. \A i \in 1 .. Len(frames) : Ends[i] <= consumed' <=> i <= d
  <2> SUFFICES ASSUME NEW i \in 1 .. Len(frames) PROVE Ends[i] <= Ends[d] <=> i <= d
    BY <1>7
  <2>1. i \in 0 .. Len(frames)
    BY <1>0
  <2> QED BY <2>1, <1>0, EndsOrder
<1>11. Read = {i \in 1 .. Len(frames) : HasMessage(frames[i]) /\ i <= b}
  BY <1>0, <1>9 DEF Read
<1>12. Read' = {i \in 1 .. Len(frames) : HasMessage(frames[i]) /\ i <= d}
  <2>1. Read' = {i \in DOMAIN frames : HasMessage(frames[i]) /\ Ends[i] <= consumed'}
    BY <1>8 DEF Read, HasMessage
  <2> QED BY <2>1, <1>0, <1>10
<1>13. S = {i \in 1 .. Len(frames) : HasMessage(frames[i]) /\ b < i /\ i <= d}
  <2>1. \A i \in 1 .. Len(frames) : i \in (b + 1) .. d <=> b < i /\ i <= d
    BY <1>0
  <2>2. \A i \in (b + 1) .. d : i \in 1 .. Len(frames)
    BY <1>0
  <2> QED BY <1>2, <2>1, <2>2
<1> HIDE DEF S
<1>14. Read' = Read \cup S
  <2>1. \A i \in 1 .. Len(frames) : i <= d <=> i <= b \/ (b < i /\ i <= d)
    BY <1>0, <1>2
  <2> HIDE DEF HasMessage
  <2> QED BY <1>11, <1>12, <1>13, <2>1
<1>15. \A x \in Read, y \in S : x < y
  <2> SUFFICES ASSUME NEW x \in Read, NEW y \in S PROVE x < y
    OBVIOUS
  <2>1. x \in 1 .. Len(frames) /\ x <= b /\ y \in 1 .. Len(frames) /\ b < y
    BY <1>11, <1>13
  <2> QED BY <2>1, <1>0
<1>16. Ends[d] \in Nat /\ Ends[d] <= received + n
  <2>1. d <= d
    BY <1>0
  <2> QED BY <2>1, <1>0, <1>2, EndsNat
<1>17. received < Total /\ received' \in Nat /\ received' <= Total /\ consumed' <= received'
  BY <1>0, <1>1, <1>7, <1>16
<1>18. consumed' = received' <=> Takes(n)
  BY <1>1, <1>2, <1>7 DEF Takes
<1> QED BY <1>5, <1>6, <1>7, <1>14, <1>15, <1>17, <1>18

\* While bytes are still to come nothing was answered that was not read.
LEMMA OutIsRead ==
    ASSUME OnceInv, received < Total, received \in Nat
    PROVE  ToSet(out) \subseteq Read
<1>1. received # Total
  OBVIOUS
<1> QED BY <1>1 DEF OnceInv

\* What is kept back is a sequence of messages, and nothing exactly when there is
\* no first result.
LEMMA HeldFacts ==
    ASSUME TypeInv
    PROVE  /\ DOMAIN frames \in SUBSET Nat
           /\ Seq(DOMAIN frames) \subseteq Seq(Nat)
           /\ Held \in Seq(DOMAIN frames)
           /\ Held = <<>> <=> first_result = None
           /\ ToSet(<<>>) = {}
           /\ <<>> \in Seq(DOMAIN frames)
<1>1. Len(frames) \in Nat /\ DOMAIN frames = 1 .. Len(frames)
  BY DEF TypeInv, FramesOK
<1>2. DOMAIN frames \in SUBSET Nat
  BY <1>1
<1>3. Seq(DOMAIN frames) \subseteq Seq(Nat)
  <2> SUFFICES ASSUME NEW s \in Seq(DOMAIN frames) PROVE s \in Seq(Nat)
    OBVIOUS
  <2>1. Len(s) \in Nat /\ s \in [1 .. Len(s) -> Nat]
    BY <1>2
  <2> QED BY <2>1
<1>4. Held \in Seq(DOMAIN frames) /\ (Held = <<>> <=> first_result = None)
  <2>1. CASE first_result = None
    BY <2>1 DEF Held
  <2>2. CASE first_result # None
    <3>1. first_result \in Seq(DOMAIN frames) /\ first_result # <<>>
      BY <2>2 DEF TypeInv
    <3> QED BY <2>2, <3>1 DEF Held
  <2> QED BY <2>1, <2>2
<1>5. ToSet(<<>>) = {} /\ <<>> \in Seq(DOMAIN frames)
  BY DEF ToSet
<1> QED BY <1>2, <1>3, <1>4, <1>5

\* A message of a sequence is one of its domain of messages.
LEMMA SeqElems ==
    ASSUME NEW D, NEW s \in Seq(D), NEW x \in ToSet(s)
    PROVE  x \in D
<1>1. PICK i \in DOMAIN s : x = s[i]
  BY DEF ToSet
<1> QED BY <1>1

-----------------------------------------------------------------------------
\* The steps.

\* A step that answers nothing and does not advance the buffer.
LEMMA QuietStep ==
    ASSUME IInv, NEW n \in Nat, received + n <= Total, received' = received + n,
           UNCHANGED <<frames, consumed, first_result, out, answered, late>>
    PROVE  TypeInv' /\ OnceInv' /\ OrderInv' /\ SentInv'
<1>0. /\ frames' = frames /\ consumed' = consumed /\ first_result' = first_result
      /\ out' = out /\ answered' = answered /\ late' = late
      /\ Ends' = Ends /\ Total' = Total
  BY EndsKept
<1>1. Held' = Held
  BY <1>0 DEF Held
<1>2. Read' = Read
  BY <1>0 DEF Read, HasMessage
<1>3. /\ received \in Nat /\ consumed <= received /\ consumed \in Nat /\ Total \in Nat
      /\ FramesOK
  <2>1. FramesOK /\ received \in Nat /\ consumed <= received /\ Len(frames) \in Nat
    BY DEF IInv, TypeInv, FramesOK
  <2>2. consumed \in Nat /\ Total \in Nat
    BY <2>1, EndsNat DEF IInv, TypeInv, Total
  <2> QED BY <2>1, <2>2
<1>4. FramesOK'
  BY <1>0, <1>3 DEF FramesOK
<1>5. TypeInv'
  <2>1. received' \in Nat /\ received' <= Total' /\ consumed' <= received'
    BY <1>0, <1>3
  <2>2. \E b \in 0 .. Len(frames') : consumed' = Ends'[b]
    BY <1>0 DEF IInv, TypeInv
  <2>3. /\ first_result' = None
           \/ (first_result' \in Seq(DOMAIN frames') /\ first_result' # <<>>)
        /\ out' \in Seq(DOMAIN frames')
    BY <1>0 DEF IInv, TypeInv
  <2> QED BY <2>1, <2>2, <2>3, <1>4 DEF TypeInv
<1>6. OnceInv'
  <2>1. received = Total => received' = Total'
    BY <1>0, <1>3
  <2>2. \A i \in ToSet(out) : i \in Read \/ (frames[i] = "error" /\ received = Total /\ consumed < Total)
    BY DEF IInv, OnceInv
  <2>3. \A i \in ToSet(out') :
           i \in Read' \/ (frames'[i] = "error" /\ received' = Total' /\ consumed' < Total')
    BY <2>1, <2>2, <1>0, <1>2
  <2>4. /\ IsInjective(out') /\ ToSet(Held') \cap ToSet(out') = {}
        /\ Read' \subseteq ToSet(Held') \cup ToSet(out')
        /\ ToSet(Held') \subseteq Read'
    BY <1>0, <1>1, <1>2 DEF IInv, OnceInv
  <2> QED BY <2>3, <2>4 DEF OnceInv
<1>7. OrderInv'
  BY <1>0, <1>1 DEF IInv, OrderInv
<1>8. SentInv'
  <2>1. consumed' = received' => consumed = received
    BY <1>0, <1>3
  <2> QED BY <2>1, <1>0 DEF IInv, SentInv
<1> QED BY <1>5, <1>6, <1>7, <1>8

\* When the first result is ready, decode returns what it decoded.
LEMMA ReadyReturns ==
    ASSUME PhaseInv, phase \in {"stream", "collect"}, NEW m
    PROVE  Cache(m) = first_result /\ Returned(m) = m
<1>1. first_result_ready /\ (first_result = None => first_result_taken)
  BY DEF PhaseInv
<1>2. Cache(m) = first_result
  BY <1>1 DEF Cache
<1> QED BY <1>2 DEF Returned

\* The types of the data after a decode, from those of what it decoded.
LEMMA DecodeTypes ==
    ASSUME TypeInv, NEW n, Chunk(n), decode_ok(n), frames' = frames,
           first_result' = None \/ (first_result' \in Seq(DOMAIN frames) /\ first_result' # <<>>),
           out' \in Seq(DOMAIN frames)
    PROVE  TypeInv'
<1>1. Ends' = Ends /\ Total' = Total
  BY EndsKept
<1>2. FramesOK'
  BY DEF TypeInv, FramesOK
<1>3. received' \in Nat /\ received' <= Total' /\ consumed' <= received'
  BY <1>1, DecodeFacts
<1>4. \E b \in 0 .. Len(frames') : consumed' = Ends'[b]
  BY <1>1, DecodeFacts
<1> QED BY <1>2, <1>3, <1>4 DEF TypeInv

\* The first result grows.
LEMMA PrimeStep ==
    ASSUME IInv, NEW n, prime_ok(n)
    PROVE  IInv'
<1> DEFINE M == Decoded(n)
<1>0. /\ TypeInv /\ FlagInv /\ PhaseInv /\ OnceInv /\ OrderInv
      /\ phase = "first" /\ Chunk(n) /\ decode_ok(n) /\ first_result' = Cache(M)
      /\ frames' = frames /\ first_result_taken' = first_result_taken /\ over' = over
      /\ drop_stream' = drop_stream /\ out' = out /\ answered' = answered /\ late' = late
      /\ phase' = IF first_result_ready' THEN "stream" ELSE "first"
  BY DEF IInv, prime_ok
<1>1. /\ M \in Seq(DOMAIN frames) /\ Ascending(M) /\ Read' = Read \cup ToSet(M)
      /\ \A x \in Read, y \in ToSet(M) : x < y
      /\ received < Total
  BY <1>0, DecodeFacts
<1>2. /\ DOMAIN frames \in SUBSET Nat /\ Seq(DOMAIN frames) \subseteq Seq(Nat)
      /\ Held \in Seq(DOMAIN frames) /\ (Held = <<>> <=> first_result = None)
      /\ ToSet(<<>>) = {}
  BY <1>0, HeldFacts
<1>3. ~first_result_ready /\ ~first_result_taken /\ out = <<>> /\ ~answered
  BY <1>0 DEF PhaseInv
<1> HIDE DEF M
<1>4. M # None /\ Held # None
  BY <1>1, <1>2, NoneAssumption
<1>5. /\ Held \o M \in Seq(DOMAIN frames)
      /\ ToSet(Held \o M) = ToSet(Held) \cup ToSet(M)
      /\ Ascending(Held) /\ Ascending(M) /\ (\A x \in ToSet(Held), y \in ToSet(M) : x < y)
           => Ascending(Held \o M)
      /\ (Held \o M = <<>> => Held = <<>> /\ M = <<>>)
  BY <1>1, <1>2, ConcatFacts
<1>6. Held \o M # None
  BY <1>2, <1>5, NoneAssumption
<1>7. first_result' = IF Held \o M = <<>> THEN None ELSE Held \o M
  <2>1. CASE M = <<>>
    <3>1. first_result' = first_result
      BY <2>1, <1>0 DEF Cache
    <3>2. Held \o M = Held
      BY <2>1, <1>2
    <3>3. first_result # None => Held = first_result
      BY DEF Held
    <3> QED BY <3>1, <3>2, <3>3, <1>2
  <2>2. CASE M # <<>> /\ first_result = None
    <3>1. first_result' = M
      BY <2>2, <1>0, <1>3 DEF Cache
    <3>2. Held \o M = M
      BY <2>2, <1>1, <1>2
    <3> QED BY <3>1, <3>2, <2>2
  <2>3. CASE M # <<>> /\ first_result # None
    <3>1. first_result' = first_result \o M
      BY <2>3, <1>0, <1>3 DEF Cache
    <3>2. Held = first_result
      BY <2>3 DEF Held
    <3> QED BY <3>1, <3>2, <2>3, <1>5
  <2> QED BY <2>1, <2>2, <2>3
<1>8. Held' = Held \o M
  BY <1>6, <1>7 DEF Held
<1>9. TypeInv'
  <2>1. first_result' = None \/ (first_result' \in Seq(DOMAIN frames) /\ first_result' # <<>>)
    BY <1>5, <1>7
  <2>2. out' \in Seq(DOMAIN frames)
    BY <1>0 DEF TypeInv
  <2> QED BY <2>1, <2>2, <1>0, DecodeTypes
<1>10. first_result_ready' \in BOOLEAN /\ has_seen_content' \in BOOLEAN
  BY <1>0 DEF decode_ok, SeesContent, FlagInv
<1>11. FlagInv'
  <2>1. phase' \in {"first", "stream", "collect", "hung", "refused", "done"}
    BY <1>0
  <2> QED BY <2>1, <1>0, <1>10 DEF FlagInv, Answers
<1>12. PhaseInv'
  <2>1. first_result_ready' => first_result' # None
    BY <1>0, <1>3 DEF decode_ok, M
  <2>2. phase' = "first" => ~first_result_ready'
    BY <1>0
  <2>3. phase' = "stream" => first_result_ready'
    BY <1>0
  <2>4. phase' # "collect"
    BY <1>0
  <2> QED BY <2>1, <2>2, <2>3, <2>4, <1>0, <1>3 DEF PhaseInv
<1>13. OnceInv'
  <2>1. ToSet(Held') = ToSet(Held) \cup ToSet(M) /\ ToSet(out') = {}
    BY <1>0, <1>2, <1>3, <1>5, <1>8
  <2>2. IsInjective(out')
    BY <1>0 DEF OnceInv
  <2>3. ToSet(Held) \subseteq Read /\ Read \subseteq ToSet(Held)
    BY <1>0, <1>2, <1>3 DEF OnceInv
  <2> QED BY <2>1, <2>2, <2>3, <1>1 DEF OnceInv
<1>14. OrderInv'
  <2>1. ToSet(Held) \subseteq Read /\ Ascending(Held)
    BY <1>0 DEF OnceInv, OrderInv
  <2>2. Ascending(Held')
    BY <2>1, <1>1, <1>5, <1>8
  <2>3. ~late' => Ascending(out') /\ out' = <<>>
    BY <1>0, <1>3 DEF OrderInv
  <2> QED BY <2>2, <2>3 DEF OrderInv
<1>15. SentInv'
  BY <1>0, <1>3 DEF SentInv
<1> QED BY <1>9, <1>11, <1>12, <1>13, <1>14, <1>15 DEF IInv

\* A request without streaming answers what was decoded.
LEMMA CollectStep ==
    ASSUME IInv, NEW n, collect(n)
    PROVE  IInv'
<1> DEFINE M == Decoded(n)
<1>0. /\ TypeInv /\ FlagInv /\ PhaseInv /\ OnceInv /\ OrderInv
      /\ phase = "collect" /\ Chunk(n) /\ decode_ok(n) /\ first_result' = Cache(M)
      /\ out' = out \o Returned(M)
      /\ frames' = frames /\ first_result_taken' = first_result_taken /\ over' = over
      /\ drop_stream' = drop_stream /\ answered' = answered /\ late' = late
      /\ phase' = phase
  BY DEF IInv, collect
<1>1. /\ M \in Seq(DOMAIN frames) /\ Ascending(M) /\ Read' = Read \cup ToSet(M)
      /\ \A x \in Read, y \in ToSet(M) : x < y
      /\ received < Total
  BY <1>0, DecodeFacts
<1>2. /\ DOMAIN frames \in SUBSET Nat /\ ToSet(<<>>) = {}
      /\ (Held = <<>> <=> first_result = None)
  BY <1>0, HeldFacts
<1>3. first_result_ready /\ first_result_taken /\ first_result = None
  BY <1>0 DEF PhaseInv
<1> HIDE DEF M
<1>4. first_result' = None /\ out' = out \o M
  <2>1. phase \in {"stream", "collect"}
    BY <1>0
  <2> QED BY <2>1, <1>0, <1>3, ReadyReturns
<1>5. Held = <<>> /\ Held' = <<>>
  BY <1>3, <1>4 DEF Held
<1>6. ToSet(out) \subseteq Read /\ Read \subseteq ToSet(out) /\ IsInjective(out)
  <2>1. received \in Nat
    BY <1>0 DEF TypeInv
  <2> QED BY <2>1, <1>0, <1>1, <1>2, <1>5, OutIsRead DEF OnceInv
<1>7. out \in Seq(DOMAIN frames) /\ IsInjective(M)
  BY <1>0, <1>1, <1>2, AscendingOnce DEF TypeInv
<1>8. ToSet(out) \cap ToSet(M) = {}
  <2>1. \A x \in ToSet(M) : x \notin ToSet(out)
    <3> SUFFICES ASSUME NEW x \in ToSet(M), x \in ToSet(out) PROVE FALSE
      OBVIOUS
    <3>1. x < x
      BY <1>1, <1>6
    <3>2. x \in Nat
      BY <1>1, <1>2, SeqElems
    <3> QED BY <3>1, <3>2
  <2> QED BY <2>1
<1>9. /\ out' \in Seq(DOMAIN frames) /\ ToSet(out') = ToSet(out) \cup ToSet(M)
      /\ IsInjective(out')
      /\ Ascending(out) => Ascending(out')
  BY <1>1, <1>2, <1>4, <1>6, <1>7, <1>8, ConcatFacts
<1>10. TypeInv'
  BY <1>0, <1>4, <1>9, DecodeTypes
<1>11. first_result_ready' = TRUE /\ has_seen_content' \in BOOLEAN
  BY <1>0, <1>3 DEF decode_ok, SeesContent, FlagInv
<1>12. FlagInv'
  BY <1>0, <1>11 DEF FlagInv, Answers
<1>13. PhaseInv'
  BY <1>0, <1>3, <1>4, <1>11 DEF PhaseInv
<1>14. OnceInv'
  BY <1>1, <1>2, <1>5, <1>6, <1>9 DEF OnceInv
<1>15. OrderInv'
  <2>1. Ascending(Held')
    BY <1>5 DEF Ascending
  <2> QED BY <2>1, <1>0, <1>4, <1>9 DEF OrderInv
<1>16. SentInv'
  BY <1>4 DEF SentInv
<1> QED BY <1>10, <1>12, <1>13, <1>14, <1>15, <1>16 DEF IInv

\* A step of the response stream answers what was decoded, behind the first
\* result when that is taken with it.
LEMMA AnswerStep ==
    ASSUME IInv, NEW n, answer(n)
    PROVE  IInv'
<1> DEFINE M == Decoded(n)
           first == TakeFirst(n)
           H == IF Takes(n) THEN Held ELSE <<>>
<1>0. /\ TypeInv /\ FlagInv /\ PhaseInv /\ OnceInv /\ OrderInv
      /\ phase = "stream" /\ Chunk(n) /\ decode_ok(n) /\ first_result' = Left(n)
      /\ first_result_taken' = (first_result_taken \/ first # <<>>)
      /\ out' = out \o Response(first, Returned(M))
      /\ drop_stream' = (Ending(first) \/ Ending(Returned(M)))
      /\ answered' = TRUE
      /\ late' = (late \/ first_result' # None)
      /\ frames' = frames /\ phase' = phase /\ over' = over
  BY DEF IInv, answer
<1>1. /\ M \in Seq(DOMAIN frames) /\ Ascending(M) /\ Read' = Read \cup ToSet(M)
      /\ \A x \in Read, y \in ToSet(M) : x < y
      /\ received < Total
      /\ consumed' = received' <=> Takes(n)
  BY <1>0, DecodeFacts
<1>2. /\ DOMAIN frames \in SUBSET Nat /\ ToSet(<<>>) = {} /\ <<>> \in Seq(DOMAIN frames)
      /\ Held \in Seq(DOMAIN frames) /\ (Held = <<>> <=> first_result = None)
  BY <1>0, HeldFacts
<1>3. first_result_ready /\ (first_result = None <=> first_result_taken)
  BY <1>0 DEF PhaseInv, FlagInv
<1> HIDE DEF M
<1>4. Cache(M) = first_result /\ Returned(M) = M
  <2>1. phase \in {"stream", "collect"}
    BY <1>0
  <2> QED BY <2>1, <1>0, ReadyReturns
<1>5. first = H
  BY <1>4 DEF TakeFirst, Held, M
<1>6. first_result' = IF Takes(n) THEN None ELSE first_result
  BY <1>0, <1>4 DEF Left, M
<1> HIDE DEF first
<1>7. Held' = IF Takes(n) THEN <<>> ELSE Held
  BY <1>6 DEF Held
<1>8. Ascending(<<>>) /\ Ascending(Held) /\ IsInjective(<<>>)
  BY <1>0 DEF Ascending, OrderInv, IsInjective
<1>9. H \in Seq(DOMAIN frames) /\ Ascending(H) /\ IsInjective(H) /\ IsInjective(M)
  <2>1. H \in Seq(DOMAIN frames) /\ Ascending(H)
    BY <1>2, <1>8
  <2> HIDE DEF H
  <2> QED BY <2>1, <1>1, <1>2, AscendingOnce
<1>10. ToSet(H) \subseteq ToSet(Held) /\ ToSet(Held) = ToSet(H) \cup ToSet(Held')
  BY <1>2, <1>7
<1>11. first_result' = None /\ first_result # None => Takes(n)
  BY <1>6
<1>12. H # <<>> <=> Takes(n) /\ first_result # None
  BY <1>2
<1>13. first_result = None => H = <<>>
  BY <1>2
<1>14. /\ Takes(n) => ToSet(Held') = {}
       /\ Takes(n) => H = Held
       /\ ~Takes(n) => ToSet(H) = {} /\ Held' = Held
  BY <1>2, <1>7
<1> HIDE DEF H
<1>15. out' = out \o (H \o M)
  <2>1. FramesOK
    BY <1>0 DEF TypeInv
  <2>2. Processed(H) = H /\ Processed(M) = M
    BY <2>1, <1>1, <1>9, ProcessedWhole
  <2> QED BY <2>2, <1>0, <1>4, <1>5 DEF Response
<1>16. ToSet(out) \subseteq Read /\ ToSet(Held) \subseteq Read
  <2>1. received \in Nat
    BY <1>0 DEF TypeInv
  <2> QED BY <2>1, <1>0, <1>1, OutIsRead DEF OnceInv
<1>17. \A x \in ToSet(M) : x \notin Read
  <2> SUFFICES ASSUME NEW x \in ToSet(M), x \in Read PROVE FALSE
    OBVIOUS
  <2>1. x < x /\ x \in Nat
    BY <1>1, <1>2, SeqElems
  <2> QED BY <2>1
<1>18. /\ H \o M \in Seq(DOMAIN frames) /\ ToSet(H \o M) = ToSet(H) \cup ToSet(M)
       /\ IsInjective(H \o M) /\ Ascending(H \o M)
  <2>1. ToSet(H) \cap ToSet(M) = {}
    BY <1>10, <1>16, <1>17
  <2>2. \A x \in ToSet(H), y \in ToSet(M) : x < y
    BY <1>1, <1>10, <1>16
  <2>3. /\ H \o M \in Seq(DOMAIN frames)
        /\ ToSet(H \o M) = ToSet(H) \cup ToSet(M)
        /\ IsInjective(H) /\ IsInjective(M) /\ ToSet(H) \cap ToSet(M) = {}
             => IsInjective(H \o M)
        /\ Ascending(H) /\ Ascending(M) /\ (\A x \in ToSet(H), y \in ToSet(M) : x < y)
             => Ascending(H \o M)
    <3>1. DOMAIN frames \in SUBSET Nat /\ H \in Seq(DOMAIN frames) /\ M \in Seq(DOMAIN frames)
      BY <1>1, <1>2, <1>9
    <3> QED BY <3>1, ConcatFacts
  <2> QED BY <2>1, <2>2, <2>3, <1>1, <1>9
<1>19. /\ out \in Seq(DOMAIN frames) /\ IsInjective(out)
       /\ ToSet(Held) \cap ToSet(out) = {}
       /\ Read \subseteq ToSet(Held) \cup ToSet(out)
  BY <1>0 DEF TypeInv, OnceInv
<1>20. /\ out' \in Seq(DOMAIN frames)
       /\ ToSet(out') = ToSet(out) \cup (ToSet(H) \cup ToSet(M))
       /\ IsInjective(out')
  <2>1. ToSet(out) \cap ToSet(H \o M) = {}
    BY <1>10, <1>16, <1>17, <1>18, <1>19
  <2> DEFINE c == H \o M
  <2>2. c \in Seq(DOMAIN frames) /\ IsInjective(c) /\ ToSet(out) \cap ToSet(c) = {}
        /\ ToSet(c) = ToSet(H) \cup ToSet(M) /\ out' = out \o c
    BY <2>1, <1>15, <1>18
  <2> HIDE DEF c
  <2>3. /\ out \o c \in Seq(DOMAIN frames)
        /\ ToSet(out \o c) = ToSet(out) \cup ToSet(c)
        /\ IsInjective(out) /\ IsInjective(c) /\ ToSet(out) \cap ToSet(c) = {}
             => IsInjective(out \o c)
        /\ Ascending(out) /\ Ascending(c) /\ (\A x \in ToSet(out), y \in ToSet(c) : x < y)
             => Ascending(out \o c)
    <3>1. DOMAIN frames \in SUBSET Nat /\ out \in Seq(DOMAIN frames) /\ c \in Seq(DOMAIN frames)
      BY <2>2, <1>2, <1>19
    <3> QED BY <3>1, ConcatFacts
  <2> QED BY <2>2, <2>3, <1>19
<1>21. TypeInv'
  <2>1. first_result' = None \/ (first_result' \in Seq(DOMAIN frames) /\ first_result' # <<>>)
    BY <1>0, <1>6 DEF TypeInv
  <2> QED BY <2>1, <1>0, <1>20, DecodeTypes
<1>22. /\ first_result_ready' = TRUE /\ has_seen_content' \in BOOLEAN
       /\ first_result_taken' \in BOOLEAN /\ drop_stream' \in BOOLEAN /\ late' \in BOOLEAN
  <2>1. first_result_ready' = TRUE /\ has_seen_content' \in BOOLEAN
    BY <1>0, <1>3 DEF decode_ok, SeesContent, FlagInv
  <2>2. first_result_taken' \in BOOLEAN /\ drop_stream' \in BOOLEAN /\ late' \in BOOLEAN
    BY <1>0 DEF Ending, FlagInv
  <2> QED BY <2>1, <2>2
<1>23. FlagInv'
  <2>1. frames' \in Answers'
    BY <1>0 DEF FlagInv, Answers
  <2>2. /\ over' \in BOOLEAN /\ answered' \in BOOLEAN /\ first_result_ready' \in BOOLEAN
        /\ phase' \in {"first", "stream", "collect", "hung", "refused", "done"}
    BY <1>0, <1>22 DEF FlagInv
  <2> QED BY <2>1, <2>2, <1>22 DEF FlagInv
<1>24. PhaseInv'
  <2>1. first_result_taken' => first_result' = None
    BY <1>0, <1>3, <1>5, <1>6, <1>12
  <2>2. first_result' = None => first_result_taken'
    BY <1>0, <1>3, <1>5, <1>11, <1>12
  <2>3. phase' = "stream"
    BY <1>0
  <2> QED BY <2>1, <2>2, <2>3, <1>22 DEF PhaseInv
<1>25. OnceInv'
  <2>1. ToSet(Held') \cap ToSet(out') = {}
    <3>1. CASE Takes(n)
      BY <3>1, <1>14
    <3>2. CASE ~Takes(n)
      <4>1. Held' = Held /\ ToSet(out') = ToSet(out) \cup ToSet(M)
        BY <3>2, <1>14, <1>20
      <4> QED BY <4>1, <1>16, <1>17, <1>19
    <3> QED BY <3>1, <3>2
  <2>2. Read' \subseteq ToSet(Held') \cup ToSet(out')
    BY <1>1, <1>10, <1>19, <1>20
  <2>3. ToSet(Held') \subseteq Read'
    BY <1>1, <1>10, <1>16
  <2>4. ToSet(out') \subseteq Read'
    BY <1>1, <1>10, <1>16, <1>20
  <2> QED BY <2>1, <2>2, <2>3, <2>4, <1>20 DEF OnceInv
<1>26. OrderInv'
  <2>1. Ascending(Held')
    BY <1>7, <1>8
  <2>2. ASSUME ~late' PROVE Ascending(out') /\ first_result' = None
    <3>1. ~late /\ first_result' = None
      BY <2>2, <1>0
    <3>2. Ascending(out) /\ (first_result = None \/ out = <<>>)
      BY <3>1, <1>0 DEF OrderInv
    <3>3. CASE out = <<>>
      <4>1. out' = H \o M
        BY <3>3, <1>15, <1>18
      <4> QED BY <4>1, <3>1, <1>18
    <3>4. CASE first_result = None
      <4>1. H \o M = M
        BY <3>4, <1>1, <1>13
      <4>2. out' = out \o M /\ \A x \in ToSet(out), y \in ToSet(M) : x < y
        BY <4>1, <1>1, <1>15, <1>16
      <4> QED BY <4>2, <3>1, <3>2, <1>1, <1>2, <1>19, ConcatFacts
    <3> QED BY <3>2, <3>3, <3>4
  <2> QED BY <2>1, <2>2 DEF OrderInv
<1>27. SentInv'
  BY <1>1, <1>6 DEF SentInv
<1> QED BY <1>21, <1>23, <1>24, <1>25, <1>26, <1>27 DEF IInv

\* An error in the chunk is the last frame, and the chunk the last one.
LEMMA ErrorFacts ==
    ASSUME TypeInv, NEW n, Chunk(n), decode_error(n)
    PROVE  /\ Len(frames) \in DOMAIN frames /\ frames[Len(frames)] = "error"
           /\ {i \in Complete(n) : frames[i] = "error"} = {Len(frames)}
           /\ received < Total /\ received + n = Total /\ consumed < Total
<1>0. /\ FramesOK /\ Len(frames) \in Nat /\ DOMAIN frames = 1 .. Len(frames)
      /\ received \in Nat
  BY DEF TypeInv, FramesOK
<1>1. n \in Nat /\ received + n <= Total /\ Total \in Nat /\ n # 0
  BY ChunkFacts DEF decode_error, Short
<1>2. PICK e \in Complete(n) : frames[e] = "error"
  BY DEF decode_error, Failing
<1>3. \A i \in Complete(n) : i \in DOMAIN frames /\ (frames[i] = "error" => i = Len(frames))
  BY <1>0 DEF Complete, FramesOK, Trailers
<1>4. e = Len(frames) /\ e \in DOMAIN frames
  BY <1>2, <1>3
<1>5. {i \in Complete(n) : frames[i] = "error"} = {Len(frames)}
  BY <1>2, <1>3, <1>4
<1>6. Ends[e - 1] >= consumed /\ Ends[e] <= received + n
  BY DEF Complete
<1>7. Ends[e] = Total
  BY <1>4 DEF Total
<1>8. e - 1 \in 0 .. Len(frames) /\ e \in 0 .. Len(frames) /\ e - 1 < e
  BY <1>0, <1>4
<1>9. Ends[e - 1] < Ends[e] /\ Ends[e - 1] \in Nat
  BY <1>0, <1>8, EndsGrow, EndsNat
<1>10. consumed \in Nat
  BY <1>0, EndsNat DEF TypeInv
<1> QED BY <1>0, <1>1, <1>2, <1>4, <1>5, <1>6, <1>7, <1>9, <1>10

\* The error is answered behind everything else, and nothing comes after it.
LEMMA ErrorStep ==
    ASSUME IInv, NEW n, answer_error(n)
    PROVE  IInv'
<1> DEFINE e == Len(frames)
<1>0. /\ TypeInv /\ FlagInv /\ PhaseInv /\ OnceInv /\ OrderInv
      /\ phase = "stream" /\ Chunk(n) /\ decode_error(n)
      /\ out' = Append(out, Min({i \in Complete(n) : frames[i] = "error"}))
      /\ answered' = TRUE
      /\ late' = (late \/ first_result # None)
      /\ frames' = frames /\ phase' = phase /\ over' = over /\ drop_stream' = drop_stream
      /\ received' = received + n /\ has_seen_content' = SeesContent(n)
      /\ consumed' = consumed /\ first_result' = first_result
      /\ first_result_ready' = first_result_ready /\ first_result_taken' = first_result_taken
  BY DEF IInv, answer_error, decode_error
<1>1. /\ e \in DOMAIN frames /\ frames[e] = "error"
      /\ {i \in Complete(n) : frames[i] = "error"} = {e}
      /\ received < Total /\ received + n = Total /\ consumed < Total
  BY <1>0, ErrorFacts
<1>2. /\ DOMAIN frames \in SUBSET Nat /\ DOMAIN frames = 1 .. e /\ e \in Nat
      /\ received \in Nat /\ Total \in Nat /\ consumed \in Nat
  <2>1. FramesOK /\ received \in Nat
    BY <1>0 DEF TypeInv
  <2>2. DOMAIN frames = 1 .. e /\ e \in Nat
    BY <2>1 DEF FramesOK
  <2>3. Total \in Nat /\ consumed \in Nat
    BY <1>0, <2>1, <2>2, EndsNat DEF TypeInv, Total
  <2> QED BY <2>1, <2>2, <2>3
<1> HIDE DEF e
<1>3. out' = out \o <<e>>
  <2>1. Min({e}) = e
    BY <1>2 DEF Min
  <2>2. out' = Append(out, e)
    BY <2>1, <1>0, <1>1
  <2>3. out \in Seq(DOMAIN frames)
    BY <1>0 DEF TypeInv
  <2> QED BY <2>2, <2>3, <1>1
<1>4. Ends' = Ends /\ Total' = Total
  BY <1>0, EndsKept
<1>5. Read' = Read /\ Held' = Held
  BY <1>0, <1>4 DEF Read, HasMessage, Held
<1>6. e \notin Read
  BY <1>1 DEF Read, HasMessage
<1>7. ToSet(out) \subseteq Read /\ ToSet(Held) \subseteq Read
  BY <1>0, <1>1, <1>2, OutIsRead DEF OnceInv
<1>8. /\ <<e>> \in Seq(DOMAIN frames) /\ ToSet(<<e>>) = {e}
      /\ Ascending(<<e>>) /\ IsInjective(<<e>>)
  <2>1. <<e>> \in Seq(DOMAIN frames) /\ DOMAIN <<e>> = {1} /\ <<e>>[1] = e
    BY <1>1
  <2>2. ToSet(<<e>>) = {e}
    BY <2>1 DEF ToSet
  <2>3. IsInjective(<<e>>)
    BY <2>1 DEF IsInjective
  <2>4. Ascending(<<e>>)
    BY <2>1 DEF Ascending
  <2> QED BY <2>1, <2>2, <2>3, <2>4
<1>9. \A x \in ToSet(out) : x < e
  <2> SUFFICES ASSUME NEW x \in ToSet(out) PROVE x < e
    OBVIOUS
  <2>1. x \in 1 .. e /\ x # e
    BY <1>2, <1>6, <1>7 DEF Read
  <2> QED BY <2>1, <1>2
<1>10. /\ out \in Seq(DOMAIN frames) /\ IsInjective(out)
       /\ ToSet(Held) \cap ToSet(out) = {}
       /\ Read \subseteq ToSet(Held) \cup ToSet(out)
  BY <1>0 DEF TypeInv, OnceInv
<1>11. /\ out' \in Seq(DOMAIN frames) /\ ToSet(out') = ToSet(out) \cup {e}
       /\ IsInjective(out') /\ (Ascending(out) => Ascending(out'))
  <2>1. ToSet(out) \cap ToSet(<<e>>) = {}
    BY <1>6, <1>7, <1>8
  <2>2. \A x \in ToSet(out), y \in ToSet(<<e>>) : x < y
    BY <1>8, <1>9
  <2> DEFINE c == <<e>>
  <2>3. /\ c \in Seq(DOMAIN frames) /\ ToSet(c) = {e} /\ Ascending(c) /\ IsInjective(c)
        /\ ToSet(out) \cap ToSet(c) = {} /\ out' = out \o c
        /\ \A x \in ToSet(out), y \in ToSet(c) : x < y
    BY <2>1, <2>2, <1>3, <1>8
  <2> HIDE DEF c
  <2>4. /\ out \o c \in Seq(DOMAIN frames)
        /\ ToSet(out \o c) = ToSet(out) \cup ToSet(c)
        /\ IsInjective(out) /\ IsInjective(c) /\ ToSet(out) \cap ToSet(c) = {}
             => IsInjective(out \o c)
        /\ Ascending(out) /\ Ascending(c) /\ (\A x \in ToSet(out), y \in ToSet(c) : x < y)
             => Ascending(out \o c)
    <3>1. DOMAIN frames \in SUBSET Nat /\ out \in Seq(DOMAIN frames) /\ c \in Seq(DOMAIN frames)
      BY <2>3, <1>2, <1>10
    <3> QED BY <3>1, ConcatFacts
  <2> QED BY <2>3, <2>4, <1>10
<1>12. TypeInv'
  <2>1. FramesOK'
    BY <1>0 DEF TypeInv, FramesOK
  <2>2. received' \in Nat /\ received' <= Total' /\ consumed' <= received'
    BY <1>0, <1>1, <1>2, <1>4
  <2>3. \E b \in 0 .. Len(frames') : consumed' = Ends'[b]
    BY <1>0, <1>4 DEF TypeInv
  <2>4. first_result' = None \/ (first_result' \in Seq(DOMAIN frames') /\ first_result' # <<>>)
    BY <1>0 DEF TypeInv
  <2> QED BY <2>1, <2>2, <2>3, <2>4, <1>0, <1>11 DEF TypeInv
<1>13. has_seen_content' \in BOOLEAN /\ late' \in BOOLEAN
  BY <1>0 DEF SeesContent, FlagInv
<1>14. FlagInv'
  <2>1. (frames \in Answers)'
    BY <1>0 DEF FlagInv
  <2> QED BY <2>1, <1>0, <1>13 DEF FlagInv
<1>15. PhaseInv'
  BY <1>0 DEF PhaseInv
<1>16. OnceInv'
  <2>1. frames'[e] = "error" /\ received' = Total' /\ consumed' < Total'
    BY <1>0, <1>1, <1>4
  <2>2. \A i \in ToSet(out') :
           i \in Read' \/ (frames'[i] = "error" /\ received' = Total' /\ consumed' < Total')
    BY <2>1, <1>5, <1>7, <1>11
  <2>3. /\ ToSet(Held') \cap ToSet(out') = {}
        /\ Read' \subseteq ToSet(Held') \cup ToSet(out')
        /\ ToSet(Held') \subseteq Read'
    BY <1>5, <1>6, <1>7, <1>10, <1>11
  <2> QED BY <2>2, <2>3, <1>11 DEF OnceInv
<1>17. OrderInv'
  BY <1>0, <1>5, <1>11 DEF OrderInv
<1>18. SentInv'
  <2>1. consumed' # received'
    BY <1>0, <1>1, <1>2
  <2> QED BY <2>1 DEF SentInv
<1> QED BY <1>12, <1>14, <1>15, <1>16, <1>17, <1>18 DEF IInv

\* A step that reads nothing, whatever becomes of the request.
LEMMA OtherStep ==
    ASSUME IInv, NEW n \in Nat, received + n <= Total, received' = received + n,
           UNCHANGED <<frames, consumed, first_result, first_result_ready,
                       first_result_taken, out, answered, late>>,
           phase' \in {phase, "hung", "refused", "done"},
           has_seen_content' \in BOOLEAN, over' \in BOOLEAN, drop_stream' \in BOOLEAN
    PROVE  IInv'
<1>1. TypeInv' /\ OnceInv' /\ OrderInv' /\ SentInv'
  BY QuietStep
<1>2. FlagInv'
  <2>1. phase' \in {"first", "stream", "collect", "hung", "refused", "done"}
    BY DEF IInv, FlagInv
  <2> QED BY <2>1 DEF IInv, FlagInv, Answers
<1>3. PhaseInv'
  BY DEF IInv, PhaseInv
<1> QED BY <1>1, <1>2, <1>3 DEF IInv

\* Initially nothing was received.
LEMMA InitInv == Init => IInv
<1> SUFFICES ASSUME Init PROVE IInv
  OBVIOUS
<1>0. FramesOK
  BY AnswersFramed DEF Init
<1>1. Len(frames) \in Nat /\ Ends[0] = 0 /\ Total \in Nat /\ 0 \in 0 .. Len(frames)
  <2>1. Len(frames) \in Nat /\ Ends[0] = 0
    BY <1>0, EndsSteps
  <2>2. Total \in Nat
    BY <1>0, <2>1, EndsNat DEF Total
  <2> QED BY <2>1, <2>2
<1>2. TypeInv
  <2>1. received \in Nat /\ received <= Total /\ consumed <= received
    BY <1>1 DEF Init
  <2>2. \E b \in 0 .. Len(frames) : consumed = Ends[b]
    BY <1>1 DEF Init
  <2>3. first_result = None /\ out \in Seq(DOMAIN frames)
    BY DEF Init
  <2> QED BY <2>1, <2>2, <2>3, <1>0 DEF TypeInv
<1>3. FlagInv
  BY DEF Init, FlagInv
<1>4. PhaseInv
  BY DEF Init, PhaseInv
<1>5. Read = {}
  <2> SUFFICES ASSUME NEW i \in DOMAIN frames, Ends[i] <= consumed PROVE FALSE
    BY DEF Read
  <2>1. i \in 0 .. Len(frames) /\ 0 < i
    BY <1>0, <1>1 DEF FramesOK
  <2>2. Ends[0] < Ends[i] /\ Ends[i] \in Nat
    BY <2>1, <1>0, <1>1, EndsGrow, EndsNat
  <2> QED BY <2>2, <1>1 DEF Init
<1>6. Held = <<>> /\ out = <<>> /\ ToSet(<<>>) = {}
  BY DEF Init, Held, ToSet
<1>7. IsInjective(<<>>) /\ Ascending(<<>>)
  BY DEF IsInjective, Ascending
<1>8. OnceInv
  BY <1>5, <1>6, <1>7 DEF OnceInv
<1>9. OrderInv
  BY <1>6, <1>7 DEF OrderInv
<1>10. SentInv
  BY DEF SentInv, Init
<1> QED BY <1>2, <1>3, <1>4, <1>8, <1>9, <1>10 DEF IInv

\* Every step keeps the invariant.
LEMMA StepKeeps == IInv /\ [Next]_vars => IInv'
<1> SUFFICES ASSUME IInv, [Next]_vars PROVE IInv'
  OBVIOUS
<1>0. /\ received \in Nat /\ received <= Total /\ received + 0 = received
      /\ over \in BOOLEAN /\ drop_stream \in BOOLEAN /\ has_seen_content \in BOOLEAN
  BY DEF IInv, TypeInv, FlagInv
<1>1. ASSUME NEW n, prime_ok(n) PROVE IInv'
  BY <1>1, PrimeStep
<1>2. ASSUME NEW n, wait_short(n) PROVE IInv'
  <2>1. n \in Nat /\ received + n <= Total
    BY <1>2, ChunkFacts DEF IInv, wait_short
  <2> QED BY <2>1, <1>0, <1>2, OtherStep DEF wait_short, decode_short
<1>3. ASSUME NEW n, refuse_upstream(n) PROVE IInv'
  <2>1. n \in Nat /\ received + n <= Total
    BY <1>3, ChunkFacts DEF IInv, refuse_upstream
  <2>2. has_seen_content' \in BOOLEAN
    BY <1>0, <1>3 DEF refuse_upstream, decode_error, SeesContent
  <2> QED BY <2>1, <2>2, <1>0, <1>3, OtherStep DEF refuse_upstream, decode_error
<1>4. ASSUME NEW n, answer(n) PROVE IInv'
  BY <1>4, AnswerStep
<1>5. ASSUME NEW n, answer_error(n) PROVE IInv'
  BY <1>5, ErrorStep
<1>6. ASSUME NEW n, answer_short(n) PROVE IInv'
  <2>1. n \in Nat /\ received + n <= Total
    BY <1>6, ChunkFacts DEF IInv, answer_short
  <2> QED BY <2>1, <1>0, <1>6, OtherStep DEF answer_short, decode_short
<1>7. ASSUME NEW n, collect(n) PROVE IInv'
  BY <1>7, CollectStep
<1>8. CASE refuse_broken
  BY <1>0, <1>8, OtherStep DEF refuse_broken, decoderVars
<1>9. CASE skip_broken
  BY <1>0, <1>9, OtherStep DEF skip_broken, decoderVars
<1>10. CASE refuse_empty
  BY <1>0, <1>10, OtherStep DEF refuse_empty, decoderVars
<1>11. CASE finish
  BY <1>0, <1>11, OtherStep DEF finish, decoderVars
<1>12. CASE collect_end
  BY <1>0, <1>12, OtherStep DEF collect_end, decoderVars
<1>13. CASE UNCHANGED vars
  BY <1>0, <1>13, OtherStep DEF vars, decoderVars
<1> QED BY <1>1, <1>2, <1>3, <1>4, <1>5, <1>6, <1>7, <1>8, <1>9, <1>10, <1>11, <1>12, <1>13
        DEF Next, Receive, Stop

\* The inductive invariant holds in every behaviour.
LEMMA Invariance == Spec => []IInv
  BY InitInv, StepKeeps, PTL DEF Spec

-----------------------------------------------------------------------------
\* The results.

\* Type correctness.
THEOREM TypeCorrect == Spec => []TypeOK
<1>1. IInv => TypeOK
  <2> SUFFICES ASSUME IInv PROVE TypeOK
    OBVIOUS
  <2>1. FramesOK /\ Len(frames) \in Nat
    BY DEF IInv, TypeInv, FramesOK
  <2>2. Total \in Nat /\ consumed \in Nat
    BY <2>1, EndsNat DEF IInv, TypeInv, Total
  <2>3. received \in 0 .. Total /\ consumed \in 0 .. received
    BY <2>2 DEF IInv, TypeInv
  <2>4. first_result = None \/ first_result \in Seq(DOMAIN frames)
    BY DEF IInv, TypeInv
  <2> QED BY <2>3, <2>4 DEF IInv, TypeInv, FlagInv, TypeOK
<1> QED BY <1>1, Invariance, PTL

\* However the answer is cut into chunks, what StreamDecoder::decode read is kept
\* back or answered exactly once; only an error is answered and never read.
THEOREM MessagesAnsweredOnce == Spec => []ReadIsAnsweredOnce
<1>1. IInv => ReadIsAnsweredOnce
  <2> SUFFICES ASSUME IInv PROVE ReadIsAnsweredOnce
    OBVIOUS
  <2>1. /\ DOMAIN frames \in SUBSET Nat /\ Held \in Seq(DOMAIN frames)
        /\ out \in Seq(DOMAIN frames)
    BY HeldFacts DEF IInv, TypeInv
  <2>2. IsInjective(Held) /\ IsInjective(out) /\ ToSet(Held) \cap ToSet(out) = {}
    BY <2>1, AscendingOnce DEF IInv, OrderInv, OnceInv
  <2> DEFINE all == Held \o out
  <2>3. IsInjective(all) /\ ToSet(all) = ToSet(Held) \cup ToSet(out)
    BY <2>1, <2>2, ConcatFacts
  <2> HIDE DEF all
  <2>4. \A i, j \in DOMAIN all : all[i] = all[j] => i = j
    BY <2>3 DEF IsInjective
  <2>5. Read \subseteq ToSet(all)
    BY <2>3 DEF IInv, OnceInv
  <2>6. \A i \in ToSet(all) \ Read : frames[i] = "error"
    BY <2>3 DEF IInv, OnceInv
  <2> QED BY <2>4, <2>5, <2>6 DEF ReadIsAnsweredOnce, all
<1> QED BY <1>1, Invariance, PTL

\* The response stream keeps the upstream's order unless a chunk was answered while
\* the first result stayed in the decoder.
THEOREM AnsweredInOrder == Spec => []InOrderUnlessLate
<1>1. IInv => InOrderUnlessLate
  BY DEF IInv, OrderInv, Ascending, InOrderUnlessLate
<1> QED BY <1>1, Invariance, PTL

\* A response that ends with nothing left in the buffer, after a chunk behind the
\* first result, held every message that was received.
THEOREM WholeAnswer == Spec => []WholeAnswerIsSent
<1>1. IInv => WholeAnswerIsSent
  <2> SUFFICES ASSUME IInv, answered \/ first_result_taken, consumed = received
               PROVE  ToSet(out) = {i \in DOMAIN frames :
                                      HasMessage(frames[i]) /\ Ends[i] <= received}
    BY DEF WholeAnswerIsSent
  <2>1. first_result = None
    BY DEF IInv, SentInv, PhaseInv
  <2>2. ToSet(Held) = {}
    BY <2>1, HeldFacts DEF IInv
  <2>3. consumed < Total => received # Total
    BY DEF IInv, TypeInv
  <2>4. ToSet(out) = Read
    BY <2>2, <2>3 DEF IInv, OnceInv
  <2> QED BY <2>4 DEF Read
<1> QED BY <1>1, Invariance, PTL

-----------------------------------------------------------------------------
\* The tool calls of an answer: what holds of every request.

USE DEF Streams

\* A piece is never empty; an id is that of a call of some request.
Ids == {Nil} \cup (Requests \X Nat)
CallPieces == {p \in [call : Nat, from : Nat, to : Nat] : p.from < p.to}
ToolBlocks == [kind : {"tool"}, id : [call : Nat, model : Ids], pieces : Seq(CallPieces)]
CallRecords ==
    [len : Nat \ {0}, space : BOOLEAN, streaming : BOOLEAN, model_call_id : Ids,
     last : BOOLEAN, counted : BOOLEAN,
     split : BOOLEAN, followed : BOOLEAN, spread : BOOLEAN]
Contexts == [raw_args_len : Nat, processed : Nat, saved_model_call_id : Ids]

\* The types of the data.
CallsTypeInv ==
    /\ stage \in [Requests -> {"idle", "open", "done", "gone"}]
    /\ mode \in [Requests -> Modes]
    /\ session \in [Requests -> BOOLEAN]
    /\ ctx \in [Requests -> Contexts]
    /\ calls \in [Requests -> Seq(CallRecords)]
    /\ blocks \in [Requests -> Seq({Text} \cup ToolBlocks)]
    /\ input_json \in [Requests -> Seq(CallPieces)]
    /\ reason \in [Requests -> {Nil, "stop", "tool_calls", "error"}]
    /\ store \in Ids
    /\ overlapped \in BOOLEAN
    /\ after \in [Requests -> SUBSET Requests]

\* A request that has not begun has nothing.
IdleInv(r) ==
    stage[r] = "idle" =>
        calls[r] = <<>> /\ blocks[r] = <<>> /\ input_json[r] = <<>> /\ after[r] = {}

\* Only the last call is unfinished, and what is counted is finished; blocks are
\* of calls that came.
CallsInv(r) ==
    /\ \A n \in DOMAIN calls[r] :
          /\ n < Len(calls[r]) => calls[r][n].last
          /\ calls[r][n].counted => calls[r][n].last
          /\ calls[r][n].followed => calls[r][n].last
          /\ ~calls[r][n].last => calls[r][n].streaming
    /\ (\E n \in DOMAIN calls[r] : calls[r][n].counted) <=> ctx[r].processed # 0
    /\ \A i \in ToolsOf(blocks[r]) :
          /\ blocks[r][i].id.call \in DOMAIN calls[r]
          /\ blocks[r][i].id.model \in {Nil, ctx[r].saved_model_call_id}
          /\ \A j \in DOMAIN blocks[r][i].pieces :
                blocks[r][i].pieces[j].call \in DOMAIN calls[r]

\* Calls before n that the decoder did not count.
CleanBefore(r, n) == \A k \in DOMAIN calls[r] : k < n => ~Uncounted(r, k)
Clean(r) == \A k \in DOMAIN calls[r] : ~Uncounted(r, k)

\* The length kept is that of the current call, unless one ended uncounted.
LengthInv(r) ==
    Clean(r) => IF Finished(r) THEN ctx[r].raw_args_len = 0
                ELSE ctx[r].raw_args_len <= Current(r).len

\* What was handed on of each call: all of it, or as much as the length kept.
ArgsInv(r) ==
    mode[r] \in Streams \cup {"openai"} =>
        \A n \in DOMAIN calls[r] : CleanBefore(r, n) =>
            /\ calls[r][n].counted => InFull(blocks[r], n, calls[r][n].len)
            /\ ~calls[r][n].last => InFull(blocks[r], n, ctx[r].raw_args_len)

\* The pieces s are the first len positions of call n.
PiecesFull(s, n, len) ==
    /\ IF len = 0 THEN s = <<>> ELSE IsWhole(s, n, len)
    /\ \A i, j \in DOMAIN s : i < j => s[i].to <= s[j].from
    /\ UNION {s[i].from .. s[i].to - 1 : i \in DOMAIN s} = 0 .. len - 1

\* The same of the calls that handle_messages collects in input_json.
CollectInv(r) ==
    mode[r] = "anthropic" =>
        /\ \A n : PlacesOf(blocks[r], n) # {} => n \in DOMAIN calls[r] /\ calls[r][n].counted
        /\ \A n \in DOMAIN calls[r] :
              calls[r][n].counted
              /\ (\A k \in DOMAIN calls[r] : k <= n => ~Uncounted(r, k) /\ ~calls[r][k].spread)
                => InFull(blocks[r], n, calls[r][n].len)
        /\ (\A k \in DOMAIN calls[r] : ~Uncounted(r, k) /\ ~calls[r][k].spread)
             => IF Finished(r) THEN input_json[r] = <<>>
                ELSE PiecesFull(input_json[r], Len(calls[r]), ctx[r].raw_args_len)

\* The content after a call is the last block until another call comes.
FollowedInv(r) ==
    calls[r] # <<>> /\ Current(r).followed
       => blocks[r] # <<>> /\ Last(blocks[r]).kind = "text"

\* The blocks of a streamed answer whose calls are separated by content: in the
\* order of the calls, and the current call's block, if it has one, is last.
BlocksInv(r) ==
    mode[r] \in Streams /\ Separated(r) =>
        /\ \A i \in ToolsOf(blocks[r]) : \A j \in DOMAIN blocks[r][i].pieces :
              blocks[r][i].pieces[j].call = blocks[r][i].id.call
        /\ \A i, k \in ToolsOf(blocks[r]) :
              i < k => blocks[r][i].id.call < blocks[r][k].id.call
        /\ \A i \in ToolsOf(blocks[r]) :
              /\ i = Len(blocks[r]) => blocks[r][i].id.call = Len(calls[r])
              /\ blocks[r][i].id.call = Len(calls[r]) /\ ~Current(r).followed
                   => i = Len(blocks[r])

\* A finish reason is given at the end, from what was counted.
ReasonInv(r) ==
    reason[r] \in {"stop", "tool_calls"} =>
        stage[r] = "done" /\ (reason[r] = "tool_calls" <=> ctx[r].processed # 0)

SavedId(r) == ctx[r].saved_model_call_id

\* The requests of the session: those done by the time another one began.
SessionInv ==
    /\ \A r \in Requests :
          /\ session[r] => mode[r] \in Streams /\ stage[r] # "idle"
          /\ \A q \in after[r] : session[q] /\ stage[q] = "done"
    /\ ~overlapped =>
          /\ \A r \in SessionRequests :
                /\ stage[r] = "done" => SavedId(r) \in {Nil, store}
                /\ stage[r] = "open" => store \in {Nil, SavedId(r)}
          /\ \A r, q \in SessionRequests : stage[r] = "open" /\ stage[q] = "open" => r = q
          /\ \A r \in Requests : \A q \in after[r] : SavedId(q) \in {Nil, SavedId(r)}

\* An id that the upstream of r gave to one of its calls.
OwnId(r, id) == id # Nil => id[1] = r

\* Where ids come from: the store has one of a request of the session that is
\* done, and a request keeps its own or one of a request done before it began.
OwnerInv ==
    /\ store # Nil => store[1] \in SessionRequests /\ stage[store[1]] = "done"
    /\ \A r \in Requests :
          /\ \A n \in DOMAIN calls[r] : OwnId(r, calls[r][n].model_call_id)
          /\ OwnId(r, SavedId(r)) \/ SavedId(r)[1] \in after[r]

\* All that holds of one request.
AnswerInv(r) ==
    /\ IdleInv(r)
    /\ CallsInv(r)
    /\ LengthInv(r)
    /\ ArgsInv(r)
    /\ CollectInv(r)
    /\ FollowedInv(r)
    /\ BlocksInv(r)
    /\ ReasonInv(r)

\* The counters: a call is counted with a message of its own.
CountersInv ==
    /\ sent \in 0 .. MaxMessages
    /\ \A r \in Requests : ctx[r].raw_args_len <= MaxLen /\ ctx[r].processed <= sent

\* The inductive invariant.
CallsIInv ==
    /\ CallsTypeInv
    /\ CountersInv
    /\ SessionInv
    /\ OwnerInv
    /\ \A r \in Requests : AnswerInv(r)

-----------------------------------------------------------------------------
\* The blocks of an answer.

Answered == Seq({Text} \cup ToolBlocks)

\* What the type says of a block.
LEMMA BlockTypes ==
    ASSUME NEW b \in Answered
    PROVE  /\ Len(b) \in Nat /\ DOMAIN b = 1 .. Len(b)
           /\ \A i \in DOMAIN b : b[i] = Text \/ b[i] \in ToolBlocks
           /\ \A i \in DOMAIN b : b[i].kind \in {"text", "tool"}
           /\ \A i \in ToolsOf(b) : b[i] \in ToolBlocks /\ i \in DOMAIN b
<1>1. /\ Len(b) \in Nat /\ DOMAIN b = 1 .. Len(b)
      /\ \A i \in DOMAIN b : b[i] \in {Text} \cup ToolBlocks
  BY ElementOfSeq DEF Answered
<1>2. \A i \in DOMAIN b : b[i] = Text \/ b[i] \in ToolBlocks
  BY <1>1
<1>3. Text.kind = "text" /\ \A x \in ToolBlocks : x.kind = "tool"
  BY DEF Text, ToolBlocks
<1> QED BY <1>1, <1>2, <1>3 DEF ToolsOf

\* What the type says of a piece.
LEMMA PieceTypes ==
    ASSUME NEW b \in Answered, NEW p \in Places(b)
    PROVE  /\ p[1] \in ToolsOf(b) /\ p[2] \in DOMAIN b[p[1]].pieces
           /\ p[1] \in Nat /\ p[2] \in Nat /\ p = <<p[1], p[2]>>
           /\ PieceAt(b, p) \in CallPieces
           /\ PieceAt(b, p).from \in Nat /\ PieceAt(b, p).to \in Nat
           /\ PieceAt(b, p).from < PieceAt(b, p).to
<1>1. PICK i \in ToolsOf(b) : p \in {i} \X DOMAIN b[i].pieces
  BY DEF Places
<1>2. p[1] = i /\ p[2] \in DOMAIN b[i].pieces /\ p = <<p[1], p[2]>>
  BY <1>1
<1>3. b[i] \in ToolBlocks /\ i \in Nat
  BY BlockTypes
<1>4. b[i].pieces \in Seq(CallPieces)
  BY <1>3 DEF ToolBlocks
<1>5. p[2] \in Nat /\ b[i].pieces[p[2]] \in CallPieces
  BY <1>2, <1>4, ElementOfSeq
<1>6. PieceAt(b, p) \in CallPieces
  BY <1>2, <1>5 DEF PieceAt
<1> QED BY <1>1, <1>2, <1>3, <1>5, <1>6 DEF CallPieces

\* The places, by block and position.
LEMMA PlaceIs ==
    ASSUME NEW b, NEW i, NEW j
    PROVE  <<i, j>> \in Places(b) <=> i \in ToolsOf(b) /\ j \in DOMAIN b[i].pieces
<1>1. ASSUME i \in ToolsOf(b), j \in DOMAIN b[i].pieces PROVE <<i, j>> \in Places(b)
  BY <1>1 DEF Places
<1>2. ASSUME <<i, j>> \in Places(b) PROVE i \in ToolsOf(b) /\ j \in DOMAIN b[i].pieces
  <2>1. PICK k \in ToolsOf(b) : <<i, j>> \in {k} \X DOMAIN b[k].pieces
    BY <1>2 DEF Places
  <2> QED BY <2>1
<1> QED BY <1>1, <1>2

\* A block of text adds no place.
LEMMA TextAdds ==
    ASSUME NEW b \in Answered
    PROVE  LET c == Append(b, Text) IN
           /\ c \in Answered
           /\ ToolsOf(c) = ToolsOf(b)
           /\ \A i \in ToolsOf(b) : c[i] = b[i]
           /\ Places(c) = Places(b)
           /\ \A p \in Places(b) : PieceAt(c, p) = PieceAt(b, p)
<1> DEFINE c == Append(b, Text)
<1>1. /\ c \in Answered /\ Len(c) = Len(b) + 1 /\ DOMAIN c = 1 .. (Len(b) + 1)
      /\ Len(b) \in Nat /\ DOMAIN b = 1 .. Len(b)
      /\ \A i \in 1 .. Len(b) : c[i] = b[i]
      /\ c[Len(b) + 1] = Text
  BY DEF Answered
<1> HIDE DEF c
<1>2. Text.kind # "tool"
  BY DEF Text
<1>3. \A i \in DOMAIN c : i \in DOMAIN b \/ i = Len(b) + 1
  BY <1>1
<1>4. \A i \in DOMAIN b : i \in DOMAIN c
  BY <1>1
<1>5. ToolsOf(c) = ToolsOf(b) /\ \A i \in ToolsOf(b) : c[i] = b[i]
  BY <1>1, <1>2, <1>3, <1>4 DEF ToolsOf
<1>6. Places(c) = Places(b)
  BY <1>5 DEF Places
<1>7. \A p \in Places(b) : PieceAt(c, p) = PieceAt(b, p)
  BY <1>5, PieceTypes DEF PieceAt
<1> QED BY <1>1, <1>5, <1>6, <1>7 DEF c

\* A block at the end adds its pieces, behind all others.
LEMMA BlockAdds ==
    ASSUME NEW b \in Answered, NEW x \in ToolBlocks
    PROVE  LET c == Append(b, x)
               L == Len(b) + 1
           IN
           /\ c \in Answered
           /\ ToolsOf(c) = ToolsOf(b) \cup {L} /\ L \notin DOMAIN b /\ Len(c) = L
           /\ c[L] = x
           /\ \A i \in ToolsOf(b) : c[i] = b[i]
           /\ Places(c) = Places(b) \cup ({L} \X DOMAIN x.pieces)
           /\ \A p \in Places(b) : PieceAt(c, p) = PieceAt(b, p) /\ p[1] < L
           /\ \A j \in DOMAIN x.pieces : PieceAt(c, <<L, j>>) = x.pieces[j]
<1> DEFINE c == Append(b, x)
           L == Len(b) + 1
<1>1. /\ c \in Answered /\ Len(c) = L /\ DOMAIN c = 1 .. L
      /\ Len(b) \in Nat /\ DOMAIN b = 1 .. Len(b)
      /\ \A i \in 1 .. Len(b) : c[i] = b[i]
      /\ c[L] = x
  BY DEF Answered
<1>2. L \in Nat /\ L \notin DOMAIN b /\ \A i \in DOMAIN b : i \in Nat /\ i < L
  BY <1>1
<1>3. x.kind = "tool"
  BY DEF ToolBlocks
<1>4. \A i : i \in DOMAIN c <=> i \in DOMAIN b \/ i = L
  BY <1>1
<1> HIDE DEF c, L
<1>5. ToolsOf(c) = ToolsOf(b) \cup {L} /\ \A i \in ToolsOf(b) : c[i] = b[i]
  BY <1>1, <1>3, <1>4 DEF ToolsOf
<1>6. Places(c) = Places(b) \cup ({L} \X DOMAIN x.pieces)
  <2>1. ASSUME NEW p \in Places(c) PROVE p \in Places(b) \cup ({L} \X DOMAIN x.pieces)
    <3>1. PICK i \in ToolsOf(c) : p \in {i} \X DOMAIN c[i].pieces
      BY DEF Places
    <3>2. CASE i = L
      BY <3>1, <3>2, <1>1
    <3>3. CASE i \in ToolsOf(b)
      BY <3>1, <3>3, <1>5 DEF Places
    <3> QED BY <3>2, <3>3, <1>5
  <2>2. ASSUME NEW p \in Places(b) PROVE p \in Places(c)
    <3>1. PICK i \in ToolsOf(b) : p \in {i} \X DOMAIN b[i].pieces
      BY DEF Places
    <3>2. i \in ToolsOf(c) /\ c[i] = b[i]
      BY <1>5
    <3> QED BY <3>1, <3>2 DEF Places
  <2>3. ASSUME NEW p \in {L} \X DOMAIN x.pieces PROVE p \in Places(c)
    <3>1. L \in ToolsOf(c) /\ c[L] = x
      BY <1>1, <1>5
    <3> QED BY <3>1 DEF Places
  <2> QED BY <2>1, <2>2, <2>3
<1>7. ASSUME NEW p \in Places(b) PROVE PieceAt(c, p) = PieceAt(b, p) /\ p[1] < L
  <2>1. p[1] \in ToolsOf(b)
    BY PieceTypes
  <2>2. p[1] \in DOMAIN b
    BY <2>1 DEF ToolsOf
  <2> QED BY <2>1, <2>2, <1>2, <1>5 DEF PieceAt
<1>8. \A j \in DOMAIN x.pieces : PieceAt(c, <<L, j>>) = x.pieces[j]
  BY <1>1 DEF PieceAt
<1> QED BY <1>1, <1>2, <1>5, <1>6, <1>7, <1>8 DEF c, L

\* The answer c has one piece more than b, behind all others.
Grown(b, c, piece) ==
    \E q : /\ Places(c) = Places(b) \cup {q}
           /\ q \notin Places(b)
           /\ PieceAt(c, q) = piece
           /\ ~Earlier(q, q)
           /\ \A p \in Places(b) :
                 PieceAt(c, p) = PieceAt(b, p) /\ Earlier(p, q) /\ ~Earlier(q, p)

\* A new block with one piece.
LEMMA NewBlockGrows ==
    ASSUME NEW b \in Answered, NEW id, NEW piece \in CallPieces, Block(id, <<piece>>) \in ToolBlocks
    PROVE  Grown(b, Append(b, Block(id, <<piece>>)), piece)
<1> DEFINE x == Block(id, <<piece>>)
           c == Append(b, x)
           L == Len(b) + 1
           q == <<L, 1>>
<1>1. x.pieces = <<piece>> /\ DOMAIN x.pieces = {1} /\ x.pieces[1] = piece /\ x \in ToolBlocks
  BY DEF Block
<1>2. L \in Nat
  BY BlockTypes
<1> HIDE DEF x, L
<1>3. /\ Places(c) = Places(b) \cup ({L} \X {1})
      /\ \A p \in Places(b) : PieceAt(c, p) = PieceAt(b, p) /\ p[1] < L
      /\ PieceAt(c, <<L, 1>>) = piece
  <2>1. /\ Places(c) = Places(b) \cup ({L} \X DOMAIN x.pieces)
        /\ \A p \in Places(b) : PieceAt(c, p) = PieceAt(b, p) /\ p[1] < L
        /\ \A j \in DOMAIN x.pieces : PieceAt(c, <<L, j>>) = x.pieces[j]
    BY <1>1, BlockAdds DEF L
  <2> HIDE DEF c
  <2> QED BY <2>1, <1>1
<1>4. {L} \X {1} = {q}
  OBVIOUS
<1>5. q[1] = L /\ q[2] = 1
  OBVIOUS
<1> HIDE DEF q
<1>6. ~Earlier(q, q)
  BY <1>2, <1>5 DEF Earlier
<1>7. ASSUME NEW p \in Places(b) PROVE Earlier(p, q) /\ ~Earlier(q, p) /\ p # q
  <2>1. p[1] \in Nat /\ p[1] < L
    BY <1>3, PieceTypes
  <2> QED BY <2>1, <1>2, <1>5 DEF Earlier
<1>8. PieceAt(c, q) = piece
  BY <1>3 DEF q
<1>9. Grown(b, c, piece)
  BY <1>3, <1>4, <1>6, <1>7, <1>8 DEF Grown
<1> QED BY <1>9 DEF c, x

\* One more piece of the last block.
LastGrown(b, piece) == [b EXCEPT ![Len(b)].pieces = Append(@, piece)]

\* Streamed on a block of a tool call: its pieces grow, its id and the others stay.
LEMMA LastBlockGrows ==
    ASSUME NEW b \in Answered, NEW piece \in CallPieces, Len(b) \in ToolsOf(b)
    PROVE  /\ LastGrown(b, piece) \in Answered
           /\ Len(LastGrown(b, piece)) = Len(b)
           /\ ToolsOf(LastGrown(b, piece)) = ToolsOf(b)
           /\ \A i \in ToolsOf(b) : i # Len(b) => LastGrown(b, piece)[i] = b[i]
           /\ LastGrown(b, piece)[Len(b)].pieces = Append(b[Len(b)].pieces, piece)
           /\ LastGrown(b, piece)[Len(b)].id = b[Len(b)].id
           /\ Grown(b, LastGrown(b, piece), piece)
<1> DEFINE L == Len(b)
           c == LastGrown(b, piece)
           s == b[L].pieces
           m == Len(s) + 1
           y == [b[L] EXCEPT !.pieces = Append(s, piece)]
           q == <<L, m>>
<1>1. L \in Nat /\ DOMAIN b = 1 .. L /\ L \in DOMAIN b /\ b[L] \in ToolBlocks
  BY BlockTypes
<1>2. s \in Seq(CallPieces) /\ b[L].kind = "tool"
  BY <1>1 DEF ToolBlocks
<1>3. Append(s, piece) \in Seq(CallPieces)
  BY <1>2
<1>4. y \in ToolBlocks /\ y.pieces = Append(s, piece) /\ y.id = b[L].id /\ y.kind = "tool"
  <2>1. b[L] \in [kind : {"tool"}, id : [call : Nat, model : Ids], pieces : Seq(CallPieces)]
    BY <1>1 DEF ToolBlocks
  <2> HIDE DEF s
  <2> QED BY <2>1, <1>3 DEF ToolBlocks
<1>5. c = [b EXCEPT ![L] = y]
  BY DEF LastGrown
<1>6. /\ Len(s) \in Nat /\ DOMAIN s = 1 .. Len(s) /\ m \in Nat /\ m \notin DOMAIN s
      /\ DOMAIN y.pieces = DOMAIN s \cup {m}
      /\ \A j \in DOMAIN s : y.pieces[j] = s[j] /\ j \in Nat /\ j < m
      /\ y.pieces[m] = piece
  <2>1. Len(s) \in Nat /\ DOMAIN s = 1 .. Len(s)
    BY <1>2
  <2>2. /\ DOMAIN Append(s, piece) = 1 .. m
        /\ \A j \in 1 .. Len(s) : Append(s, piece)[j] = s[j]
        /\ Append(s, piece)[m] = piece
    BY <1>2
  <2>3. m \in Nat /\ m \notin DOMAIN s /\ 1 .. m = DOMAIN s \cup {m} /\ \A j \in DOMAIN s : j \in Nat /\ j < m
    BY <2>1
  <2> QED BY <2>1, <2>2, <2>3, <1>4
<1> HIDE DEF y, s, m
<1>7. /\ c \in Answered /\ Len(c) = L /\ DOMAIN c = DOMAIN b /\ c[L] = y
      /\ \A i \in DOMAIN b : i # L => c[i] = b[i]
  <2>1. DOMAIN c = DOMAIN b /\ c[L] = y /\ \A i \in DOMAIN b : i # L => c[i] = b[i]
    BY <1>1, <1>5
  <2>2. \A i \in DOMAIN b : b[i] \in {Text} \cup ToolBlocks
    BY BlockTypes
  <2>3. c \in [1 .. L -> {Text} \cup ToolBlocks]
    BY <2>2, <1>1, <1>4, <1>5
  <2>4. c \in Answered /\ Len(c) = L
    BY <2>3, <1>1 DEF Answered
  <2> QED BY <2>1, <2>4
<1> HIDE DEF c, L
<1>8. ToolsOf(c) = ToolsOf(b) /\ \A i \in ToolsOf(b) : i # L => c[i] = b[i]
  BY <1>1, <1>2, <1>4, <1>7 DEF ToolsOf
<1>9. L \in ToolsOf(b)
  BY DEF L
<1>10. Places(c) = Places(b) \cup {q}
  <2>1. ASSUME NEW p \in Places(c) PROVE p \in Places(b) \cup {q}
    <3>1. PICK i \in ToolsOf(c) : p \in {i} \X DOMAIN c[i].pieces
      BY DEF Places
    <3>2. CASE i # L
      BY <3>1, <3>2, <1>8 DEF Places
    <3>3. CASE i = L
      <4>1. p[1] = L /\ p = <<p[1], p[2]>> /\ p[2] \in DOMAIN s \cup {m}
        BY <3>1, <3>3, <1>6, <1>7
      <4>2. CASE p[2] = m
        BY <4>1, <4>2
      <4>3. CASE p[2] \in DOMAIN s
        <5>1. p \in {L} \X DOMAIN b[L].pieces
          BY <4>1, <4>3 DEF s
        <5> QED BY <5>1, <1>9 DEF Places
      <4> QED BY <4>1, <4>2, <4>3
    <3> QED BY <3>2, <3>3
  <2>2. ASSUME NEW p \in Places(b) PROVE p \in Places(c)
    <3>1. PICK i \in ToolsOf(b) : p \in {i} \X DOMAIN b[i].pieces
      BY DEF Places
    <3>2. DOMAIN b[i].pieces \subseteq DOMAIN c[i].pieces
      <4>1. CASE i = L
        BY <4>1, <1>6, <1>7 DEF s
      <4>2. CASE i # L
        BY <4>2, <1>8
      <4> QED BY <4>1, <4>2
    <3>3. p \in {i} \X DOMAIN c[i].pieces
      BY <3>1, <3>2
    <3> QED BY <3>3, <1>8 DEF Places
  <2>3. q \in Places(c)
    <3>1. m \in DOMAIN c[L].pieces
      BY <1>6, <1>7
    <3> QED BY <3>1, <1>8, <1>9, PlaceIs
  <2> QED BY <2>1, <2>2, <2>3
<1>11. q[1] = L /\ q[2] = m
  OBVIOUS
<1>12. PieceAt(c, q) = piece
  BY <1>6, <1>7 DEF PieceAt
<1>13. q \notin Places(b)
  BY <1>6, PlaceIs DEF s
<1> HIDE DEF q
<1>14. ~Earlier(q, q)
  BY <1>1, <1>6, <1>11 DEF Earlier
<1>15. ASSUME NEW p \in Places(b)
       PROVE  PieceAt(c, p) = PieceAt(b, p) /\ Earlier(p, q) /\ ~Earlier(q, p)
  <2>1. p[1] \in ToolsOf(b) /\ p[2] \in DOMAIN b[p[1]].pieces /\ p[1] \in Nat /\ p[2] \in Nat
    BY PieceTypes
  <2>2. CASE p[1] = L
    <3>1. p[2] \in DOMAIN s /\ p[2] < m
      BY <2>1, <2>2, <1>6 DEF s
    <3>2. PieceAt(c, p) = PieceAt(b, p)
      BY <2>2, <3>1, <1>6, <1>7 DEF PieceAt, s
    <3> QED BY <2>1, <2>2, <3>1, <3>2, <1>1, <1>6, <1>11 DEF Earlier
  <2>3. CASE p[1] # L
    <3>1. PieceAt(c, p) = PieceAt(b, p)
      BY <2>1, <2>3, <1>8 DEF PieceAt
    <3>2. p[1] < L
      <4>1. p[1] \in 1 .. L
        BY <2>1, <1>1 DEF ToolsOf
      <4> QED BY <4>1, <2>3, <1>1
    <3> QED BY <2>1, <2>3, <3>1, <3>2, <1>1, <1>6, <1>11 DEF Earlier
  <2> QED BY <2>2, <2>3
<1>16. Grown(b, c, piece)
  BY <1>10, <1>12, <1>13, <1>14, <1>15 DEF Grown
<1>17. c[L].pieces = Append(b[L].pieces, piece) /\ c[L].id = b[L].id
  BY <1>4, <1>7 DEF s
<1> QED BY <1>7, <1>8, <1>16, <1>17 DEF c, L

\* A piece that goes on where its call was, behind all others, keeps the call full,
\* and says nothing of other calls.
LEMMA GrownFull ==
    ASSUME NEW b \in Answered, NEW c, NEW piece \in CallPieces, Grown(b, c, piece), NEW n, NEW len
    PROVE  /\ piece.call = n /\ InFull(b, n, piece.from) => InFull(c, n, piece.to)
           /\ piece.call # n /\ InFull(b, n, len) => InFull(c, n, len)
<1>1. PICK q : /\ Places(c) = Places(b) \cup {q}
               /\ q \notin Places(b)
               /\ PieceAt(c, q) = piece
               /\ ~Earlier(q, q)
               /\ \A p \in Places(b) :
                     PieceAt(c, p) = PieceAt(b, p) /\ Earlier(p, q) /\ ~Earlier(q, p)
  BY DEF Grown
<1>2. ASSUME piece.call # n, InFull(b, n, len) PROVE InFull(c, n, len)
  <2>1. PlacesOf(c, n) = PlacesOf(b, n) /\ \A p \in PlacesOf(b, n) : PieceAt(c, p) = PieceAt(b, p)
    BY <1>1, <1>2 DEF PlacesOf
  <2>2. {PieceAt(c, p).from .. PieceAt(c, p).to - 1 : p \in PlacesOf(c, n)}
          = {PieceAt(b, p).from .. PieceAt(b, p).to - 1 : p \in PlacesOf(b, n)}
    BY <2>1
  <2> QED BY <2>1, <2>2, <1>2 DEF InFull
<1>3. ASSUME piece.call = n, InFull(b, n, piece.from) PROVE InFull(c, n, piece.to)
  <2> DEFINE P == PlacesOf(b, n)
             R(x, p) == PieceAt(x, p).from .. PieceAt(x, p).to - 1
  <2>0. piece.from \in Nat /\ piece.to \in Nat /\ piece.from < piece.to
    BY DEF CallPieces
  <2>1. PlacesOf(c, n) = P \cup {q} /\ \A p \in P : p \in Places(b) /\ PieceAt(c, p) = PieceAt(b, p)
    BY <1>1, <1>3 DEF PlacesOf
  <2>2. \A p \in P : /\ PieceAt(b, p).from \in Nat /\ PieceAt(b, p).to \in Nat
                     /\ PieceAt(b, p).from < PieceAt(b, p).to
    BY <2>1, PieceTypes
  <2>3. UNION {R(b, p) : p \in P} = 0 .. piece.from - 1
    BY <1>3 DEF InFull
  <2>4. ASSUME NEW p \in P PROVE PieceAt(b, p).to <= piece.from
    <3>1. PieceAt(b, p).to - 1 \in R(b, p)
      BY <2>2
    <3>2. PieceAt(b, p).to - 1 \in 0 .. piece.from - 1
      BY <2>3, <3>1
    <3> QED BY <3>2, <2>0, <2>2
  <2>5. ASSUME NEW x \in P \cup {q}, NEW y \in P \cup {q}, Earlier(x, y)
        PROVE  PieceAt(c, x).to <= PieceAt(c, y).from
    <3>1. CASE x \in P /\ y \in P
      BY <3>1, <2>1, <2>5, <1>3 DEF InFull
    <3>2. CASE x \in P /\ y = q
      BY <3>2, <2>1, <2>4, <1>1
    <3>3. CASE x = q
      BY <3>3, <2>1, <2>5, <1>1
    <3> QED BY <3>1, <3>2, <3>3
  <2>6. UNION {R(c, p) : p \in P \cup {q}} = 0 .. piece.to - 1
    <3>1. \A x : x \in UNION {R(c, p) : p \in P \cup {q}} <=> \E p \in P \cup {q} : x \in R(c, p)
      OBVIOUS
    <3>2. \A x : x \in UNION {R(b, p) : p \in P} <=> \E p \in P : x \in R(b, p)
      OBVIOUS
    <3>3. \A p \in P : R(c, p) = R(b, p)
      BY <2>1
    <3>4. R(c, q) = piece.from .. piece.to - 1
      BY <1>1
    <3> HIDE DEF R, P
    <3>5. \A x : x \in UNION {R(c, p) : p \in P \cup {q}}
                   <=> x \in 0 .. piece.from - 1 \/ x \in piece.from .. piece.to - 1
      BY <3>1, <3>2, <3>3, <3>4, <2>3
    <3>6. \A x : x \in 0 .. piece.to - 1
                   <=> x \in 0 .. piece.from - 1 \/ x \in piece.from .. piece.to - 1
      BY <2>0
    <3> QED BY <3>5, <3>6
  <2> QED BY <2>1, <2>5, <2>6 DEF InFull
<1> QED BY <1>2, <1>3

\* Before the first piece nothing was handed on.
LEMMA NothingFull == ASSUME NEW b, NEW n, PlacesOf(b, n) = {} PROVE InFull(b, n, 0)
  BY DEF InFull

-----------------------------------------------------------------------------
\* The calls of an answer.

\* The calls cs have a new one at the end, or the last one grown.
GrownCalls(r, len, space, last, streaming, fresh, cs) ==
    LET N == Len(calls[r])
        n == Len(cs)
    IN
    /\ cs \in Seq(CallRecords)
    /\ N \in Nat /\ DOMAIN calls[r] = 1 .. N
    /\ n = IF Finished(r) THEN N + 1 ELSE N
    /\ n \in Nat \ {0} /\ DOMAIN cs = 1 .. n
    /\ \A k \in 1 .. n : k # n => k \in DOMAIN calls[r] /\ cs[k] = calls[r][k]
    /\ cs[n] \in CallRecords
    /\ cs[n].len = len /\ cs[n].space = space /\ cs[n].last = last
    /\ Finished(r) => /\ cs[n].streaming = streaming
                      /\ ~cs[n].split /\ ~cs[n].followed /\ ~cs[n].spread
                      /\ OwnId(r, cs[n].model_call_id)
    /\ ~Finished(r) => /\ cs[n].streaming = Current(r).streaming
                       /\ cs[n].split = Current(r).split
                       /\ cs[n].followed = Current(r).followed
                       /\ cs[n].spread = (Current(r).spread \/ fresh)
                       /\ cs[n].model_call_id = Current(r).model_call_id
                       /\ Current(r) = calls[r][n] /\ ~calls[r][n].last

\* The next message makes the calls grow.
LEMMA NextCallsFacts ==
    ASSUME CallsTypeInv, NEW r \in Requests,
           NEW len \in Nat \ {0}, NEW space \in BOOLEAN, NEW last \in BOOLEAN,
           NEW streaming \in BOOLEAN, NEW fresh \in BOOLEAN,
           NEW cs \in NextCalls(r, len, space, last, streaming, fresh)
    PROVE  GrownCalls(r, len, space, last, streaming, fresh, cs)
<1> DEFINE N == Len(calls[r])
           n == Len(cs)
<1>0. calls[r] \in Seq(CallRecords) /\ N \in Nat /\ DOMAIN calls[r] = 1 .. N
  BY DEF CallsTypeInv
<1>1. CASE Finished(r)
  <2>1. PICK id \in {Nil, <<r, N + 1>>} :
           cs = Append(calls[r], [NewCall(streaming, id) EXCEPT
                                    !.len = len, !.space = space, !.last = last])
    BY <1>1 DEF NextCalls
  <2> DEFINE x == [NewCall(streaming, id) EXCEPT !.len = len, !.space = space, !.last = last]
  <2>2. id \in Ids
    BY <1>0 DEF Ids
  <2>3. NewCall(streaming, id) \in [len : Nat, space : BOOLEAN, streaming : BOOLEAN,
           model_call_id : Ids, last : BOOLEAN, counted : BOOLEAN,
           split : BOOLEAN, followed : BOOLEAN, spread : BOOLEAN]
    BY <2>2 DEF NewCall
  <2>4. x \in CallRecords
    BY <2>3 DEF CallRecords
  <2>5. /\ x.len = len /\ x.space = space /\ x.last = last /\ x.streaming = streaming
        /\ ~x.split /\ ~x.followed /\ ~x.spread /\ x.model_call_id = id
    BY DEF NewCall
  <2> HIDE DEF x
  <2>6. /\ cs \in Seq(CallRecords) /\ n = N + 1 /\ DOMAIN cs = 1 .. (N + 1)
        /\ cs[N + 1] = x /\ \A k \in 1 .. N : cs[k] = calls[r][k]
    BY <2>1, <2>4, <1>0 DEF x
  <2>7. n \in Nat \ {0} /\ \A k \in 1 .. n : k # n => k \in DOMAIN calls[r] /\ cs[k] = calls[r][k]
    BY <2>6, <1>0
  <2>8. OwnId(r, id)
    BY DEF OwnId
  <2> HIDE DEF N, n
  <2> QED BY <1>0, <1>1, <2>4, <2>5, <2>6, <2>7, <2>8 DEF N, n, GrownCalls
<1>2. CASE ~Finished(r)
  <2> DEFINE x == [calls[r][N] EXCEPT !.len = len, !.space = space, !.last = last,
                                      !.spread = @ \/ fresh]
  <2>1. calls[r] # <<>> /\ N # 0 /\ Current(r) = calls[r][N] /\ ~calls[r][N].last
    BY <1>0, <1>2 DEF Finished, Current, Last
  <2>2. cs = [calls[r] EXCEPT ![N] = x]
    BY <1>2, <2>1 DEF NextCalls
  <2>3. N \in 1 .. N /\ calls[r][N] \in CallRecords
    BY <1>0, <2>1, ElementOfSeq
  <2>4. /\ x \in CallRecords
        /\ x.len = len /\ x.space = space /\ x.last = last
        /\ x.streaming = calls[r][N].streaming /\ x.split = calls[r][N].split
        /\ x.followed = calls[r][N].followed
        /\ x.spread = (calls[r][N].spread \/ fresh)
        /\ x.model_call_id = calls[r][N].model_call_id
    <3> DEFINE y == calls[r][N]
               z == [y EXCEPT !.len = len, !.space = space, !.last = last, !.spread = y.spread \/ fresh]
    <3>0. x = z
      OBVIOUS
    <3>1. y \in CallRecords
      BY <2>3
    <3> HIDE DEF y
    <3>2. /\ z \in CallRecords
          /\ z.len = len /\ z.space = space /\ z.last = last
          /\ z.streaming = y.streaming /\ z.split = y.split /\ z.followed = y.followed
          /\ z.spread = (y.spread \/ fresh) /\ z.model_call_id = y.model_call_id
      BY <3>1 DEF CallRecords
    <3> HIDE DEF x, z
    <3> QED BY <3>0, <3>2 DEF y
  <2> HIDE DEF x
  <2>5. cs \in [1 .. N -> CallRecords] /\ cs[N] = x /\ \A k \in 1 .. N : k # N => cs[k] = calls[r][k]
    <3>1. \A k \in 1 .. N : calls[r][k] \in CallRecords
      BY <1>0, ElementOfSeq
    <3>2. calls[r] \in [1 .. N -> CallRecords]
      BY <1>0
    <3> QED BY <3>2, <2>2, <2>3, <2>4
  <2>6. cs \in Seq(CallRecords) /\ n = N /\ DOMAIN cs = 1 .. N
    BY <2>5, <1>0
  <2> HIDE DEF N, n
  <2> QED BY <1>0, <1>2, <2>1, <2>3, <2>4, <2>5, <2>6 DEF N, n, GrownCalls
<1> QED BY <1>1, <1>2

\* What the decoder makes of a message does not depend on its being counted.
LEMMA CountedIsNotRead ==
    ASSUME NEW c, NEW x \in CallRecords, NEW f
    PROVE  LET y == [x EXCEPT !.counted = f] IN
           /\ Finish(c, y) = Finish(c, x)
           /\ Increment(c, y) = Increment(c, x)
           /\ NextContext(c, y) = NextContext(c, x)
<1> DEFINE y == [x EXCEPT !.counted = f]
<1>1. /\ y.len = x.len /\ y.space = x.space /\ y.streaming = x.streaming /\ y.last = x.last
      /\ y.model_call_id = x.model_call_id
  BY DEF CallRecords
<1> HIDE DEF y
<1>2. Skipped(c, y) = Skipped(c, x)
  BY <1>1 DEF Skipped
<1>3. Finish(c, y) = Finish(c, x)
  BY <1>1, <1>2 DEF Finish
<1>4. Increment(c, y) = Increment(c, x)
  BY <1>1, <1>2 DEF Increment
<1>5. NextContext(c, y) = NextContext(c, x)
  BY <1>1, <1>2, <1>3 DEF NextContext
<1> QED BY <1>3, <1>4, <1>5 DEF y

\* What tool_message does to the calls of r: call is the current one, number n.
ToolStep(r, len, space, last, streaming, fresh, n, call) ==
    LET N == Len(calls[r])
        increment == Increment(ctx[r], call)
    IN
    /\ calls'[r] \in Seq(CallRecords) /\ Len(calls'[r]) = n
    /\ N \in Nat /\ DOMAIN calls[r] = 1 .. N
    /\ n = IF Finished(r) THEN N + 1 ELSE N
    /\ n \in Nat \ {0} /\ DOMAIN calls'[r] = 1 .. n
    /\ \A k \in 1 .. n : k # n => k \in DOMAIN calls[r] /\ calls'[r][k] = calls[r][k]
    /\ calls'[r][n] = call /\ call \in CallRecords
    /\ call.len = len /\ call.space = space /\ call.last = last
    /\ call.counted = Finish(ctx[r], call)
    /\ Finished(r) => /\ call.streaming = streaming
                      /\ ~call.split /\ ~call.followed /\ ~call.spread
                      /\ OwnId(r, call.model_call_id)
    /\ ~Finished(r) => /\ call.streaming = Current(r).streaming
                       /\ call.split = Current(r).split
                       /\ call.followed = Current(r).followed
                       /\ call.spread = (Current(r).spread \/ fresh)
                       /\ call.model_call_id = Current(r).model_call_id
                       /\ Current(r) = calls[r][n] /\ ~calls[r][n].last
    /\ calls' = [calls EXCEPT ![r] = calls'[r]]
    /\ ctx' = [ctx EXCEPT ![r] = NextContext(ctx[r], call)]
    /\ IF increment = Nil THEN hand_on_nothing(r, fresh)
       ELSE hand_on(r, n, call, increment, fresh)

\* Every tool_message is such a step, of some call and number.
LEMMA ToolStepExists ==
    ASSUME CallsTypeInv, NEW r \in Requests,
           NEW len \in Nat \ {0}, NEW space \in BOOLEAN, NEW last \in BOOLEAN,
           NEW streaming \in BOOLEAN, NEW fresh \in BOOLEAN,
           tool_message(r, len, space, last, streaming, fresh)
    PROVE  \E n, call : ToolStep(r, len, space, last, streaming, fresh, n, call)
<1> DEFINE N == Len(calls[r])
<1>1. PICK cs \in NextCalls(r, len, space, last, streaming, fresh) :
         LET n == Len(cs)
             x == Last(cs)
             increment == Increment(ctx[r], x)
         IN  /\ calls' = [calls EXCEPT ![r] = [cs EXCEPT ![n].counted = Finish(ctx[r], x)]]
             /\ ctx' = [ctx EXCEPT ![r] = NextContext(@, x)]
             /\ IF increment = Nil THEN hand_on_nothing(r, fresh)
                ELSE hand_on(r, n, x, increment, fresh)
  BY DEF tool_message
<1> DEFINE n == Len(cs)
           x == cs[n]
           f == Finish(ctx[r], x)
           call == [x EXCEPT !.counted = f]
           ds == [cs EXCEPT ![n] = call]
<1>2. /\ cs \in Seq(CallRecords)
      /\ N \in Nat /\ DOMAIN calls[r] = 1 .. N
      /\ n = IF Finished(r) THEN N + 1 ELSE N
      /\ n \in Nat \ {0} /\ DOMAIN cs = 1 .. n
      /\ \A k \in 1 .. n : k # n => k \in DOMAIN calls[r] /\ cs[k] = calls[r][k]
      /\ x \in CallRecords
      /\ x.len = len /\ x.space = space /\ x.last = last
      /\ Finished(r) => /\ x.streaming = streaming /\ ~x.split /\ ~x.followed /\ ~x.spread
                        /\ OwnId(r, x.model_call_id)
      /\ ~Finished(r) => /\ x.streaming = Current(r).streaming
                         /\ x.split = Current(r).split
                         /\ x.followed = Current(r).followed
                         /\ x.spread = (Current(r).spread \/ fresh)
                         /\ x.model_call_id = Current(r).model_call_id
                         /\ Current(r) = calls[r][n] /\ ~calls[r][n].last
  <2>1. GrownCalls(r, len, space, last, streaming, fresh, cs)
    BY NextCallsFacts
  <2> QED BY <2>1 DEF GrownCalls
<1>3. Last(cs) = x
  BY DEF Last
<1>4. f \in BOOLEAN
  BY DEF Finish
<1>5. /\ Finish(ctx[r], call) = f
      /\ Increment(ctx[r], call) = Increment(ctx[r], x)
      /\ NextContext(ctx[r], call) = NextContext(ctx[r], x)
  BY <1>2, CountedIsNotRead
<1>6. /\ call \in CallRecords /\ call.counted = f
      /\ call.len = x.len /\ call.space = x.space /\ call.last = x.last
      /\ call.streaming = x.streaming /\ call.split = x.split /\ call.followed = x.followed
      /\ call.spread = x.spread /\ call.model_call_id = x.model_call_id
  BY <1>2, <1>4 DEF CallRecords
<1>7. calls' = [calls EXCEPT ![r] = ds] /\ calls'[r] = ds
  <2>1. calls' = [calls EXCEPT ![r] = ds]
    BY <1>1, <1>3
  <2> HIDE DEF ds
  <2> QED BY <2>1 DEF CallsTypeInv
<1> HIDE DEF f, call
<1>8. /\ ds \in Seq(CallRecords) /\ Len(ds) = n /\ DOMAIN ds = 1 .. n /\ ds[n] = call
      /\ \A k \in 1 .. n : k # n => ds[k] = cs[k]
  <2>1. n \in 1 .. n
    BY <1>2
  <2>2. cs \in [1 .. n -> CallRecords]
    BY <1>2
  <2> HIDE DEF n, x
  <2>3. ds \in [1 .. n -> CallRecords] /\ ds[n] = call /\ \A k \in 1 .. n : k # n => ds[k] = cs[k]
    BY <2>1, <2>2, <1>6
  <2>4. ds \in Seq(CallRecords) /\ Len(ds) = n /\ DOMAIN ds = 1 .. n
    BY <2>3, <1>2
  <2> QED BY <2>3, <2>4
<1>9. ctx' = [ctx EXCEPT ![r] = NextContext(ctx[r], call)]
  BY <1>1, <1>3, <1>5
<1>10. IF Increment(ctx[r], call) = Nil THEN hand_on_nothing(r, fresh)
       ELSE hand_on(r, n, call, Increment(ctx[r], call), fresh)
  <2>1. \A i : hand_on(r, n, x, i, fresh) <=> hand_on(r, n, call, i, fresh)
    <3> SUFFICES ASSUME NEW i
                 PROVE hand_on(r, n, x, i, fresh) <=> hand_on(r, n, call, i, fresh)
      OBVIOUS
    <3>1. Finish(ctx[r], call) = Finish(ctx[r], x) /\ call.len = x.len
          /\ call.model_call_id = x.model_call_id
      BY <1>5, <1>6 DEF f
    <3> HIDE DEF x, n
    <3> QED BY <3>1 DEF hand_on
  <2>2. IF Increment(ctx[r], x) = Nil THEN hand_on_nothing(r, fresh)
        ELSE hand_on(r, n, x, Increment(ctx[r], x), fresh)
    BY <1>1, <1>3
  <2> HIDE DEF x, n
  <2> QED BY <2>1, <2>2, <1>5
<1> HIDE DEF n, x, ds
<1>11. ToolStep(r, len, space, last, streaming, fresh, n, call)
  BY <1>2, <1>5, <1>6, <1>7, <1>8, <1>9, <1>10 DEF ToolStep
<1> QED BY <1>11

-----------------------------------------------------------------------------
\* What the decoder hands on.

\* The context after a message.
LEMMA ContextFacts ==
    ASSUME NEW c \in Contexts, NEW call \in CallRecords
    PROVE  /\ NextContext(c, call) \in Contexts
           /\ NextContext(c, call).processed # 0 <=> c.processed # 0 \/ Finish(c, call)
           /\ Finish(c, call) => NextContext(c, call).raw_args_len = 0
           /\ ~Finish(c, call) =>
                NextContext(c, call).raw_args_len =
                   IF ~Skipped(c, call) /\ call.len > c.raw_args_len THEN call.len
                   ELSE c.raw_args_len
           /\ NextContext(c, call).saved_model_call_id = Saved(c, call.model_call_id)
           /\ Saved(c, call.model_call_id) \in Ids
           /\ c.saved_model_call_id # Nil => Saved(c, call.model_call_id) = c.saved_model_call_id
           /\ Replaced(c, call.model_call_id) \in {Nil, Saved(c, call.model_call_id)}
<1>1. /\ c.raw_args_len \in Nat /\ c.processed \in Nat /\ c.saved_model_call_id \in Ids
      /\ call.len \in Nat /\ call.model_call_id \in Ids
  BY DEF Contexts, CallRecords
<1>2. Saved(c, call.model_call_id) \in Ids
  BY <1>1 DEF Saved
<1>3. /\ NextContext(c, call).raw_args_len =
             IF Finish(c, call) THEN 0
             ELSE IF ~Skipped(c, call) /\ call.len > c.raw_args_len THEN call.len
             ELSE c.raw_args_len
      /\ NextContext(c, call).processed = c.processed + (IF Finish(c, call) THEN 1 ELSE 0)
      /\ NextContext(c, call).saved_model_call_id = Saved(c, call.model_call_id)
  BY DEF NextContext
<1>4. NextContext(c, call) \in Contexts
  <2>1. (IF Finish(c, call) THEN 0
         ELSE IF ~Skipped(c, call) /\ call.len > c.raw_args_len THEN call.len
         ELSE c.raw_args_len) \in Nat
    BY <1>1
  <2>2. c.processed + (IF Finish(c, call) THEN 1 ELSE 0) \in Nat
    BY <1>1
  <2> QED BY <2>1, <2>2, <1>2 DEF NextContext, Contexts
<1>5. NextContext(c, call).processed # 0 <=> c.processed # 0 \/ Finish(c, call)
  BY <1>1, <1>3
<1> QED BY <1>2, <1>3, <1>4, <1>5 DEF Saved, Replaced

\* The positions handed on, if any.
LEMMA IncrementFacts ==
    ASSUME NEW c \in Contexts, NEW call \in CallRecords
    PROVE  /\ Increment(c, call) = Nil <=>
                call.streaming /\ (Skipped(c, call) \/ call.len <= c.raw_args_len)
           /\ Increment(c, call) # Nil =>
                /\ Increment(c, call) =
                     <<IF call.streaming THEN c.raw_args_len ELSE 0, call.len>>
                /\ (IF call.streaming THEN c.raw_args_len ELSE 0) < call.len
<1>1. /\ c.raw_args_len \in Nat /\ call.len \in Nat /\ call.len # 0 /\ call.streaming \in BOOLEAN
  BY DEF Contexts, CallRecords
<1>2. <<0, call.len>> # Nil /\ <<c.raw_args_len, call.len>> # Nil
  <2>1. <<0, call.len>> \in Seq(Nat) /\ <<c.raw_args_len, call.len>> \in Seq(Nat)
    BY <1>1
  <2> QED BY <2>1, NilAssumption
<1>3. CASE ~call.streaming
  BY <1>1, <1>2, <1>3 DEF Increment
<1>4. CASE call.streaming /\ ~Skipped(c, call) /\ call.len > c.raw_args_len
  <2>1. Increment(c, call) = <<c.raw_args_len, call.len>>
    BY <1>4 DEF Increment
  <2>2. ~(call.len <= c.raw_args_len) /\ c.raw_args_len < call.len
    BY <1>1, <1>4
  <2> QED BY <2>1, <2>2, <1>2, <1>4
<1>5. CASE call.streaming /\ ~(~Skipped(c, call) /\ call.len > c.raw_args_len)
  <2>1. Increment(c, call) = Nil
    BY <1>5 DEF Increment
  <2>2. Skipped(c, call) \/ call.len <= c.raw_args_len
    BY <1>1, <1>5
  <2> QED BY <2>1, <2>2, <1>5
<1> QED BY <1>1, <1>3, <1>4, <1>5

\* One more piece where the pieces of a call end.
LEMMA PiecesGrow ==
    ASSUME NEW s \in Seq(CallPieces), NEW n, NEW piece \in CallPieces,
           piece.call = n, PiecesFull(s, n, piece.from)
    PROVE  PiecesFull(Append(s, piece), n, piece.to)
<1> DEFINE c == Append(s, piece)
           L == Len(s)
<1>1. /\ L \in Nat /\ DOMAIN s = 1 .. L /\ c \in Seq(CallPieces)
      /\ DOMAIN c = 1 .. (L + 1) /\ Len(c) = L + 1
      /\ c[L + 1] = piece /\ \A i \in 1 .. L : c[i] = s[i]
      /\ \A i \in 1 .. L : s[i] \in CallPieces
  BY ElementOfSeq
<1>2. piece.from \in Nat /\ piece.to \in Nat /\ piece.from < piece.to
  BY DEF CallPieces
<1>3. \A i \in 1 .. L : s[i].from \in Nat /\ s[i].to \in Nat /\ s[i].from < s[i].to
  BY <1>1 DEF CallPieces
<1> HIDE DEF c, L
<1>4. \A i \in 1 .. (L + 1) : i \in 1 .. L \/ i = L + 1
  BY <1>1
<1>5. L # 0 => /\ piece.from # 0 /\ (\A i \in 1 .. L : s[i].call = n) /\ s[1].from = 0
               /\ (\A i \in 2 .. L : s[i].from = s[i - 1].to) /\ s[L].to = piece.from
  <2> SUFFICES ASSUME L # 0
               PROVE  /\ piece.from # 0 /\ (\A i \in 1 .. L : s[i].call = n) /\ s[1].from = 0
                      /\ (\A i \in 2 .. L : s[i].from = s[i - 1].to) /\ s[L].to = piece.from
    OBVIOUS
  <2>1. s # <<>>
    BY DEF L
  <2>2. piece.from # 0 /\ IsWhole(s, n, piece.from)
    BY <2>1 DEF PiecesFull
  <2> QED BY <2>2, <1>1 DEF IsWhole, Last, L
<1>6. L = 0 => piece.from = 0
  <2> SUFFICES ASSUME L = 0, piece.from # 0 PROVE FALSE
    OBVIOUS
  <2>1. s # <<>>
    BY DEF PiecesFull, IsWhole
  <2> QED BY <2>1 DEF L
<1>7. IsWhole(c, n, piece.to)
  <2>1. c # <<>>
    BY <1>1
  <2>2. \A i \in DOMAIN c : c[i].call = n
    BY <1>1, <1>4, <1>5
  <2>3. c[1].from = 0
    <3>1. CASE L = 0
      BY <3>1, <1>1, <1>6
    <3>2. CASE L # 0
      <4>1. 1 \in 1 .. L
        BY <3>2, <1>1
      <4> QED BY <4>1, <3>2, <1>1, <1>5
    <3> QED BY <3>1, <3>2
  <2>4. ASSUME NEW i \in 2 .. Len(c) PROVE c[i].from = c[i - 1].to
    <3>1. CASE i = L + 1
      <4>1. L \in 1 .. L /\ L # 0 /\ i - 1 = L
        BY <3>1, <1>1
      <4> QED BY <4>1, <3>1, <1>1, <1>5
    <3>2. CASE i # L + 1
      <4>1. i \in 2 .. L /\ i \in 1 .. L /\ i - 1 \in 1 .. L /\ L # 0
        BY <3>2, <1>1
      <4> QED BY <4>1, <1>1, <1>5
    <3> QED BY <3>1, <3>2
  <2>5. Last(c).to = piece.to
    BY <1>1 DEF Last
  <2> QED BY <2>1, <2>2, <2>3, <2>4, <2>5 DEF IsWhole
<1> DEFINE R(x, i) == x[i].from .. x[i].to - 1
<1>8. UNION {R(s, i) : i \in 1 .. L} = 0 .. piece.from - 1
  BY <1>1 DEF PiecesFull
<1>9. ASSUME NEW i \in 1 .. L PROVE s[i].to <= piece.from
  <2>1. s[i].to - 1 \in R(s, i)
    BY <1>3
  <2>2. s[i].to - 1 \in 0 .. piece.from - 1
    BY <2>1, <1>8
  <2> QED BY <2>2, <1>2, <1>3
<1>10. ASSUME NEW i \in DOMAIN c, NEW j \in DOMAIN c, i < j PROVE c[i].to <= c[j].from
  <2>1. i \in 1 .. L
    BY <1>1, <1>10
  <2>2. CASE j = L + 1
    BY <2>1, <2>2, <1>1, <1>9
  <2>3. CASE j # L + 1
    <3>1. j \in 1 .. L
      BY <2>3, <1>1, <1>4
    <3> QED BY <2>1, <3>1, <1>1, <1>10 DEF PiecesFull
  <2> QED BY <2>2, <2>3
<1>11. UNION {R(c, i) : i \in DOMAIN c} = 0 .. piece.to - 1
  <2>1. \A x : x \in UNION {R(c, i) : i \in DOMAIN c} <=> \E i \in DOMAIN c : x \in R(c, i)
    OBVIOUS
  <2>2. \A x : x \in UNION {R(s, i) : i \in 1 .. L} <=> \E i \in 1 .. L : x \in R(s, i)
    OBVIOUS
  <2>3. \A i \in 1 .. L : R(c, i) = R(s, i)
    BY <1>1
  <2>4. R(c, L + 1) = piece.from .. piece.to - 1
    BY <1>1
  <2>5. \A i : i \in DOMAIN c <=> i \in 1 .. L \/ i = L + 1
    BY <1>1
  <2> HIDE DEF R
  <2>6. \A x : x \in UNION {R(c, i) : i \in DOMAIN c}
                 <=> x \in 0 .. piece.from - 1 \/ x \in piece.from .. piece.to - 1
    BY <2>1, <2>2, <2>3, <2>4, <2>5, <1>8
  <2>7. \A x : x \in 0 .. piece.to - 1
                 <=> x \in 0 .. piece.from - 1 \/ x \in piece.from .. piece.to - 1
    BY <1>2
  <2> QED BY <2>6, <2>7
<1>12. piece.to # 0
  BY <1>2
<1>13. PiecesFull(c, n, piece.to)
  BY <1>7, <1>10, <1>11, <1>12 DEF PiecesFull
<1> QED BY <1>13 DEF c

\* No piece is no position.
LEMMA PiecesNone == ASSUME NEW n PROVE PiecesFull(<<>>, n, 0)
<1>1. DOMAIN <<>> = {}
  OBVIOUS
<1> QED BY <1>1 DEF PiecesFull

\* A block made of the pieces of a call that no other block has.
LEMMA BlockFull ==
    ASSUME NEW b \in Answered, NEW n, NEW len, NEW x \in ToolBlocks,
           \A j \in DOMAIN x.pieces : x.pieces[j].call = n
    PROVE  /\ PlacesOf(b, n) = {} /\ PiecesFull(x.pieces, n, len) => InFull(Append(b, x), n, len)
           /\ \A k : k # n => PlacesOf(Append(b, x), k) = PlacesOf(b, k)
           /\ \A k, l : k # n /\ InFull(b, k, l) => InFull(Append(b, x), k, l)
<1> DEFINE c == Append(b, x)
           L == Len(b) + 1
           s == x.pieces
<1>1. /\ Places(c) = Places(b) \cup ({L} \X DOMAIN s)
      /\ \A p \in Places(b) : PieceAt(c, p) = PieceAt(b, p) /\ p[1] < L
      /\ \A j \in DOMAIN s : PieceAt(c, <<L, j>>) = s[j]
  BY BlockAdds
<1>2. L \in Nat
  BY BlockTypes
<1>3. \A j \in DOMAIN s : s[j].call = n
  OBVIOUS
<1> HIDE DEF c, L, s
<1>4. \A p \in {L} \X DOMAIN s : p[1] = L /\ p[2] \in DOMAIN s /\ p = <<L, p[2]>> /\ PieceAt(c, p) = s[p[2]]
  <2> SUFFICES ASSUME NEW p \in {L} \X DOMAIN s
               PROVE p[1] = L /\ p[2] \in DOMAIN s /\ p = <<L, p[2]>> /\ PieceAt(c, p) = s[p[2]]
    OBVIOUS
  <2>1. p[1] = L /\ p[2] \in DOMAIN s /\ p = <<L, p[2]>>
    OBVIOUS
  <2> QED BY <2>1, <1>1
<1>5. ASSUME NEW k, k # n
      PROVE  /\ PlacesOf(c, k) = PlacesOf(b, k)
             /\ \A p \in PlacesOf(b, k) : PieceAt(c, p) = PieceAt(b, p)
  BY <1>1, <1>3, <1>4, <1>5 DEF PlacesOf
<1>6. ASSUME NEW k, NEW l, k # n, InFull(b, k, l) PROVE InFull(c, k, l)
  <2>1. /\ PlacesOf(c, k) = PlacesOf(b, k)
        /\ \A p \in PlacesOf(b, k) : PieceAt(c, p) = PieceAt(b, p)
    BY <1>5, <1>6
  <2>2. {PieceAt(c, p).from .. PieceAt(c, p).to - 1 : p \in PlacesOf(c, k)}
          = {PieceAt(b, p).from .. PieceAt(b, p).to - 1 : p \in PlacesOf(b, k)}
    BY <2>1
  <2> QED BY <2>1, <2>2, <1>6 DEF InFull
<1>7. ASSUME PlacesOf(b, n) = {}, PiecesFull(s, n, len) PROVE InFull(c, n, len)
  <2>1. PlacesOf(c, n) = {L} \X DOMAIN s
    <3>1. \A p \in Places(b) : PieceAt(c, p).call # n
      BY <1>1, <1>7 DEF PlacesOf
    <3>2. \A p \in {L} \X DOMAIN s : PieceAt(c, p).call = n
      BY <1>3, <1>4
    <3> QED BY <3>1, <3>2, <1>1 DEF PlacesOf
  <2>2. ASSUME NEW p \in {L} \X DOMAIN s, NEW q \in {L} \X DOMAIN s, Earlier(p, q)
        PROVE  PieceAt(c, p).to <= PieceAt(c, q).from
    <3>1. p[2] < q[2]
      BY <2>2, <1>2, <1>4 DEF Earlier
    <3> QED BY <3>1, <1>4, <1>7 DEF PiecesFull
  <2>3. {PieceAt(c, p).from .. PieceAt(c, p).to - 1 : p \in {L} \X DOMAIN s}
          = {s[i].from .. s[i].to - 1 : i \in DOMAIN s}
    <3>1. ASSUME NEW i \in DOMAIN s
          PROVE  \E p \in {L} \X DOMAIN s : PieceAt(c, p) = s[i]
      <4>1. <<L, i>> \in {L} \X DOMAIN s
        OBVIOUS
      <4> QED BY <4>1, <1>1
    <3>2. ASSUME NEW p \in {L} \X DOMAIN s
          PROVE  \E i \in DOMAIN s : PieceAt(c, p) = s[i]
      BY <1>4
    <3> DEFINE cut(v) == v.from .. v.to - 1
    <3>3. {cut(PieceAt(c, p)) : p \in {L} \X DOMAIN s} = {cut(s[i]) : i \in DOMAIN s}
      <4> HIDE DEF cut
      <4> QED BY <3>1, <3>2
    <3> QED BY <3>3
  <2>4. UNION {s[i].from .. s[i].to - 1 : i \in DOMAIN s} = 0 .. len - 1
    BY <1>7 DEF PiecesFull
  <2> QED BY <2>1, <2>2, <2>3, <2>4 DEF InFull
<1> QED BY <1>5, <1>6, <1>7 DEF c, s

-----------------------------------------------------------------------------
\* The steps.

\* What holds of an answer that a step adds nothing to.
LEMMA SameAnswer ==
    ASSUME NEW q \in Requests, AnswerInv(q),
           mode'[q] = mode[q], ctx'[q] = ctx[q], calls'[q] = calls[q],
           blocks'[q] = blocks[q], input_json'[q] = input_json[q]
    PROVE  /\ CallsInv(q)' /\ LengthInv(q)' /\ ArgsInv(q)'
           /\ CollectInv(q)' /\ FollowedInv(q)' /\ BlocksInv(q)'
<1>1. /\ Finished(q)' = Finished(q) /\ Current(q)' = Current(q)
      /\ (Separated(q))' = Separated(q)
  <2>1. Current(q)' = Current(q)
    BY DEF Current
  <2>2. Finished(q)' = Finished(q)
    BY <2>1 DEF Finished
  <2>3. Separated(q)' = Separated(q)
    BY DEF Separated
  <2> QED BY <2>1, <2>2, <2>3
<1>3. CallsInv(q)'
  BY DEF AnswerInv, CallsInv
<1>4. LengthInv(q)'
  <2>1. Clean(q)' = Clean(q)
    BY DEF Clean, Uncounted
  <2> QED BY <2>1, <1>1 DEF AnswerInv, LengthInv
<1>5. ArgsInv(q)'
  <2>1. \A n : CleanBefore(q, n)' <=> CleanBefore(q, n)
    BY DEF CleanBefore, Uncounted
  <2> QED BY <2>1 DEF AnswerInv, ArgsInv
<1>6. CollectInv(q)'
  <2>1. \A k : Uncounted(q, k)' <=> Uncounted(q, k)
    BY DEF Uncounted
  <2> QED BY <2>1, <1>1 DEF AnswerInv, CollectInv
<1>7. FollowedInv(q)'
  BY <1>1 DEF AnswerInv, FollowedInv
<1>8. BlocksInv(q)'
  BY <1>1 DEF AnswerInv, BlocksInv
<1> QED BY <1>3, <1>4, <1>5, <1>6, <1>7, <1>8

\* A request that a step does not touch.
LEMMA UntouchedAnswer ==
    ASSUME NEW q \in Requests, AnswerInv(q),
           stage'[q] = stage[q], mode'[q] = mode[q], ctx'[q] = ctx[q], calls'[q] = calls[q],
           blocks'[q] = blocks[q], input_json'[q] = input_json[q], reason'[q] = reason[q],
           after'[q] = after[q]
    PROVE  AnswerInv(q)'
<1>1. /\ CallsInv(q)' /\ LengthInv(q)' /\ ArgsInv(q)'
      /\ CollectInv(q)' /\ FollowedInv(q)' /\ BlocksInv(q)'
  BY SameAnswer
<1>2. IdleInv(q)'
  BY DEF AnswerInv, IdleInv
<1>3. ReasonInv(q)'
  BY DEF AnswerInv, ReasonInv
<1> QED BY <1>1, <1>2, <1>3 DEF AnswerInv

\* The piece of a message with an increment.
PieceOf(r, n, call) ==
    [call |-> n, from |-> IF call.streaming THEN ctx[r].raw_args_len ELSE 0, to |-> call.len]
IdOf(r, n, call) == [call |-> n, model |-> Replaced(ctx[r], call.model_call_id)]

\* The types of the piece and of its id.
LEMMA PieceOfTypes ==
    ASSUME CallsTypeInv, NEW r \in Requests, NEW n \in Nat, NEW call \in CallRecords,
           Increment(ctx[r], call) # Nil
    PROVE  /\ PieceOf(r, n, call) \in CallPieces
           /\ PieceOf(r, n, call).call = n /\ PieceOf(r, n, call).to = call.len
           /\ PieceOf(r, n, call).from = IF call.streaming THEN ctx[r].raw_args_len ELSE 0
           /\ \A s \in Seq(CallPieces) : Block(IdOf(r, n, call), s) \in ToolBlocks
           /\ IdOf(r, n, call).call = n
           /\ IdOf(r, n, call).model \in {Nil, Saved(ctx[r], call.model_call_id)}
<1>1. ctx[r] \in Contexts
  BY DEF CallsTypeInv
<1>2. /\ ctx[r].raw_args_len \in Nat /\ call.len \in Nat
      /\ (IF call.streaming THEN ctx[r].raw_args_len ELSE 0) < call.len
  BY <1>1, IncrementFacts DEF Contexts, CallRecords
<1>3. PieceOf(r, n, call) \in CallPieces
  BY <1>2 DEF PieceOf, CallPieces
<1>4. IdOf(r, n, call).model \in {Nil, Saved(ctx[r], call.model_call_id)} /\ IdOf(r, n, call).call = n
  BY <1>1, ContextFacts DEF IdOf
<1>5. IdOf(r, n, call) \in [call : Nat, model : Ids]
  <2>1. Replaced(ctx[r], call.model_call_id) \in Ids
    BY <1>1, ContextFacts DEF Ids
  <2> QED BY <2>1 DEF IdOf
<1> QED BY <1>3, <1>4, <1>5 DEF PieceOf, Block, ToolBlocks

\* What tool_message does to the answer of r.
Outcome(r, n, call, fresh) ==
    LET piece == PieceOf(r, n, call)
        id == IdOf(r, n, call)
        b == blocks[r]
        json == Append(IF fresh THEN <<>> ELSE input_json[r], piece)
        done == Finish(ctx[r], call) /\ IsWhole(json, n, call.len)
    IN
    \/ /\ Increment(ctx[r], call) = Nil
       /\ blocks' = blocks
       /\ input_json' = [input_json EXCEPT ![r] = IF fresh THEN <<>> ELSE input_json[r]]
    \/ /\ Increment(ctx[r], call) # Nil
       /\ mode[r] \in Streams /\ input_json' = input_json
       /\ Len(b) \in ToolsOf(b)
       /\ blocks' = [blocks EXCEPT ![r] = LastGrown(b, piece)]
    \/ /\ Increment(ctx[r], call) # Nil
       /\ mode[r] \in Streams \cup {"openai"} /\ input_json' = input_json
       /\ mode[r] \in Streams => Len(b) \notin ToolsOf(b)
       /\ blocks' = [blocks EXCEPT ![r] = Append(b, Block(id, <<piece>>))]
    \/ /\ Increment(ctx[r], call) # Nil
       /\ mode[r] = "anthropic" /\ done
       /\ blocks' = [blocks EXCEPT ![r] = Append(b, Block(id, json))]
       /\ input_json' = [input_json EXCEPT ![r] = <<>>]
    \/ /\ Increment(ctx[r], call) # Nil
       /\ mode[r] = "anthropic" /\ ~done
       /\ blocks' = blocks
       /\ input_json' = [input_json EXCEPT ![r] = json]

\* hand_on and hand_on_nothing have no other outcome.
LEMMA ToolOutcome ==
    ASSUME CallsTypeInv, NEW r \in Requests,
           NEW len, NEW space, NEW last, NEW streaming, NEW fresh \in BOOLEAN, NEW n, NEW call,
           ToolStep(r, len, space, last, streaming, fresh, n, call)
    PROVE  Outcome(r, n, call, fresh)
<1> DEFINE piece == PieceOf(r, n, call)
           id == IdOf(r, n, call)
           b == blocks[r]
           json == Append(IF fresh THEN <<>> ELSE input_json[r], piece)
           done == Finish(ctx[r], call) /\ IsWhole(json, n, call.len)
           i == Increment(ctx[r], call)
<1>1. /\ ctx[r] \in Contexts /\ call \in CallRecords
      /\ IF i = Nil THEN hand_on_nothing(r, fresh) ELSE hand_on(r, n, call, i, fresh)
  BY DEF CallsTypeInv, ToolStep
<1>2. CASE i = Nil
  BY <1>1, <1>2 DEF hand_on_nothing, Outcome
<1>3. CASE i # Nil
  <2>1. i[1] = (IF call.streaming THEN ctx[r].raw_args_len ELSE 0) /\ i[2] = call.len
    BY <1>1, <1>3, IncrementFacts
  <2>2. [call |-> n, from |-> i[1], to |-> i[2]] = piece
    BY <2>1 DEF PieceOf
  <2>3. [call |-> n, model |-> Replaced(ctx[r], call.model_call_id)] = id
    BY DEF IdOf
  <2> HIDE DEF piece, id, i
  <2>4. \/ /\ mode[r] \in Streams
           /\ blocks' = [blocks EXCEPT ![r] = Streamed(r, id, piece)]
           /\ input_json' = input_json
        \/ /\ mode[r] = "openai"
           /\ blocks' = [blocks EXCEPT ![r] = Append(b, Block(id, <<piece>>))]
           /\ input_json' = input_json
        \/ /\ mode[r] = "anthropic"
           /\ blocks' = IF done THEN [blocks EXCEPT ![r] = Append(b, Block(id, json))] ELSE blocks
           /\ input_json' = [input_json EXCEPT ![r] = Rest(json, done)]
    <3>1. hand_on(r, n, call, i, fresh)
      BY <1>1, <1>3 DEF i
    <3> QED BY <2>2, <2>3, <3>1 DEF hand_on
  <2>5. CASE mode[r] \in Streams
    <3>1. blocks' = [blocks EXCEPT ![r] = Streamed(r, id, piece)] /\ input_json' = input_json
      BY <2>4, <2>5
    <3>2. b \in Answered /\ Last(b) = b[Len(b)]
      BY DEF CallsTypeInv, Answered, Last
    <3>3. Len(b) \in ToolsOf(b) <=> b # <<>> /\ Last(b).kind = "tool"
      <4>1. Len(b) \in Nat /\ DOMAIN b = 1 .. Len(b)
        BY <3>2, BlockTypes
      <4>2. b # <<>> <=> Len(b) # 0
        BY <3>2, EmptySeq DEF Answered
      <4>3. Len(b) \in DOMAIN b <=> b # <<>>
        BY <4>1, <4>2
      <4> QED BY <4>3, <3>2 DEF ToolsOf
    <3>4. CASE Len(b) \in ToolsOf(b)
      <4>1. Streamed(r, id, piece) = LastGrown(b, piece)
        BY <3>3, <3>4 DEF Streamed, LastGrown
      <4> QED BY <4>1, <3>1, <3>4, <2>5, <1>3 DEF Outcome, i, piece
    <3>5. CASE Len(b) \notin ToolsOf(b)
      <4>1. Streamed(r, id, piece) = Append(b, Block(id, <<piece>>))
        BY <3>3, <3>5 DEF Streamed
      <4> QED BY <4>1, <3>1, <3>5, <2>5, <1>3 DEF Outcome, i, piece, id
    <3> QED BY <3>4, <3>5
  <2>6. CASE mode[r] = "openai"
    BY <2>4, <2>6, <1>3 DEF Outcome, i, piece, id
  <2>7. CASE mode[r] = "anthropic"
    <3>1. /\ blocks' = IF done THEN [blocks EXCEPT ![r] = Append(b, Block(id, json))] ELSE blocks
          /\ input_json' = [input_json EXCEPT ![r] = IF done THEN <<>> ELSE json]
      BY <2>4, <2>7 DEF Rest
    <3> HIDE DEF json
    <3> QED BY <3>1, <2>7, <1>3 DEF Outcome, i, piece, id, json
  <2> QED BY <2>4, <2>5, <2>6, <2>7
<1> QED BY <1>2, <1>3

\* The types after tool_message.
LEMMA ToolTypes ==
    ASSUME CallsTypeInv, NEW r \in Requests,
           NEW len, NEW space, NEW last, NEW streaming, NEW fresh \in BOOLEAN, NEW n, NEW call,
           ToolStep(r, len, space, last, streaming, fresh, n, call),
           UNCHANGED <<stage, mode, session, reason, store, overlapped, after>>
    PROVE  /\ CallsTypeInv'
           /\ ctx'[r] = NextContext(ctx[r], call)
           /\ \A q \in Requests : q # r => /\ ctx'[q] = ctx[q] /\ calls'[q] = calls[q]
                                           /\ blocks'[q] = blocks[q] /\ input_json'[q] = input_json[q]
<1> DEFINE b == blocks[r]
           piece == PieceOf(r, n, call)
           id == IdOf(r, n, call)
           json == Append(IF fresh THEN <<>> ELSE input_json[r], piece)
<1>0. /\ n \in Nat /\ call \in CallRecords /\ calls'[r] \in Seq(CallRecords)
      /\ calls' = [calls EXCEPT ![r] = calls'[r]]
      /\ ctx' = [ctx EXCEPT ![r] = NextContext(ctx[r], call)]
      /\ ctx[r] \in Contexts /\ b \in Answered
      /\ input_json[r] \in Seq(CallPieces)
  BY DEF ToolStep, CallsTypeInv, Answered
<1>1. /\ calls' \in [Requests -> Seq(CallRecords)]
      /\ \A q \in Requests : q # r => calls'[q] = calls[q]
  <2> DEFINE d == calls'[r]
  <2>1. d \in Seq(CallRecords) /\ calls' = [calls EXCEPT ![r] = d]
    BY <1>0
  <2> HIDE DEF d
  <2> QED BY <2>1 DEF CallsTypeInv
<1>2. /\ ctx' \in [Requests -> Contexts] /\ ctx'[r] = NextContext(ctx[r], call)
      /\ \A q \in Requests : q # r => ctx'[q] = ctx[q]
  <2>1. NextContext(ctx[r], call) \in Contexts
    BY <1>0, ContextFacts
  <2> QED BY <2>1, <1>0 DEF CallsTypeInv
<1>3. Increment(ctx[r], call) # Nil =>
        /\ piece \in CallPieces
        /\ \A s \in Seq(CallPieces) : Block(id, s) \in ToolBlocks
  BY <1>0, PieceOfTypes
<1> HIDE DEF piece, id
<1>4. Increment(ctx[r], call) # Nil => json \in Seq(CallPieces) /\ <<piece>> \in Seq(CallPieces)
  BY <1>0, <1>3
<1> HIDE DEF json
<1>5. /\ (\E c \in Answered : blocks' = [blocks EXCEPT ![r] = c]) \/ blocks' = blocks
      /\ (\E c \in Seq(CallPieces) : input_json' = [input_json EXCEPT ![r] = c]) \/ input_json' = input_json
  <2>1. \/ /\ Increment(ctx[r], call) = Nil
           /\ blocks' = blocks
           /\ input_json' = [input_json EXCEPT ![r] = IF fresh THEN <<>> ELSE input_json[r]]
        \/ /\ Increment(ctx[r], call) # Nil
           /\ input_json' = input_json
           /\ Len(b) \in ToolsOf(b)
           /\ blocks' = [blocks EXCEPT ![r] = LastGrown(b, piece)]
        \/ /\ Increment(ctx[r], call) # Nil
           /\ input_json' = input_json
           /\ blocks' = [blocks EXCEPT ![r] = Append(b, Block(id, <<piece>>))]
        \/ /\ Increment(ctx[r], call) # Nil
           /\ blocks' = [blocks EXCEPT ![r] = Append(b, Block(id, json))]
           /\ input_json' = [input_json EXCEPT ![r] = <<>>]
        \/ /\ Increment(ctx[r], call) # Nil
           /\ blocks' = blocks
           /\ input_json' = [input_json EXCEPT ![r] = json]
    <3>1. Outcome(r, n, call, fresh)
      BY ToolOutcome
    <3> QED BY <3>1 DEF Outcome, json, piece, id
  <2>2. CASE Increment(ctx[r], call) = Nil
    <3>1. (IF fresh THEN <<>> ELSE input_json[r]) \in Seq(CallPieces)
      BY <1>0
    <3> QED BY <2>1, <2>2, <3>1
  <2>3. CASE Increment(ctx[r], call) # Nil
    <3>1. Len(b) \in ToolsOf(b) => LastGrown(b, piece) \in Answered
      BY <2>3, <1>0, <1>3, LastBlockGrows
    <3>2. /\ Append(b, Block(id, <<piece>>)) \in Answered
          /\ Append(b, Block(id, json)) \in Answered
      BY <2>3, <1>0, <1>3, <1>4, BlockAdds
    <3>3. <<>> \in Seq(CallPieces)
      OBVIOUS
    <3> QED BY <2>1, <2>3, <3>1, <3>2, <3>3, <1>4
  <2> QED BY <2>2, <2>3
<1>6. /\ blocks' \in [Requests -> Answered]
      /\ \A q \in Requests : q # r => blocks'[q] = blocks[q]
  BY <1>5 DEF CallsTypeInv, Answered
<1>7. /\ input_json' \in [Requests -> Seq(CallPieces)]
      /\ \A q \in Requests : q # r => input_json'[q] = input_json[q]
  BY <1>5 DEF CallsTypeInv
<1>8. CallsTypeInv'
  BY <1>1, <1>2, <1>6, <1>7 DEF CallsTypeInv, Answered
<1> QED BY <1>1, <1>2, <1>6, <1>7, <1>8

\* The calls before and after tool_message, and the length kept.
ToolSummary(r, len, n, call) ==
    LET raw == ctx[r].raw_args_len IN
    /\ Finished(r)' <=> call.last
    /\ Current(r)' = call /\ calls'[r] # <<>>
    /\ \A k \in 1 .. n : k # n => /\ k \in DOMAIN calls[r] /\ calls'[r][k] = calls[r][k]
                                  /\ calls[r][k].last
                                  /\ Uncounted(r, k)' <=> Uncounted(r, k)
    /\ Uncounted(r, n)' <=> call.last /\ ~call.counted
    /\ \A k \in DOMAIN calls[r] : k \in 1 .. n
    /\ n \in DOMAIN calls[r] => ~calls[r][n].last /\ ~calls[r][n].counted
    /\ CleanBefore(r, n)' => Clean(r)
    /\ Clean(r) => raw <= len /\ (Finished(r) => raw = 0)
    /\ ~call.last => call.streaming
    /\ call.counted => call.last
    /\ Clean(r) /\ Increment(ctx[r], call) = Nil =>
         ~call.counted /\ NextContext(ctx[r], call).raw_args_len = raw
    /\ Clean(r) /\ Increment(ctx[r], call) # Nil =>
         /\ PieceOf(r, n, call).from = raw
         /\ ~call.last => NextContext(ctx[r], call).raw_args_len = len
    /\ call.counted => NextContext(ctx[r], call).raw_args_len = 0

\* Every tool_message does to the calls what ToolSummary says.
LEMMA ToolFacts ==
    ASSUME CallsTypeInv, NEW r \in Requests, CallsInv(r), LengthInv(r),
           NEW len \in Nat \ {0}, NEW space \in BOOLEAN, NEW last \in BOOLEAN,
           NEW streaming \in BOOLEAN, NEW fresh \in BOOLEAN, NEW n, NEW call,
           ToolStep(r, len, space, last, streaming, fresh, n, call),
           ~Finished(r) => len >= Current(r).len,
           ~streaming => last
    PROVE  ToolSummary(r, len, n, call)
<1> DEFINE N == Len(calls[r])
           raw == ctx[r].raw_args_len
<1>0. /\ N \in Nat /\ DOMAIN calls[r] = 1 .. N
      /\ n = IF Finished(r) THEN N + 1 ELSE N
      /\ n \in Nat \ {0} /\ DOMAIN calls'[r] = 1 .. n /\ Len(calls'[r]) = n
      /\ \A k \in 1 .. n : k # n => k \in DOMAIN calls[r] /\ calls'[r][k] = calls[r][k]
      /\ calls'[r][n] = call /\ call \in CallRecords /\ calls'[r] \in Seq(CallRecords)
      /\ call.len = len /\ call.space = space /\ call.last = last
      /\ call.counted = Finish(ctx[r], call)
      /\ Finished(r) => call.streaming = streaming
      /\ ~Finished(r) => /\ call.streaming = Current(r).streaming
                         /\ Current(r) = calls[r][n] /\ ~calls[r][n].last
  BY DEF ToolStep
<1>1. /\ ctx[r] \in Contexts /\ raw \in Nat
      /\ \A k \in DOMAIN calls[r] : calls[r][k] \in CallRecords /\ calls[r][k].len \in Nat
      /\ call.last \in BOOLEAN /\ call.streaming \in BOOLEAN /\ call.counted \in BOOLEAN
  <2>1. ctx[r] \in Contexts /\ calls[r] \in Seq(CallRecords)
    BY DEF CallsTypeInv
  <2>2. \A k \in DOMAIN calls[r] : calls[r][k] \in CallRecords
    BY <2>1, <1>0, ElementOfSeq
  <2> QED BY <2>1, <2>2, <1>0 DEF Contexts, CallRecords
<1>2. Current(r)' = call /\ calls'[r] # <<>> /\ (Finished(r)' <=> call.last)
  <2>1. calls'[r] # <<>>
    BY <1>0
  <2>2. Current(r)' = call
    BY <1>0 DEF Current, Last
  <2> QED BY <2>1, <2>2 DEF Finished
<1>3. \A k \in DOMAIN calls[r] : k \in 1 .. n
  BY <1>0
<1>4. Finished(r) => N = 0 \/ calls[r][N].last
  BY <1>0 DEF Finished, Current, Last
<1>5. ASSUME NEW k \in 1 .. n, k # n
      PROVE  /\ k \in DOMAIN calls[r] /\ calls'[r][k] = calls[r][k]
             /\ calls[r][k].last
             /\ Uncounted(r, k)' <=> Uncounted(r, k)
  <2>1. k \in DOMAIN calls[r] /\ calls'[r][k] = calls[r][k]
    BY <1>0, <1>5
  <2>2. calls[r][k].last
    <3>1. CASE k < N
      BY <3>1, <2>1 DEF CallsInv
    <3>2. CASE ~(k < N)
      <4>1. k = N /\ Finished(r) /\ N # 0
        BY <3>2, <1>0, <1>5
      <4> QED BY <4>1, <1>4
    <3> QED BY <3>1, <3>2
  <2> QED BY <2>1, <2>2 DEF Uncounted
<1>6. Uncounted(r, n)' <=> call.last /\ ~call.counted
  BY <1>0 DEF Uncounted
<1>7. n \in DOMAIN calls[r] => ~Finished(r) /\ ~calls[r][n].last /\ ~calls[r][n].counted /\ calls[r][n].streaming
  <2> SUFFICES ASSUME n \in DOMAIN calls[r]
               PROVE  ~Finished(r) /\ ~calls[r][n].last /\ ~calls[r][n].counted /\ calls[r][n].streaming
    OBVIOUS
  <2>1. ~Finished(r)
    BY <1>0
  <2> QED BY <2>1, <1>0, <1>1 DEF CallsInv
<1>8. ~Finished(r) => n \in DOMAIN calls[r]
  BY <1>0
<1>9. CleanBefore(r, n)' => Clean(r)
  <2> SUFFICES ASSUME CleanBefore(r, n)', NEW k \in DOMAIN calls[r] PROVE ~Uncounted(r, k)
    BY DEF Clean
  <2>1. k \in 1 .. n
    BY <1>3
  <2>2. CASE k = n
    BY <2>2, <1>7 DEF Uncounted
  <2>3. CASE k # n
    <3>1. k < n /\ k \in DOMAIN calls'[r]
      BY <2>1, <2>3, <1>0
    <3>2. ~(Uncounted(r, k)')
      BY <3>1 DEF CleanBefore
    <3> QED BY <3>2, <2>1, <2>3, <1>5
  <2> QED BY <2>2, <2>3
<1>10. Clean(r) => raw <= len /\ (Finished(r) => raw = 0)
  <2>1. CASE Finished(r)
    BY <2>1, <1>1 DEF LengthInv
  <2>2. CASE ~Finished(r)
    <3>1. Clean(r) => raw <= Current(r).len
      BY <2>2 DEF LengthInv
    <3>2. Current(r).len \in Nat /\ Current(r).len <= len
      BY <2>2, <1>0, <1>1, <1>8
    <3> QED BY <3>1, <3>2, <2>2, <1>1
  <2> QED BY <2>1, <2>2
<1>11. ~call.last => call.streaming
  BY <1>0, <1>7, <1>8
<1>12. ~call.streaming => Finished(r)
  BY <1>0, <1>7, <1>8
<1>13. call.counted => call.last /\ ~Skipped(ctx[r], call)
  BY <1>0, <1>11 DEF Finish
<1>14. Clean(r) /\ Increment(ctx[r], call) = Nil =>
         ~call.counted /\ NextContext(ctx[r], call).raw_args_len = raw
  <2> SUFFICES ASSUME Clean(r), Increment(ctx[r], call) = Nil
               PROVE  ~call.counted /\ NextContext(ctx[r], call).raw_args_len = raw
    OBVIOUS
  <2>1. call.streaming /\ (Skipped(ctx[r], call) \/ len <= raw)
    BY <1>0, <1>1, IncrementFacts
  <2>2. ~Skipped(ctx[r], call) => len # raw
    BY <2>1, <1>0 DEF Skipped
  <2>3. Skipped(ctx[r], call)
    BY <2>1, <2>2, <1>1, <1>10
  <2>4. ~Finish(ctx[r], call)
    BY <2>3 DEF Finish
  <2> QED BY <2>3, <2>4, <1>0, <1>1, ContextFacts
<1>15. Clean(r) /\ Increment(ctx[r], call) # Nil =>
         /\ PieceOf(r, n, call).from = raw
         /\ ~call.last => NextContext(ctx[r], call).raw_args_len = len
  <2> SUFFICES ASSUME Clean(r), Increment(ctx[r], call) # Nil
               PROVE  /\ PieceOf(r, n, call).from = raw
                      /\ ~call.last => NextContext(ctx[r], call).raw_args_len = len
    OBVIOUS
  <2>1. PieceOf(r, n, call).from = IF call.streaming THEN raw ELSE 0
    BY DEF PieceOf
  <2>2. PieceOf(r, n, call).from = raw
    BY <2>1, <1>10, <1>12
  <2>3. ASSUME ~call.last PROVE NextContext(ctx[r], call).raw_args_len = len
    <3>1. call.streaming /\ ~Finish(ctx[r], call)
      BY <2>3, <1>0, <1>11, <1>13
    <3>2. ~Skipped(ctx[r], call) /\ ~(len <= raw)
      BY <3>1, <1>0, <1>1, IncrementFacts
    <3>3. call.len > ctx[r].raw_args_len
      BY <3>2, <1>0, <1>1
    <3>4. NextContext(ctx[r], call).raw_args_len =
             IF ~Skipped(ctx[r], call) /\ call.len > ctx[r].raw_args_len THEN call.len
             ELSE ctx[r].raw_args_len
      BY <3>1, <1>0, <1>1, ContextFacts
    <3> QED BY <3>2, <3>3, <3>4, <1>0
  <2> QED BY <2>2, <2>3
<1>16. call.counted => NextContext(ctx[r], call).raw_args_len = 0
  BY <1>0, <1>1, ContextFacts
<1> QED BY <1>2, <1>3, <1>5, <1>6, <1>7, <1>9, <1>10, <1>11, <1>13, <1>14, <1>15, <1>16 DEF ToolSummary

\* The same of the answer of r alone.
OutcomeAt(r, n, call, fresh) ==
    LET piece == PieceOf(r, n, call)
        id == IdOf(r, n, call)
        b == blocks[r]
        json == Append(IF fresh THEN <<>> ELSE input_json[r], piece)
        done == Finish(ctx[r], call) /\ IsWhole(json, n, call.len)
    IN
    \/ /\ Increment(ctx[r], call) = Nil
       /\ blocks'[r] = b
       /\ input_json'[r] = IF fresh THEN <<>> ELSE input_json[r]
    \/ /\ Increment(ctx[r], call) # Nil
       /\ mode[r] \in Streams
       /\ Len(b) \in ToolsOf(b)
       /\ blocks'[r] = LastGrown(b, piece)
    \/ /\ Increment(ctx[r], call) # Nil
       /\ mode[r] \in Streams \cup {"openai"}
       /\ mode[r] \in Streams => Len(b) \notin ToolsOf(b)
       /\ blocks'[r] = Append(b, Block(id, <<piece>>))
    \/ /\ Increment(ctx[r], call) # Nil
       /\ mode[r] = "anthropic" /\ done
       /\ blocks'[r] = Append(b, Block(id, json))
       /\ input_json'[r] = <<>>
    \/ /\ Increment(ctx[r], call) # Nil
       /\ mode[r] = "anthropic" /\ ~done
       /\ blocks'[r] = b
       /\ input_json'[r] = json

\* It follows from the outcome for all requests.
LEMMA ToolOutcomeAt ==
    ASSUME CallsTypeInv, NEW r \in Requests,
           NEW len, NEW space, NEW last, NEW streaming, NEW fresh \in BOOLEAN, NEW n, NEW call,
           ToolStep(r, len, space, last, streaming, fresh, n, call)
    PROVE  OutcomeAt(r, n, call, fresh)
<1> DEFINE piece == PieceOf(r, n, call)
           id == IdOf(r, n, call)
           json == Append(IF fresh THEN <<>> ELSE input_json[r], piece)
           done == Finish(ctx[r], call) /\ IsWhole(json, n, call.len)
<1>1. Outcome(r, n, call, fresh)
  BY ToolOutcome
<1>2. /\ blocks \in [Requests -> Seq({Text} \cup ToolBlocks)]
      /\ input_json \in [Requests -> Seq(CallPieces)]
  BY DEF CallsTypeInv
<1>3. \A c : /\ blocks' = [blocks EXCEPT ![r] = c] => blocks'[r] = c
             /\ input_json' = [input_json EXCEPT ![r] = c] => input_json'[r] = c
  BY <1>2
<1> QED BY <1>1, <1>3 DEF Outcome, OutcomeAt

\* tool_message keeps what holds of the calls and of the blocks' ids.
LEMMA ToolKeepsCalls ==
    ASSUME CallsTypeInv, NEW r \in Requests, CallsInv(r),
           NEW len \in Nat \ {0}, NEW space \in BOOLEAN, NEW last \in BOOLEAN,
           NEW streaming \in BOOLEAN, NEW fresh \in BOOLEAN, NEW n, NEW call,
           ToolStep(r, len, space, last, streaming, fresh, n, call),
           ToolSummary(r, len, n, call), ctx'[r] = NextContext(ctx[r], call)
    PROVE  CallsInv(r)'
<1> DEFINE b == blocks[r]
           piece == PieceOf(r, n, call)
           id == IdOf(r, n, call)
           json == Append(IF fresh THEN <<>> ELSE input_json[r], piece)
<1>0. /\ n \in Nat \ {0} /\ call \in CallRecords /\ Len(calls'[r]) = n
      /\ DOMAIN calls'[r] = 1 .. n /\ calls'[r][n] = call
      /\ call.counted = Finish(ctx[r], call)
      /\ ctx[r] \in Contexts /\ b \in Answered /\ input_json[r] \in Seq(CallPieces)
      /\ Finished(r) => ~call.followed
      /\ ~Finished(r) => /\ call.followed = Current(r).followed
                         /\ Current(r) = calls[r][n] /\ ~calls[r][n].last
      /\ n = IF Finished(r) THEN Len(calls[r]) + 1 ELSE Len(calls[r])
      /\ Len(calls[r]) \in Nat /\ DOMAIN calls[r] = 1 .. Len(calls[r])
  BY DEF ToolStep, CallsTypeInv, Answered
<1>1. /\ \A k \in 1 .. n : k # n => /\ k \in DOMAIN calls[r] /\ calls'[r][k] = calls[r][k]
                                    /\ calls[r][k].last
      /\ \A k \in DOMAIN calls[r] : k \in 1 .. n
      /\ n \in DOMAIN calls[r] => ~calls[r][n].last /\ ~calls[r][n].counted
      /\ ~call.last => call.streaming
      /\ call.counted => call.last
  BY DEF ToolSummary
<1>2. ~Finished(r) => n \in DOMAIN calls[r]
  BY <1>0
<1>3. ~call.followed
  BY <1>0, <1>2 DEF CallsInv
<1>4. \A k \in DOMAIN calls'[r] :
          /\ k < Len(calls'[r]) => calls'[r][k].last
          /\ calls'[r][k].counted => calls'[r][k].last
          /\ calls'[r][k].followed => calls'[r][k].last
          /\ ~calls'[r][k].last => calls'[r][k].streaming
  <2> SUFFICES ASSUME NEW k \in 1 .. n
               PROVE  /\ k < n => calls'[r][k].last
                      /\ calls'[r][k].counted => calls'[r][k].last
                      /\ calls'[r][k].followed => calls'[r][k].last
                      /\ ~calls'[r][k].last => calls'[r][k].streaming
    BY <1>0
  <2>1. CASE k = n
    BY <2>1, <1>0, <1>1, <1>3
  <2>2. CASE k # n
    BY <2>2, <1>1
  <2> QED BY <2>1, <2>2
<1>5. (\E k \in DOMAIN calls'[r] : calls'[r][k].counted) <=> ctx'[r].processed # 0
  <2>1. ctx'[r].processed # 0 <=> ctx[r].processed # 0 \/ call.counted
    BY <1>0, ContextFacts
  <2>2. (\E k \in DOMAIN calls[r] : calls[r][k].counted) <=> ctx[r].processed # 0
    BY DEF CallsInv
  <2>3. ASSUME NEW k \in DOMAIN calls[r], calls[r][k].counted
        PROVE  k \in DOMAIN calls'[r] /\ calls'[r][k].counted
    BY <2>3, <1>0, <1>1
  <2>4. ASSUME NEW k \in DOMAIN calls'[r], calls'[r][k].counted
        PROVE  call.counted \/ (k \in DOMAIN calls[r] /\ calls[r][k].counted)
    BY <2>4, <1>0, <1>1
  <2>5. n \in DOMAIN calls'[r]
    BY <1>0
  <2> QED BY <2>1, <2>2, <2>3, <2>4, <2>5, <1>0
<1> DEFINE saved == ctx'[r].saved_model_call_id
           Good(x) == /\ x.id.call \in 1 .. n
                      /\ x.id.model \in {Nil, saved}
                      /\ \A j \in DOMAIN x.pieces : x.pieces[j].call \in 1 .. n
<1>6. \A i \in ToolsOf(b) : Good(b[i])
  <2>1. ctx[r].saved_model_call_id # Nil => saved = ctx[r].saved_model_call_id
    BY <1>0, ContextFacts
  <2>2. \A i \in ToolsOf(b) :
          /\ b[i].id.call \in DOMAIN calls[r]
          /\ b[i].id.model \in {Nil, ctx[r].saved_model_call_id}
          /\ \A j \in DOMAIN b[i].pieces : b[i].pieces[j].call \in DOMAIN calls[r]
    BY DEF CallsInv
  <2> HIDE DEF saved
  <2> QED BY <2>1, <2>2, <1>1
<1>7. n \in 1 .. n
  BY <1>0
<1>8. \A i \in ToolsOf(blocks'[r]) : Good(blocks'[r][i])
  <2>1. CASE blocks'[r] = b
    BY <2>1, <1>6
  <2>2. ASSUME Increment(ctx[r], call) # Nil
        PROVE  /\ piece \in CallPieces /\ piece.call = n
               /\ \A s \in Seq(CallPieces) : Block(id, s) \in ToolBlocks
               /\ id.call = n /\ id.model \in {Nil, saved}
    BY <2>2, <1>0, PieceOfTypes, ContextFacts
  <2> HIDE DEF piece, id, saved
  <2>3. CASE /\ Increment(ctx[r], call) # Nil /\ Len(b) \in ToolsOf(b)
             /\ blocks'[r] = LastGrown(b, piece)
    <3> DEFINE c == LastGrown(b, piece)
    <3>1. /\ ToolsOf(c) = ToolsOf(b)
          /\ \A i \in ToolsOf(b) : i # Len(b) => c[i] = b[i]
          /\ c[Len(b)].pieces = Append(b[Len(b)].pieces, piece)
          /\ c[Len(b)].id = b[Len(b)].id
      BY <2>2, <2>3, <1>0, LastBlockGrows
    <3> HIDE DEF c
    <3>2. Good(c[Len(b)])
      <4> DEFINE s == b[Len(b)].pieces
      <4>1. s \in Seq(CallPieces) /\ Good(b[Len(b)])
        BY <2>3, <1>0, <1>6, BlockTypes DEF ToolBlocks
      <4>2. \A j \in DOMAIN Append(s, piece) :
               (j \in DOMAIN s /\ Append(s, piece)[j] = s[j]) \/ Append(s, piece)[j] = piece
        BY <4>1
      <4>3. \A j \in DOMAIN Append(s, piece) : Append(s, piece)[j].call \in 1 .. n
        BY <4>1, <4>2, <2>2, <2>3, <1>7
      <4> HIDE DEF s
      <4> QED BY <4>1, <4>3, <3>1 DEF s
    <3> HIDE DEF Good
    <3> QED BY <3>1, <3>2, <2>3, <1>6 DEF c
  <2>4. ASSUME NEW s \in Seq(CallPieces), Increment(ctx[r], call) # Nil,
               \A j \in DOMAIN s : s[j].call = n,
               blocks'[r] = Append(b, Block(id, s))
        PROVE  \A i \in ToolsOf(blocks'[r]) : Good(blocks'[r][i])
    <3> DEFINE x == Block(id, s)
               c == Append(b, x)
    <3>1. x \in ToolBlocks /\ x.id = id /\ x.pieces = s
      BY <2>2, <2>4 DEF Block
    <3>2. Good(x)
      BY <3>1, <2>2, <2>4, <1>7
    <3> HIDE DEF x
    <3>3. /\ ToolsOf(c) = ToolsOf(b) \cup {Len(b) + 1} /\ c[Len(b) + 1] = x
          /\ \A i \in ToolsOf(b) : c[i] = b[i]
      <4>1. b \in Answered /\ x \in ToolBlocks
        BY <3>1, <1>0
      <4> HIDE DEF b
      <4> QED BY <4>1, BlockAdds
    <3> HIDE DEF Good, c
    <3>4. \A i \in ToolsOf(c) : Good(c[i])
      BY <3>2, <3>3, <1>6
    <3> QED BY <3>4, <2>4 DEF c, x
  <2>5. CASE Increment(ctx[r], call) # Nil /\ blocks'[r] = Append(b, Block(id, <<piece>>))
    <3>1. <<piece>> \in Seq(CallPieces) /\ \A j \in DOMAIN <<piece>> : <<piece>>[j].call = n
      BY <2>2, <2>5
    <3> QED BY <3>1, <2>4, <2>5
  <2>6. CASE /\ Increment(ctx[r], call) # Nil /\ IsWhole(json, n, call.len)
             /\ blocks'[r] = Append(b, Block(id, json))
    <3>1. json \in Seq(CallPieces) /\ \A j \in DOMAIN json : json[j].call = n
      BY <2>2, <2>6, <1>0 DEF IsWhole
    <3> HIDE DEF json
    <3> QED BY <3>1, <2>4, <2>6
  <2>7. OutcomeAt(r, n, call, fresh)
    BY ToolOutcomeAt
  <2> HIDE DEF Good
  <2> QED BY <2>1, <2>3, <2>5, <2>6, <2>7 DEF OutcomeAt, piece, id
<1> QED BY <1>0, <1>4, <1>5, <1>8 DEF CallsInv

\* tool_message keeps what holds of the length kept.
LEMMA ToolKeepsLength ==
    ASSUME CallsTypeInv, NEW r \in Requests, LengthInv(r),
           NEW len \in Nat \ {0}, NEW space \in BOOLEAN, NEW last \in BOOLEAN,
           NEW streaming \in BOOLEAN, NEW fresh \in BOOLEAN, NEW n, NEW call,
           ToolStep(r, len, space, last, streaming, fresh, n, call),
           ToolSummary(r, len, n, call), ctx'[r] = NextContext(ctx[r], call)
    PROVE  LengthInv(r)'
<1>0. /\ n \in Nat \ {0} /\ DOMAIN calls'[r] = 1 .. n /\ call.len = len
      /\ ctx[r] \in Contexts /\ ctx[r].raw_args_len \in Nat
  BY DEF ToolStep, CallsTypeInv, Contexts
<1> SUFFICES ASSUME Clean(r)'
             PROVE  IF Finished(r)' THEN ctx'[r].raw_args_len = 0
                    ELSE ctx'[r].raw_args_len <= (Current(r)').len
  BY DEF LengthInv
<1>1. CleanBefore(r, n)' /\ ~(Uncounted(r, n)')
  <2>1. n \in DOMAIN calls'[r]
    BY <1>0
  <2> QED BY <2>1 DEF Clean, CleanBefore
<1>2. Clean(r)
  BY <1>1 DEF ToolSummary
<1>3. CASE Finished(r)'
  BY <1>1, <1>3 DEF ToolSummary
<1>4. CASE ~(Finished(r)')
  <2>1. ~call.last /\ Current(r)' = call /\ ctx[r].raw_args_len <= len
    BY <1>2, <1>4 DEF ToolSummary
  <2>2. ctx'[r].raw_args_len \in {len, ctx[r].raw_args_len}
    BY <2>1, <1>2 DEF ToolSummary
  <2> QED BY <2>1, <2>2, <1>0, <1>4
<1> QED BY <1>3, <1>4

\* No piece is of a call that has not come.
LEMMA NoPieces ==
    ASSUME CallsTypeInv, NEW r \in Requests, CallsInv(r), NEW n, n \notin DOMAIN calls[r]
    PROVE  PlacesOf(blocks[r], n) = {}
<1> DEFINE b == blocks[r]
<1>1. b \in Answered
  BY DEF CallsTypeInv, Answered
<1>2. \A i \in ToolsOf(b) : \A j \in DOMAIN b[i].pieces : b[i].pieces[j].call \in DOMAIN calls[r]
  BY DEF CallsInv
<1> HIDE DEF b
<1>3. ASSUME NEW p \in Places(b) PROVE PieceAt(b, p).call # n
  <2>1. p[1] \in ToolsOf(b) /\ p[2] \in DOMAIN b[p[1]].pieces
    BY <1>1, PieceTypes
  <2> QED BY <2>1, <1>2 DEF PieceAt
<1> QED BY <1>3 DEF PlacesOf, b

\* A piece handed on at once makes the answer grow by that piece.
LEMMA HandedOn ==
    ASSUME CallsTypeInv, NEW r \in Requests, mode[r] \in Streams \cup {"openai"},
           NEW n \in Nat, NEW call \in CallRecords, NEW fresh \in BOOLEAN,
           OutcomeAt(r, n, call, fresh)
    PROVE  /\ Increment(ctx[r], call) = Nil => blocks'[r] = blocks[r]
           /\ Increment(ctx[r], call) # Nil =>
                Grown(blocks[r], blocks'[r], PieceOf(r, n, call))
<1> DEFINE b == blocks[r]
           piece == PieceOf(r, n, call)
           id == IdOf(r, n, call)
<1>1. b \in Answered
  BY DEF CallsTypeInv, Answered
<1>2. Increment(ctx[r], call) = Nil => blocks'[r] = b
  BY DEF OutcomeAt
<1>3. ASSUME Increment(ctx[r], call) # Nil PROVE Grown(b, blocks'[r], piece)
  <2>1. piece \in CallPieces /\ \A s \in Seq(CallPieces) : Block(id, s) \in ToolBlocks
    BY <1>3, PieceOfTypes
  <2>2. \/ Len(b) \in ToolsOf(b) /\ blocks'[r] = LastGrown(b, piece)
        \/ blocks'[r] = Append(b, Block(id, <<piece>>))
    BY <1>3 DEF OutcomeAt
  <2> HIDE DEF b, piece, id
  <2>3. CASE Len(b) \in ToolsOf(b) /\ blocks'[r] = LastGrown(b, piece)
    BY <2>1, <2>3, <1>1, LastBlockGrows
  <2>4. CASE blocks'[r] = Append(b, Block(id, <<piece>>))
    <3>1. <<piece>> \in Seq(CallPieces)
      BY <2>1
    <3>2. Block(id, <<piece>>) \in ToolBlocks
      BY <3>1, <2>1
    <3> QED BY <3>2, <2>1, <2>4, <1>1, NewBlockGrows
  <2> QED BY <2>2, <2>3, <2>4
<1> QED BY <1>2, <1>3

\* tool_message keeps what was handed on of each call.
LEMMA ToolKeepsArgs ==
    ASSUME CallsTypeInv, NEW r \in Requests, CallsInv(r), ArgsInv(r),
           NEW len \in Nat \ {0}, NEW space \in BOOLEAN, NEW last \in BOOLEAN,
           NEW streaming \in BOOLEAN, NEW fresh \in BOOLEAN, NEW n, NEW call,
           ToolStep(r, len, space, last, streaming, fresh, n, call),
           ToolSummary(r, len, n, call), ctx'[r] = NextContext(ctx[r], call), mode' = mode
    PROVE  ArgsInv(r)'
<1> DEFINE b == blocks[r]
           c == blocks'[r]
           raw == ctx[r].raw_args_len
           piece == PieceOf(r, n, call)
<1> SUFFICES ASSUME mode[r] \in Streams \cup {"openai"},
                    NEW k \in DOMAIN calls'[r], CleanBefore(r, k)'
             PROVE  /\ calls'[r][k].counted => InFull(c, k, calls'[r][k].len)
                    /\ ~calls'[r][k].last => InFull(c, k, ctx'[r].raw_args_len)
  BY DEF ArgsInv
<1>0. /\ n \in Nat \ {0} /\ call \in CallRecords /\ call.len = len
      /\ DOMAIN calls'[r] = 1 .. n /\ calls'[r][n] = call
      /\ b \in Answered
      /\ n = IF Finished(r) THEN Len(calls[r]) + 1 ELSE Len(calls[r])
      /\ Len(calls[r]) \in Nat /\ DOMAIN calls[r] = 1 .. Len(calls[r])
  BY DEF ToolStep, CallsTypeInv, Answered
<1>1. \A j \in DOMAIN calls[r] : CleanBefore(r, j) =>
            /\ calls[r][j].counted => InFull(b, j, calls[r][j].len)
            /\ ~calls[r][j].last => InFull(b, j, raw)
  BY DEF ArgsInv
<1>2. /\ Increment(ctx[r], call) = Nil => c = b
      /\ Increment(ctx[r], call) # Nil => Grown(b, c, piece)
  BY <1>0, ToolOutcomeAt, HandedOn
<1>3. Increment(ctx[r], call) # Nil => piece \in CallPieces /\ piece.call = n /\ piece.to = len
  BY <1>0, PieceOfTypes
<1> HIDE DEF b, c, piece, raw
<1>4. CASE k # n
  <2>1. k \in DOMAIN calls[r] /\ calls'[r][k] = calls[r][k] /\ calls[r][k].last
    BY <1>0, <1>4 DEF ToolSummary
  <2>2. CleanBefore(r, k)
    <3> SUFFICES ASSUME NEW j \in DOMAIN calls[r], j < k PROVE ~Uncounted(r, j)
      BY DEF CleanBefore
    <3>1. j \in 1 .. n /\ j # n
      BY <1>0, <2>1
    <3>2. ~(Uncounted(r, j)')
      BY <3>1, <1>0 DEF CleanBefore
    <3> QED BY <3>1, <3>2 DEF ToolSummary
  <2>3. ASSUME calls[r][k].counted PROVE InFull(c, k, calls[r][k].len)
    <3>1. InFull(b, k, calls[r][k].len)
      BY <2>1, <2>2, <2>3, <1>1
    <3>2. CASE Increment(ctx[r], call) = Nil
      BY <3>1, <3>2, <1>2
    <3>3. CASE Increment(ctx[r], call) # Nil
      BY <3>1, <3>3, <1>0, <1>2, <1>3, <1>4, GrownFull
    <3> QED BY <3>2, <3>3
  <2> QED BY <2>1, <2>3
<1>5. CASE k = n
  <2>1. Clean(r)
    BY <1>5 DEF ToolSummary
  <2>2. InFull(b, n, raw)
    <3>1. CASE n \in DOMAIN calls[r]
      <4>1. CleanBefore(r, n) /\ ~calls[r][n].last
        BY <2>1, <3>1 DEF Clean, CleanBefore, ToolSummary
      <4> QED BY <4>1, <3>1, <1>1
    <3>2. CASE n \notin DOMAIN calls[r]
      <4>1. Finished(r)
        BY <3>2, <1>0
      <4>2. raw = 0
        BY <4>1, <2>1 DEF ToolSummary, raw
      <4>3. PlacesOf(b, n) = {}
        BY <3>2, NoPieces DEF b
      <4> QED BY <4>2, <4>3, NothingFull
    <3> QED BY <3>1, <3>2
  <2>3. CASE Increment(ctx[r], call) = Nil
    <3>1. ~call.counted /\ ctx'[r].raw_args_len = raw
      BY <2>1, <2>3 DEF ToolSummary, raw
    <3> QED BY <3>1, <2>2, <2>3, <1>0, <1>2, <1>5
  <2>4. CASE Increment(ctx[r], call) # Nil
    <3>1. piece.from = raw /\ (~call.last => ctx'[r].raw_args_len = len)
      BY <2>1, <2>4 DEF ToolSummary, raw, piece
    <3>2. InFull(c, n, len)
      BY <3>1, <2>2, <2>4, <1>0, <1>2, <1>3, GrownFull
    <3> QED BY <3>1, <3>2, <1>0, <1>5
  <2> QED BY <2>3, <2>4
<1> QED BY <1>4, <1>5

\* What handle_messages has collected when the message is there: all of the
\* current call that came before, unless a call was spread or ended uncounted.
LEMMA CollectedSoFar ==
    ASSUME CallsTypeInv, NEW r \in Requests, CallsInv(r), CollectInv(r), mode[r] = "anthropic",
           NEW len \in Nat \ {0}, NEW space \in BOOLEAN, NEW last \in BOOLEAN,
           NEW streaming \in BOOLEAN, NEW fresh \in BOOLEAN, NEW n, NEW call,
           ToolStep(r, len, space, last, streaming, fresh, n, call),
           ToolSummary(r, len, n, call),
           \A k \in DOMAIN calls'[r] : ~(Uncounted(r, k)') /\ ~calls'[r][k].spread
    PROVE  /\ Clean(r)
           /\ PiecesFull(IF fresh THEN <<>> ELSE input_json[r], n, ctx[r].raw_args_len)
<1> DEFINE raw == ctx[r].raw_args_len
<1>0. /\ n \in Nat \ {0} /\ DOMAIN calls'[r] = 1 .. n /\ calls'[r][n] = call /\ n \in DOMAIN calls'[r]
      /\ n = IF Finished(r) THEN Len(calls[r]) + 1 ELSE Len(calls[r])
      /\ ~Finished(r) => /\ call.spread = (Current(r).spread \/ fresh)
                         /\ Current(r) = calls[r][n] /\ ~calls[r][n].last
  BY DEF ToolStep
<1>1. Clean(r)
  <2>1. CleanBefore(r, n)'
    BY DEF CleanBefore
  <2> QED BY <2>1 DEF ToolSummary
<1>2. \A k \in DOMAIN calls[r] : ~Uncounted(r, k) /\ ~calls[r][k].spread
  <2> SUFFICES ASSUME NEW k \in DOMAIN calls[r] PROVE ~calls[r][k].spread
    BY <1>1 DEF Clean
  <2>1. k \in 1 .. n
    BY DEF ToolSummary
  <2>2. ~calls'[r][k].spread
    BY <2>1, <1>0
  <2>3. CASE k # n
    BY <2>1, <2>2, <2>3 DEF ToolSummary
  <2>4. CASE k = n
    <3>1. ~Finished(r)
      BY <2>4, <1>0 DEF ToolStep
    <3> QED BY <3>1, <2>2, <2>4, <1>0
  <2> QED BY <2>3, <2>4
<1>3. IF Finished(r) THEN input_json[r] = <<>> ELSE PiecesFull(input_json[r], Len(calls[r]), raw)
  BY <1>2 DEF CollectInv
<1>4. CASE Finished(r)
  <2>1. raw = 0
    BY <1>1, <1>4 DEF ToolSummary
  <2>2. (IF fresh THEN <<>> ELSE input_json[r]) = <<>>
    BY <1>3, <1>4
  <2> QED BY <2>1, <2>2, <1>1, PiecesNone
<1>5. CASE ~Finished(r)
  <2>1. ~fresh
    <3>1. ~call.spread
      BY <1>0
    <3> QED BY <3>1, <1>0, <1>5
  <2> QED BY <2>1, <1>0, <1>1, <1>3, <1>5
<1> QED BY <1>4, <1>5

\* tool_message keeps what handle_messages collects and answers.
LEMMA ToolKeepsCollect ==
    ASSUME CallsTypeInv, NEW r \in Requests, CallsInv(r), CollectInv(r),
           NEW len \in Nat \ {0}, NEW space \in BOOLEAN, NEW last \in BOOLEAN,
           NEW streaming \in BOOLEAN, NEW fresh \in BOOLEAN, NEW n, NEW call,
           ToolStep(r, len, space, last, streaming, fresh, n, call),
           ToolSummary(r, len, n, call), ctx'[r] = NextContext(ctx[r], call), mode' = mode
    PROVE  CollectInv(r)'
<1> DEFINE b == blocks[r]
           c == blocks'[r]
           raw == ctx[r].raw_args_len
           piece == PieceOf(r, n, call)
           id == IdOf(r, n, call)
           json0 == IF fresh THEN <<>> ELSE input_json[r]
           json == Append(json0, piece)
           done == Finish(ctx[r], call) /\ IsWhole(json, n, call.len)
           Good(k) == ~(Uncounted(r, k)') /\ ~calls'[r][k].spread
<1> SUFFICES ASSUME mode[r] = "anthropic"
             PROVE  /\ \A k : PlacesOf(c, k) # {} => k \in DOMAIN calls'[r] /\ calls'[r][k].counted
                    /\ \A k \in DOMAIN calls'[r] :
                          calls'[r][k].counted /\ (\A j \in DOMAIN calls'[r] : j <= k => Good(j))
                            => InFull(c, k, calls'[r][k].len)
                    /\ (\A j \in DOMAIN calls'[r] : Good(j))
                          => IF Finished(r)' THEN input_json'[r] = <<>>
                             ELSE PiecesFull(input_json'[r], Len(calls'[r]), ctx'[r].raw_args_len)
  BY DEF CollectInv
<1>0. /\ n \in Nat \ {0} /\ call \in CallRecords /\ call.len = len /\ Len(calls'[r]) = n
      /\ DOMAIN calls'[r] = 1 .. n /\ calls'[r][n] = call /\ n \in DOMAIN calls'[r]
      /\ call.counted = Finish(ctx[r], call)
      /\ b \in Answered /\ json0 \in Seq(CallPieces)
  <2>1. b \in Answered /\ json0 \in Seq(CallPieces)
    BY DEF CallsTypeInv, Answered
  <2>2. n \in 1 .. n <=> n \in Nat \ {0}
    BY DEF ToolStep
  <2> HIDE DEF b, json0
  <2> QED BY <2>1, <2>2 DEF ToolStep
<1>1. /\ \A k : PlacesOf(b, k) # {} => k \in DOMAIN calls[r] /\ calls[r][k].counted
      /\ \A k \in DOMAIN calls[r] :
            calls[r][k].counted
            /\ (\A j \in DOMAIN calls[r] : j <= k => ~Uncounted(r, j) /\ ~calls[r][j].spread)
              => InFull(b, k, calls[r][k].len)
  BY DEF CollectInv
<1>2. \/ Increment(ctx[r], call) = Nil /\ c = b /\ input_json'[r] = json0
      \/ /\ Increment(ctx[r], call) # Nil /\ done
         /\ c = Append(b, Block(id, json)) /\ input_json'[r] = <<>>
      \/ Increment(ctx[r], call) # Nil /\ ~done /\ c = b /\ input_json'[r] = json
  <2>1. OutcomeAt(r, n, call, fresh)
    BY ToolOutcomeAt
  <2> QED BY <2>1 DEF OutcomeAt
<1>3. Increment(ctx[r], call) # Nil =>
        /\ piece \in CallPieces /\ piece.call = n /\ piece.to = len
        /\ json \in Seq(CallPieces)
        /\ \A s \in Seq(CallPieces) : Block(id, s) \in ToolBlocks
  <2>1. Increment(ctx[r], call) # Nil =>
        /\ piece \in CallPieces /\ piece.call = n /\ piece.to = len
        /\ \A s \in Seq(CallPieces) : Block(id, s) \in ToolBlocks
    BY <1>0, PieceOfTypes
  <2> HIDE DEF piece, json0
  <2> QED BY <2>1, <1>0
<1>4. (\A j \in DOMAIN calls'[r] : Good(j)) => Clean(r) /\ PiecesFull(json0, n, raw)
  BY CollectedSoFar
<1> HIDE DEF b, c, piece, id, json0, json, raw
<1>5. PlacesOf(b, n) = {}
  BY <1>1 DEF ToolSummary
<1>6. ASSUME Increment(ctx[r], call) # Nil, done, c = Append(b, Block(id, json))
      PROVE  /\ PiecesFull(json, n, len) => InFull(c, n, len)
             /\ \A k : k # n => PlacesOf(c, k) = PlacesOf(b, k)
             /\ \A k, l : k # n /\ InFull(b, k, l) => InFull(c, k, l)
  <2> DEFINE x == Block(id, json)
  <2>1. x \in ToolBlocks /\ x.pieces = json
    BY <1>3, <1>6 DEF Block
  <2>2. \A j \in DOMAIN json : json[j].call = n
    BY <1>6 DEF IsWhole
  <2>3. c = Append(b, x)
    BY <1>6
  <2> HIDE DEF x
  <2>4. \A j \in DOMAIN x.pieces : x.pieces[j].call = n
    BY <2>1, <2>2
  <2>5. /\ PlacesOf(b, n) = {} /\ PiecesFull(x.pieces, n, len) => InFull(Append(b, x), n, len)
        /\ \A k : k # n => PlacesOf(Append(b, x), k) = PlacesOf(b, k)
        /\ \A k, l : k # n /\ InFull(b, k, l) => InFull(Append(b, x), k, l)
    <3> DEFINE d == Append(b, x)
               s == x.pieces
    <3>1. b \in Answered /\ x \in ToolBlocks
      BY <2>1, <1>0
    <3>2. /\ PlacesOf(b, n) = {} /\ PiecesFull(s, n, len) => InFull(d, n, len)
          /\ \A k : k # n => PlacesOf(d, k) = PlacesOf(b, k)
          /\ \A k, l : k # n /\ InFull(b, k, l) => InFull(d, k, l)
      BY <3>1, <2>4, BlockFull, ZenonT(60)
    <3> QED BY <3>2
  <2> QED BY <2>1, <2>3, <2>5, <1>5
<1>7. /\ \A k : k # n => PlacesOf(c, k) = PlacesOf(b, k)
      /\ \A k, l : k # n /\ InFull(b, k, l) => InFull(c, k, l)
      /\ PlacesOf(c, n) # {} => call.counted
  <2>1. CASE c = b
    BY <2>1, <1>5
  <2>2. CASE Increment(ctx[r], call) # Nil /\ done /\ c = Append(b, Block(id, json))
    BY <2>2, <1>0, <1>6
  <2> QED BY <2>1, <2>2, <1>2
<1>8. ASSUME NEW k, PlacesOf(c, k) # {} PROVE k \in DOMAIN calls'[r] /\ calls'[r][k].counted
  <2>1. CASE k = n
    BY <2>1, <1>0, <1>7, <1>8
  <2>2. CASE k # n
    <3>1. k \in DOMAIN calls[r] /\ calls[r][k].counted
      BY <2>2, <1>1, <1>7, <1>8
    <3> QED BY <3>1, <2>2, <1>0 DEF ToolSummary
  <2> QED BY <2>1, <2>2
<1>9. ASSUME \A j \in DOMAIN calls'[r] : Good(j), Increment(ctx[r], call) # Nil
      PROVE  PiecesFull(json, n, len) /\ IsWhole(json, n, len)
  <2>1. piece.from = raw
    BY <1>4, <1>9 DEF ToolSummary, raw, piece
  <2>2. PiecesFull(Append(json0, piece), n, piece.to)
    BY <2>1, <1>0, <1>3, <1>4, <1>9, PiecesGrow
  <2>3. PiecesFull(json, n, len)
    BY <2>2, <1>3, <1>9 DEF json
  <2> QED BY <2>3 DEF PiecesFull
<1>10. ASSUME \A j \in DOMAIN calls'[r] : Good(j), call.counted
       PROVE  InFull(c, n, len) /\ input_json'[r] = <<>>
  <2>1. Increment(ctx[r], call) # Nil
    BY <1>4, <1>10 DEF ToolSummary
  <2>2. PiecesFull(json, n, len) /\ done
    BY <2>1, <1>0, <1>9, <1>10
  <2>3. c = Append(b, Block(id, json)) /\ input_json'[r] = <<>>
    BY <2>1, <2>2, <1>2
  <2> QED BY <2>1, <2>2, <2>3, <1>6
<1>11. ASSUME NEW k \in DOMAIN calls'[r], calls'[r][k].counted,
              \A j \in DOMAIN calls'[r] : j <= k => Good(j)
       PROVE  InFull(c, k, calls'[r][k].len)
  <2>1. CASE k = n
    <3>1. \A j \in DOMAIN calls'[r] : Good(j)
      BY <2>1, <1>0, <1>11
    <3> QED BY <3>1, <2>1, <1>0, <1>10, <1>11
  <2>2. CASE k # n
    <3>1. k \in DOMAIN calls[r] /\ calls'[r][k] = calls[r][k]
      BY <2>2, <1>0 DEF ToolSummary
    <3>2. ASSUME NEW j \in DOMAIN calls[r], j <= k PROVE ~Uncounted(r, j) /\ ~calls[r][j].spread
      <4>1. j \in 1 .. n
        BY DEF ToolSummary
      <4>2. j # n
        BY <4>1, <3>2, <2>2, <1>0
      <4>3. Good(j)
        BY <4>1, <3>2, <1>0, <1>11
      <4> QED BY <4>1, <4>2, <4>3 DEF ToolSummary
    <3>3. InFull(b, k, calls[r][k].len)
      BY <3>1, <3>2, <1>1, <1>11
    <3> QED BY <3>1, <3>3, <2>2, <1>7
  <2> QED BY <2>1, <2>2
<1>12. ASSUME \A j \in DOMAIN calls'[r] : Good(j)
       PROVE  IF Finished(r)' THEN input_json'[r] = <<>>
              ELSE PiecesFull(input_json'[r], Len(calls'[r]), ctx'[r].raw_args_len)
  <2>1. CASE Finished(r)'
    <3>1. call.counted
      BY <2>1, <1>0, <1>12 DEF ToolSummary
    <3> QED BY <3>1, <2>1, <1>10, <1>12
  <2>2. CASE ~(Finished(r)')
    <3>1. ~call.last /\ ~call.counted /\ ~done
      BY <2>2, <1>0 DEF ToolSummary
    <3>2. CASE Increment(ctx[r], call) = Nil
      <4>1. ctx'[r].raw_args_len = raw /\ input_json'[r] = json0
        BY <3>2, <1>2, <1>4, <1>12 DEF ToolSummary, raw
      <4> QED BY <4>1, <2>2, <1>0, <1>4, <1>12
    <3>3. CASE Increment(ctx[r], call) # Nil
      <4>1. ctx'[r].raw_args_len = len
        BY <3>1, <3>3, <1>4, <1>12 DEF ToolSummary
      <4>2. input_json'[r] = json
        BY <3>1, <3>3, <1>2
      <4> QED BY <4>1, <4>2, <3>3, <2>2, <1>0, <1>9, <1>12
    <3> QED BY <3>2, <3>3
  <2> QED BY <2>1, <2>2
<1> HIDE DEF Good
<1> QED BY <1>8, <1>11, <1>12

\* The current call is not followed by text right after tool_message.
LEMMA ToolIsNotFollowed ==
    ASSUME CallsTypeInv, NEW r \in Requests, CallsInv(r),
           NEW len, NEW space, NEW last, NEW streaming, NEW fresh, NEW n, NEW call,
           ToolStep(r, len, space, last, streaming, fresh, n, call)
    PROVE  ~call.followed /\ (~Finished(r) => ~Current(r).followed)
<1>1. /\ n \in Nat \ {0} /\ DOMAIN calls[r] = 1 .. Len(calls[r])
      /\ n = IF Finished(r) THEN Len(calls[r]) + 1 ELSE Len(calls[r])
      /\ Finished(r) => ~call.followed
      /\ ~Finished(r) => /\ call.followed = Current(r).followed
                         /\ Current(r) = calls[r][n] /\ ~calls[r][n].last
  BY DEF ToolStep
<1>2. ~Finished(r) => n \in DOMAIN calls[r]
  BY <1>1
<1>3. \A k \in DOMAIN calls[r] : calls[r][k].followed => calls[r][k].last
  BY DEF CallsInv
<1> QED BY <1>1, <1>2, <1>3

\* When text separates the calls after tool_message, it did so before, and a
\* new call finds no block of a tool call at the end.
LEMMA ToolSeparated ==
    ASSUME CallsTypeInv, NEW r \in Requests, CallsInv(r), FollowedInv(r),
           NEW len \in Nat \ {0}, NEW space \in BOOLEAN, NEW last \in BOOLEAN,
           NEW streaming \in BOOLEAN, NEW fresh \in BOOLEAN, NEW n, NEW call,
           ToolStep(r, len, space, last, streaming, fresh, n, call),
           ToolSummary(r, len, n, call), Separated(r)'
    PROVE  /\ Separated(r)
           /\ Finished(r) => Len(blocks[r]) \notin ToolsOf(blocks[r])
<1> DEFINE N == Len(calls[r])
           b == blocks[r]
<1>0. /\ N \in Nat /\ DOMAIN calls[r] = 1 .. N
      /\ n = IF Finished(r) THEN N + 1 ELSE N
      /\ n \in Nat \ {0} /\ DOMAIN calls'[r] = 1 .. n /\ Len(calls'[r]) = n /\ calls'[r][n] = call
      /\ ~Finished(r) => call.split = Current(r).split /\ Current(r) = calls[r][n]
      /\ b \in Answered
  BY DEF ToolStep, CallsTypeInv, Answered
<1>1. \A k \in 1 .. n : ~calls'[r][k].split /\ (k < n => calls'[r][k].followed)
  BY <1>0 DEF Separated
<1>2. \A k \in 1 .. n : k # n => k \in DOMAIN calls[r] /\ calls'[r][k] = calls[r][k]
  BY DEF ToolSummary
<1>3. Separated(r)
  <2> SUFFICES ASSUME NEW k \in 1 .. N
               PROVE  ~calls[r][k].split /\ (k < N => calls[r][k].followed)
    BY <1>0 DEF Separated
  <2>1. CASE k # n
    <3>1. k \in 1 .. n /\ (k < N => k < n)
      BY <2>1, <1>0
    <3> QED BY <3>1, <2>1, <1>1, <1>2
  <2>2. CASE k = n
    <3>1. ~Finished(r) /\ n = N /\ n \in 1 .. n
      BY <2>2, <1>0
    <3> QED BY <3>1, <2>2, <1>0, <1>1
  <2> QED BY <2>1, <2>2
<1>4. ASSUME Finished(r), Len(b) \in ToolsOf(b) PROVE FALSE
  <2>1. b[Len(b)].kind = "tool" /\ b[Len(b)].id.call \in DOMAIN calls[r]
    BY <1>4 DEF CallsInv, ToolsOf
  <2>2. N # 0 /\ N \in 1 .. n /\ N < n /\ N # n
    BY <2>1, <1>0, <1>4
  <2>3. calls[r][N].followed
    BY <2>2, <1>1, <1>2
  <2>4. Current(r).followed /\ calls[r] # <<>>
    BY <2>2, <2>3, <1>0 DEF Current, Last
  <2>5. Last(b).kind = "text"
    BY <2>4 DEF FollowedInv
  <2> QED BY <2>1, <2>5 DEF Last
<1> QED BY <1>3, <1>4

\* tool_message keeps the blocks of a streamed answer in the order of the calls.
LEMMA ToolKeepsBlocks ==
    ASSUME CallsTypeInv, NEW r \in Requests, CallsInv(r), FollowedInv(r), BlocksInv(r),
           NEW len \in Nat \ {0}, NEW space \in BOOLEAN, NEW last \in BOOLEAN,
           NEW streaming \in BOOLEAN, NEW fresh \in BOOLEAN, NEW n, NEW call,
           ToolStep(r, len, space, last, streaming, fresh, n, call),
           ToolSummary(r, len, n, call), mode' = mode
    PROVE  BlocksInv(r)'
<1> DEFINE N == Len(calls[r])
           b == blocks[r]
           c == blocks'[r]
           piece == PieceOf(r, n, call)
           id == IdOf(r, n, call)
           One(x) == \A j \in DOMAIN x.pieces : x.pieces[j].call = x.id.call
<1> SUFFICES ASSUME mode[r] \in Streams, Separated(r)'
             PROVE  /\ \A i \in ToolsOf(c) : One(c[i])
                    /\ \A i, k \in ToolsOf(c) : i < k => c[i].id.call < c[k].id.call
                    /\ \A i \in ToolsOf(c) :
                          /\ i = Len(c) => c[i].id.call = n
                          /\ c[i].id.call = n => i = Len(c)
  <2>1. Len(calls'[r]) = n
    BY DEF ToolStep
  <2> QED BY <2>1 DEF BlocksInv
<1>0. /\ N \in Nat /\ DOMAIN calls[r] = 1 .. N
      /\ n = IF Finished(r) THEN N + 1 ELSE N
      /\ n \in Nat \ {0} /\ call \in CallRecords /\ b \in Answered
  BY DEF ToolStep, CallsTypeInv, Answered
<1>1. Separated(r) /\ (Finished(r) => Len(b) \notin ToolsOf(b))
  BY ToolSeparated
<1>2. ~Finished(r) => ~Current(r).followed
  BY ToolIsNotFollowed
<1>3. \A i \in ToolsOf(b) : b[i].id.call \in 1 .. N
  BY <1>0 DEF CallsInv
<1>4. /\ \A i \in ToolsOf(b) : One(b[i])
      /\ \A i, k \in ToolsOf(b) : i < k => b[i].id.call < b[k].id.call
      /\ \A i \in ToolsOf(b) :
            /\ i = Len(b) => b[i].id.call = N
            /\ b[i].id.call = N /\ ~Current(r).followed => i = Len(b)
  BY <1>1 DEF BlocksInv
<1>5. \A i \in ToolsOf(b) :
         /\ i = Len(b) => b[i].id.call = n
         /\ b[i].id.call = n => i = Len(b)
  <2>1. CASE Finished(r)
    BY <2>1, <1>0, <1>1, <1>3
  <2>2. CASE ~Finished(r)
    BY <2>2, <1>0, <1>2, <1>4
  <2> QED BY <2>1, <2>2
<1>6. Increment(ctx[r], call) # Nil =>
        /\ piece \in CallPieces /\ piece.call = n
        /\ \A s \in Seq(CallPieces) : Block(id, s) \in ToolBlocks
        /\ id.call = n
  BY <1>0, PieceOfTypes
<1>7. \/ c = b
      \/ /\ Increment(ctx[r], call) # Nil /\ Len(b) \in ToolsOf(b)
         /\ c = LastGrown(b, piece)
      \/ /\ Increment(ctx[r], call) # Nil /\ Len(b) \notin ToolsOf(b)
         /\ c = Append(b, Block(id, <<piece>>))
  <2>1. OutcomeAt(r, n, call, fresh)
    BY ToolOutcomeAt
  <2> QED BY <2>1 DEF OutcomeAt
<1> HIDE DEF b, c, piece, id, N
<1>8. CASE c = b
  BY <1>8, <1>4, <1>5
<1>9. CASE /\ Increment(ctx[r], call) # Nil /\ Len(b) \in ToolsOf(b)
           /\ c = LastGrown(b, piece)
  <2>1. /\ Len(c) = Len(b) /\ ToolsOf(c) = ToolsOf(b)
        /\ \A i \in ToolsOf(b) : i # Len(b) => c[i] = b[i]
        /\ c[Len(b)].pieces = Append(b[Len(b)].pieces, piece)
        /\ c[Len(b)].id = b[Len(b)].id
    BY <1>0, <1>6, <1>9, LastBlockGrows
  <2>2. \A i \in ToolsOf(b) : c[i].id = b[i].id
    BY <2>1
  <2>3. One(c[Len(b)])
    <3> DEFINE s == b[Len(b)].pieces
    <3>1. s \in Seq(CallPieces)
      BY <1>0, <1>9, BlockTypes DEF ToolBlocks
    <3>2. \A j \in DOMAIN Append(s, piece) :
             (j \in DOMAIN s /\ Append(s, piece)[j] = s[j]) \/ Append(s, piece)[j] = piece
      BY <3>1
    <3>3. (\A j \in DOMAIN s : s[j].call = n) /\ c[Len(b)].id.call = n
      BY <2>1, <1>4, <1>5, <1>9
    <3> HIDE DEF s
    <3>4. \A j \in DOMAIN Append(s, piece) : Append(s, piece)[j].call = n
      BY <3>2, <3>3, <1>6, <1>9
    <3> QED BY <3>3, <3>4, <2>1 DEF s
  <2>4. \A i \in ToolsOf(c) : One(c[i])
    <3> HIDE DEF One
    <3> QED BY <2>1, <2>3, <1>4
  <2> QED BY <2>1, <2>2, <2>4, <1>4, <1>5
<1>10. CASE /\ Increment(ctx[r], call) # Nil /\ Len(b) \notin ToolsOf(b)
            /\ c = Append(b, Block(id, <<piece>>))
  <2> DEFINE x == Block(id, <<piece>>)
             L == Len(b) + 1
  <2>1. <<piece>> \in Seq(CallPieces)
    BY <1>6, <1>10
  <2>2. x \in ToolBlocks /\ x.id = id /\ x.pieces = <<piece>> /\ c = Append(b, x)
    BY <2>1, <1>6, <1>10 DEF Block
  <2>3. One(x) /\ x.id.call = n
    BY <2>2, <1>6, <1>10
  <2> HIDE DEF x, L
  <2>4. /\ ToolsOf(c) = ToolsOf(b) \cup {L} /\ L \notin DOMAIN b /\ Len(c) = L
        /\ c[L] = x
        /\ \A i \in ToolsOf(b) : c[i] = b[i]
    <3>1. b \in Answered /\ x \in ToolBlocks
      BY <2>2, <1>0
    <3>2. LET d == Append(b, x) IN
          /\ ToolsOf(d) = ToolsOf(b) \cup {Len(b) + 1} /\ Len(b) + 1 \notin DOMAIN b
          /\ Len(d) = Len(b) + 1 /\ d[Len(b) + 1] = x
          /\ \A i \in ToolsOf(b) : d[i] = b[i]
      BY <3>1, BlockAdds
    <3> QED BY <3>2, <2>2 DEF L
  <2>5. L \in Nat /\ \A i \in ToolsOf(b) : i \in Nat /\ i < L
    BY <1>0, BlockTypes DEF L
  <2>6. \A i \in ToolsOf(b) : b[i].id.call \in Nat /\ b[i].id.call < n
    <3> SUFFICES ASSUME NEW i \in ToolsOf(b) PROVE b[i].id.call \in Nat /\ b[i].id.call < n
      OBVIOUS
    <3>1. b[i].id.call \in 1 .. N /\ b[i].id.call # n
      BY <1>3, <1>5, <1>10
    <3> QED BY <3>1, <1>0
  <2>7. \A i \in ToolsOf(c) : One(c[i])
    <3> HIDE DEF One
    <3> QED BY <2>3, <2>4, <1>4
  <2>8. ASSUME NEW i \in ToolsOf(c), NEW k \in ToolsOf(c), i < k PROVE c[i].id.call < c[k].id.call
    <3>1. i \in ToolsOf(b)
      BY <2>4, <2>5, <2>8
    <3> QED BY <3>1, <2>3, <2>4, <2>6, <2>8, <1>4
  <2>9. ASSUME NEW i \in ToolsOf(c) PROVE i = Len(c) <=> c[i].id.call = n
    <3>1. CASE i = L
      BY <3>1, <2>3, <2>4
    <3>2. CASE i \in ToolsOf(b)
      <4>1. c[i].id.call < n /\ c[i].id.call \in Nat
        BY <3>2, <2>4, <2>6
      <4>2. i # Len(c) /\ c[i].id.call # n
        BY <4>1, <3>2, <2>4, <2>5, <1>0
      <4> QED BY <4>2
    <3> QED BY <3>1, <3>2, <2>4
  <2> HIDE DEF One
  <2> QED BY <2>7, <2>8, <2>9
<1> QED BY <1>7, <1>8, <1>9, <1>10

-----------------------------------------------------------------------------
\* Content other than tool calls.

\* What text_message does to the calls of r when the content is shown.
TextCalls(r) ==
    LET N == Len(calls[r]) IN
    /\ calls'[r] \in Seq(CallRecords)
    /\ DOMAIN calls[r] = 1 .. N /\ N \in Nat
    /\ DOMAIN calls'[r] = 1 .. N /\ Len(calls'[r]) = N
    /\ \A k \in 1 .. N :
          /\ calls'[r][k].len = calls[r][k].len /\ calls'[r][k].last = calls[r][k].last
          /\ calls'[r][k].counted = calls[r][k].counted
          /\ calls'[r][k].streaming = calls[r][k].streaming
          /\ calls'[r][k].spread = calls[r][k].spread
          /\ calls'[r][k].model_call_id = calls[r][k].model_call_id
          /\ calls[r][k].split => calls'[r][k].split
          /\ k # N => calls'[r][k] = calls[r][k]
          /\ calls'[r][k].followed => calls[r][k].last \/ calls[r][k].followed
          /\ k = N => calls'[r][k].followed \/ calls'[r][k].split
    /\ Finished(r)' <=> Finished(r)
    /\ N # 0 => Current(r) = calls[r][N] /\ Current(r)' = calls'[r][N]
    /\ ~Finished(r) => N # 0

\* The same of the blocks.
TextBlocks(r) ==
    LET b == blocks[r]
        c == blocks'[r]
    IN
    /\ c \in Answered
    /\ ToolsOf(c) = ToolsOf(b) /\ \A i \in ToolsOf(b) : c[i] = b[i]
    /\ c # <<>> /\ Last(c).kind = "text" /\ Len(c) \notin ToolsOf(c)
    /\ \A k : PlacesOf(c, k) = PlacesOf(b, k)
    /\ \A k, l : InFull(b, k, l) => InFull(c, k, l)

\* The calls after content that is shown: the current one is split or followed.
LEMMA TextCallsStep ==
    ASSUME CallsTypeInv, NEW r \in Requests, NEW d, text_message(r, d), Shown(mode[r], d)
    PROVE  /\ TextCalls(r)
           /\ calls' \in [Requests -> Seq(CallRecords)]
           /\ \A q \in Requests : q # r => calls'[q] = calls[q]
<1> DEFINE s == calls[r]
           N == Len(s)
           y == IF s[N].last THEN [s[N] EXCEPT !.followed = TRUE] ELSE [s[N] EXCEPT !.split = TRUE]
           t == [s EXCEPT ![N] = y]
<1>1. s \in Seq(CallRecords) /\ N \in Nat /\ DOMAIN s = 1 .. N
  BY DEF CallsTypeInv
<1>2. N = 0 <=> s = <<>>
  BY <1>1, EmptySeq
<1>3. CASE N = 0
  <2>1. calls' = calls
    BY <1>2, <1>3 DEF text_message
  <2>2. Finished(r)' <=> Finished(r)
    BY <2>1 DEF Finished, Current
  <2>3. Finished(r)
    BY <1>2, <1>3 DEF Finished
  <2> QED BY <2>1, <2>2, <2>3, <1>1, <1>3 DEF TextCalls, CallsTypeInv
<1>4. CASE N # 0
  <2>1. N \in DOMAIN s /\ s[N] \in CallRecords
    BY <1>1, <1>4, ElementOfSeq
  <2>2. calls' = [calls EXCEPT ![r] = t]
    BY <1>2, <1>4 DEF text_message
  <2>3. /\ y \in CallRecords
        /\ y.len = s[N].len /\ y.last = s[N].last /\ y.counted = s[N].counted
        /\ y.streaming = s[N].streaming /\ y.spread = s[N].spread
        /\ y.model_call_id = s[N].model_call_id
        /\ s[N].split => y.split
        /\ y.followed => s[N].last \/ s[N].followed
        /\ y.followed \/ y.split
    <3> DEFINE x == s[N]
    <3>1. x \in CallRecords
      BY <2>1
    <3> HIDE DEF x
    <3> DEFINE z == IF x.last THEN [x EXCEPT !.followed = TRUE] ELSE [x EXCEPT !.split = TRUE]
    <3>2. /\ z \in CallRecords
          /\ z.len = x.len /\ z.last = x.last /\ z.counted = x.counted
          /\ z.streaming = x.streaming /\ z.spread = x.spread
          /\ z.model_call_id = x.model_call_id
          /\ x.split => z.split
          /\ z.followed => x.last \/ x.followed
          /\ z.followed \/ z.split
      BY <3>1 DEF CallRecords
    <3> QED BY <3>2 DEF x
  <2> HIDE DEF y
  <2>4. /\ t \in Seq(CallRecords) /\ Len(t) = N /\ DOMAIN t = 1 .. N /\ t[N] = y
        /\ \A k \in 1 .. N : k # N => t[k] = s[k]
    <3>1. DOMAIN t = 1 .. N /\ t[N] = y /\ \A k \in 1 .. N : k # N => t[k] = s[k]
      BY <1>1, <2>1
    <3>2. t \in [1 .. N -> CallRecords]
      BY <1>1, <2>3, ElementOfSeq
    <3>3. t \in Seq(CallRecords) /\ Len(t) = N
      BY <3>2, <1>1
    <3> QED BY <3>1, <3>3
  <2> HIDE DEF t, s
  <2>5. /\ calls' \in [Requests -> Seq(CallRecords)] /\ calls'[r] = t
        /\ \A q \in Requests : q # r => calls'[q] = calls[q]
    BY <2>2, <2>4 DEF CallsTypeInv
  <2>6. Current(r) = s[N] /\ Current(r)' = t[N]
    BY <2>4, <2>5 DEF Current, Last, s
  <2>7. s # <<>> /\ t # <<>>
    BY <2>4, <1>2, <1>4
  <2>8. Finished(r)' <=> Finished(r)
    BY <2>3, <2>4, <2>5, <2>6, <2>7 DEF Finished, s
  <2> QED BY <2>3, <2>4, <2>5, <2>6, <2>8, <1>1, <1>4 DEF TextCalls, s
<1> QED BY <1>3, <1>4

\* The blocks after content that is shown: the same tool calls, and text at the end.
LEMMA TextBlocksStep ==
    ASSUME CallsTypeInv, NEW r \in Requests, NEW d, text_message(r, d), Shown(mode[r], d)
    PROVE  /\ TextBlocks(r)
           /\ blocks' \in [Requests -> Answered]
           /\ \A q \in Requests : q # r => blocks'[q] = blocks[q]
<1> DEFINE b == blocks[r]
           c == WithText(r)
<1>1. b \in Answered /\ blocks \in [Requests -> Answered]
  BY DEF CallsTypeInv, Answered
<1>2. /\ c \in Answered /\ ToolsOf(c) = ToolsOf(b) /\ \A i \in ToolsOf(b) : c[i] = b[i]
      /\ Places(c) = Places(b) /\ \A p \in Places(b) : PieceAt(c, p) = PieceAt(b, p)
      /\ c # <<>> /\ Last(c).kind = "text"
  <2>1. CASE b # <<>> /\ Last(b).kind = "text"
    <3>1. c = b
      BY <2>1 DEF WithText
    <3> QED BY <3>1, <2>1, <1>1
  <2>2. CASE ~(b # <<>> /\ Last(b).kind = "text")
    <3>1. c = Append(b, Text)
      BY <2>2 DEF WithText
    <3>2. LET e == Append(b, Text) IN
          /\ e \in Answered /\ ToolsOf(e) = ToolsOf(b) /\ \A i \in ToolsOf(b) : e[i] = b[i]
          /\ Places(e) = Places(b) /\ \A p \in Places(b) : PieceAt(e, p) = PieceAt(b, p)
      <4> HIDE DEF b
      <4> QED BY <1>1, TextAdds
    <3>3. Append(b, Text) # <<>> /\ Last(Append(b, Text)) = Text
      BY <1>1 DEF Answered, Last
    <3>4. Text.kind = "text"
      BY DEF Text
    <3> QED BY <3>1, <3>2, <3>3, <3>4
  <2> QED BY <2>1, <2>2
<1>3. blocks' = [blocks EXCEPT ![r] = c]
  BY DEF text_message
<1> HIDE DEF b, c
<1>4. /\ blocks' \in [Requests -> Answered] /\ blocks'[r] = c
      /\ \A q \in Requests : q # r => blocks'[q] = blocks[q]
  BY <1>1, <1>2, <1>3
<1>5. Len(c) \notin ToolsOf(c)
  BY <1>2 DEF Last, ToolsOf
<1>6. \A k : PlacesOf(c, k) = PlacesOf(b, k) /\ \A p \in PlacesOf(b, k) : PieceAt(c, p) = PieceAt(b, p)
  BY <1>2 DEF PlacesOf
<1>7. ASSUME NEW k, NEW l, InFull(b, k, l) PROVE InFull(c, k, l)
  <2>1. {PieceAt(c, p).from .. PieceAt(c, p).to - 1 : p \in PlacesOf(c, k)}
          = {PieceAt(b, p).from .. PieceAt(b, p).to - 1 : p \in PlacesOf(b, k)}
    BY <1>6
  <2> QED BY <2>1, <1>6, <1>7 DEF InFull
<1> QED BY <1>2, <1>4, <1>5, <1>6, <1>7 DEF TextBlocks, b

\* Content that is shown keeps the invariant of its request.
LEMMA ShownKeeps ==
    ASSUME CallsTypeInv, NEW r \in Requests, NEW d, AnswerInv(r), text_message(r, d),
           Shown(mode[r], d)
    PROVE  AnswerInv(r)'
<1> DEFINE N == Len(calls[r])
           b == blocks[r]
           c == blocks'[r]
<1>0. TextCalls(r) /\ TextBlocks(r)
  BY TextCallsStep, TextBlocksStep
<1>1. /\ stage' = stage /\ mode' = mode /\ ctx' = ctx /\ input_json' = input_json
      /\ reason' = reason /\ after' = after /\ stage[r] = "open"
  BY DEF text_message
<1>2. /\ DOMAIN calls[r] = 1 .. N /\ N \in Nat
      /\ DOMAIN calls'[r] = 1 .. N /\ Len(calls'[r]) = N
      /\ \A k \in 1 .. N :
            /\ calls'[r][k].len = calls[r][k].len /\ calls'[r][k].last = calls[r][k].last
            /\ calls'[r][k].counted = calls[r][k].counted
            /\ calls'[r][k].streaming = calls[r][k].streaming
            /\ calls'[r][k].spread = calls[r][k].spread
            /\ calls[r][k].split => calls'[r][k].split
            /\ k # N => calls'[r][k] = calls[r][k]
            /\ calls'[r][k].followed => calls[r][k].last \/ calls[r][k].followed
            /\ k = N => calls'[r][k].followed \/ calls'[r][k].split
      /\ Finished(r)' <=> Finished(r)
      /\ N # 0 => Current(r) = calls[r][N] /\ Current(r)' = calls'[r][N]
      /\ ~Finished(r) => N # 0
  BY <1>0 DEF TextCalls
<1>3. /\ ToolsOf(c) = ToolsOf(b) /\ \A i \in ToolsOf(b) : c[i] = b[i]
      /\ c # <<>> /\ Last(c).kind = "text" /\ Len(c) \notin ToolsOf(c)
      /\ \A k : PlacesOf(c, k) = PlacesOf(b, k)
      /\ \A k, l : InFull(b, k, l) => InFull(c, k, l)
  BY <1>0 DEF TextBlocks
<1>4. /\ \A k \in 1 .. N : Uncounted(r, k)' <=> Uncounted(r, k)
      /\ Clean(r)' <=> Clean(r)
      /\ \A k : CleanBefore(r, k)' <=> CleanBefore(r, k)
  <2>1. \A k \in 1 .. N : Uncounted(r, k)' <=> Uncounted(r, k)
    BY <1>2 DEF Uncounted
  <2> QED BY <2>1, <1>2 DEF Clean, CleanBefore
<1>5. IdleInv(r)'
  BY <1>1 DEF IdleInv
<1>6. CallsInv(r)'
  <2>1. /\ \A k \in DOMAIN calls[r] :
              /\ k < Len(calls[r]) => calls[r][k].last
              /\ calls[r][k].counted => calls[r][k].last
              /\ calls[r][k].followed => calls[r][k].last
              /\ ~calls[r][k].last => calls[r][k].streaming
        /\ (\E k \in DOMAIN calls[r] : calls[r][k].counted) <=> ctx[r].processed # 0
        /\ \A i \in ToolsOf(b) :
              /\ b[i].id.call \in DOMAIN calls[r]
              /\ b[i].id.model \in {Nil, ctx[r].saved_model_call_id}
              /\ \A j \in DOMAIN b[i].pieces : b[i].pieces[j].call \in DOMAIN calls[r]
    BY DEF AnswerInv, CallsInv
  <2> HIDE DEF b, c
  <2>2. \A k \in DOMAIN calls'[r] :
              /\ k < Len(calls'[r]) => calls'[r][k].last
              /\ calls'[r][k].counted => calls'[r][k].last
              /\ calls'[r][k].followed => calls'[r][k].last
              /\ ~calls'[r][k].last => calls'[r][k].streaming
    BY <2>1, <1>2
  <2>3. (\E k \in DOMAIN calls'[r] : calls'[r][k].counted) <=> ctx'[r].processed # 0
    BY <2>1, <1>1, <1>2
  <2>4. \A i \in ToolsOf(c) :
              /\ c[i].id.call \in DOMAIN calls'[r]
              /\ c[i].id.model \in {Nil, ctx'[r].saved_model_call_id}
              /\ \A j \in DOMAIN c[i].pieces : c[i].pieces[j].call \in DOMAIN calls'[r]
    BY <2>1, <1>1, <1>2, <1>3
  <2> QED BY <2>2, <2>3, <2>4 DEF CallsInv, c
<1>7. LengthInv(r)'
  <2>1. ~Finished(r) => N \in 1 .. N
    BY <1>2
  <2>2. ~Finished(r) => (Current(r)').len = Current(r).len
    BY <2>1, <1>2
  <2> QED BY <2>2, <1>1, <1>2, <1>4 DEF AnswerInv, LengthInv
<1>8. ArgsInv(r)'
  <2>1. mode[r] \in Streams \cup {"openai"} =>
          \A k \in 1 .. N : CleanBefore(r, k) =>
            /\ calls[r][k].counted => InFull(b, k, calls[r][k].len)
            /\ ~calls[r][k].last => InFull(b, k, ctx[r].raw_args_len)
    BY <1>2 DEF AnswerInv, ArgsInv
  <2> HIDE DEF b, c
  <2>2. mode[r] \in Streams \cup {"openai"} =>
          \A k \in 1 .. N : CleanBefore(r, k)' =>
            /\ calls'[r][k].counted => InFull(c, k, calls'[r][k].len)
            /\ ~calls'[r][k].last => InFull(c, k, ctx'[r].raw_args_len)
    BY <2>1, <1>1, <1>2, <1>3, <1>4
  <2> QED BY <2>2, <1>1, <1>2 DEF ArgsInv, c
<1>9. CollectInv(r)'
  <2>1. mode[r] = "anthropic" =>
        /\ \A k : PlacesOf(b, k) # {} => k \in 1 .. N /\ calls[r][k].counted
        /\ \A k \in 1 .. N :
              calls[r][k].counted
              /\ (\A j \in 1 .. N : j <= k => ~Uncounted(r, j) /\ ~calls[r][j].spread)
                => InFull(b, k, calls[r][k].len)
        /\ (\A k \in 1 .. N : ~Uncounted(r, k) /\ ~calls[r][k].spread)
             => IF Finished(r) THEN input_json[r] = <<>>
                ELSE PiecesFull(input_json[r], N, ctx[r].raw_args_len)
    BY <1>2 DEF AnswerInv, CollectInv
  <2> HIDE DEF b, c
  <2>2. mode'[r] = "anthropic" =>
        /\ \A k : PlacesOf(c, k) # {} => k \in 1 .. N /\ calls'[r][k].counted
        /\ \A k \in 1 .. N :
              calls'[r][k].counted
              /\ (\A j \in 1 .. N : j <= k => ~(Uncounted(r, j)') /\ ~calls'[r][j].spread)
                => InFull(c, k, calls'[r][k].len)
        /\ (\A k \in 1 .. N : ~(Uncounted(r, k)') /\ ~calls'[r][k].spread)
             => IF Finished(r)' THEN input_json'[r] = <<>>
                ELSE PiecesFull(input_json'[r], N, ctx'[r].raw_args_len)
    BY <2>1, <1>1, <1>2, <1>3, <1>4
  <2> QED BY <2>2, <1>2 DEF CollectInv, c
<1>10. FollowedInv(r)'
  BY <1>3 DEF FollowedInv
<1>11. BlocksInv(r)'
  <2> SUFFICES ASSUME mode[r] \in Streams, Separated(r)'
               PROVE  /\ \A i \in ToolsOf(c) : \A j \in DOMAIN c[i].pieces : c[i].pieces[j].call = c[i].id.call
                      /\ \A i, k \in ToolsOf(c) : i < k => c[i].id.call < c[k].id.call
                      /\ \A i \in ToolsOf(c) : i # Len(c) /\ (c[i].id.call = N => (Current(r)').followed)
    BY <1>1, <1>2 DEF BlocksInv
  <2>1. \A k \in 1 .. N : ~calls'[r][k].split /\ (k < N => calls'[r][k].followed)
    BY <1>2 DEF Separated
  <2>2. Separated(r)
    BY <2>1, <1>2 DEF Separated
  <2>3. /\ \A i \in ToolsOf(b) : \A j \in DOMAIN b[i].pieces : b[i].pieces[j].call = b[i].id.call
        /\ \A i, k \in ToolsOf(b) : i < k => b[i].id.call < b[k].id.call
    BY <2>2 DEF AnswerInv, BlocksInv
  <2>4. \A i \in ToolsOf(b) : b[i].id.call \in 1 .. N
    BY <1>2 DEF AnswerInv, CallsInv
  <2> HIDE DEF b, c
  <2>5. ASSUME NEW i \in ToolsOf(c), c[i].id.call = N PROVE (Current(r)').followed
    <3>1. N \in 1 .. N
      BY <2>4, <2>5, <1>3
    <3>2. N # 0
      BY <3>1
    <3> QED BY <3>1, <3>2, <2>1, <1>2
  <2> QED BY <2>3, <2>5, <1>3
<1>12. ReasonInv(r)'
  BY <1>1 DEF AnswerInv, ReasonInv
<1> QED BY <1>5, <1>6, <1>7, <1>8, <1>9, <1>10, <1>11, <1>12 DEF AnswerInv

\* So does content that is ignored: the answer stays as it is.
LEMMA TextKeeps ==
    ASSUME CallsTypeInv, NEW r \in Requests, NEW d, AnswerInv(r), text_message(r, d)
    PROVE  AnswerInv(r)'
<1>1. CASE Shown(mode[r], d)
  BY <1>1, ShownKeeps
<1>2. CASE ~Shown(mode[r], d)
  <2>1. UNCHANGED <<stage, mode, ctx, calls, blocks, input_json, reason, after>>
    BY <1>2 DEF text_message
  <2> QED BY <2>1, UntouchedAnswer
<1> QED BY <1>1, <1>2

-----------------------------------------------------------------------------
\* The steps keep the invariant.

\* What a step of request r leaves alone.
OthersSame(r) ==
    \A q \in Requests : q # r =>
        /\ stage'[q] = stage[q] /\ mode'[q] = mode[q] /\ session'[q] = session[q]
        /\ ctx'[q] = ctx[q] /\ calls'[q] = calls[q] /\ blocks'[q] = blocks[q]
        /\ input_json'[q] = input_json[q] /\ reason'[q] = reason[q] /\ after'[q] = after[q]

\* begin keeps the invariant of its request: nothing has come.
LEMMA BeginKeeps ==
    ASSUME CallsTypeInv, NEW r \in Requests, NEW m \in Modes, NEW s \in BOOLEAN,
           AnswerInv(r), begin(r, m, s)
    PROVE  CallsTypeInv' /\ OthersSame(r) /\ AnswerInv(r)'
<1> DEFINE x == NewContext(Existing(m, s))
           a == IF s THEN {q \in SessionRequests : stage[q] = "done"} ELSE {}
<1>1. /\ stage[r] = "idle" /\ stage' = [stage EXCEPT ![r] = "open"]
      /\ mode' = [mode EXCEPT ![r] = m] /\ session' = [session EXCEPT ![r] = s]
      /\ ctx' = [ctx EXCEPT ![r] = x] /\ after' = [after EXCEPT ![r] = a]
      /\ overlapped' \in BOOLEAN
      /\ UNCHANGED <<calls, blocks, input_json, reason, sent, store>>
  BY DEF begin
<1>2. /\ x \in Contexts /\ x.processed = 0 /\ x.raw_args_len = 0 /\ a \subseteq Requests
  <2>1. Existing(m, s) \in Ids
    BY DEF Existing, CallsTypeInv, Ids
  <2> QED BY <2>1 DEF NewContext, Contexts, SessionRequests
<1> HIDE DEF x, a
<1>3. CallsTypeInv'
  BY <1>1, <1>2 DEF CallsTypeInv
<1>4. OthersSame(r) /\ stage'[r] = "open" /\ ctx'[r] = x
  BY <1>1 DEF OthersSame, CallsTypeInv
<1>5. calls'[r] = <<>> /\ blocks'[r] = <<>> /\ input_json'[r] = <<>>
  BY <1>1 DEF AnswerInv, IdleInv
<1>6. DOMAIN <<>> = {}
  OBVIOUS
<1>7. ToolsOf(<<>>) = {} /\ Places(<<>>) = {} /\ \A n : PlacesOf(<<>>, n) = {}
  <2>1. ToolsOf(<<>>) = {}
    BY <1>6 DEF ToolsOf
  <2>2. Places(<<>>) = {}
    BY <2>1 DEF Places
  <2> QED BY <2>1, <2>2 DEF PlacesOf
<1>8. Finished(r)'
  BY <1>5 DEF Finished
<1>9. IdleInv(r)' /\ CallsInv(r)'
  BY <1>2, <1>4, <1>5, <1>6, <1>7 DEF IdleInv, CallsInv
<1>10. LengthInv(r)' /\ ArgsInv(r)'
  BY <1>2, <1>4, <1>5, <1>6, <1>8 DEF LengthInv, ArgsInv
<1>11. CollectInv(r)'
  BY <1>5, <1>6, <1>7, <1>8 DEF CollectInv
<1>12. FollowedInv(r)' /\ BlocksInv(r)'
  BY <1>5, <1>7 DEF FollowedInv, BlocksInv
<1>13. ReasonInv(r)'
  <2>1. reason'[r] = reason[r] /\ reason[r] \notin {"stop", "tool_calls"}
    BY <1>1 DEF AnswerInv, ReasonInv
  <2> QED BY <2>1 DEF ReasonInv
<1> QED BY <1>3, <1>4, <1>9, <1>10, <1>11, <1>12, <1>13 DEF AnswerInv

\* tool_message keeps the invariant of its request, and the id once it is saved.
LEMMA ToolKeeps ==
    ASSUME CallsTypeInv, NEW r \in Requests, AnswerInv(r),
           NEW len \in Nat \ {0}, NEW space \in BOOLEAN, NEW last \in BOOLEAN,
           NEW streaming \in BOOLEAN, NEW fresh \in BOOLEAN,
           tool_message(r, len, space, last, streaming, fresh)
    PROVE  /\ CallsTypeInv' /\ OthersSame(r) /\ AnswerInv(r)'
           /\ SavedId(r) # Nil => SavedId(r)' = SavedId(r)
<1>1. PICK n, call : ToolStep(r, len, space, last, streaming, fresh, n, call)
  BY ToolStepExists
<1>2. /\ UNCHANGED <<stage, mode, session, reason, store, overlapped, after>>
      /\ stage[r] = "open"
      /\ ~Finished(r) => len >= Current(r).len
      /\ ~streaming => last
  BY DEF tool_message
<1>3. /\ CallsInv(r) /\ LengthInv(r) /\ ArgsInv(r) /\ CollectInv(r) /\ FollowedInv(r)
      /\ BlocksInv(r) /\ ReasonInv(r)
  BY DEF AnswerInv
<1>4. /\ CallsTypeInv'
      /\ ctx'[r] = NextContext(ctx[r], call)
      /\ \A q \in Requests : q # r => /\ ctx'[q] = ctx[q] /\ calls'[q] = calls[q]
                                      /\ blocks'[q] = blocks[q] /\ input_json'[q] = input_json[q]
  BY <1>1, <1>2, ToolTypes
<1>5. ToolSummary(r, len, n, call)
  BY <1>1, <1>2, <1>3, ToolFacts
<1>6. mode' = mode
  BY <1>2
<1>7. CallsInv(r)'
  BY <1>1, <1>3, <1>4, <1>5, ToolKeepsCalls
<1>8. LengthInv(r)'
  BY <1>1, <1>3, <1>4, <1>5, ToolKeepsLength
<1>9. ArgsInv(r)'
  BY <1>1, <1>3, <1>4, <1>5, <1>6, ToolKeepsArgs
<1>10. CollectInv(r)'
  BY <1>1, <1>3, <1>4, <1>5, <1>6, ToolKeepsCollect
<1>11. BlocksInv(r)'
  BY <1>1, <1>3, <1>5, <1>6, ToolKeepsBlocks
<1>12. FollowedInv(r)'
  <2>1. ~call.followed
    BY <1>1, <1>3, ToolIsNotFollowed
  <2> QED BY <2>1, <1>5 DEF FollowedInv, ToolSummary
<1>13. IdleInv(r)' /\ ReasonInv(r)'
  <2>1. reason[r] \notin {"stop", "tool_calls"}
    BY <1>2, <1>3 DEF ReasonInv
  <2> QED BY <2>1, <1>2 DEF IdleInv, ReasonInv
<1>14. SavedId(r) # Nil => SavedId(r)' = SavedId(r)
  <2>1. ctx[r] \in Contexts /\ call \in CallRecords
    BY <1>1 DEF CallsTypeInv, ToolStep
  <2> QED BY <2>1, <1>4, ContextFacts DEF SavedId
<1>15. OthersSame(r)
  BY <1>2, <1>4 DEF OthersSame
<1> QED BY <1>4, <1>7, <1>8, <1>9, <1>10, <1>11, <1>12, <1>13, <1>14, <1>15 DEF AnswerInv

\* text_message changes the calls and the blocks of its request alone.
LEMMA TextTypes ==
    ASSUME CallsTypeInv, NEW r \in Requests, NEW d, text_message(r, d)
    PROVE  CallsTypeInv' /\ OthersSame(r)
<1>0. ~Shown(mode[r], d) => UNCHANGED <<blocks, calls>>
  BY DEF text_message
<1>1. /\ calls' \in [Requests -> Seq(CallRecords)]
      /\ \A q \in Requests : q # r => calls'[q] = calls[q]
  BY <1>0, TextCallsStep DEF CallsTypeInv
<1>2. /\ blocks' \in [Requests -> Answered]
      /\ \A q \in Requests : q # r => blocks'[q] = blocks[q]
  BY <1>0, TextBlocksStep DEF CallsTypeInv, Answered
<1>3. UNCHANGED <<stage, mode, session, ctx, input_json, reason, store, overlapped, after>>
  BY DEF text_message
<1> QED BY <1>1, <1>2, <1>3 DEF CallsTypeInv, OthersSame, Answered

\* end and disconnect add nothing to the answer.
LEMMA EndKeeps ==
    ASSUME CallsTypeInv, NEW r \in Requests, AnswerInv(r), end(r) \/ disconnect(r)
    PROVE  CallsTypeInv' /\ OthersSame(r) /\ AnswerInv(r)'
<1>1. /\ stage[r] = "open" /\ UNCHANGED <<mode, session, ctx, calls, blocks, input_json, overlapped, after>>
  BY DEF end, disconnect
<1>2. CallsInv(r)' /\ LengthInv(r)' /\ ArgsInv(r)' /\ CollectInv(r)' /\ FollowedInv(r)' /\ BlocksInv(r)'
  BY <1>1, SameAnswer
<1>3. /\ \/ /\ stage' = [stage EXCEPT ![r] = "done"] /\ store' = Stored(r)
            /\ \/ reason' = [reason EXCEPT ![r] = finish_reason(r)]
               \/ reason' = [reason EXCEPT ![r] = "error"]
         \/ /\ stage' = [stage EXCEPT ![r] = "gone"] /\ store' = store /\ reason' = reason
  BY DEF end, disconnect
<1>4. Stored(r) \in Ids
  BY DEF Stored, CallsTypeInv, Contexts
<1>5. finish_reason(r) \in {"stop", "tool_calls"} /\ (finish_reason(r) = "tool_calls" <=> ctx[r].processed # 0)
  BY DEF finish_reason
<1>6. CallsTypeInv'
  <2>1. stage' \in [Requests -> {"idle", "open", "done", "gone"}]
    BY <1>3 DEF CallsTypeInv
  <2>2. reason' \in [Requests -> {Nil, "stop", "tool_calls", "error"}]
    BY <1>3, <1>5 DEF CallsTypeInv
  <2>3. store' \in Ids
    BY <1>3, <1>4 DEF CallsTypeInv
  <2> QED BY <2>1, <2>2, <2>3, <1>1 DEF CallsTypeInv
<1>7. OthersSame(r)
  BY <1>1, <1>3 DEF CallsTypeInv, OthersSame
<1>8. IdleInv(r)'
  BY <1>3 DEF IdleInv, CallsTypeInv
<1>9. ReasonInv(r)'
  <2>1. reason[r] \notin {"stop", "tool_calls"}
    BY <1>1 DEF AnswerInv, ReasonInv
  <2>2. CASE reason' = [reason EXCEPT ![r] = finish_reason(r)] /\ stage' = [stage EXCEPT ![r] = "done"]
    <3>1. reason'[r] = finish_reason(r) /\ stage'[r] = "done"
      BY <2>2 DEF CallsTypeInv
    <3> QED BY <3>1, <1>1, <1>5 DEF ReasonInv
  <2>3. CASE reason' = [reason EXCEPT ![r] = "error"]
    <3>1. reason'[r] = "error"
      BY <2>3 DEF CallsTypeInv
    <3> QED BY <3>1 DEF ReasonInv
  <2>4. CASE reason' = reason
    BY <2>1, <2>4 DEF ReasonInv
  <2> QED BY <2>2, <2>3, <2>4, <1>3
<1> QED BY <1>2, <1>6, <1>7, <1>8, <1>9 DEF AnswerInv

\* The counters stay within their bounds.
LEMMA CountersKept ==
    ASSUME CallsTypeInv, CallsTypeInv', CountersInv, NEW r \in Requests, OthersSame(r),
           \/ sent' = sent /\ ctx'[r].processed \in {0, ctx[r].processed}
              /\ ctx'[r].raw_args_len \in {0, ctx[r].raw_args_len}
           \/ /\ sent < (IF session[r] THEN MaxShared ELSE MaxMessages) /\ sent' = sent + 1
              /\ ctx'[r].processed \in {ctx[r].processed, ctx[r].processed + 1}
              /\ ctx'[r].raw_args_len <= MaxLen
    PROVE  CountersInv'
<1>1. /\ \A q \in Requests : ctx[q].raw_args_len \in Nat /\ ctx[q].processed \in Nat
      /\ \A q \in Requests : ctx'[q].raw_args_len \in Nat /\ ctx'[q].processed \in Nat
  BY DEF CallsTypeInv, Contexts
<1>2. sent \in Nat /\ sent' \in Nat /\ sent <= sent' /\ sent' \in 0 .. MaxMessages
  BY BoundAssumption DEF CountersInv
<1>3. \A q \in Requests : q # r => ctx'[q] = ctx[q]
  BY DEF OthersSame
<1>4. ctx'[r].processed <= sent' /\ ctx'[r].raw_args_len <= MaxLen
  BY <1>1, <1>2, BoundAssumption DEF CountersInv
<1>5. \A q \in Requests : ctx'[q].processed <= sent' /\ ctx'[q].raw_args_len <= MaxLen
  <2> SUFFICES ASSUME NEW q \in Requests
               PROVE  ctx'[q].processed <= sent' /\ ctx'[q].raw_args_len <= MaxLen
    OBVIOUS
  <2>1. CASE q = r
    BY <2>1, <1>4
  <2>2. CASE q # r
    BY <2>2, <1>1, <1>2, <1>3 DEF CountersInv
  <2> QED BY <2>1, <2>2
<1> QED BY <1>2, <1>5 DEF CountersInv

\* What the counters of the context become with a message of a call.
LEMMA ToolCounters ==
    ASSUME CallsTypeInv, CountersInv, NEW r \in Requests,
           NEW len \in 1 .. MaxLen, NEW space \in BOOLEAN, NEW last \in BOOLEAN,
           NEW streaming \in BOOLEAN, NEW fresh \in BOOLEAN,
           tool_message(r, len, space, last, streaming, fresh)
    PROVE  /\ ctx'[r].processed \in {ctx[r].processed, ctx[r].processed + 1}
           /\ ctx'[r].raw_args_len <= MaxLen
<1>1. len \in Nat \ {0} /\ len <= MaxLen
  BY BoundAssumption
<1>2. PICK n, call : ToolStep(r, len, space, last, streaming, fresh, n, call)
  BY <1>1, ToolStepExists
<1>3. call.len = len /\ ctx'[r] = NextContext(ctx[r], call)
  BY <1>2 DEF ToolStep, CallsTypeInv
<1>4. ctx[r].raw_args_len \in Nat /\ ctx[r].processed \in Nat /\ ctx[r].raw_args_len <= MaxLen
  BY DEF CallsTypeInv, Contexts, CountersInv
<1>5. ctx'[r].raw_args_len \in {0, len, ctx[r].raw_args_len}
  BY <1>3 DEF NextContext
<1>6. ctx'[r].processed \in {ctx[r].processed, ctx[r].processed + 1}
  BY <1>3, <1>4 DEF NextContext
<1> QED BY <1>1, <1>4, <1>5, <1>6, BoundAssumption

\* A request begins in the session with the id stored.
LEMMA BeginKeepsSession ==
    ASSUME CallsTypeInv, SessionInv, NEW r \in Requests, NEW m \in Modes, NEW s \in BOOLEAN,
           begin(r, m, s), OthersSame(r)
    PROVE  SessionInv'
<1>1. /\ stage[r] = "idle" /\ (s => m \in Streams)
      /\ stage'[r] = "open" /\ mode'[r] = m /\ session'[r] = s
      /\ ctx'[r] = NewContext(Existing(m, s))
      /\ overlapped' <=> overlapped \/ (s /\ \E q \in SessionRequests : stage[q] = "open")
      /\ after'[r] = IF s THEN {q \in SessionRequests : stage[q] = "done"} ELSE {}
      /\ store' = store
  BY DEF begin, CallsTypeInv
<1>2. \A q \in Requests : q # r =>
        /\ stage'[q] = stage[q] /\ mode'[q] = mode[q] /\ session'[q] = session[q]
        /\ SavedId(q)' = SavedId(q) /\ after'[q] = after[q]
  BY DEF OthersSame, SavedId
<1>3. s => SavedId(r)' = store
  BY <1>1 DEF SavedId, NewContext, Existing
<1>4. \A q \in Requests : after[q] \subseteq Requests
  BY DEF CallsTypeInv
<1>5. ASSUME NEW q \in Requests
      PROVE  /\ session'[q] => mode'[q] \in Streams /\ stage'[q] # "idle"
             /\ \A p \in after'[q] : session'[p] /\ stage'[p] = "done"
  <2>1. session'[q] => mode'[q] \in Streams /\ stage'[q] # "idle"
    BY <1>1, <1>2 DEF SessionInv
  <2>2. ASSUME NEW p \in after'[q] PROVE session'[p] /\ stage'[p] = "done"
    <3>1. p \in Requests /\ session[p] /\ stage[p] = "done"
      <4>1. CASE q = r
        BY <4>1, <1>1 DEF SessionRequests
      <4>2. CASE q # r
        BY <4>2, <1>2, <1>4 DEF SessionInv
      <4> QED BY <4>1, <4>2
    <3> QED BY <3>1, <1>1, <1>2
  <2> QED BY <2>1, <2>2
<1>6. ASSUME ~overlapped'
      PROVE  /\ \A q \in SessionRequests' :
                  /\ stage'[q] = "done" => SavedId(q)' \in {Nil, store'}
                  /\ stage'[q] = "open" => store' \in {Nil, SavedId(q)'}
             /\ \A p, q \in SessionRequests' : stage'[p] = "open" /\ stage'[q] = "open" => p = q
             /\ \A p \in Requests : \A q \in after'[p] : SavedId(q)' \in {Nil, SavedId(p)'}
  <2>1. ~overlapped /\ (s => \A q \in SessionRequests : stage[q] # "open")
    BY <1>1, <1>6
  <2>2. \A q \in Requests : q # r => (q \in SessionRequests' <=> q \in SessionRequests)
    BY <1>2 DEF SessionRequests
  <2>3. SessionRequests' \subseteq Requests /\ (r \in SessionRequests' <=> s)
    BY <1>1 DEF SessionRequests
  <2>4. /\ \A q \in SessionRequests :
             /\ stage[q] = "done" => SavedId(q) \in {Nil, store}
             /\ stage[q] = "open" => store \in {Nil, SavedId(q)}
        /\ \A p, q \in SessionRequests : stage[p] = "open" /\ stage[q] = "open" => p = q
        /\ \A p \in Requests : \A q \in after[p] :
             /\ SavedId(q) \in {Nil, SavedId(p)}
             /\ stage[q] = "done"
    BY <2>1 DEF SessionInv
  <2>5. ASSUME NEW q \in SessionRequests'
        PROVE  /\ stage'[q] = "done" => SavedId(q)' \in {Nil, store'}
               /\ stage'[q] = "open" => store' \in {Nil, SavedId(q)'}
    BY <2>2, <2>3, <2>4, <1>1, <1>2, <1>3
  <2>6. ASSUME NEW p \in SessionRequests', NEW q \in SessionRequests',
               stage'[p] = "open", stage'[q] = "open"
        PROVE  p = q
    BY <2>1, <2>2, <2>3, <2>4, <2>6, <1>2
  <2>7. ASSUME NEW p \in Requests, NEW q \in after'[p] PROVE SavedId(q)' \in {Nil, SavedId(p)'}
    <3>1. q \in Requests /\ stage[q] = "done" /\ q # r
      BY <2>4, <1>1, <1>2, <1>4 DEF SessionRequests
    <3>2. CASE p = r
      <4>1. s /\ q \in SessionRequests
        BY <3>2, <1>1
      <4> QED BY <4>1, <3>1, <3>2, <2>4, <1>2, <1>3
    <3>3. CASE p # r
      BY <3>1, <3>3, <2>4, <1>2
    <3> QED BY <3>2, <3>3
  <2> QED BY <2>5, <2>6, <2>7
<1> QED BY <1>5, <1>6 DEF SessionInv

\* The messages of an open request: its id is set once and then kept.
LEMMA MessageKeepsSession ==
    ASSUME CallsTypeInv, SessionInv, NEW r \in Requests, stage[r] = "open",
           UNCHANGED <<stage, mode, session, store, overlapped, after>>, OthersSame(r),
           SavedId(r) # Nil => SavedId(r)' = SavedId(r)
    PROVE  SessionInv'
<1>1. \A q \in Requests : q # r => SavedId(q)' = SavedId(q)
  BY DEF OthersSame, SavedId
<1>2. SessionRequests' = SessionRequests /\ SessionRequests \subseteq Requests
  BY DEF SessionRequests
<1>3. \A q \in Requests : after[q] \subseteq Requests
  BY DEF CallsTypeInv
<1>4. ASSUME NEW q \in Requests
      PROVE  /\ session[q] => mode[q] \in Streams /\ stage[q] # "idle"
             /\ \A p \in after[q] : session[p] /\ stage[p] = "done"
  BY DEF SessionInv
<1>5. ASSUME ~overlapped
      PROVE  /\ \A q \in SessionRequests :
                  /\ stage[q] = "done" => SavedId(q)' \in {Nil, store}
                  /\ stage[q] = "open" => store \in {Nil, SavedId(q)'}
             /\ \A p, q \in SessionRequests : stage[p] = "open" /\ stage[q] = "open" => p = q
             /\ \A p \in Requests : \A q \in after[p] : SavedId(q)' \in {Nil, SavedId(p)'}
  <2>1. /\ \A q \in SessionRequests :
             /\ stage[q] = "done" => SavedId(q) \in {Nil, store}
             /\ stage[q] = "open" => store \in {Nil, SavedId(q)}
        /\ \A p, q \in SessionRequests : stage[p] = "open" /\ stage[q] = "open" => p = q
        /\ \A p \in Requests : \A q \in after[p] : SavedId(q) \in {Nil, SavedId(p)}
    BY <1>5 DEF SessionInv
  <2>2. ASSUME NEW p \in Requests, NEW q \in after[p] PROVE SavedId(q)' \in {Nil, SavedId(p)'}
    <3>1. q \in Requests /\ q # r
      BY <1>3, <1>4
    <3>2. SavedId(q)' = SavedId(q) /\ SavedId(q) \in {Nil, SavedId(p)}
      BY <3>1, <2>1, <1>1
    <3>3. SavedId(p) # Nil => SavedId(p)' = SavedId(p)
      BY <1>1
    <3> QED BY <3>2, <3>3
  <2>3. ASSUME NEW q \in SessionRequests
        PROVE  /\ stage[q] = "done" => SavedId(q)' \in {Nil, store}
               /\ stage[q] = "open" => store \in {Nil, SavedId(q)'}
    BY <2>1, <1>1, <1>2
  <2> QED BY <2>1, <2>2, <2>3
<1>6. /\ stage' = stage /\ mode' = mode /\ session' = session /\ store' = store
      /\ overlapped' = overlapped /\ after' = after
  OBVIOUS
<1> QED BY <1>2, <1>4, <1>5, <1>6 DEF SessionInv

\* The end of an answer stores its id, and a client that goes away stores none.
LEMMA EndKeepsSession ==
    ASSUME CallsTypeInv, SessionInv, NEW r \in Requests, end(r) \/ disconnect(r), OthersSame(r)
    PROVE  SessionInv'
<1>1. /\ stage[r] = "open" /\ stage'[r] \in {"done", "gone"}
      /\ mode' = mode /\ session' = session /\ ctx' = ctx /\ overlapped' = overlapped
      /\ after' = after
      /\ \/ stage'[r] = "done" /\ store' = Stored(r)
         \/ stage'[r] = "gone" /\ store' = store
  BY DEF end, disconnect, CallsTypeInv
<1>2. \A q \in Requests : q # r => stage'[q] = stage[q]
  BY DEF OthersSame
<1>3. SessionRequests' = SessionRequests /\ SessionRequests \subseteq Requests
      /\ \A q : SavedId(q)' = SavedId(q)
  BY <1>1 DEF SessionRequests, SavedId
<1>4. \A q \in Requests : after[q] \subseteq Requests
  BY DEF CallsTypeInv
<1>5. ASSUME NEW q \in Requests
      PROVE  /\ session[q] => mode[q] \in Streams /\ stage'[q] # "idle"
             /\ \A p \in after[q] : session[p] /\ stage'[p] = "done"
  <2>1. session[q] => mode[q] \in Streams /\ stage'[q] # "idle"
    BY <1>1, <1>2 DEF SessionInv
  <2>2. \A p \in after[q] : session[p] /\ stage[p] = "done" /\ p \in Requests /\ p # r
    BY <1>1, <1>4 DEF SessionInv
  <2> QED BY <2>1, <2>2, <1>2
<1>6. ASSUME ~overlapped
      PROVE  /\ \A q \in SessionRequests :
                  /\ stage'[q] = "done" => SavedId(q) \in {Nil, store'}
                  /\ stage'[q] = "open" => store' \in {Nil, SavedId(q)}
             /\ \A p, q \in SessionRequests : stage'[p] = "open" /\ stage'[q] = "open" => p = q
             /\ \A p \in Requests : \A q \in after[p] : SavedId(q) \in {Nil, SavedId(p)}
  <2>1. /\ \A q \in SessionRequests :
             /\ stage[q] = "done" => SavedId(q) \in {Nil, store}
             /\ stage[q] = "open" => store \in {Nil, SavedId(q)}
        /\ \A p, q \in SessionRequests : stage[p] = "open" /\ stage[q] = "open" => p = q
        /\ \A p \in Requests : \A q \in after[p] : SavedId(q) \in {Nil, SavedId(p)}
    BY <1>6 DEF SessionInv
  <2>2. CASE store' = store
    <3>1. ASSUME NEW q \in SessionRequests
          PROVE  /\ stage'[q] = "done" => SavedId(q) \in {Nil, store'}
                 /\ stage'[q] = "open" => store' \in {Nil, SavedId(q)}
      <4>1. CASE q # r
        BY <4>1, <2>1, <2>2, <1>2, <1>3
      <4>2. CASE q = r
        <5>1. mode[r] \in Streams /\ session[r]
          BY <4>2 DEF SessionInv, SessionRequests
        <5>2. stage'[r] = "done" => SavedId(r) \in {Nil, store'}
          BY <5>1, <1>1 DEF Stored, SavedId
        <5> QED BY <5>2, <4>2, <1>1
      <4> QED BY <4>1, <4>2
    <3> QED BY <3>1, <2>1, <1>1, <1>2, <1>3
  <2>3. CASE store' # store
    <3>1. r \in SessionRequests /\ store' = SavedId(r) /\ stage'[r] = "done"
      BY <2>3, <1>1 DEF Stored, SavedId, SessionRequests
    <3>2. store \in {Nil, SavedId(r)}
      BY <3>1, <2>1, <1>1
    <3>3. ASSUME NEW q \in SessionRequests
          PROVE  /\ stage'[q] = "done" => SavedId(q) \in {Nil, store'}
                 /\ stage'[q] # "open"
      BY <3>1, <3>2, <2>1, <1>1, <1>2, <1>3
    <3> QED BY <3>3, <2>1
  <2> QED BY <2>2, <2>3
<1> QED BY <1>1, <1>3, <1>5, <1>6 DEF SessionInv

\* A request begins with the id of one that is done, or with none.
LEMMA BeginKeepsOwner ==
    ASSUME CallsTypeInv, OwnerInv, NEW r \in Requests, AnswerInv(r), NEW m \in Modes,
           NEW s \in BOOLEAN, begin(r, m, s), OthersSame(r)
    PROVE  OwnerInv'
<1>1. /\ stage[r] = "idle" /\ session'[r] = s
      /\ ctx'[r] = NewContext(Existing(m, s))
      /\ after'[r] = IF s THEN {q \in SessionRequests : stage[q] = "done"} ELSE {}
      /\ store' = store /\ calls' = calls
  BY DEF begin, CallsTypeInv
<1>2. calls[r] = <<>>
  BY <1>1 DEF AnswerInv, IdleInv
<1>3. ASSUME store # Nil PROVE store[1] \in SessionRequests' /\ stage'[store[1]] = "done"
  <2>1. store[1] \in Requests /\ session[store[1]] /\ stage[store[1]] = "done"
    BY <1>3 DEF OwnerInv, SessionRequests
  <2>2. store[1] # r
    BY <2>1, <1>1
  <2> QED BY <2>1, <2>2 DEF OthersSame, SessionRequests
<1>4. SavedId(r)' = IF m \in Streams /\ s THEN store ELSE Nil
  BY <1>1 DEF SavedId, NewContext, Existing
<1>5. OwnId(r, SavedId(r)') \/ SavedId(r)'[1] \in after'[r]
  <2>1. CASE SavedId(r)' = Nil
    BY <2>1 DEF OwnId
  <2>2. CASE SavedId(r)' # Nil
    <3>1. s /\ SavedId(r)' = store /\ store # Nil
      BY <2>2, <1>4
    <3>2. store[1] \in SessionRequests /\ stage[store[1]] = "done"
      BY <3>1 DEF OwnerInv
    <3> QED BY <3>1, <3>2, <1>1
  <2> QED BY <2>1, <2>2
<1>6. ASSUME NEW q \in Requests
      PROVE  /\ \A n \in DOMAIN calls'[q] : OwnId(q, calls'[q][n].model_call_id)
             /\ OwnId(q, SavedId(q)') \/ SavedId(q)'[1] \in after'[q]
  <2>1. CASE q # r
    <3>1. SavedId(q)' = SavedId(q) /\ after'[q] = after[q]
      BY <2>1 DEF OthersSame, SavedId
    <3> QED BY <3>1, <1>1 DEF OwnerInv
  <2>2. CASE q = r
    BY <2>2, <1>1, <1>5 DEF OwnerInv
  <2> QED BY <2>1, <2>2
<1> QED BY <1>1, <1>3, <1>6 DEF OwnerInv

\* A message leaves the id as it is, or sets it to one of its own.
LEMMA MessageKeepsOwner ==
    ASSUME OwnerInv, NEW r \in Requests, OthersSame(r),
           UNCHANGED <<stage, session, store, after>>,
           \A n \in DOMAIN calls'[r] : OwnId(r, calls'[r][n].model_call_id),
           SavedId(r)' = SavedId(r) \/ OwnId(r, SavedId(r)')
    PROVE  OwnerInv'
<1>1. stage' = stage /\ session' = session /\ store' = store /\ after' = after
  OBVIOUS
<1>2. ASSUME NEW q \in Requests
      PROVE  /\ \A n \in DOMAIN calls'[q] : OwnId(q, calls'[q][n].model_call_id)
             /\ OwnId(q, SavedId(q)') \/ SavedId(q)'[1] \in after'[q]
  <2>1. CASE q # r
    <3>1. SavedId(q)' = SavedId(q) /\ calls'[q] = calls[q]
      BY <2>1 DEF OthersSame, SavedId
    <3> QED BY <3>1, <1>1 DEF OwnerInv
  <2>2. CASE q = r
    <3>1. OwnId(r, SavedId(r)) \/ SavedId(r)[1] \in after[r]
      BY DEF OwnerInv
    <3> QED BY <3>1, <2>2, <1>1
  <2> QED BY <2>1, <2>2
<1>3. store # Nil => store[1] \in SessionRequests /\ stage[store[1]] = "done"
  BY DEF OwnerInv
<1>4. SessionRequests' = SessionRequests
  BY <1>1 DEF SessionRequests
<1> QED BY <1>1, <1>2, <1>3, <1>4 DEF OwnerInv

\* The ids of the calls after a message of a call, and the id saved.
LEMMA ToolOwner ==
    ASSUME CallsTypeInv, OwnerInv, NEW r \in Requests,
           NEW len \in Nat \ {0}, NEW space \in BOOLEAN, NEW last \in BOOLEAN,
           NEW streaming \in BOOLEAN, NEW fresh \in BOOLEAN,
           tool_message(r, len, space, last, streaming, fresh)
    PROVE  /\ \A n \in DOMAIN calls'[r] : OwnId(r, calls'[r][n].model_call_id)
           /\ SavedId(r)' = SavedId(r) \/ OwnId(r, SavedId(r)')
<1>1. PICK n, call : ToolStep(r, len, space, last, streaming, fresh, n, call)
  BY ToolStepExists
<1>2. \A k \in DOMAIN calls[r] : OwnId(r, calls[r][k].model_call_id)
  BY DEF OwnerInv
<1>3. /\ n \in Nat \ {0} /\ DOMAIN calls'[r] = 1 .. n /\ calls'[r][n] = call
      /\ \A k \in 1 .. n : k # n => k \in DOMAIN calls[r] /\ calls'[r][k] = calls[r][k]
      /\ Finished(r) => OwnId(r, call.model_call_id)
      /\ ~Finished(r) => /\ n \in DOMAIN calls[r]
                         /\ call.model_call_id = calls[r][n].model_call_id
  BY <1>1 DEF ToolStep
<1>4. OwnId(r, call.model_call_id)
  BY <1>2, <1>3
<1>5. SavedId(r)' = Saved(ctx[r], call.model_call_id)
  <2>1. ctx' = [ctx EXCEPT ![r] = NextContext(ctx[r], call)]
    BY <1>1 DEF ToolStep
  <2>2. ctx'[r] = NextContext(ctx[r], call)
    BY <2>1 DEF CallsTypeInv
  <2> QED BY <2>2 DEF NextContext, SavedId
<1>6. SavedId(r)' \in {SavedId(r), call.model_call_id}
  BY <1>5 DEF Saved, SavedId
<1> QED BY <1>2, <1>3, <1>4, <1>6

\* The ids of the calls after content.
LEMMA TextOwner ==
    ASSUME CallsTypeInv, OwnerInv, NEW r \in Requests, NEW d, text_message(r, d)
    PROVE  \A n \in DOMAIN calls'[r] : OwnId(r, calls'[r][n].model_call_id)
<1>1. \A n \in DOMAIN calls[r] : OwnId(r, calls[r][n].model_call_id)
  BY DEF OwnerInv
<1>2. CASE Shown(mode[r], d)
  <2>1. TextCalls(r)
    BY <1>2, TextCallsStep
  <2> QED BY <2>1, <1>1 DEF TextCalls
<1>3. CASE ~Shown(mode[r], d)
  <2>1. calls' = calls
    BY <1>3 DEF text_message
  <2> QED BY <2>1, <1>1
<1> QED BY <1>2, <1>3

\* The end of an answer stores an id of its own or of a request done before.
LEMMA EndKeepsOwner ==
    ASSUME CallsTypeInv, SessionInv, OwnerInv, NEW r \in Requests, end(r) \/ disconnect(r),
           OthersSame(r)
    PROVE  OwnerInv'
<1>1. /\ stage[r] = "open" /\ session' = session /\ ctx' = ctx /\ calls' = calls
      /\ after' = after
      /\ \/ stage'[r] = "done" /\ store' = Stored(r)
         \/ stage'[r] = "gone" /\ store' = store
  BY DEF end, disconnect, CallsTypeInv
<1>2. SessionRequests' = SessionRequests /\ \A q : SavedId(q)' = SavedId(q)
  BY <1>1 DEF SessionRequests, SavedId
<1>3. \A q \in SessionRequests : stage[q] = "done" => stage'[q] = "done"
  BY <1>1 DEF OthersSame, SessionRequests
<1>4. ASSUME store' # Nil PROVE store'[1] \in SessionRequests /\ stage'[store'[1]] = "done"
  <2>1. CASE store' = store
    <3>1. store[1] \in SessionRequests /\ stage[store[1]] = "done"
      BY <1>4, <2>1 DEF OwnerInv
    <3> QED BY <3>1, <2>1, <1>3
  <2>2. CASE store' # store
    <3>1. r \in SessionRequests /\ store' = SavedId(r) /\ SavedId(r) # Nil /\ stage'[r] = "done"
      BY <2>2, <1>1 DEF Stored, SavedId, SessionRequests
    <3>2. store'[1] = r \/ store'[1] \in after[r]
      <4>1. OwnId(r, SavedId(r)) \/ SavedId(r)[1] \in after[r]
        BY DEF OwnerInv
      <4> QED BY <4>1, <3>1 DEF OwnId
    <3>3. \A q \in after[r] : q \in SessionRequests /\ stage[q] = "done"
      BY DEF SessionInv, CallsTypeInv, SessionRequests
    <3> QED BY <3>1, <3>2, <3>3, <1>3
  <2> QED BY <2>1, <2>2
<1>5. \A q \in Requests :
        /\ \A n \in DOMAIN calls[q] : OwnId(q, calls[q][n].model_call_id)
        /\ OwnId(q, SavedId(q)) \/ SavedId(q)[1] \in after[q]
  BY DEF OwnerInv
<1> QED BY <1>1, <1>2, <1>4, <1>5 DEF OwnerInv

-----------------------------------------------------------------------------
\* The invariant.

\* It holds before any request.
LEMMA CallsStart == CallsInit => CallsIInv
<1> SUFFICES ASSUME CallsInit PROVE CallsIInv
  OBVIOUS
<1>1. CallsTypeInv
  <2>1. NewContext(Nil) \in Contexts
    BY DEF NewContext, Contexts, Ids
  <2>2. <<>> \in Seq(CallRecords) /\ <<>> \in Seq({Text} \cup ToolBlocks) /\ <<>> \in Seq(CallPieces)
    OBVIOUS
  <2>3. "chunks" \in Modes /\ Nil \in Ids
    BY DEF Modes, Ids
  <2> QED BY <2>1, <2>2, <2>3 DEF CallsInit, CallsTypeInv
<1>2. CountersInv
  BY BoundAssumption DEF CallsInit, CountersInv, NewContext
<1>3. SessionInv
  BY DEF CallsInit, SessionInv, SessionRequests
<1>4. ASSUME NEW r \in Requests PROVE AnswerInv(r)
  <2>1. /\ calls[r] = <<>> /\ blocks[r] = <<>> /\ input_json[r] = <<>> /\ after[r] = {}
        /\ reason[r] = Nil /\ stage[r] = "idle" /\ mode[r] \in Streams
        /\ ctx[r].processed = 0 /\ ctx[r].raw_args_len = 0
    BY DEF CallsInit, NewContext
  <2>2. DOMAIN <<>> = {}
    OBVIOUS
  <2>3. ToolsOf(<<>>) = {}
    BY <2>2 DEF ToolsOf
  <2>4. Finished(r)
    BY <2>1 DEF Finished
  <2>5. IdleInv(r) /\ CallsInv(r) /\ LengthInv(r) /\ ArgsInv(r)
    BY <2>1, <2>2, <2>3, <2>4 DEF IdleInv, CallsInv, LengthInv, ArgsInv
  <2>6. CollectInv(r) /\ FollowedInv(r) /\ BlocksInv(r)
    BY <2>1, <2>3 DEF CollectInv, FollowedInv, BlocksInv
  <2>7. ReasonInv(r)
    BY <2>1, NilAssumption DEF ReasonInv
  <2> QED BY <2>5, <2>6, <2>7 DEF AnswerInv
<1>5. OwnerInv
  <2>1. \A r \in Requests : SavedId(r) = Nil /\ calls[r] = <<>>
    BY DEF CallsInit, SavedId, NewContext
  <2>2. store = Nil /\ DOMAIN <<>> = {}
    BY DEF CallsInit
  <2> QED BY <2>1, <2>2 DEF OwnerInv, OwnId
<1> QED BY <1>1, <1>2, <1>3, <1>4, <1>5 DEF CallsIInv

\* A step of one request keeps what holds of the others.
LEMMA OthersKeep ==
    ASSUME CallsIInv, NEW r \in Requests, OthersSame(r), AnswerInv(r)'
    PROVE  (\A q \in Requests : AnswerInv(q))'
<1> SUFFICES ASSUME NEW q \in Requests PROVE AnswerInv(q)'
  OBVIOUS
<1>1. CASE q = r
  BY <1>1
<1>2. CASE q # r
  <2>1. /\ stage'[q] = stage[q] /\ mode'[q] = mode[q]
        /\ ctx'[q] = ctx[q] /\ calls'[q] = calls[q] /\ blocks'[q] = blocks[q]
        /\ input_json'[q] = input_json[q] /\ reason'[q] = reason[q] /\ after'[q] = after[q]
    BY <1>2 DEF OthersSame
  <2>2. AnswerInv(q)
    BY DEF CallsIInv
  <2> QED BY <2>1, <2>2, UntouchedAnswer
<1> QED BY <1>1, <1>2

\* Every step keeps it.
LEMMA CallsStep == CallsIInv /\ [CallsNext]_callVars => CallsIInv'
<1> SUFFICES ASSUME CallsIInv, [CallsNext]_callVars PROVE CallsIInv'
  OBVIOUS
<1>0. CallsTypeInv /\ CountersInv /\ SessionInv /\ OwnerInv /\ \A r \in Requests : AnswerInv(r)
  BY DEF CallsIInv
<1>1. ASSUME NEW r \in Requests, NEW m \in Modes, NEW s \in BOOLEAN, begin(r, m, s) PROVE CallsIInv'
  <2>1. CallsTypeInv' /\ OthersSame(r) /\ AnswerInv(r)'
    BY <1>0, <1>1, BeginKeeps
  <2>2. SessionInv'
    BY <2>1, <1>0, <1>1, BeginKeepsSession
  <2>3. sent' = sent /\ ctx'[r].processed = 0 /\ ctx'[r].raw_args_len = 0
    BY <1>0, <1>1 DEF begin, CallsTypeInv, NewContext
  <2>4. CountersInv'
    BY <2>1, <2>3, <1>0, CountersKept
  <2>5. (\A q \in Requests : AnswerInv(q))'
    BY <2>1, OthersKeep
  <2>6. OwnerInv'
    BY <2>1, <1>0, <1>1, BeginKeepsOwner
  <2> QED BY <2>1, <2>2, <2>4, <2>5, <2>6 DEF CallsIInv
<1>2. ASSUME NEW r \in Requests, NEW len \in 1 .. MaxLen, NEW space \in BOOLEAN, NEW last \in BOOLEAN,
             NEW streaming \in BOOLEAN, NEW fresh \in BOOLEAN,
             tool_message(r, len, space, last, streaming, fresh)
      PROVE  CallsIInv'
  <2>0. len \in Nat \ {0}
    BY BoundAssumption
  <2>1. /\ CallsTypeInv' /\ OthersSame(r) /\ AnswerInv(r)'
        /\ SavedId(r) # Nil => SavedId(r)' = SavedId(r)
    BY <2>0, <1>0, <1>2, ToolKeeps
  <2>2. /\ stage[r] = "open" /\ UNCHANGED <<stage, mode, session, store, overlapped, after>>
        /\ sent < (IF session[r] THEN MaxShared ELSE MaxMessages) /\ sent' = sent + 1
    BY <1>2 DEF tool_message
  <2>3. SessionInv'
    BY <2>1, <2>2, <1>0, MessageKeepsSession
  <2>4. /\ ctx'[r].processed \in {ctx[r].processed, ctx[r].processed + 1}
        /\ ctx'[r].raw_args_len <= MaxLen
    BY <1>0, <1>2, ToolCounters
  <2>5. CountersInv'
    BY <2>1, <2>2, <2>4, <1>0, CountersKept
  <2>6. (\A q \in Requests : AnswerInv(q))'
    BY <2>1, OthersKeep
  <2>7. OwnerInv'
    <3>1. /\ \A n \in DOMAIN calls'[r] : OwnId(r, calls'[r][n].model_call_id)
          /\ SavedId(r)' = SavedId(r) \/ OwnId(r, SavedId(r)')
      BY <2>0, <1>0, <1>2, ToolOwner
    <3> QED BY <3>1, <2>1, <2>2, <1>0, MessageKeepsOwner
  <2> QED BY <2>1, <2>3, <2>5, <2>6, <2>7 DEF CallsIInv
<1>3. ASSUME NEW r \in Requests, NEW d \in Contents, text_message(r, d) PROVE CallsIInv'
  <2>1. CallsTypeInv' /\ OthersSame(r)
    BY <1>0, <1>3, TextTypes
  <2>2. AnswerInv(r)'
    BY <1>0, <1>3, TextKeeps
  <2>3. /\ stage[r] = "open" /\ UNCHANGED <<stage, mode, session, store, overlapped, after>>
        /\ sent < (IF session[r] THEN MaxShared ELSE MaxMessages) /\ sent' = sent + 1
        /\ ctx' = ctx
    BY <1>3 DEF text_message
  <2>4. SavedId(r)' = SavedId(r)
    BY <2>3 DEF SavedId
  <2>5. SessionInv'
    BY <2>1, <2>3, <2>4, <1>0, MessageKeepsSession
  <2>6. ctx'[r].processed = ctx[r].processed /\ ctx'[r].raw_args_len <= MaxLen
    BY <2>3, <1>0 DEF CountersInv
  <2>7. CountersInv'
    BY <2>1, <2>3, <2>6, <1>0, CountersKept
  <2>8. (\A q \in Requests : AnswerInv(q))'
    BY <2>1, <2>2, OthersKeep
  <2>9. OwnerInv'
    <3>1. \A n \in DOMAIN calls'[r] : OwnId(r, calls'[r][n].model_call_id)
      BY <1>0, <1>3, TextOwner
    <3> QED BY <3>1, <2>1, <2>3, <2>4, <1>0, MessageKeepsOwner
  <2> QED BY <2>1, <2>2, <2>5, <2>7, <2>8, <2>9 DEF CallsIInv
<1>4. ASSUME NEW r \in Requests, end(r) \/ disconnect(r) PROVE CallsIInv'
  <2>1. CallsTypeInv' /\ OthersSame(r) /\ AnswerInv(r)'
    BY <1>0, <1>4, EndKeeps
  <2>2. SessionInv'
    BY <2>1, <1>0, <1>4, EndKeepsSession
  <2>3. sent' = sent /\ ctx' = ctx
    BY <1>4 DEF end, disconnect
  <2>4. CountersInv'
    BY <2>1, <2>3, <1>0, CountersKept
  <2>5. (\A q \in Requests : AnswerInv(q))'
    BY <2>1, OthersKeep
  <2>6. OwnerInv'
    BY <2>1, <1>0, <1>4, EndKeepsOwner
  <2> QED BY <2>1, <2>2, <2>4, <2>5, <2>6 DEF CallsIInv
<1>5. CASE UNCHANGED callVars
  <2>1. /\ stage' = stage /\ mode' = mode /\ session' = session /\ ctx' = ctx /\ calls' = calls
        /\ blocks' = blocks /\ input_json' = input_json /\ reason' = reason /\ sent' = sent
        /\ store' = store /\ overlapped' = overlapped /\ after' = after
    BY <1>5 DEF callVars
  <2>2. CallsTypeInv'
    BY <2>1, <1>0 DEF CallsTypeInv
  <2>3. CountersInv'
    BY <2>1, <1>0 DEF CountersInv
  <2>4. SessionInv'
    BY <2>1, <1>0 DEF SessionInv, SessionRequests, SavedId
  <2>5. ASSUME NEW q \in Requests PROVE AnswerInv(q)'
    BY <2>1, <1>0, UntouchedAnswer
  <2>6. OwnerInv'
    BY <2>1, <1>0 DEF OwnerInv, SessionRequests, SavedId
  <2> QED BY <2>2, <2>3, <2>4, <2>5, <2>6 DEF CallsIInv
<1> QED BY <1>1, <1>2, <1>3, <1>4, <1>5 DEF CallsNext

\* The inductive invariant holds of every behaviour.
LEMMA CallsInvariance == CallsSpec => []CallsIInv
  BY CallsStart, CallsStep, PTL DEF CallsSpec

-----------------------------------------------------------------------------
\* What the invariant gives.

\* Positions of a call that were handed on are in a block of a tool call.
LEMMA FullHasBlock ==
    ASSUME NEW b \in Answered, NEW n, NEW len \in Nat \ {0}, InFull(b, n, len)
    PROVE  ToolsOf(b) # {} /\ PlacesOf(b, n) # {}
<1>1. 0 \in UNION {PieceAt(b, p).from .. PieceAt(b, p).to - 1 : p \in PlacesOf(b, n)}
  <2>1. 0 \in 0 .. len - 1
    OBVIOUS
  <2> QED BY <2>1 DEF InFull
<1>2. PICK p \in PlacesOf(b, n) : TRUE
  BY <1>1
<1>3. p \in Places(b)
  BY DEF PlacesOf
<1> QED BY <1>3, PieceTypes

\* The types of ToolCalls, and the bounds of the decoder's counters, at every step.
THEOREM CallsTypeCorrect == CallsSpec => []CallsTypeOK
<1>1. CallsIInv => CallsTypeOK
  <2> SUFFICES ASSUME CallsTypeInv, CountersInv PROVE CallsTypeOK
    BY DEF CallsIInv
  <2>1. \A r \in Requests :
          ctx[r].raw_args_len \in 0 .. MaxLen /\ ctx[r].processed \in 0 .. MaxMessages
    <3> SUFFICES ASSUME NEW r \in Requests
                 PROVE  ctx[r].raw_args_len \in 0 .. MaxLen /\ ctx[r].processed \in 0 .. MaxMessages
      OBVIOUS
    <3>1. ctx[r].raw_args_len \in Nat /\ ctx[r].processed \in Nat
      BY DEF CallsTypeInv, Contexts
    <3> QED BY <3>1, BoundAssumption DEF CountersInv
  <2> QED BY <2>1 DEF CallsTypeInv, CountersInv, CallsTypeOK
<1> QED BY <1>1, CallsInvariance, PTL

\* Context::processed and the increments of handle_text_message: a streamed
\* answer has the arguments of every counted call once, in order and complete,
\* unless an earlier call ended uncounted.
THEOREM WholeArguments == CallsSpec => []ArgumentsAreWhole
<1>1. CallsIInv => ArgumentsAreWhole
  <2> SUFFICES ASSUME CallsIInv, NEW r \in Requests, NEW n \in DOMAIN calls[r],
                      mode[r] \in Streams, calls[r][n].counted,
                      ~\E m \in 1 .. n - 1 : Uncounted(r, m)
               PROVE  InFull(blocks[r], n, calls[r][n].len)
    BY DEF ArgumentsAreWhole
  <2>1. DOMAIN calls[r] = 1 .. Len(calls[r]) /\ Len(calls[r]) \in Nat
    BY DEF CallsIInv, CallsTypeInv
  <2>2. CleanBefore(r, n)
    BY <2>1 DEF CleanBefore
  <2> QED BY <2>2 DEF CallsIInv, AnswerInv, ArgsInv
<1> QED BY <1>1, CallsInvariance, PTL

\* process_messages: when content that a streamed answer shows separates its calls
\* and comes inside none, no two calls share a block, no call has two, and each
\* counted call has one, under its own id, unless an earlier one ended uncounted.
THEOREM BlocksAreCalls == CallsSpec => []BlocksFollowCalls
<1>1. CallsIInv => BlocksFollowCalls
  <2> SUFFICES ASSUME CallsIInv, NEW r \in Requests, mode[r] \in Streams, Separated(r)
               PROVE  /\ \A i \in ToolsOf(blocks[r]) : \A j \in DOMAIN blocks[r][i].pieces :
                            blocks[r][i].pieces[j].call = blocks[r][i].id.call
                      /\ \A i, k \in ToolsOf(blocks[r]) :
                            blocks[r][i].id.call = blocks[r][k].id.call => i = k
                      /\ \A n \in DOMAIN calls[r] : calls[r][n].counted =>
                            \/ \E i \in ToolsOf(blocks[r]) : blocks[r][i].id.call = n
                            \/ \E m \in 1 .. n - 1 : Uncounted(r, m)
    BY DEF BlocksFollowCalls
  <2> DEFINE b == blocks[r]
  <2>1. /\ \A i \in ToolsOf(b) : \A j \in DOMAIN b[i].pieces : b[i].pieces[j].call = b[i].id.call
        /\ \A i, k \in ToolsOf(b) : i < k => b[i].id.call < b[k].id.call
    BY DEF CallsIInv, AnswerInv, BlocksInv
  <2>2. b \in Answered
    BY DEF CallsIInv, CallsTypeInv, Answered
  <2> HIDE DEF b
  <2>3. \A i \in ToolsOf(b) : i \in Nat /\ b[i] \in ToolBlocks
    BY <2>2, BlockTypes
  <2>4. \A i \in ToolsOf(b) : b[i].id.call \in Nat
    BY <2>3 DEF ToolBlocks
  <2>5. ASSUME NEW i \in ToolsOf(b), NEW k \in ToolsOf(b), b[i].id.call = b[k].id.call PROVE i = k
    <3>1. ~(i < k) /\ ~(k < i)
      BY <2>1, <2>4, <2>5
    <3> QED BY <3>1, <2>3
  <2>6. ASSUME NEW n \in DOMAIN calls[r], calls[r][n].counted, ~\E m \in 1 .. n - 1 : Uncounted(r, m)
        PROVE  \E i \in ToolsOf(b) : b[i].id.call = n
    <3>1. calls[r] \in Seq(CallRecords)
      BY DEF CallsIInv, CallsTypeInv
    <3>2. DOMAIN calls[r] = 1 .. Len(calls[r]) /\ Len(calls[r]) \in Nat /\ calls[r][n] \in CallRecords
      BY <3>1, ElementOfSeq
    <3>3. CleanBefore(r, n)
      BY <3>2, <2>6 DEF CleanBefore
    <3>4. InFull(b, n, calls[r][n].len) /\ calls[r][n].len \in Nat \ {0}
      BY <3>2, <3>3, <2>6 DEF CallsIInv, AnswerInv, ArgsInv, CallRecords, b
    <3>5. PICK p \in PlacesOf(b, n) : TRUE
      BY <3>4, <2>2, FullHasBlock
    <3>6. p \in Places(b) /\ PieceAt(b, p).call = n
      BY DEF PlacesOf
    <3>7. p[1] \in ToolsOf(b) /\ p[2] \in DOMAIN b[p[1]].pieces
      BY <3>6, <2>2, PieceTypes
    <3>8. b[p[1]].id.call = n
      BY <3>6, <3>7, <2>1 DEF PieceAt
    <3> QED BY <3>7, <3>8
  <2> QED BY <2>1, <2>5, <2>6 DEF b
<1> QED BY <1>1, CallsInvariance, PTL

\* handle_messages without streaming: every counted call is answered, unless it
\* or an earlier one was spread over chunks or an earlier one ended uncounted.
THEOREM CollectedCalls == CallsSpec => []CollectedCallsArrive
<1>1. CallsIInv => CollectedCallsArrive
  <2> SUFFICES ASSUME CallsIInv, NEW r \in Requests, NEW n \in DOMAIN calls[r],
                      mode[r] = "anthropic", calls[r][n].counted,
                      ~\E m \in 1 .. n : calls[r][m].spread \/ Uncounted(r, m)
               PROVE  InFull(blocks[r], n, calls[r][n].len)
    BY DEF CollectedCallsArrive
  <2>1. DOMAIN calls[r] = 1 .. Len(calls[r]) /\ Len(calls[r]) \in Nat
    BY DEF CallsIInv, CallsTypeInv
  <2>2. \A k \in DOMAIN calls[r] : k <= n => ~Uncounted(r, k) /\ ~calls[r][k].spread
    BY <2>1
  <2> QED BY <2>2 DEF CallsIInv, AnswerInv, CollectInv
<1> QED BY <1>1, CallsInvariance, PTL

\* The finish reason is tool_calls exactly when the answer has a tool call, unless
\* a call is unfinished, ended uncounted or was spread over chunks.
THEOREM FinishReason == CallsSpec => []FinishReasonTells
<1>1. CallsIInv => FinishReasonTells
  <2> SUFFICES ASSUME CallsIInv, NEW r \in Requests, reason[r] \in {"stop", "tool_calls"},
                      ~\E n \in DOMAIN calls[r] : ~calls[r][n].counted \/ calls[r][n].spread
               PROVE  reason[r] = "tool_calls" <=> ToolsOf(blocks[r]) # {}
    BY DEF FinishReasonTells
  <2> DEFINE b == blocks[r]
  <2>1. /\ reason[r] = "tool_calls" <=> ctx[r].processed # 0
        /\ (\E n \in DOMAIN calls[r] : calls[r][n].counted) <=> ctx[r].processed # 0
        /\ \A i \in ToolsOf(b) : b[i].id.call \in DOMAIN calls[r]
    BY DEF CallsIInv, AnswerInv, ReasonInv, CallsInv
  <2>2. \A n \in DOMAIN calls[r] : calls[r][n].counted /\ ~calls[r][n].spread /\ ~Uncounted(r, n)
    BY DEF Uncounted
  <2>3. /\ b \in Answered /\ mode[r] \in Streams \cup {"openai", "anthropic"}
        /\ \A n \in DOMAIN calls[r] : calls[r][n].len \in Nat \ {0}
    <3>1. calls[r] \in Seq(CallRecords) /\ b \in Answered /\ mode[r] \in Modes
      BY DEF CallsIInv, CallsTypeInv, Answered
    <3>2. \A n \in DOMAIN calls[r] : calls[r][n] \in CallRecords
      BY <3>1, ElementOfSeq
    <3> QED BY <3>1, <3>2 DEF Modes, CallRecords
  <2>4. ASSUME NEW n \in DOMAIN calls[r] PROVE ToolsOf(b) # {}
    <3>1. InFull(b, n, calls[r][n].len)
      <4>1. CASE mode[r] \in Streams \cup {"openai"}
        <5>1. CleanBefore(r, n)
          BY <2>2 DEF CleanBefore
        <5> QED BY <5>1, <4>1, <2>2 DEF CallsIInv, AnswerInv, ArgsInv
      <4>2. CASE mode[r] = "anthropic"
        BY <4>2, <2>2 DEF CallsIInv, AnswerInv, CollectInv
      <4> QED BY <4>1, <4>2, <2>3
    <3> HIDE DEF b
    <3> QED BY <3>1, <2>3, FullHasBlock
  <2> QED BY <2>1, <2>2, <2>4
<1> QED BY <1>1, CallsInvariance, PTL

\* The model ids of an answer are the one id that its context saved.
LEMMA ModelIdsSaved ==
    ASSUME CallsIInv, NEW r \in Requests
    PROVE  ModelIds(r) \subseteq {SavedId(r)} \ {Nil}
<1>1. \A i \in ToolsOf(blocks[r]) : blocks[r][i].id.model \in {Nil, SavedId(r)}
  BY DEF CallsIInv, AnswerInv, CallsInv, SavedId
<1> QED BY <1>1 DEF ModelIds

\* A set with one element at most.
LEMMA AtMostOne == ASSUME NEW S, NEW x, S \subseteq {x} PROVE Cardinality(S) <= 1
<1>1. IsFiniteSet({x}) /\ Cardinality({x}) = 1
  BY FS_Singleton
<1> QED BY <1>1, FS_Subset

\* saved_model_call_id and SESSION_STORE: the tool calls of an answer share one
\* model_call_id; it is the request's own or that of one of its session which was
\* answered before it began; and the two then share it, unless two requests of the
\* session overlapped.
THEOREM OneModelId == CallsSpec => []OneModelCallId
<1>1. CallsIInv => OneModelCallId
  <2> SUFFICES ASSUME CallsIInv, NEW r \in Requests
               PROVE  /\ Cardinality(ModelIds(r)) <= 1
                      /\ \A id \in ModelIds(r) : id[1] = r \/ id[1] \in after[r]
                      /\ \A q \in after[r] :
                            ~overlapped => Cardinality(ModelIds(r) \cup ModelIds(q)) <= 1
    BY DEF OneModelCallId
  <2>1. Cardinality(ModelIds(r)) <= 1
    BY ModelIdsSaved, AtMostOne
  <2>2. ASSUME NEW q \in after[r], ~overlapped PROVE Cardinality(ModelIds(r) \cup ModelIds(q)) <= 1
    <3>1. q \in Requests
      BY DEF CallsIInv, CallsTypeInv
    <3>2. SavedId(q) \in {Nil, SavedId(r)}
      BY <2>2 DEF CallsIInv, SessionInv
    <3>3. ModelIds(r) \subseteq {SavedId(r)} \ {Nil} /\ ModelIds(q) \subseteq {SavedId(q)} \ {Nil}
      BY <3>1, ModelIdsSaved
    <3>4. ModelIds(r) \cup ModelIds(q) \subseteq {SavedId(r)}
      BY <3>2, <3>3
    <3> QED BY <3>4, AtMostOne
  <2>3. ASSUME NEW id \in ModelIds(r) PROVE id[1] = r \/ id[1] \in after[r]
    <3>1. id = SavedId(r) /\ id # Nil
      BY ModelIdsSaved
    <3>2. OwnId(r, SavedId(r)) \/ SavedId(r)[1] \in after[r]
      BY DEF CallsIInv, OwnerInv
    <3> QED BY <3>1, <3>2 DEF OwnId
  <2> QED BY <2>1, <2>2, <2>3
<1> QED BY <1>1, CallsInvariance, PTL

=============================================================================
