---------------------------- MODULE StreamDecoder ----------------------------
(***************************************************************************)
(* One answer of the upstream server on its way to the client: the framing *)
(* buffer of crates/grpc-stream/src/buffer.rs, StreamDecoder of            *)
(* src/src/core/stream/decoder.rs and the part of handle_chat_completions  *)
(* in src/src/core/service.rs that feeds it (handle_messages does the      *)
(* same).  The upstream's frames arrive in chunks cut anywhere.  A         *)
(* streaming request first reads until the decoder has seen content and    *)
(* keeps what it decoded as its first result; every later chunk is decoded *)
(* and answered by one step of the response stream.  A request without     *)
(* streaming collects everything.                                          *)
(*                                                                         *)
(* A frame is reduced to what its message means to the decoder, and a      *)
(* message is named by the index of its frame.  Only the number of bytes   *)
(* received and consumed matters; both grow from the start of the answer.  *)
(***************************************************************************)
EXTENDS Integers, Sequences, SequencesExt, FiniteSetsExt

CONSTANTS HEADER,     \* bytes of a frame header (5 in the code)
          BODY,       \* bytes of a non-empty frame body
          MaxFrames,  \* bound: frames of an answer
          None

\* What a frame decodes to:
\*   "text"  Content; "other" a tool call or a thought, with content;
\*   "blank" a message without content, a web reference for example;
\*   "empty" no body; "skip" a body that gives no message;
\*   "end"   the end of the stream, or the error that stands for an abort of
\*           the user; "error" any other upstream error.
Inner == {"text", "other", "blank", "empty", "skip"}
Trailers == {"end", "error"}

ASSUME FrameAssumption == HEADER \in Nat \ {0} /\ BODY \in Nat \ {0} /\ MaxFrames \in Nat
ASSUME NoneAssumption == None \notin Seq(Nat)

VARIABLES
    frames,        \* the frames of this answer
    received,      \* bytes received
    consumed,      \* bytes advanced over in the buffer
    first_result, first_result_ready, first_result_taken, has_seen_content,
    phase,         \* where the request is
    over,          \* the connection broke: no chunk comes after it
    drop_stream,   \* the notification of DropHandle
    out,           \* messages answered, in this order
    answered,      \* history: a chunk was answered by the response stream
    late           \* history: one was answered while the first result stayed back

decoderVars == <<received, consumed, first_result, first_result_ready,
                 first_result_taken, has_seen_content>>
vars == <<frames, decoderVars, phase, over, drop_stream, out, answered, late>>

HasMessage(k) == k \in {"text", "other", "blank", "end"}
any_content(k) == k \in {"text", "other"}

total_size(k) == IF k = "empty" THEN HEADER ELSE HEADER + BODY

\* Where each frame ends, in bytes from the start.
Ends == LET e[i \in 0 .. Len(frames)] ==
              IF i = 0 THEN 0 ELSE e[i - 1] + total_size(frames[i])
        IN  e
Total == Ends[Len(frames)]

\* The trailer that ends an answer is its last frame; a broken answer has none.
Answers == LET inner == UNION {[1 .. n -> Inner] : n \in 0 .. MaxFrames}
           IN  inner \cup {Append(s, k) : s \in {t \in inner : Len(t) < MaxFrames}, k \in Trailers}

\* StreamDecoder::new; a request without streaming adds no_first_cache.
Init ==
    /\ frames \in Answers
    /\ phase \in {"first", "collect"}
    /\ received = 0
    /\ consumed = 0
    /\ first_result = None
    /\ first_result_ready = (phase = "collect")
    /\ first_result_taken = (phase = "collect")
    /\ has_seen_content = FALSE
    /\ over = FALSE
    /\ drop_stream = FALSE
    /\ out = <<>>
    /\ answered = FALSE
    /\ late = FALSE

-----------------------------------------------------------------------------
\* StreamDecoder::decode of a chunk of n bytes.

\* StreamError::EmptyStream: too little to decode.
Short(n) == n = 0 \/ received + n - consumed < HEADER

\* The frames that MessageIter finds complete in the buffer.
Complete(n) ==
    {i \in DOMAIN frames : Ends[i - 1] >= consumed /\ Ends[i] <= received + n}

\* The members of S in ascending order: each comes after those below it.
InOrder(S) ==
    [k \in 1 .. Cardinality(S) |-> CHOOSE x \in S : Cardinality({y \in S : y < x}) = k - 1]

Decoded(n) == InOrder({i \in Complete(n) : HasMessage(frames[i])})

Failing(n) == \E i \in Complete(n) : frames[i] = "error"

SeesContent(n) == has_seen_content \/ \E i \in Complete(n) : any_content(frames[i])

\* Mutant: newer messages replace the older ones of the first result.
Cache_replaced(messages) ==
    IF first_result_taken \/ messages = <<>> THEN first_result
    ELSE IF ~first_result_ready THEN messages
    ELSE first_result

\* The first result after messages were decoded.
Cache(messages) ==
    IF first_result_taken \/ messages = <<>> THEN first_result
    ELSE IF first_result = None THEN messages
    ELSE IF ~first_result_ready THEN first_result \o messages
    ELSE first_result

\* What decode returns: the messages that did not go into the first result.
Returned(messages) ==
    IF Cache(messages) = first_result THEN messages ELSE <<>>

\* StreamError::Upstream: the buffer is not advanced, and the messages of the
\* frames before the error are dropped.
decode_error(n) ==
    /\ ~Short(n)
    /\ Failing(n)
    /\ received' = received + n
    /\ has_seen_content' = SeesContent(n)
    /\ UNCHANGED <<consumed, first_result, first_result_ready, first_result_taken>>

decode_short(n) ==
    /\ Short(n)
    /\ received' = received + n
    /\ UNCHANGED <<consumed, first_result, first_result_ready, first_result_taken,
                   has_seen_content>>

\* The part of a successful decode that take_first_result does not touch.
decode_ok(n) ==
    /\ ~Short(n)
    /\ ~Failing(n)
    /\ received' = received + n
    /\ consumed' = Max({consumed} \cup {Ends[i] : i \in Complete(n)})
    /\ has_seen_content' = SeesContent(n)
    /\ first_result_ready' =
          (first_result_ready
             \/ (Cache(Decoded(n)) # None /\ ~first_result_taken /\ SeesContent(n)))

\* A chunk of the upstream's answer.
Chunk(n) == ~over /\ n \in 0 .. (Total - received)

\* stream.next() gives None.
Closed == over \/ received = Total

-----------------------------------------------------------------------------
\* "First": the handler reads until the first result is ready.

prime_ok(n) ==
    /\ phase = "first"
    /\ Chunk(n)
    /\ decode_ok(n)
    /\ first_result' = Cache(Decoded(n))
    /\ phase' = IF first_result_ready' THEN "stream" ELSE "first"
    /\ UNCHANGED <<frames, first_result_taken, over, drop_stream, out, answered, late>>

\* A short chunk is waited over, also while everything is collected.
wait_short(n) ==
    /\ phase \in {"first", "collect"}
    /\ Chunk(n)
    /\ decode_short(n)
    /\ UNCHANGED <<frames, phase, over, drop_stream, out, answered, late>>

refuse_upstream(n) ==
    /\ phase \in {"first", "collect"}
    /\ Chunk(n)
    /\ decode_error(n)
    /\ phase' = "refused"
    /\ UNCHANGED <<frames, over, drop_stream, out, answered, late>>

\* Before the response has begun a chunk that cannot be read is an error.
refuse_broken ==
    /\ phase \in {"first", "collect"}
    /\ ~over
    /\ over' = TRUE
    /\ phase' = "refused"
    /\ UNCHANGED <<frames, decoderVars, drop_stream, out, answered, late>>

\* Mutant: the loop goes on when the stream is over.
refuse_empty_waits ==
    /\ phase = "first"
    /\ Closed
    /\ UNCHANGED vars

\* The stream ends before any content.
refuse_empty ==
    /\ phase = "first"
    /\ Closed
    /\ phase' = "refused"
    /\ UNCHANGED <<frames, decoderVars, over, drop_stream, out, answered, late>>

-----------------------------------------------------------------------------
\* "Stream": one step of the response stream per chunk.

\* process_messages stops at the end of the stream.
Processed(messages) ==
    LET ends == {i \in DOMAIN messages : frames[messages[i]] = "end"}
    IN  IF ends = {} THEN messages ELSE SubSeq(messages, 1, Min(ends))

Ending(messages) == \E i \in DOMAIN messages : frames[messages[i]] = "end"

\* take_first_result: nothing while a part of a frame is in the buffer.
Takes(n) == Max({consumed} \cup {Ends[i] : i \in Complete(n)}) = received + n

\* Mutant: a copy is taken.
Left_copied(n) == Cache(Decoded(n))

\* The first result that stays in the decoder.
Left(n) == IF Takes(n) THEN None ELSE Cache(Decoded(n))

TakeFirst(n) ==
    IF Takes(n) /\ Cache(Decoded(n)) # None THEN Cache(Decoded(n)) ELSE <<>>

\* Mutant: the first result is put behind.
Response_swapped(first, returned) == Processed(returned) \o Processed(first)

\* The data of one step of the response stream.
Response(first, returned) == Processed(first) \o Processed(returned)

answer(n) ==
    LET returned == Returned(Decoded(n))
        first == TakeFirst(n)
    IN  /\ phase = "stream"
        /\ ~drop_stream
        /\ Chunk(n)
        /\ decode_ok(n)
        /\ first_result' = Left(n)
        /\ first_result_taken' = (first_result_taken \/ first # <<>>)
        /\ out' = out \o Response(first, returned)
        /\ drop_stream' = (Ending(first) \/ Ending(returned))
        /\ answered' = TRUE
        /\ late' = (late \/ first_result' # None)
        /\ UNCHANGED <<frames, phase, over>>

\* The error is answered as a message of its own.  The stream is not told to
\* stop: it ends with the upstream's.
answer_error(n) ==
    /\ phase = "stream"
    /\ ~drop_stream
    /\ Chunk(n)
    /\ decode_error(n)
    /\ out' = Append(out, Min({i \in Complete(n) : frames[i] = "error"}))
    /\ answered' = TRUE
    /\ late' = (late \/ first_result # None)
    /\ UNCHANGED <<frames, phase, over, drop_stream>>

\* The guard of `match decoder.lock().await.decode(..)' lives to the end of the
\* match; the arm for a short chunk locks the same mutex again and waits.
answer_short(n) ==
    /\ phase = "stream"
    /\ ~drop_stream
    /\ Chunk(n)
    /\ decode_short(n)
    /\ phase' = "hung"
    /\ UNCHANGED <<frames, over, drop_stream, out, answered, late>>

\* A chunk that cannot be read is answered with nothing.
skip_broken ==
    /\ phase = "stream"
    /\ ~drop_stream
    /\ ~over
    /\ over' = TRUE
    /\ UNCHANGED <<frames, decoderVars, phase, drop_stream, out, answered, late>>

\* The last item of the response, chained behind the stream.
finish ==
    /\ phase = "stream"
    /\ drop_stream \/ Closed
    /\ phase' = "done"
    /\ UNCHANGED <<frames, decoderVars, over, drop_stream, out, answered, late>>

-----------------------------------------------------------------------------
\* "Collect": a request without streaming.

collect(n) ==
    /\ phase = "collect"
    /\ Chunk(n)
    /\ decode_ok(n)
    /\ first_result' = Cache(Decoded(n))
    /\ out' = out \o Returned(Decoded(n))
    /\ UNCHANGED <<frames, first_result_taken, phase, over, drop_stream, answered, late>>

\* An answer without text is refused, one with tool calls only included.
collect_end ==
    /\ phase = "collect"
    /\ Closed
    /\ phase' = IF \E i \in DOMAIN out : frames[out[i]] = "text" THEN "done" ELSE "refused"
    /\ UNCHANGED <<frames, decoderVars, over, drop_stream, out, answered, late>>

-----------------------------------------------------------------------------

Receive(n) ==
    \/ prime_ok(n)
    \/ wait_short(n)
    \/ refuse_upstream(n)
    \/ answer(n)
    \/ answer_error(n)
    \/ answer_short(n)
    \/ collect(n)

Stop == refuse_empty \/ finish \/ collect_end

Next ==
    \/ \E n \in 0 .. Total : Receive(n)
    \/ refuse_broken
    \/ skip_broken
    \/ Stop

Spec == Init /\ [][Next]_vars

\* The upstream goes on sending until its answer is complete, or the connection
\* breaks; the handler's loop polls it.
FairSpec == Spec /\ WF_vars(\E n \in 1 .. Total : Receive(n)) /\ WF_vars(Stop)

-----------------------------------------------------------------------------

TypeOK ==
    /\ frames \in Answers
    /\ received \in 0 .. Total
    /\ consumed \in 0 .. received
    /\ first_result = None \/ first_result \in Seq(DOMAIN frames)
    /\ first_result_ready \in BOOLEAN
    /\ first_result_taken \in BOOLEAN
    /\ has_seen_content \in BOOLEAN
    /\ phase \in {"first", "stream", "collect", "hung", "refused", "done"}
    /\ over \in BOOLEAN
    /\ drop_stream \in BOOLEAN
    /\ out \in Seq(DOMAIN frames)
    /\ answered \in BOOLEAN
    /\ late \in BOOLEAN

Held == IF first_result = None THEN <<>> ELSE first_result

\* The messages of the frames the buffer has moved past.
Read == {i \in DOMAIN frames : HasMessage(frames[i]) /\ Ends[i] <= consumed}

\* However the frames are cut into chunks, each message that was read is kept
\* back or answered, exactly once and never both, and an answered error is the
\* only thing answered that the buffer still holds.
ReadIsAnsweredOnce ==
    LET all == Held \o out
    IN  /\ \A i, j \in DOMAIN all : all[i] = all[j] => i = j
        /\ Read \subseteq ToSet(all)
        /\ \A i \in ToSet(all) \ Read : frames[i] = "error"

\* The client gets the messages in the upstream's order unless a chunk was
\* answered while the first result stayed back: then the first result comes
\* after it.
InOrderUnlessLate ==
    ~late => \A i, j \in DOMAIN out : i < j => out[i] < out[j]

\* A response that is finished after at least one more chunk than the first
\* result needed, with no part of a frame left over, holds every message that
\* was received.  (With no further chunk at all the first result is never sent.)
WholeAnswerIsSent ==
    (phase = "done" /\ (answered \/ first_result_taken) /\ consumed = received) =>
        ToSet(out) = {i \in DOMAIN frames : HasMessage(frames[i]) /\ Ends[i] <= received}

\* Every request is answered or refused, or hangs.
EveryResponseEnds == <>(phase \in {"done", "refused", "hung"})

\* A short chunk does not keep the response from going on.
NeverHangs == phase # "hung"

=============================================================================
