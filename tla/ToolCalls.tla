----------------------------- MODULE ToolCalls -----------------------------
(***************************************************************************)
(* The tool calls of the upstream's answers on their way to the client:    *)
(* Context and handle_text_message in src/src/core/stream/decoder.rs cut   *)
(* the growing arguments of a streamed call into increments;               *)
(* process_messages in src/src/core/service.rs turns them into the blocks  *)
(* of a streamed answer, and the branches without streaming collect them.  *)
(* SESSION_STORE keeps, for the requests of one X-Session-ID, the          *)
(* model_call_id that their tool calls share.                              *)
(*                                                                         *)
(* Arguments are their length: a piece of the arguments of call n is the   *)
(* half-open range of positions it was cut from.  Blocks that hold no tool *)
(* call are told apart from those that do, and not from one another.       *)
(* Framing, errors and the first result of an answer are in StreamDecoder. *)
(*                                                                         *)
(* Assumed of the upstream: the arguments of a call are JSON when they are *)
(* complete, and a call that is not streamed has some, at least {}.        *)
(***************************************************************************)
EXTENDS Integers, Sequences, SequencesExt, FiniteSets

CONSTANTS Requests,     \* requests a client makes, some in one session
          MaxCalls,     \* bound: tool calls of an answer
          MaxMessages,  \* bound: messages of an answer outside the session
          MaxShared,    \* bound: messages of all answers of the session
          MaxLen,       \* bound: length of a call's arguments
          Nil

ASSUME BoundAssumption ==
    MaxMessages \in Nat /\ MaxShared \in Nat /\ MaxShared <= MaxMessages /\ MaxLen \in Nat
ASSUME NilAssumption == Nil \notin Seq(Nat) /\ Nil \notin {"stop", "tool_calls"}

\* How a request answers: with a stream, of the chunks of chat completions or of
\* the events of messages, or with one body in the format of chat completions
\* ("openai") or of messages ("anthropic").
Streams == {"chunks", "events"}
Modes == Streams \cup {"openai", "anthropic"}

\* What the upstream sends besides tool calls: Content, Thinking and references
\* that convert_web_ref does not turn into content.
Contents == {"text", "thinking", "reference"}

VARIABLES
    stage,       \* of each request: "idle", "open", "done" or "gone"
    mode,        \* how it answers
    session,     \* whether it came with the session's X-Session-ID
    ctx,         \* the decoder's Context
    calls,       \* the calls the upstream has sent in this answer
    blocks,      \* the blocks answered to the client
    input_json,  \* the pieces handle_messages collects within a chunk
    reason,      \* the finish reason, or "error"
    sent,        \* messages the upstream has sent, in all answers
    store,       \* SESSION_STORE's entry for the session
    overlapped,  \* history: two requests of the session ran at a time
    after        \* history: the session's requests done when this one began

callVars == <<stage, mode, session, ctx, calls, blocks, input_json, reason, sent,
          store, overlapped, after>>

NewContext(id) == [raw_args_len |-> 0, processed |-> 0, saved_model_call_id |-> id]

CallsInit ==
    /\ stage = [r \in Requests |-> "idle"]
    /\ mode = [r \in Requests |-> "chunks"]
    /\ session = [r \in Requests |-> FALSE]
    /\ ctx = [r \in Requests |-> NewContext(Nil)]
    /\ calls = [r \in Requests |-> <<>>]
    /\ blocks = [r \in Requests |-> <<>>]
    /\ input_json = [r \in Requests |-> <<>>]
    /\ reason = [r \in Requests |-> Nil]
    /\ sent = 0
    /\ store = Nil
    /\ overlapped = FALSE
    /\ after = [r \in Requests |-> {}]

SessionRequests == {r \in Requests : session[r]}

\* Mutant: the session's id is not looked up.
Existing_not(m, s) == Nil

\* The id the decoder of a streaming request starts with.
Existing(m, s) == IF m \in Streams /\ s THEN store ELSE Nil

\* handle_chat_completions and handle_messages, up to the upstream's answer.
\* A request without streaming reads the store and drops what it found.  Only
\* requests of the session share anything: any other is looked at alone.
begin(r, m, s) ==
    /\ stage[r] = "idle"
    /\ s => m \in Streams
    /\ \A q \in Requests : stage[q] # "idle" => s /\ session[q]
    /\ stage' = [stage EXCEPT ![r] = "open"]
    /\ mode' = [mode EXCEPT ![r] = m]
    /\ session' = [session EXCEPT ![r] = s]
    /\ ctx' = [ctx EXCEPT ![r] = NewContext(Existing(m, s))]
    /\ overlapped' = (overlapped \/ (s /\ \E q \in SessionRequests : stage[q] = "open"))
    /\ after' = [after EXCEPT ![r] =
                    IF s THEN {q \in SessionRequests : stage[q] = "done"} ELSE {}]
    /\ UNCHANGED <<calls, blocks, input_json, reason, sent, store>>

-----------------------------------------------------------------------------
\* The upstream's calls.

\* Its calls come one after the other.  A streamed call repeats its arguments
\* from the start in every message; space: has_space_after_separator holds of
\* them, and does once it did.  split: content that the answer shows came within
\* the call; followed: such content came right after it; spread: its messages
\* came in several chunks.
NewCall(streaming, id) ==
    [len |-> 0, space |-> FALSE, streaming |-> streaming, model_call_id |-> id,
     last |-> FALSE, counted |-> FALSE,
     split |-> FALSE, followed |-> FALSE, spread |-> FALSE]

Current(r) == Last(calls[r])
Finished(r) == calls[r] = <<>> \/ Current(r).last

\* The calls of the answer once the next message is there: a new call, or the
\* current one with its arguments grown to length len.
NextCalls(r, len, space, last, streaming, fresh) ==
    IF Finished(r)
      THEN {Append(calls[r], [NewCall(streaming, id) EXCEPT
                                !.len = len, !.space = space, !.last = last]) :
               id \in {Nil, <<r, Len(calls[r]) + 1>>}}
      ELSE {[calls[r] EXCEPT ![Len(calls[r])] =
               [Current(r) EXCEPT !.len = len, !.space = space, !.last = last,
                                  !.spread = @ \/ fresh]]}

-----------------------------------------------------------------------------
\* handle_text_message for a ClientSideToolV2Call.

\* The id kept after a message with id, and the id the message leaves with.
Saved(c, id) == IF c.saved_model_call_id = Nil THEN id ELSE c.saved_model_call_id
Replaced(c, id) == IF id = Nil THEN Nil ELSE Saved(c, id)

\* Nothing new: the message gives nothing and returns before it is counted.
Skipped(c, call) ==
    call.streaming /\ (~call.space \/ call.len = c.raw_args_len)

Finish(c, call) == ~Skipped(c, call) /\ (call.streaming => call.last)

\* Mutant: the length is kept after the last message.
NextContext_kept(c, call) ==
    [raw_args_len |-> IF call.streaming /\ ~Skipped(c, call) /\ call.len > c.raw_args_len
                        THEN call.len ELSE c.raw_args_len,
     processed |-> c.processed + (IF Finish(c, call) THEN 1 ELSE 0),
     saved_model_call_id |-> Saved(c, call.model_call_id)]

\* Mutant: a streamed call is not counted.
NextContext_uncounted(c, call) ==
    [raw_args_len |-> IF Finish(c, call) THEN 0
                      ELSE IF ~Skipped(c, call) /\ call.len > c.raw_args_len THEN call.len
                      ELSE c.raw_args_len,
     processed |-> c.processed + (IF call.streaming THEN 0 ELSE 1),
     saved_model_call_id |-> Saved(c, call.model_call_id)]

\* The context after the message.
NextContext(c, call) ==
    [raw_args_len |-> IF Finish(c, call) THEN 0
                      ELSE IF ~Skipped(c, call) /\ call.len > c.raw_args_len THEN call.len
                      ELSE c.raw_args_len,
     processed |-> c.processed + (IF Finish(c, call) THEN 1 ELSE 0),
     saved_model_call_id |-> Saved(c, call.model_call_id)]

\* The positions the message hands on; none when it gives no result.  A
\* length below the one kept is only warned about.
Increment(c, call) ==
    IF ~call.streaming THEN <<0, call.len>>
    ELSE IF ~Skipped(c, call) /\ call.len > c.raw_args_len THEN <<c.raw_args_len, call.len>>
    ELSE Nil

-----------------------------------------------------------------------------
\* What the handlers make of a message.

Text == [kind |-> "text"]
Block(id, pieces) == [kind |-> "tool", id |-> id, pieces |-> pieces]

\* What a branch makes of content other than a tool call.  Chat completions have no
\* place for thinking: process_messages ignores it and goes on with the block it
\* is in, and the answer in one body keeps it apart.  References are ignored.
Shown(m, c) == c = "text" \/ (c = "thinking" /\ m \in {"events", "anthropic"})

\* Mutant: content does not end the block of a tool call.
WithText_within(r) ==
    IF blocks[r] = <<>> THEN <<Text>> ELSE blocks[r]

\* Content that is shown: a block without a tool call goes on, or starts.
WithText(r) ==
    IF blocks[r] # <<>> /\ Last(blocks[r]).kind = "text" THEN blocks[r] ELSE Append(blocks[r], Text)

\* process_messages: only content of another type before it starts a block.
Streamed(r, id, piece) ==
    IF blocks[r] # <<>> /\ Last(blocks[r]).kind = "tool"
      THEN [blocks[r] EXCEPT ![Len(blocks[r])].pieces = Append(@, piece)]
      ELSE Append(blocks[r], Block(id, <<piece>>))

\* The pieces are one call from its first position to its last: what
\* serde_json accepts.
IsWhole(pieces, n, len) ==
    /\ pieces # <<>>
    /\ \A i \in DOMAIN pieces : pieces[i].call = n
    /\ pieces[1].from = 0
    /\ \A i \in 2 .. Len(pieces) : pieces[i].from = pieces[i - 1].to
    /\ Last(pieces).to = len

\* Mutant: input_json is not cleared after a block.
Rest_kept(json, done) == json

\* input_json after a message.
Rest(json, done) == IF done THEN <<>> ELSE json

\* A message of call number n that has an increment.
hand_on(r, n, call, increment, fresh) ==
    LET piece == [call |-> n, from |-> increment[1], to |-> increment[2]]
        id == [call |-> n, model |-> Replaced(ctx[r], call.model_call_id)]
        json == Append(IF fresh THEN <<>> ELSE input_json[r], piece)
        done == Finish(ctx[r], call) /\ IsWhole(json, n, call.len)
    IN  \/ /\ mode[r] \in Streams
           /\ blocks' = [blocks EXCEPT ![r] = Streamed(r, id, piece)]
           /\ UNCHANGED input_json
        \/ /\ mode[r] = "openai"
           /\ blocks' = [blocks EXCEPT ![r] = Append(@, Block(id, <<piece>>))]
           /\ UNCHANGED input_json
        \/ /\ mode[r] = "anthropic"
           /\ blocks' = IF done THEN [blocks EXCEPT ![r] = Append(@, Block(id, json))] ELSE blocks
           /\ input_json' = [input_json EXCEPT ![r] = Rest(json, done)]

\* A message without a result; a new chunk still starts a new input_json.
hand_on_nothing(r, fresh) ==
    /\ input_json' = [input_json EXCEPT ![r] = IF fresh THEN <<>> ELSE @]
    /\ UNCHANGED blocks

\* The upstream sends a message of a tool call, the first of a chunk or not;
\* chunks matter only to the branch that collects input_json.
tool_message(r, len, space, last, streaming, fresh) ==
    /\ stage[r] = "open"
    /\ sent < IF session[r] THEN MaxShared ELSE MaxMessages
    /\ sent' = sent + 1
    /\ Finished(r) => Len(calls[r]) < MaxCalls
    /\ ~Finished(r) => streaming /\ len >= Current(r).len /\ (Current(r).space => space)
    /\ ~streaming => last /\ space
    /\ fresh => mode[r] = "anthropic"
    /\ \E cs \in NextCalls(r, len, space, last, streaming, fresh) :
          LET n == Len(cs)
              call == Last(cs)
              increment == Increment(ctx[r], call)
          IN  /\ calls' = [calls EXCEPT ![r] =
                    [cs EXCEPT ![n].counted = Finish(ctx[r], call)]]
              /\ ctx' = [ctx EXCEPT ![r] = NextContext(@, call)]
              /\ IF increment = Nil THEN hand_on_nothing(r, fresh)
                 ELSE hand_on(r, n, call, increment, fresh)
    /\ UNCHANGED <<stage, mode, session, reason, store, overlapped, after>>

\* The upstream sends content c, between calls or within one.
text_message(r, c) ==
    /\ stage[r] = "open"
    /\ sent < IF session[r] THEN MaxShared ELSE MaxMessages
    /\ sent' = sent + 1
    /\ IF Shown(mode[r], c)
         THEN /\ blocks' = [blocks EXCEPT ![r] = WithText(r)]
              /\ calls' = IF calls[r] = <<>> THEN calls
                          ELSE [calls EXCEPT ![r][Len(calls[r])] =
                                  IF @.last THEN [@ EXCEPT !.followed = TRUE]
                                  ELSE [@ EXCEPT !.split = TRUE]]
         ELSE UNCHANGED <<blocks, calls>>
    /\ UNCHANGED <<stage, mode, session, ctx, input_json, reason, store, overlapped, after>>

finish_reason(r) == IF ctx[r].processed = 0 THEN "stop" ELSE "tool_calls"

\* SESSION_STORE after the answer of r.
Stored(r) ==
    IF mode[r] \in Streams /\ session[r] /\ ctx[r].saved_model_call_id # Nil
      THEN ctx[r].saved_model_call_id ELSE store

\* The answer ends, complete or cut off by the upstream.  Without streaming a
\* chat completion without text is an error, whatever tool calls it has.
end(r) ==
    /\ stage[r] = "open"
    /\ stage' = [stage EXCEPT ![r] = "done"]
    /\ store' = Stored(r)
    /\ reason' = [reason EXCEPT ![r] =
          IF mode[r] = "openai" /\ ~\E i \in DOMAIN blocks[r] : blocks[r][i] = Text
            THEN "error" ELSE finish_reason(r)]
    /\ UNCHANGED <<mode, session, ctx, calls, blocks, input_json, sent, overlapped, after>>

\* The client goes away: the chained end of the stream never runs.  A request
\* that fails before its answer begins ends the same way.
disconnect(r) ==
    /\ stage[r] = "open"
    /\ stage' = [stage EXCEPT ![r] = "gone"]
    /\ UNCHANGED <<mode, session, ctx, calls, blocks, input_json, reason, sent, store,
                   overlapped, after>>

CallsNext ==
    \E r \in Requests :
        \/ \E m \in Modes, s \in BOOLEAN : begin(r, m, s)
        \/ \E len \in 1 .. MaxLen, space, last, streaming, fresh \in BOOLEAN :
              tool_message(r, len, space, last, streaming, fresh)
        \/ \E c \in Contents : text_message(r, c)
        \/ end(r)
        \/ disconnect(r)

CallsSpec == CallsInit /\ [][CallsNext]_callVars

-----------------------------------------------------------------------------
\* The blocks of tool calls in an answer b, and the pieces they are made of.
ToolsOf(b) == {i \in DOMAIN b : b[i].kind = "tool"}
Places(b) == UNION {{i} \X DOMAIN b[i].pieces : i \in ToolsOf(b)}
PieceAt(b, p) == b[p[1]].pieces[p[2]]
PlacesOf(b, n) == {p \in Places(b) : PieceAt(b, p).call = n}
Earlier(p, q) == p[1] < q[1] \/ (p[1] = q[1] /\ p[2] < q[2])

\* The answer b has each of the first len positions of call n once, in order.
InFull(b, n, len) ==
    /\ \A p, q \in PlacesOf(b, n) :
          Earlier(p, q) => PieceAt(b, p).to <= PieceAt(b, q).from
    /\ UNION {PieceAt(b, p).from .. PieceAt(b, p).to - 1 : p \in PlacesOf(b, n)}
          = 0 .. len - 1

\* The call ended and the decoder did not count it.
Uncounted(r, n) == calls[r][n].last /\ ~calls[r][n].counted

\* The type invariant.
CallsTypeOK ==
    /\ stage \in [Requests -> {"idle", "open", "done", "gone"}]
    /\ mode \in [Requests -> Modes]
    /\ session \in [Requests -> BOOLEAN]
    /\ \A r \in Requests : ctx[r].raw_args_len \in 0 .. MaxLen /\ ctx[r].processed \in 0 .. MaxMessages
    /\ sent \in 0 .. MaxMessages
    /\ reason \in [Requests -> {Nil, "stop", "tool_calls", "error"}]
    /\ overlapped \in BOOLEAN

\* A streamed answer hands on the arguments of every counted call once, in
\* order and complete, unless an earlier call of the answer ended uncounted:
\* the length kept from that one then cuts the front off the next.
ArgumentsAreWhole ==
    \A r \in Requests : \A n \in DOMAIN calls[r] :
        mode[r] \in Streams /\ calls[r][n].counted
          => \/ InFull(blocks[r], n, calls[r][n].len)
             \/ \E m \in 1 .. n - 1 : Uncounted(r, m)

\* Content that the answer shows came between its calls and inside none.
Separated(r) ==
    \A n \in DOMAIN calls[r] :
        ~calls[r][n].split /\ (n < Len(calls[r]) => calls[r][n].followed)

\* When content that a streamed answer shows separates its calls and never comes
\* inside one, no call shares a block with another or has more than one, and a
\* counted call has one, under its own id, unless an earlier call ended
\* uncounted.  (What the answer does not show separates nothing: two calls with
\* only thinking between them share a block of chat completions.)
BlocksFollowCalls ==
    \A r \in Requests :
        mode[r] \in Streams /\ Separated(r)
          => /\ \A i \in ToolsOf(blocks[r]) : \A j \in DOMAIN blocks[r][i].pieces :
                    blocks[r][i].pieces[j].call = blocks[r][i].id.call
             /\ \A i, k \in ToolsOf(blocks[r]) :
                    blocks[r][i].id.call = blocks[r][k].id.call => i = k
             /\ \A n \in DOMAIN calls[r] : calls[r][n].counted =>
                    \/ \E i \in ToolsOf(blocks[r]) : blocks[r][i].id.call = n
                    \/ \E m \in 1 .. n - 1 : Uncounted(r, m)

\* handle_messages without streaming answers every counted call, unless that
\* call or an earlier one was spread over chunks or an earlier one ended
\* uncounted: input_json starts anew with every chunk and is cleared only
\* when it parses.
CollectedCallsArrive ==
    \A r \in Requests : \A n \in DOMAIN calls[r] :
        mode[r] = "anthropic" /\ calls[r][n].counted
          => \/ InFull(blocks[r], n, calls[r][n].len)
             \/ \E m \in 1 .. n : calls[r][m].spread \/ Uncounted(r, m)

\* The finish reason says tool_calls exactly when the answer has a tool call,
\* unless a call is unfinished, ended uncounted or was spread over chunks.
FinishReasonTells ==
    \A r \in Requests :
        reason[r] \in {"stop", "tool_calls"}
          => \/ (reason[r] = "tool_calls") = (ToolsOf(blocks[r]) # {})
             \/ \E n \in DOMAIN calls[r] : ~calls[r][n].counted \/ calls[r][n].spread

ModelIds(r) == {blocks[r][i].id.model : i \in ToolsOf(blocks[r])} \ {Nil}

\* The tool calls of an answer share one model_call_id, and it is new with the
\* request, as MODEL_CALL_ID_REUSE.md says of both, except where sessions come in,
\* which that page does not know: there it may be that of a request of the session
\* that was answered before this one began.  "Session management for cross-request
\* model_call_id reuse" then makes it the same for both, unless two requests of the
\* session ran at a time.
OneModelCallId ==
    \A r \in Requests :
        /\ Cardinality(ModelIds(r)) <= 1
        /\ \A id \in ModelIds(r) : id[1] = r \/ id[1] \in after[r]
        /\ \A q \in after[r] :
              ~overlapped => Cardinality(ModelIds(r) \cup ModelIds(q)) <= 1
=============================================================================
