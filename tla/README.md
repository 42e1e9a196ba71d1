# A TLA+ development for cursor-api

cursor-api is a server that speaks the OpenAI and Anthropic protocols to its clients and the
protocol of the Cursor service to its upstream. It is a multi-threaded tokio program whose release
build aborts on a panic and whose hot paths leave bounds and presence checks out
(`unwrap_unchecked`, `assert_unchecked`, raw pointers with reference counts). Most of what can go
wrong is therefore a matter of interleaving and of invariants that comments claim and nobody
checks. This directory models those parts, checks them with TLC and proves the most important
invariants with TLAPS. Paths below are relative to the repository root.

## Inventory

| Part | State it keeps | Operations | Interaction | What makes it correct |
|---|---|---|---|---|
| Token manager (`src/app/model/state/token.rs`) | token slots, free ids, key and alias indexes | add, remove, set_alias, TokenWriter | one `RwLock` in `AppState`; handlers write, requests read | slots and all indexes agree, because every lookup is unchecked |
| Token queue (`state/token/queue.rs`) | order of the tokens, key → position, four static heads | push, remove, set_key, select | owned by the manager; `select` under the read lock, so selects overlap | positions agree; every ready token gets its turn |
| Log actor (`app/model/log/*`) | request logs, token associations with counts | eleven commands | bounded channel in, oneshot channels out | an update reaches its own log; associations match the logs; everybody is answered |
| Request handlers (`core/service.rs`) | a log id, a decoder, counters | chat completions, messages | token manager, log actor, upstream | the client gets the upstream's answer, whole and in order; the log tells what happened |
| Stream decoder (`core/stream/decoder.rs`, `crates/grpc-stream`) | byte buffer, first result, tool-call context | decode, take_first_result | driven by one response at a time behind a mutex | independent of how the bytes were cut |
| Interned strings (`crates/interned/src/arc_str.rs`) | global pool of counted strings | new, clone, drop | every thread | a handle is valid, a string freed once, equal strings share |
| Token cache (`app/model/token/cache.rs`) | global map from key to counted token | new, clone, drop | every thread | as above, and `new` returns the token asked for |
| Debug log (`app/lazy/log.rs`) | sequence counter, waiting messages, write buffer | debug!, flush, shutdown | one writer task, one task per message | no message twice or silently gone; in order |
| Proxy pool (`app/model/proxy_pool.rs`, `core/route/proxies.rs`) | four `ArcSwap`s: proxies, general name, clients, general client; a file | set, add, delete, set_general, save | handlers without a lock | no lost update, the general proxy has a client, the file is whole |
| Configuration (`app/model/config.rs`, `core/route/config.rs`) | three `ArcSwap`s: configuration, client headers, key; a file | get, set with a hash, reload | handlers without a lock | optimistic check really excludes the other writer; file, memory and derived cells agree |
| Tool calls and sessions (`stream/decoder.rs`, `core/service.rs`) | length and count in the decoder, blocks of the answer, `SESSION_STORE` | decode, process_messages, collect | one decoder per answer, one store for all | a call arrives whole, in a block of its own, and the finish reason says so |
| Model list (`core/constant.rs`, `constant/leak_ids.rs`) | an `ArcSwap`, a pool of leaked ids | update, find | handlers without a lock | the id list belongs to the models |
| Persistence (`main.rs`, `state.rs`, the `save`/`load` of each part) | three files | load, save at shutdown | reads all of the above while the server runs | a restart sees a state that existed |

Hard behaviours: overlapping selects on a non-atomic head; two-step protocols of a client with an
actor; client disconnects, which drop a future at any `await`; lookups that revive a counted object
while it is being freed; messages sent by tasks of their own and so in any order; answers cut into
chunks anywhere; file writes that a crash or another writer interrupts. `PROJECT.json` lists each
under `hazards` with its line and the properties about it.

Not modelled, for good: protocol adapters, upstream clients, formatting and encoding helpers,
display names, static pages, generated Protobuf code, vendored crates under `patch/` (stateless or
third-party); authentication (a decision without state, apart from `select`); NTP (floating-point
averages of network samples); and code that no `mod` reaches (`core/service/backend*`,
`core/service/context*`, `core/session.rs`, `common/utils/delayed_task.rs`,
`app/model/state/log.rs`).

## Plan

Done: TokenManager with TokenService and TokenRegistry, LogManager, ArcStr, TokenCache, DebugLog,
StreamDecoder, ToolCalls, ProxyPool, AppConfig, and proofs of every safety property that the runs
check. To come: a model of the model list of `core/constant.rs` and the pool of leaked ids, the one
hazard listed without a property.

## The modules

A mutant (`X_something`, marked "Mutant" in its comment) is a definition that a plausible bug would
turn `X` into; it takes no part in the model and exists to show that a property can fail.

### TokenManager

One action per method that changes the manager: `add`, `remove`, `set_alias`, `TokenWriter_drop`,
`set_status`, `new` (set_tokens replaces the manager). Each needs the write lock (`WriteLock`),
so no reader is inside `select`. A handler of `core/route/tokens.rs` takes the lock once and is a
sequence of these. `select` is two steps of a reader, `select_load` and `select_store` or
`select_none`: the code loads the head and stores its successor later, and readers overlap. A
token is its key and whether `select` may hand it out; an alias is a user's name, or the one
generated for a slot. The heads are static in the code and survive `new` here too. `fault` names
the first unchecked access whose precondition fails; nothing happens after it, since the code's
behaviour is undefined.

A comment at `queue.rs:108` says a head is never out of bounds. It can be one past the end after
the last entry was removed, and further after set_tokens; `select` takes it modulo the length, so
nothing comes of it.

### TokenService and TokenRegistry

TokenService composes TokenManager with what runs around it. `Manage` is a handler of
`core/route/tokens.rs`: an operation of the manager and, under the same lock, a save: to its end
(`Saved`), or failed, dropped with its request or killed at some point (`NotSaved`). The code
truncates the file when it opens it, so such a save leaves the old file, none of it (`torn`), one
filled with zeros, which reads as a file without tokens, or the new one. `restart` loads what was
saved, at any moment; from a torn file the new process does not come up (`restart_torn`); `load` is `TokenManager::load`, which adds the saved
tokens in order and so generates the aliases of unnamed tokens anew. The usage check that a request
leaves behind (`core/service.rs` 335-383) is a task of four steps: `lookup` reads the slot of a
key, `read_alias` looks whether it is unnamed, `write_profile` writes to the slot and `rename` sets
an alias, each under a lock of its own. `checkfault` says that a check used an empty slot without a
check; `stale` remembers the checks whose slot got another token, key or alias in between, `dirty`
that a change is not saved or that the last save failed.

TokenRegistry is what the manager promises: a partial map from names to tokens, a bag of tokens
without a name, and a copy on disk. Slots, free ids, indexes and queue positions are not in it. A
failed save may destroy the copy, but never leaves a part of one; while nothing is dirty a restart
changes nothing.
`RegistrySpec` states that TokenService implements it; the refinement mapping reads the map and the
bag off the slots and their aliases.

### LogManager

The actor's handlers (`HandleGetNextLogId`, `HandleAddLog`, `HandleUpdateLog`, `HandleQuery`,
`HandleCloneToSave`) take the oldest command of a bounded channel. Requests are
counted (`begin`), ask for an id, add a log, report success or failure, and only then, after the
awaited send, change the other counters of `AppState` (`count`); `disconnect` drops one at any
`await`, also while it waits for room in the channel; viewers query and may hang up, which
makes the actor panic when it answers; `load` is a shutdown
after a saved copy and a restart under another limit, which counts every loaded log that is not a
success as an error. A log carries two history fields, the request that owns it and the requests
that wrote it; `overlapped` remembers that two requests were allocating at a time, `dropped` the
requests that left before the upstream answered. With `REQUEST_LOGS_LIMIT = 0` nothing is logged
at all, so the limit here is positive.

### ArcStr

Each handle runs in a thread of its own. `try_find_existing` is the lookup, `create` the second
look and insertion under the lock of the entry, `clone` and `drop` change the count, and the
clean-up of the last handle is three more steps: `read_hash` (outside the lock, from memory that may
be gone), `take_out` (under the lock, with the second look at the count) and `dealloc`. Addresses
are reused. `uaf` records a read of freed memory, `overlapped` that a string was brought back and
dropped again while an earlier clean-up had not finished.

### TokenCache

The same construction for `Token`, with its differences: the cache is keyed by a part of the
content, the slow path returns another RawToken's token uncounted, and the clean-up finds its
entry by key. `clean` says that neither of the two events happened that the code does not survive.

### DebugLog

`debug_log` takes a number, `submit_debug_log` is the spawned task that sends the message, so
messages enter the channel in any order. The writer: `receive`, `drain` (one message per step, a
flush may fail half-way), `tick`, `stop`, `write_rest` (one message per step), `close`,
`drop_receiver`; `flush_all_debug_logs` and `flushed` are the shutdown with its timeout. A message in
`lost` failed to be sent or written and an error was printed; one in `discarded` was sent and went
with the receiver, and nobody was told. `late` says that a message arrived after its number was given
up. The ranges that the writer reports as missing
are left out; for message 0 that came late, `seq - 1` in that report wraps around in the release
build.

### StreamDecoder

An answer is a sequence of frames of seven kinds; chunks cut it anywhere, also inside a header,
and may be empty. `decode_ok`, `decode_short` and `decode_error` are the three outcomes of
`decode`; the handler's steps combine them with what the handler does: `prime_ok`, `wait_short`,
`refuse_*` before the response begins, `answer`, `answer_error`, `answer_short`, `skip_broken`,
`finish` while it streams, `collect` and `collect_end` for a request without streaming. `late`
says that a chunk was answered while the first result was held back. What a decode hands on
(`Decoded`) is the list of the frames' numbers by rank (`InOrder`), without recursion. The handlers for the two
protocols are alike here; the model follows `handle_chat_completions`.

### ToolCalls

The upstream repeats the arguments of a streamed call from the start in every message;
`tool_message` is the decoder's step (`handle_text_message`) together with what the handler makes of
its result; `text_message` is anything else the upstream sends (`Contents`). Whether the answer shows
it, and so ends the block of a call, depends on the protocol (`Shown`): the stream of chat completions
ignores thinking and stays in its block. `Skipped`, `Increment`, `Finish` and `NextContext` are the decisions of the decoder, on
lengths only; `has_space_after_separator` is reduced to whether it holds yet. A streamed answer is
a sequence of blocks (`Streamed`, `WithText`); without streaming, chat completions put every
increment into a tool call of its own, and messages collect them in `input_json`, which lives for
one chunk and is cleared only when it parses (`hand_on`). A piece of arguments is the range of
positions it was cut from; `InFull` says that the pieces of a call, wherever in the answer they are
(`PlacesOf`), are its first positions, each once and in order. `begin` and `end` read and write the
session's entry of `SESSION_STORE`; `disconnect` ends a request before `end`. Requests outside the
session share nothing, so each is looked at alone. Two things are assumed of the upstream: the
arguments of a call are JSON once they are complete (`serde_json` accepts them), and a call that is not
streamed has some arguments, at least `{}`; one with none would be counted without a block.

### ProxyPool

The four global cells are `ArcSwap`s and nothing is locked, so every load and every store of a
handler, of `update_global_pool` and of `set_general` is a step. The save goes through open with
truncation, `set_len`, mapping and copying, and may fail before each (`save_error`) or in the flush,
when the copy is in the file already; a save at shutdown runs beside
the handlers. `restart` reads the file as `load` does: without a check. `fault` names the first
unchecked step that failed: a lookup of `set_general`, the copy into the mapped file (a panic when
the lengths differ, a kill when the file shrank under it), or the reading of a torn file at start-up.

### AppConfig

A handler compares the hash, writes or reads the file (`truncate`, `write`, `read`, `give_up` when
the write fails or the client is gone) and then updates the cells one by one (`update`,
`update_version`, `update_platform_only`, `update_secret`, `store`). `edit` is an operator. Texts
are parsed by a constant function, with two texts of one configuration and one that does not parse.

## Runs

| Run | Shows |
|---|---|
| `token_service` | With any keys, equal ones included, saves that fail at any step, restarts and usage checks: the alias indexes agree with the slots, adding an unnamed token is never refused, an unchecked access fails only after two live tokens had one key, a usage check works on its own token unless its slot changed, and the manager implements TokenRegistry: a restart loses nothing unless a change was not saved or a save failed. |
| `token_queue` | With distinct keys: the queue agrees with the slots, no unchecked access fails, a removal leaves the others' turn alone, and no ready token starves under overlapping selects. |
| `log_actor` | Associations match the logs through evictions and restarts; nobody waits without a question in the channel; the counters cover what happened; an update reaches a foreign log only after two requests allocated at a time; the actor dies only when somebody left while waiting for it. |
| `arc_str` | Handles are valid, equal contents shared, strings not leaked; freed memory is read only after overlapping clean-ups. |
| `token_cache` | Tokens in clean use are valid and cleaned up once; the two unclean events are the only sources of trouble. |
| `debug_log` | Every message is in exactly one place; the file is ordered, and every message is written, lost to a printed error or discarded in the shutdown, unless a message came after it was given up; a shutdown in time writes all that was sent before it, and only what was sent later is discarded in silence. |
| `stream` | Each message read is held or answered exactly once; in order unless the first result was held back; a finished response that got a further chunk and has no partial frame left is whole; every response ends or hangs. |
| `stream_short_chunk` | *violation*: a short chunk after the first result makes the response wait for its own lock. |
| `tool_calls` | Counted calls arrive whole, in blocks of their own, with the right finish reason, under one model_call_id, which is the request's own or that of an earlier request of its session: each with the exceptions listed below. |
| `proxy_pool` | An unchecked lookup fails only after an empty map or overlapping requests; the file is torn only while a save is under way or has failed; a request that meets nobody has its effect and leaves the cells in agreement. |
| `proxy_empty_map` | *violation*: setting an empty map breaks the precondition of `set_general`. |
| `app_config` | Unless requests overlap: derived cells agree with the configuration, the file with the memory, and a stale hash replaces nothing. |

### What the exceptions say

The exceptions in the properties are behaviours of the code, each reached in a few steps when the
exception is left out. Where a doc or a comment of the code says otherwise, it is named here. A hazard
that a property covers only in part, or not at all, because the rest is what the code does, has a
note in `PROJECT.json` that says so.

- *Equal keys.* Nothing keeps two live tokens from having one key, though the comments at
  `queue.rs:207` and `token.rs:365` say that the indexes guarantee it; an unchecked access of the
  queue or of TokenWriter then goes wrong.
- *Saves.* A save that fails after it has opened the file has destroyed what was saved before, and a
  file left torn kills the next process, though `proxy_pool.rs:210` calls the format guaranteed.
- *Usage checks.* A token removed between two locks of a usage check leaves it with an empty slot
  and an unchecked access; a slot that was reused gets the profile, or the alias, of another token.
- *Log ids.* Two requests that ask for an id before either has added its log get the same one, and
  the status of one goes to the log of the other. A client that leaves while its request waits for
  the actor makes the actor panic, which `manager.rs:387` calls something that should never happen.
  A request dropped before the upstream answers stays in `active_requests` for ever.
- *Strings.* A string found again, dropped again and freed while an earlier Drop of it has not yet read
  its hash is read after it is gone; the doc at `arc_str.rs:83` says that there is no dangling pointer.
- *Token cache.* `Token::new` for a key that is cached with another RawToken returns the cached
  token, uncounted; the doc at `cache.rs:235` says that it creates a new one.
- *Debug log.* A message that arrives after its number was given up stays with the waiting ones until
  the shutdown, and so may others: being the oldest, it keeps the timer from giving up a gap. A message
  sent after the writer looked into the channel for the last time is discarded without a word.
- *Stream.* If the chunk after the first result ends inside a frame, its messages reach the client
  before the first result; if no chunk follows the first result it is never sent. A request without
  streaming is refused when its answer holds tool calls only.
- *Tool calls.* A last message without new arguments, or arguments without a space after the first
  separator, leave a call uncounted: the finish reason may say `stop`, and the length kept cuts the
  front off the next call. Calls without shown content in between share a block, the second without
  its id (thinking between them does not help in chat completions); content inside a call splits it.
  Without streaming, a call of handle_messages whose messages come in several chunks is dropped, with
  every later call of its last chunk.
- *Sessions.* Overlapping requests of a session keep different ids, and the last to end is kept.
  `MODEL_CALL_ID_REUSE.md:72` says that a new request gets a new model_call_id; with an
  `X-Session-ID` a streaming one gets the session's, as the comments in `service.rs` (5, 475) mean it to.
  `OneModelCallId` keeps the two apart: an id is the request's own, as the page says, unless a request
  of its session was answered before it began; only then may it be that one's, and if no two overlap it must be.
- *Proxies.* Overlapping requests lose each other's changes, and may leave a general name without
  a client.
- *Configuration.* Two clients with the same hash both pass the check; their updates may leave the
  headers or the key of one with the configuration of the other until that field changes again. A
  text that differs but means the same is written to the file and not kept in memory.

### Bounds

Token queue: three slots, one queue (heads of different queues do not interact) and two readers: a
reused slot, a removal in the middle and a stale head all occur. Token service: two slots, keys and
names and one usage check, no queue; slots reused under a check, equal keys and restarts between
saves occur. Two usage checks with one name were tried too, without the refinement, and change
nothing. Logs: three requests, two keys, limits 1 and 2, channel capacity 1; evicting
two logs at once, a re-added key and equal ids occur. Capacity 2 is left to the proofs, for its length. Strings: four handles, two
contents, four addresses: two overlapping clean-ups and a reviver and a fresh string at a reused
address. Token cache: three handles, two keys with two RawTokens each, counts down to -2
(`MaxWrap`). Debug log: five messages, at most two waiting, threshold 1, buffer of two, one failing
write. Stream: four frames, a header of two bytes and a body of one, which allows chunks that end
inside a header, inside a body and between frames. Tool calls: two calls of up to two positions and
six messages for an answer on its own, two messages in all for three requests of a session: enough
for a call that is left uncounted and one that suffers from it, and for two requests that meet in
the store while a third comes and goes. Three messages for the session pass as well (13.7 million
states, about five minutes with four workers) and are left out for their length. Proxies: two handlers, three
maps (empty, another name, the default name) and three requests; a shutdown and crashes besides.
Configuration: two handlers and five texts; the default is among the configurations a client may hold.

Symmetry is used only in runs without liveness properties, over sets of interchangeable model
values. Deadlock checking is off where a behaviour may end: nobody is obliged to send another
request, a finished response stays finished, and a violation of undefined behaviour stops.

### Fairness

- `token_queue`: a `select` that began finishes (synchronous code). No client is obliged to call.
  `NoStarvation` holds once the set of tokens stays the same; endless removals just behind the
  head with additions at the end can keep it from wrapping around.
- `debug_log`: spawned tasks run, the writer's branches are served. The timer is weakly fair: the
  biased `select!` starves it only while messages keep coming, and messages are bounded.
- `stream`: the upstream goes on sending until its answer is complete or the connection breaks,
  and the handler polls it. An upstream that stalls for ever is outside the code's control.

## Proofs

All theorems hold for every value of the constants under the named assumptions of the modules, which
TLC evaluates in the runs. They say that what stands for an absent value (`None`, `Empty`, `Torn`) is
not a value (`NoneAssumption`, `NoneIsNew`, `NilAssumption`, `CheckAssumption`, `ConfigAssumption`),
that limits and capacities are positive, that bounds are numbers (`BoundAssumption`), that tasks of different kinds are different, and that what is counted is
finite (`HandlesFinite`; the proxy names): counts are Cardinalities. Each theorem rests on an
inductive invariant; those of the modules marked (TLC) were checked on the instance of the module's
run before they were proved.

- **TokenServiceProofs, the manager alone.** `TypeCorrect` by induction over the actions. `IndexesConsistent` rests on
  `IndexInv`: types, free ids are exactly the empty slots (so that `add` writes an empty slot), the
  alias indexes are inverse (so that freeing one alias frees the right one), generated aliases stay
  home. `UnnamedAddAccepted` follows: an alias generated for an empty slot could only be held by that
  slot. No assumption on keys. `QueueConsistent` and `NoUncheckedAccessFails` are about
  `DistinctSpec`, the behaviours whose live tokens have distinct keys. The invariant `QueueInv` adds that the key index
  and the queue agree with the slots; the main work is `RemoveKeepsQueue`, where entries move down
  and are re-indexed one by one. The hypothesis cannot be dropped: `FaultNeedsDuplicateKeys`
  without its exception fails. `TurnsSurviveRemoval` is about the step: where the removed entry was
  (`RemoveShape`) and where a head, taken modulo the length, points afterwards (`HeadModulo`).
- **TokenServiceProofs, the service** (TLC). `ServiceInv` is `IndexInv`, `QueueInv` until two live tokens had one
  key, what a saved file is like (as many tokens as slots, aliases that differ: what `load` needs to
  come up consistent; an empty one is among them), and what the usage checks have read. `ServiceIndexes`, `FaultsNeedDuplicates`
  and `ChecksWorkOnTheirTokens` carry the results about the manager over saves, restarts and
  checks. `ServiceImplementsRegistry` is the refinement: one lemma per operation shows the step of
  the registry it maps to (`AddRefines`, `RemoveRefines`, `AliasRefines`, `ChangeRefines`,
  `ClearRefines`), `SnapshotView` that a saved file shows the registry of its moment and
  `RestartView` that loading it brings this registry back. `LiveIds` lists the live slots by rank
  (`InOrder`), so that `InOrderLists` needs no recursion: the ranks of a finite set are as many as
  its elements and differ.
- **LogManagerProofs** (TLC). `LogInvariant` is the conjunction `IInv`. `AssocInv`: stored logs and the
  saved copy are counted exactly, which needs `Count` over sequences and what appending, evicting
  from the front and updating one entry do to it. `QueueInv`: who waits has one question in the
  channel, and who has one waits or is gone. `CountInv` counts logs and failures also while they are
  on their way, since the code counts a request before its log is stored, and a failure after its report
  is sent: the report may be in the channel, or applied, while the counter is still to change. `OverlapInv`: until two
  requests allocate at a time, ids grow along the log, the request that holds an id holds the next
  one, at most one log is on its way, and an id is settled, or its log is ahead of its update in the
  channel; hence an update finds its own log or none. `LogTypes`, `AssociationsExact`,
  `CountersCoverLogs`, `UpdatesStrayOnlyAfterOverlap` and `WaitersQueued` follow from the parts,
  `ActorDiesOnlyOnHangUp` from the first two, step by step.
- **ArcStrProofs.** `StringsAreSafe` and `EqualityIsIdentity` rest on `Inv`: pooled strings are
  allocated, one per content, handles point into the pool, counts equal the number of holders, a
  string being freed is out of the pool and has one freer. The counts need the finite-set lemmas on
  adding and removing an element. `ReadsAreValidWithoutOverlap` adds that without an overlap a
  string has at most one clean-up that has not yet taken it out, so it is still there to be read.
  `NoStringLeaks` (TLC) has no such exception: an unused string in the pool has a clean-up that has
  not read its hash yet or has read the right one, so that it looks under the right entry, whatever
  the overlapping ones have read; a string out of the pool is being freed.
- **TokenCacheProofs** (TLC). `TokensInUseAreValid` and `CleanUse` rest on `Inv`, which says nothing
  once an unclean event happened and else what holds for strings, with the differences of the
  cache: a clean-up before its removal works on the cached token of its key, and is the only one.
- **AppConfigProofs** (TLC). `IInv`: what the derived cells hold at each step of an update as long as
  updates do not collide (`CellsInv`), that a request that met no other one still has the hash it
  compared and finds its own text in the file (`SoloInv`), and what excuses the file (`FileInv`).
  `CellsAgree`, `FileAgrees` and the action property `NobodyOverwritten` follow.
- **ProxyPoolProofs** (TLC). `IInv` in four parts: what a task has loaded at each step (`LocalsOK`);
  that a name in `kept` is in the pool, in the file and in every map that a task may still store or
  save (`KeptOK`: hence `SoloAdditionsLast` in spite of later races); that a task that met no other one
  is alone and what it knows of the cells and the file (`SoloOK`, with the empty map as the one case
  that ends without clients: `FaultsNeedRaces`, `SoloRequestsRepair`); and that without a mishap at
  most one task is between truncation and copy (`SaveOK`: `FileIsWhole`). A step of one task cannot
  disturb what another one knows because a task that knows something is alone (`StepKeeps`,
  `BeginKeeps`, `FinishKeeps`); one lemma per action shows what it does to its own task.
- **DebugLogProofs** (TLC). `IInv` in parts: every message is in one place (`OnceInv`); what is
  discarded went with a stopped writer and was not due (`DiscardInv`); until one is
  late, what was put into the buffer lies before the number waited for and what waits does not
  (`OrderInv`); one message too many waits only while it is about to be drained (`BoundInv`); and,
  until a write fails, what was sent before the flush waits, is in the buffer or the file, or is in
  a channel that is still read (`FlushInv`). `FlushFacts` says what a write that fails half-way does
  to a file and a buffer. `MessagesAreKept`, `LogIsOrdered`, `WaitingIsBounded`, `FlushIsComplete`
  and `DebugLogTypes` follow.

- **StreamProofs, the decoder** (TLC). That `Ends` grows with the frames is shown without induction
  over data: the least frame where it did not would contradict its own definition. `IInv` in parts:
  the buffer is at the end of a frame (`TypeInv`); what the flags say in each phase (`PhaseInv`);
  every message read is kept back or answered, once, and what is answered without being read is an
  error at the very end (`OnceInv`); the first result is in order and nothing overtakes it unless
  late (`OrderInv`); it stays back only while a part of a frame is in the buffer (`SentInv`).
  `TypeCorrect`, `MessagesAnsweredOnce`, `AnsweredInOrder` and `WholeAnswer` follow.
- **StreamProofs, the tool calls** (TLC). `CallsIInv` says of each answer (`AnswerInv`) that only its
  last call is unfinished (`CallsInv`), that the length kept is that of the current call unless one
  ended uncounted (`LengthInv`), that what was handed on of each call is all of it, or as much as
  the length kept (`ArgsInv`; `CollectInv` for `input_json`), that shown content after a call is the last
  block (`FollowedInv`) and that the blocks are in the order of the calls (`BlocksInv`); and of the
  session that the id stored is that of every request that saved one (`SessionInv`) and where ids come
  from (`OwnerInv`: the store has that of a request that is done). The main work
  is `tool_message`: `Grown` is an answer with one piece more, behind all others, in a new block or
  in the last one, and `GrownFull` says that it continues what was there. `ToolSummary` and
  `OutcomeAt` split the step into what happens to the calls and to the blocks, and one lemma
  (`ToolKeepsArgs`, ...) shows each part. `WholeArguments`, `BlocksAreCalls`, `CollectedCalls`,
  `FinishReason`, `OneModelId` and `CallsTypeCorrect` follow.

Only model-checked: liveness (`NoStarvation`, `EveryMessageIsWritten`, `EveryResponseEnds`), which is
outside the prover's reach, and the two violations.

## Not modelled

The model list is planned. The rest stays out: protocol adapters, upstream clients, the code
completion service, formatting and encoding helpers, static pages and read-only routes keep no state
or only forward it; authentication is a decision per request; NTP averages floating-point samples;
generated and vendored code is not this program's own.
