------------------------------ MODULE DebugLog ------------------------------
(***************************************************************************)
(* The debug log of src/src/app/lazy/log.rs.  debug! takes a sequence      *)
(* number and spawns a task that sends the message, so messages reach the  *)
(* writer in any order; the writer holds back what came too early, gives a *)
(* gap up when too much waits behind it, and buffers what it writes.       *)
(*                                                                         *)
(* A message is its sequence number.  The biased select! is not modelled   *)
(* as a priority: a message may arrive right after the channel was polled. *)
(***************************************************************************)
EXTENDS Integers, Sequences, FiniteSets, SequencesExt

CONSTANTS
    MAX_PENDING_MESSAGES,
    OUT_OF_ORDER_THRESHOLD,
    BUFFER_CAPACITY,  \* in messages
    MaxSeq,           \* bound: the number of messages
    MaxFails          \* bound: the number of failed writes

ASSUME LogAssumption ==
    /\ MAX_PENDING_MESSAGES \in Nat \ {0} /\ BUFFER_CAPACITY \in Nat \ {0}
    /\ OUT_OF_ORDER_THRESHOLD \in Nat /\ MaxSeq \in Nat /\ MaxFails \in Nat

VARIABLES
    LOG_SEQUENCE,      \* the next sequence number to give out
    spawned,           \* messages whose sending task has not run yet
    channel,           \* the unbounded channel
    pending_messages,  \* received messages not yet in the buffer
    next_seq,          \* the message the writer waits for
    buffer,            \* messages to be written
    file,              \* messages in the log file
    lost,              \* messages whose sending or writing failed, with an error printed
    discarded,         \* messages that were sent and never read, with no error printed
    writer,            \* "absent", "select", "drain", "closing", "ended" or "stopped"
    flush,             \* flush_all_debug_logs: "idle", "waiting", "done" or "late"
    due,               \* history: the messages sent before it was called
    late,              \* history: a message arrived after it had been given up
    fails              \* the number of failed writes so far

vars == <<LOG_SEQUENCE, spawned, channel, pending_messages, next_seq, buffer,
          file, lost, discarded, writer, flush, due, late, fails>>

Init ==
    /\ LOG_SEQUENCE = 0 /\ spawned = {} /\ channel = <<>>
    /\ pending_messages = {} /\ next_seq = 0
    /\ buffer = <<>> /\ file = <<>> /\ lost = {} /\ discarded = {}
    /\ writer = "absent"
    /\ flush = "idle" /\ due = {} /\ late = FALSE /\ fails = 0

Oldest(S) == CHOOSE s \in S : \A t \in S : s <= t

\* debug_log: take a number and spawn the sending task.
debug_log ==
    /\ LOG_SEQUENCE < MaxSeq
    /\ LOG_SEQUENCE' = LOG_SEQUENCE + 1
    /\ spawned' = spawned \cup {LOG_SEQUENCE}
    /\ UNCHANGED <<channel, pending_messages, next_seq, buffer, file, lost,
                   writer, flush, due, discarded, late, fails>>

\* The task of submit_debug_log: the first one starts the writer; sending fails
\* once the writer has ended.
submit_debug_log(m) ==
    /\ m \in spawned
    /\ spawned' = spawned \ {m}
    /\ writer' = IF writer = "absent" THEN "select" ELSE writer
    /\ \/ writer # "stopped" /\ channel' = Append(channel, m) /\ UNCHANGED lost
       \/ writer = "stopped" /\ lost' = lost \cup {m} /\ UNCHANGED channel
    /\ UNCHANGED <<LOG_SEQUENCE, pending_messages, next_seq, buffer, file,
                   flush, due, discarded, late, fails>>

Overfull(S) == Cardinality(S) > MAX_PENDING_MESSAGES

\* Mutant: the newest message is taken for the oldest.
SkipTo_newest(S) == CHOOSE s \in S : \A t \in S : t <= s

\* Where the writer goes on after giving a gap up: the oldest message it has.
SkipTo(S) == Oldest(S)

\* The writer takes a message from the channel.
receive ==
    /\ writer = "select"
    /\ channel # <<>>
    /\ channel' = Tail(channel)
    /\ pending_messages' = pending_messages \cup {Head(channel)}
    /\ late' = (late \/ Head(channel) < next_seq)
    /\ next_seq' = IF Overfull(pending_messages') THEN SkipTo(pending_messages') ELSE next_seq
    /\ writer' = "drain"
    /\ UNCHANGED <<LOG_SEQUENCE, spawned, buffer, file, lost, flush, due, discarded, fails>>

\* Mutant: after an error the buffer is kept although part of it was written.
flush_byte_buffer_kept(b) ==
    \E n \in 0 .. Len(b) :
        /\ n < Len(b) => fails < MaxFails
        /\ fails' = IF n = Len(b) THEN fails ELSE fails + 1
        /\ file' = file \o SubSeq(b, 1, n)
        /\ buffer' = IF n = Len(b) THEN <<>> ELSE b
        /\ lost' = lost

\* flush_byte_buffer: a failed write may have written a part; the rest is gone.
flush_byte_buffer(b) ==
    \E n \in 0 .. Len(b) :
        /\ n < Len(b) => fails < MaxFails
        /\ fails' = IF n = Len(b) THEN fails ELSE fails + 1
        /\ file' = file \o SubSeq(b, 1, n)
        /\ buffer' = <<>>
        /\ lost' = lost \cup ToSet(SubSeq(b, n + 1, Len(b)))

\* One round of the loop that moves the messages next in line to the buffer,
\* which is flushed when full; the loop ends at the first gap.
drain ==
    /\ writer = "drain"
    /\ \/ /\ next_seq \in pending_messages
          /\ pending_messages' = pending_messages \ {next_seq}
          /\ next_seq' = next_seq + 1
          /\ IF Len(buffer) + 1 >= BUFFER_CAPACITY
               THEN flush_byte_buffer(Append(buffer, next_seq))
               ELSE buffer' = Append(buffer, next_seq) /\ UNCHANGED <<file, lost, fails>>
          /\ UNCHANGED writer
       \/ /\ next_seq \notin pending_messages
          /\ writer' = "select"
          /\ UNCHANGED <<pending_messages, next_seq, buffer, file, lost, fails>>
    /\ UNCHANGED <<LOG_SEQUENCE, spawned, channel, flush, due, discarded, late>>

\* Mutant: the timer does not flush.
tick_unflushed ==
    /\ writer = "select"
    /\ UNCHANGED vars

\* The timer: give a wide gap up, but write nothing of what waits behind it
\* until the next message comes; flush the buffer.
tick ==
    /\ writer = "select"
    /\ next_seq' =
         IF pending_messages # {} /\ Oldest(pending_messages) > next_seq + OUT_OF_ORDER_THRESHOLD
         THEN SkipTo(pending_messages) ELSE next_seq
    /\ flush_byte_buffer(buffer)
    /\ UNCHANGED <<LOG_SEQUENCE, spawned, channel, pending_messages, writer, flush, due, discarded, late>>

\* flush_all_debug_logs: nothing to do without a writer; else signal it to stop.
flush_all_debug_logs ==
    /\ flush = "idle"
    /\ due' = (0 .. LOG_SEQUENCE - 1) \ spawned
    /\ flush' = IF writer = "absent" THEN "done" ELSE "waiting"
    /\ UNCHANGED <<LOG_SEQUENCE, spawned, channel, pending_messages, next_seq,
                   buffer, file, lost, discarded, writer, late, fails>>

\* Mutant: what is still in the channel is left there.
Remaining_pending == pending_messages

\* What is left to write when the writer stops.
Remaining == pending_messages \cup ToSet(channel)

\* The writer sees the signal: the rest of the channel joins what waits.  (No
\* signal was sent when flush_all_debug_logs found no writer: it was done at once.)
stop ==
    /\ writer = "select"
    /\ flush \in {"waiting", "late"}
    /\ pending_messages' = Remaining
    /\ late' = (late \/ \E s \in ToSet(channel) : s < next_seq)
    /\ channel' = <<>>
    /\ writer' = "closing"
    /\ UNCHANGED <<LOG_SEQUENCE, spawned, next_seq, buffer, file, lost, flush, due, discarded, fails>>

\* One round of the loop that puts all that waits into the buffer, in order and
\* across the gaps.
write_rest ==
    /\ writer = "closing"
    /\ pending_messages # {}
    /\ LET seq == Oldest(pending_messages)
       IN  /\ pending_messages' = pending_messages \ {seq}
           /\ buffer' = Append(buffer, seq)
           /\ next_seq' = seq + 1
    /\ UNCHANGED <<LOG_SEQUENCE, spawned, channel, file, lost, writer, flush, due, discarded, late, fails>>

\* The last flush.
close ==
    /\ writer = "closing"
    /\ pending_messages = {}
    /\ flush_byte_buffer(buffer)
    /\ writer' = "ended"
    /\ UNCHANGED <<LOG_SEQUENCE, spawned, channel, pending_messages, next_seq, flush, due, discarded, late>>

\* The task ends and its receiver is dropped, with what came in meanwhile: these
\* messages were sent without an error, and nothing tells that they are gone.
drop_receiver ==
    /\ writer = "ended"
    /\ discarded' = ToSet(channel)
    /\ channel' = <<>>
    /\ writer' = "stopped"
    /\ UNCHANGED <<LOG_SEQUENCE, spawned, pending_messages, next_seq, buffer, file, lost,
                   flush, due, late, fails>>

\* flush_all_debug_logs returns: the writer has ended, or 5 seconds are over.
flushed ==
    /\ flush = "waiting"
    /\ \/ writer = "stopped" /\ flush' = "done"
       \/ flush' = "late"
    /\ UNCHANGED <<LOG_SEQUENCE, spawned, channel, pending_messages, next_seq,
                   buffer, file, lost, writer, due, discarded, late, fails>>

Next ==
    \/ debug_log
    \/ \E m \in spawned : submit_debug_log(m)
    \/ receive \/ drain \/ tick
    \/ flush_all_debug_logs \/ stop \/ write_rest \/ close \/ drop_receiver \/ flushed

Spec == Init /\ [][Next]_vars

\* The runtime runs every spawned task and the writer.  The timer is served
\* when no more messages come: the biased select! prefers the channel.
Fairness ==
    /\ \A m \in 0 .. MaxSeq - 1 : WF_vars(submit_debug_log(m))
    /\ WF_vars(receive) /\ WF_vars(drain) /\ WF_vars(tick)
    /\ WF_vars(write_rest) /\ WF_vars(close) /\ WF_vars(drop_receiver)

FairSpec == Spec /\ Fairness

-----------------------------------------------------------------------------

Messages == 0 .. MaxSeq - 1

\* The state of the log.
TypeOK ==
    /\ LOG_SEQUENCE \in 0 .. MaxSeq
    /\ spawned \subseteq Messages /\ due \subseteq Messages
    /\ lost \subseteq Messages /\ discarded \subseteq Messages
    /\ channel \in Seq(Messages) /\ buffer \in Seq(Messages) /\ file \in Seq(Messages)
    /\ pending_messages \subseteq Messages
    /\ next_seq \in 0 .. MaxSeq
    /\ writer \in {"absent", "select", "drain", "closing", "ended", "stopped"}
    /\ flush \in {"idle", "waiting", "done", "late"}
    /\ late \in BOOLEAN
    /\ fails \in 0 .. MaxFails

\* What has been put into the buffer, in this order, unless it is lost.
log == file \o buffer

\* Where a message may be.
Places == <<spawned, ToSet(channel), pending_messages, ToSet(log), lost, discarded>>

\* Every message logged so far is in exactly one place: none is written twice,
\* whatever gaps are given up, and none vanishes.  The only ones that are dropped
\* with no error printed were sent after flush_all_debug_logs had been called, and
\* after the writer had looked into the channel for the last time.
EveryMessageOnce ==
    /\ IsInjective(channel) /\ IsInjective(log)
    /\ \A i, j \in DOMAIN Places : i # j => Places[i] \cap Places[j] = {}
    /\ UNION {Places[i] : i \in DOMAIN Places} = 0 .. LOG_SEQUENCE - 1
    /\ discarded # {} => writer = "stopped" /\ discarded \cap due = {}

InOrder(s) == \A i, j \in DOMAIN s : i < j => s[i] < s[j]

\* Unless a message arrives after it was given up, the file is in the order of
\* the sequence numbers, and nothing that waits has been passed over.
OrderedUnlessLate ==
    ~late => /\ InOrder(log)
             /\ \A s \in pending_messages : s >= next_seq

\* Every message logged ends up in the file, is lost to an error that is printed
\* or, once flush_all_debug_logs has been called, is discarded with the receiver,
\* unless some message arrives after it was given up.  (Then the late one stays in
\* pending_messages, and so may others, until the writer is stopped: nothing is
\* claimed of such a log here.)
EveryMessageIsWritten ==
    \A m \in Messages :
        (m < LOG_SEQUENCE) ~>
            \/ m \in ToSet(file) \cup lost
            \/ m \in discarded /\ flush # "idle"
            \/ late

\* When flush_all_debug_logs has returned in time and no write failed, the
\* messages sent before it was called are in the file, late ones included.
\* (One whose sending task had not run yet may be lost.)
FlushWritesAll == (flush = "done" /\ fails = 0) => due \subseteq ToSet(file)

=============================================================================
