----------------------------- MODULE LogManager -----------------------------
(***************************************************************************)
(* The request-log actor of src/src/app/model/log/manager.rs and the       *)
(* requests of core/service.rs that use it.  One task owns the logs and    *)
(* the token associations; everybody else sends it commands over a bounded *)
(* FIFO channel and, for a query, waits on a oneshot channel for the       *)
(* answer.  A request may be dropped by its client at any await.           *)
(*                                                                         *)
(* A log is reduced to its id, its token key, its status and two history   *)
(* fields: the request that added it and the requests whose updates it     *)
(* received.  The token stored with an association is named by the request *)
(* that brought it.  The request counters of AppState are here too.        *)
(***************************************************************************)
EXTENDS Integers, Sequences, FiniteSets, FiniteSetsExt

CONSTANTS Requests,  \* chat requests, each handled once
          Keys,      \* token keys
          Viewers,   \* callers of get_logs, get_token, get_tokens
          Main,      \* the shutdown handler, which asks for a copy to save
          Limits,    \* values REQUEST_LOGS_LIMIT may have at a start (not 0)
          Capacity,  \* bound of the command channel
          None

ASSUME LogAssumption ==
    /\ Limits \subseteq Nat \ {0}
    /\ Capacity \in Nat \ {0}
    /\ Main \notin Viewers
    /\ Requests \cap (Viewers \cup {Main}) = {}

Queriers == Viewers \cup {Main}
Statuses == {"Pending", "Success", "Failure"}

Log == [id : Nat, key : Keys, status : Statuses,
        owner : Requests, writers : SUBSET Requests]

AssociatedToken == [token : Requests, ref_count : Nat]

ASSUME NoneAssumption == None \notin AssociatedToken

\* LogUpdate: the two status updates, Failure2 among the failures, and the
\* updates that leave the status alone.
Updates == {"Success", "Failure", "Other"}

\* LogCommand.  `from' is whom a query's oneshot sender answers; for a log and
\* an update it is the history field.
Command ==
    [op : {"GetNextLogId"}, from : Requests]
      \cup [op : {"AddLog"}, from : Requests, id : Nat, key : Keys]
      \cup [op : {"UpdateLog"}, from : Requests, id : Nat, ops : Updates]
      \cup [op : {"GetLogs", "GetToken"}, from : Viewers]
      \cup [op : {"CloneToSave"}, from : {Main}]

\* Where a request is: between its counting and its end it waits, one after the
\* other, for an id, for the upstream's answer and for room in the channel.
Phases == {"new", "counted", "asking", "has_id", "logged",
           "answered", "failing", "erring", "success", "failed", "gone"}

VARIABLES
    logs,     \* MainStorage
    tokens,   \* AssociatedStorage: TokenKey -> AssociatedToken
    limit,    \* REQUEST_LOGS_LIMIT of this process
    chan,     \* the command channel
    alive,    \* FALSE once the actor has panicked
    pc,       \* where each request is
    cur,      \* current_id of each request
    waiting,  \* queriers that wait on a oneshot receiver
    left,     \* viewers that hung up while they waited
    total_requests, active_requests, error_requests,
    disk,     \* the copy made for saving, or None
    dropped,    \* history: requests dropped before the upstream answered
    overlapped  \* history: two requests were allocating a log at a time

actorVars == <<logs, tokens, limit, alive, disk>>
counters == <<total_requests, active_requests, error_requests>>
vars == <<actorVars, chan, pc, cur, waiting, left, counters, dropped, overlapped>>
others == <<left, counters, dropped>>

Init ==
    /\ logs = <<>>
    /\ tokens = [k \in Keys |-> None]
    /\ limit \in Limits
    /\ chan = <<>>
    /\ alive = TRUE
    /\ pc = [r \in Requests |-> "new"]
    /\ cur = [r \in Requests |-> 0]
    /\ waiting = {}
    /\ left = {}
    /\ total_requests = 0
    /\ active_requests = 0
    /\ error_requests = 0
    /\ dropped = {}
    /\ disk = None
    /\ overlapped = FALSE

-----------------------------------------------------------------------------
\* The senders.

\* LOG_COMMAND_SENDER.send(..).await: waits for room in the channel.
Send(cmd) ==
    /\ alive
    /\ Len(chan) < Capacity
    /\ chan' = Append(chan, cmd)

\* increment_total and increment_active, before anything is sent.
begin(r) ==
    /\ pc[r] = "new"
    /\ pc' = [pc EXCEPT ![r] = "counted"]
    /\ total_requests' = total_requests + 1
    /\ active_requests' = active_requests + 1
    /\ UNCHANGED <<actorVars, chan, cur, waiting, left, error_requests, dropped>>

get_next_log_id(r) ==
    /\ pc[r] = "counted"
    /\ Send([op |-> "GetNextLogId", from |-> r])
    /\ pc' = [pc EXCEPT ![r] = "asking"]
    /\ UNCHANGED <<actorVars, cur, waiting, others>>

\* The request has its id: it builds a Pending log and sends it.
add_log(r, k) ==
    /\ pc[r] = "has_id"
    /\ Send([op |-> "AddLog", from |-> r, id |-> cur[r], key |-> k])
    /\ pc' = [pc EXCEPT ![r] = "logged"]
    /\ UNCHANGED <<actorVars, cur, waiting, others>>

\* What a request says of itself, in this order: Failure when the body cannot
\* be encoded or the upstream request fails, else Success; later perhaps a
\* Failure, when the stream turns out to hold an error.
Reports(r, u) ==
    \/ pc[r] = "logged" /\ u \in {"Success", "Failure"}
    \/ pc[r] = "success" /\ u = "Failure"

\* Where a report leaves the request: the counters are still to change, with no
\* await before they do.
Reported(r, u) ==
    IF u = "Success" THEN "answered" ELSE IF pc[r] = "logged" THEN "failing" ELSE "erring"

update_log(r, u) ==
    /\ Reports(r, u)
    /\ Send([op |-> "UpdateLog", from |-> r, id |-> cur[r], ops |-> u])
    /\ pc' = [pc EXCEPT ![r] = Reported(r, u)]
    /\ UNCHANGED <<actorVars, cur, waiting, others>>

\* Mutant: decrement_active is forgotten on the error path.
StillActive_failed(r) == active_requests - (IF pc[r] = "answered" THEN 1 ELSE 0)

\* The first report ends the active time of a request.
StillActive(r) == active_requests - (IF pc[r] = "erring" THEN 0 ELSE 1)

Errors(r) == error_requests + (IF pc[r] = "answered" THEN 0 ELSE 1)

\* decrement_active and increment_error, once the report is in the channel.
count(r) ==
    /\ pc[r] \in {"answered", "failing", "erring"}
    /\ pc' = [pc EXCEPT ![r] = IF pc[r] = "answered" THEN "success" ELSE "failed"]
    /\ active_requests' = StillActive(r)
    /\ error_requests' = Errors(r)
    /\ UNCHANGED <<actorVars, chan, cur, waiting, left, total_requests, dropped>>

\* Timing, delays and usage of a stream, and the profile that the background
\* task of a finished request brings.
update_other(r) ==
    /\ pc[r] = "success"
    /\ Send([op |-> "UpdateLog", from |-> r, id |-> cur[r], ops |-> "Other"])
    /\ UNCHANGED <<actorVars, pc, cur, waiting, others>>

\* The connection is closed and the request's future dropped, the oneshot
\* receiver with it.
disconnect(r) ==
    /\ alive
    /\ pc[r] \in {"counted", "asking", "has_id", "logged", "success"}
    /\ pc' = [pc EXCEPT ![r] = "gone"]
    /\ dropped' = IF pc[r] = "success" THEN dropped ELSE dropped \cup {r}
    /\ UNCHANGED <<actorVars, chan, cur, waiting, left, counters>>

query(v, op) ==
    /\ v \notin waiting \cup left
    /\ op = "CloneToSave" <=> v = Main
    /\ v = Main => disk = None           \* it saves once, and the process ends
    /\ Send([op |-> op, from |-> v])
    /\ waiting' = waiting \cup {v}
    /\ UNCHANGED <<actorVars, pc, cur, others>>

\* A viewer's connection closes before its answer; one that comes again is
\* another viewer.
hang_up(v) ==
    /\ alive
    /\ v \in waiting \cap Viewers
    /\ waiting' = waiting \ {v}
    /\ left' = left \cup {v}
    /\ UNCHANGED <<actorVars, chan, pc, cur, counters, dropped>>

-----------------------------------------------------------------------------
\* The actor: handle_command of the oldest command.

Receive(op) ==
    /\ alive
    /\ chan # <<>>
    /\ Head(chan).op = op
    /\ chan' = Tail(chan)

\* Mutant: the id of the oldest log.
NextLogId_front == IF logs = <<>> THEN 1 ELSE logs[1].id + 1

\* mgr.logs.back().map_or(1, |log| log.id + 1)
NextLogId == IF logs = <<>> THEN 1 ELSE logs[Len(logs)].id + 1

\* Mutant: with no log yet, the oneshot sender is dropped without an answer.
HandleGetNextLogId_empty ==
    /\ Receive("GetNextLogId")
    /\ LET r == Head(chan).from
       IN  IF logs = <<>> THEN UNCHANGED <<pc, cur>>
           ELSE /\ cur' = [cur EXCEPT ![r] = NextLogId]
                /\ pc' = [pc EXCEPT ![r] = "has_id"]
    /\ UNCHANGED <<logs, tokens, limit, alive, waiting, disk, others>>

\* unwrap!(tx.send(..)): panics when the receiver is gone.
HandleGetNextLogId ==
    /\ Receive("GetNextLogId")
    /\ LET r == Head(chan).from
       IN  \/ /\ pc[r] = "asking"
              /\ cur' = [cur EXCEPT ![r] = NextLogId]
              /\ pc' = [pc EXCEPT ![r] = "has_id"]
              /\ alive' = alive
           \/ /\ pc[r] # "asking"
              /\ alive' = FALSE
              /\ UNCHANGED <<pc, cur>>
    /\ UNCHANGED <<logs, tokens, limit, waiting, disk, others>>

\* How many logs `while len >= limit { pop_front }' takes.
Evictions == IF Len(logs) >= limit THEN Len(logs) - limit + 1 ELSE 0

CountKey(s, k) == Cardinality({i \in DOMAIN s : s[i].key = k})

Evicted == SubSeq(logs, 1, Evictions)
Kept == SubSeq(logs, Evictions + 1, Len(logs))

\* Mutant: the association goes with the first log of its key.
Release_first(k) ==
    IF tokens[k] # None /\ CountKey(Evicted, k) = 0 THEN tokens[k] ELSE None

\* Each popped log gives up its reference; the last one takes the association
\* away, and a log without one is only reported.
Release(k) ==
    IF tokens[k] # None /\ tokens[k].ref_count > CountKey(Evicted, k)
      THEN [tokens[k] EXCEPT !.ref_count = @ - CountKey(Evicted, k)]
      ELSE None

\* The association a after a log of request r has been added.
Associate(a, r) ==
    IF a = None THEN [token |-> r, ref_count |-> 1]
                ELSE [token |-> r, ref_count |-> a.ref_count + 1]

HandleAddLog ==
    /\ Receive("AddLog")
    /\ LET cmd == Head(chan)
           log == [id |-> cmd.id, key |-> cmd.key, status |-> "Pending",
                   owner |-> cmd.from, writers |-> {}]
       IN  /\ logs' = Append(Kept, log)
           /\ tokens' = [k \in Keys |->
                           IF k = cmd.key THEN Associate(Release(k), cmd.from)
                                          ELSE Release(k)]
    /\ UNCHANGED <<limit, alive, pc, cur, waiting, disk, others>>

\* The log an update changes: the newest one of that id.
Target(id) == Max({i \in DOMAIN logs : logs[i].id = id})

\* What a command leaves of the log it updates.
Updated(log, cmd) ==
    [log EXCEPT !.status = IF cmd.ops = "Other" THEN @ ELSE cmd.ops,
                !.writers = @ \cup {cmd.from}]

HandleUpdateLog ==
    /\ Receive("UpdateLog")
    /\ LET cmd == Head(chan)
       IN  \/ /\ \A i \in DOMAIN logs : logs[i].id # cmd.id    \* it was evicted
              /\ logs' = logs
           \/ /\ \E i \in DOMAIN logs : logs[i].id = cmd.id
              /\ logs' = [logs EXCEPT ![Target(cmd.id)] = Updated(@, cmd)]
    /\ UNCHANGED <<tokens, limit, alive, pc, cur, waiting, disk, others>>

\* The viewer's answer.  The filter on user_id expects an association for every
\* log; sending the answer panics when the viewer has hung up meanwhile.
HandleQuery(op) ==
    /\ op \in {"GetLogs", "GetToken"}
    /\ Receive(op)
    /\ LET v == Head(chan).from
       IN  /\ alive' = /\ v \in waiting
                       /\ op = "GetLogs" => \A i \in DOMAIN logs : tokens[logs[i].key] # None
           /\ waiting' = waiting \ {v}
    /\ UNCHANGED <<logs, tokens, limit, pc, cur, disk, others>>

HandleCloneToSave ==
    /\ Receive("CloneToSave")
    /\ disk' = [logs |-> logs, tokens |-> tokens]
    /\ waiting' = waiting \ {Main}
    /\ UNCHANGED <<logs, tokens, limit, alive, pc, cur, others>>

\* The process ends after the copy was saved, and a new one, perhaps with
\* another limit, loads it: the logs, the associations and their counts as
\* they were.  Requests in flight are gone, and viewers are new ones; the
\* counters begin with the logs, of which those still pending count as errors.
load ==
    /\ alive
    /\ disk # None
    /\ logs' = disk.logs
    /\ tokens' = disk.tokens
    /\ limit' \in Limits
    /\ chan' = <<>>
    /\ pc' = [r \in Requests |-> IF pc[r] = "new" THEN "new" ELSE "gone"]
    /\ waiting' = {}
    /\ left' = {}
    /\ disk' = None
    /\ total_requests' = Len(disk.logs)
    /\ active_requests' = 0
    /\ error_requests' = Cardinality({i \in DOMAIN disk.logs : disk.logs[i].status # "Success"})
    /\ dropped' = {}
    /\ UNCHANGED <<alive, cur>>

-----------------------------------------------------------------------------

Client(r) ==
    \/ begin(r)
    \/ get_next_log_id(r)
    \/ \E k \in Keys : add_log(r, k)
    \/ \E u \in Updates : update_log(r, u)
    \/ count(r)
    \/ update_other(r)

Actor ==
    \/ HandleGetNextLogId
    \/ HandleAddLog
    \/ HandleUpdateLog
    \/ \E op \in {"GetLogs", "GetToken"} : HandleQuery(op)
    \/ HandleCloneToSave

\* Between asking for an id and the actor's having stored the log.
Allocating(r) ==
    \/ pc[r] \in {"asking", "has_id"}
    \/ \E i \in DOMAIN chan : chan[i].from = r /\ chan[i].op \in {"GetNextLogId", "AddLog"}

Overlap == \E r, s \in Requests : r # s /\ Allocating(r) /\ Allocating(s)

Next ==
    /\ \/ \E r \in Requests : Client(r) \/ disconnect(r)
       \/ \E v \in Queriers, op \in {"GetLogs", "GetToken", "CloneToSave"} : query(v, op)
       \/ \E v \in Viewers : hang_up(v)
       \/ Actor
       \/ load
    /\ overlapped' = (overlapped \/ Overlap')

Spec == Init /\ [][Next]_vars

-----------------------------------------------------------------------------

TypeOK ==
    /\ logs \in Seq(Log)
    /\ tokens \in [Keys -> AssociatedToken \cup {None}]
    /\ limit \in Limits
    /\ chan \in Seq(Command)
    /\ Len(chan) <= Capacity
    /\ alive \in BOOLEAN
    /\ pc \in [Requests -> Phases]
    /\ cur \in [Requests -> Nat]
    /\ waiting \subseteq Queriers
    /\ left \subseteq Viewers
    /\ {total_requests, active_requests, error_requests} \subseteq Nat
    /\ dropped \subseteq Requests
    /\ disk = None \/ disk.logs \in Seq(Log)
    /\ overlapped \in BOOLEAN

\* A key has an association exactly while some log has that key, and its
\* ref_count is the number of those logs: what GetLogs expects of every log,
\* and what keeps an association from leaking, evictions of several logs at
\* once (a smaller limit after a restart) included.
AssociationsMatchLogs ==
    \A k \in Keys :
        IF CountKey(logs, k) = 0
          THEN tokens[k] = None
          ELSE tokens[k] # None /\ tokens[k].ref_count = CountKey(logs, k)

\* The actor panics only on answering somebody who is gone: its own
\* expectation, that every log has an association, never fails.
ActorDiesOnlyByDisconnect ==
    [][(alive /\ ~alive') =>
          LET asker == Head(chan).from
          IN  IF asker \in Requests THEN pc[asker] = "gone" ELSE asker \in left]_vars

\* Requests that the gauge still counts, and those whose failure is reported
\* to the log but not yet counted.
Unreleased ==
    {r \in Requests :
        pc[r] \in {"counted", "asking", "has_id", "logged", "answered", "failing"}}
Uncounted == {r \in Requests : pc[r] \in {"failing", "erring"}}

\* The gauge of active requests shows those that have not released it yet and,
\* for ever, those that were dropped before they did, were it while they waited
\* for room in the channel; the other counters never show less than the logs
\* do: every log was counted, and every failure, whichever log it was written
\* to, also after a restart, is counted or about to be.
CountersAgree ==
    /\ active_requests = Cardinality(Unreleased) + Cardinality(dropped)
    /\ total_requests >= Len(logs)
    /\ error_requests + Cardinality(Uncounted) >=
          Cardinality({i \in DOMAIN logs : logs[i].status = "Failure"})

\* An update changes the log of the request that sent it, or none.
UpdatesReachOwnLog ==
    \A i \in DOMAIN logs : logs[i].writers \subseteq {logs[i].owner}

\* An update reaches a foreign log only after two requests allocated at a time:
\* not through evictions, a restart that goes back to older logs, or a request
\* that was dropped halfway.
ForeignUpdateNeedsOverlap == overlapped \/ UpdatesReachOwnLog

\* Whoever waits for an answer has exactly one question in the channel, so the
\* actor, which waits for nothing but commands, answers everybody; and nobody
\* asks twice.
WaitersAreQueued ==
    alive =>
        /\ \A r \in Requests : pc[r] = "asking" =>
              Cardinality({i \in DOMAIN chan : chan[i].op = "GetNextLogId" /\ chan[i].from = r}) = 1
        /\ \A v \in Queriers :
              v \in waiting <=> v \notin left /\ \E i \in DOMAIN chan : chan[i].from = v
        /\ \A v \in Queriers : Cardinality({i \in DOMAIN chan : chan[i].from = v}) <= 1

=============================================================================
