------------------------------- MODULE Monitoring -------------------------------
(***************************************************************************)
(* What the administrators watch: the jobs of the worker, the log of       *)
(* unhandled exceptions, and the health probes.                            *)
(*                                                                         *)
(* The worker's signals keep a hash for each job, a count of failures for  *)
(* each queue and a list of failed jobs, in Redis and one command after    *)
(* another; the console retries jobs and purges the list.  An unhandled    *)
(* exception bumps the open entry of its fingerprint or makes one, and the *)
(* live tail polls for entries newer than the last it showed.  The probes  *)
(* keep their latest latencies, and the slower ones their answer for some  *)
(* seconds.  What is measured, fingerprints and advice are left out.       *)
(***************************************************************************)
EXTENDS Integers, Sequences, FiniteSets, SequencesExt

CONSTANTS
    Jobs,           \* tasks, their retries included
    NAMED_QUEUES,
    Long,           \* jobs with more than 500 characters of arguments
    Purgers,        \* purges in progress, one each
    KEPT,           \* failures the list keeps, of all queues together
    PAGE, OVERREAD, \* jobs on a page, and the pages that are read to fill one
    Logs, Fingerprints,
    Captures,       \* exceptions being captured
    Tails,          \* open live tails
    LIMIT,          \* rows of one poll
    MaxTime,        \* bound: transactions that take their time
    Probes,         \* probes in progress
    Keys,           \* cached answers: "smtp", "celery", the database's tables, ...
    Latencies,
    _RING,          \* readings kept
    MaxReadings     \* bound

Absent == [status |-> "none"]
Idle == [op |-> "idle"]

VARIABLES
    run,            \* where each task is
    job,            \* celery:job:* hashes
    failed_count,   \* celery:stats:*:failed
    failed_jobs,    \* celery:failed_jobs
    score,          \* when each job failed, by the worker's clock; 0 if it has not
    paused,         \* queues whose consumer was cancelled
    purge,          \* purges in progress
    purged_queues,  \* queues purged so far
    log,            \* app_logs
    capture,        \* captures in progress
    clock,          \* now() of the last transaction
    tail,           \* the cursor of each live tail, and what it showed
    cache,          \* health:cache:*
    cleared,        \* what was there to measure when the cache was last cleared
    world,          \* what a probe would measure
    probe,          \* probes in progress
    ring,           \* health:latency:* of one service
    pushed          \* every reading so far

jobVars == <<run, job, failed_count, failed_jobs, score, paused, purge, purged_queues>>
logVars == <<log, capture, clock, tail>>
healthVars == <<cache, cleared, world, probe, ring, pushed>>
monitorVars == <<jobVars, logVars, healthVars>>

TypeOK ==
    /\ failed_count \in [NAMED_QUEUES -> 0..Cardinality(Jobs)]
    /\ failed_jobs \subseteq Jobs /\ paused \subseteq NAMED_QUEUES /\ purged_queues \subseteq NAMED_QUEUES
    /\ score \in [Jobs -> 0..Cardinality(Jobs)]
    /\ clock \in 0..MaxTime
    /\ \A t \in Tails : tail[t].shown \subseteq Logs
    /\ Len(ring) <= Len(pushed) /\ Len(pushed) <= MaxReadings
    /\ \A k \in Keys : cache[k] \in -1..MaxReadings

Init ==
    /\ run = [j \in Jobs |-> Absent]
    /\ job = [j \in Jobs |-> Absent]
    /\ failed_count = [q \in NAMED_QUEUES |-> 0]
    /\ score = [j \in Jobs |-> 0]
    /\ failed_jobs = {} /\ paused = {} /\ purged_queues = {}
    /\ purge = [p \in Purgers |-> Idle]
    /\ log = [l \in Logs |-> Absent]
    /\ capture = [c \in Captures |-> Idle]
    /\ clock = 0
    /\ tail = [t \in Tails |-> [cursor |-> 0, shown |-> {}]]
    /\ cache = [k \in Keys |-> -1]
    /\ world = 0 /\ cleared = 0
    /\ probe = [p \in Probes |-> Idle]
    /\ ring = <<>> /\ pushed = <<>>

-----------------------------------------------------------------------------
(* Jobs *)

unchangedJobs == UNCHANGED <<logVars, healthVars>>
step(j, s) == run' = [run EXCEPT ![j].status = s]

submit(j, q) ==
    /\ run[j] = Absent
    /\ run' = [run EXCEPT ![j] = [status |-> "queued", queue |-> q, args |-> "whole"]]
    /\ UNCHANGED <<job, failed_count, failed_jobs, score, paused, purge, purged_queues>> /\ unchangedJobs

on_task_prerun(j) ==
    /\ run[j].status = "queued" /\ run[j].queue \notin paused
    /\ step(j, "running")
    /\ job' = [job EXCEPT ![j] = [status |-> "tracked", queue |-> run[j].queue, failed |-> FALSE,
        args |-> IF j \in Long THEN "cut" ELSE run[j].args]]
    /\ UNCHANGED <<failed_count, failed_jobs, score, paused, purge, purged_queues>> /\ unchangedJobs

on_task_postrun(j) ==
    /\ run[j].status = "running" /\ step(j, "succeeded")
    /\ UNCHANGED <<job, failed_count, failed_jobs, score, paused, purge, purged_queues>> /\ unchangedJobs

tracked_queue(j) == IF job[j] = Absent THEN "celery" ELSE job[j].queue

\* The n latest failures of S.
newest(n, S) == {j \in S : Cardinality({k \in S : score[k] > score[j]}) < n}

\* The failure handler: the count, the list, the hash. A job is stamped before
\* it reaches the list, so jobs may be listed out of the order of their stamps.
count_failure(j) ==
    /\ run[j].status = "running" /\ step(j, "counted")
    /\ failed_count' = [failed_count EXCEPT ![tracked_queue(j)] = @ + 1]
    /\ score' = [score EXCEPT ![j] = 1 + Cardinality({k \in Jobs : score[k] > 0})]
    /\ UNCHANGED <<job, failed_jobs, paused, purge, purged_queues>> /\ unchangedJobs

list_failure(j) ==
    /\ run[j].status = "counted" /\ step(j, "listed")
    /\ failed_jobs' = failed_jobs \cup {j}
    /\ UNCHANGED <<job, failed_count, score, paused, purge, purged_queues>> /\ unchangedJobs

\* What is dropped may be of any queue, and of this very failure.
trim_failures(j) ==
    /\ run[j].status = "listed" /\ step(j, "trimmed")
    /\ failed_jobs' = newest(KEPT, failed_jobs)
    /\ UNCHANGED <<job, failed_count, score, paused, purge, purged_queues>> /\ unchangedJobs

\* A hash that was deleted meanwhile is made again, of the error alone.
on_task_failure(j) ==
    /\ run[j].status = "trimmed" /\ step(j, "failed")
    /\ job' = [job EXCEPT ![j] = IF @ = Absent THEN [status |-> "remains", queue |-> "celery",
                                                     failed |-> TRUE, args |-> "none"]
                                 ELSE [@ EXCEPT !.failed = TRUE]]
    /\ UNCHANGED <<failed_count, failed_jobs, score, paused, purge, purged_queues>> /\ unchangedJobs

\* Arguments that were cut are not JSON, so the task goes without any, and
\* to the default queue.
retry_job(j, new) ==
    /\ job[j].status = "tracked" /\ run[new] = Absent /\ j # new
    /\ (j \in Long) <=> (new \in Long)
    /\ run' = [run EXCEPT ![new] = IF job[j].args = "whole"
        THEN [status |-> "queued", queue |-> job[j].queue, args |-> "whole"]
        ELSE [status |-> "queued", queue |-> "celery", args |-> "none"]]
    /\ UNCHANGED <<job, failed_count, failed_jobs, score, paused, purge, purged_queues>> /\ unchangedJobs

\* MUTANT of to_remove: the queue is not compared.
to_remove_all(q) == failed_jobs

to_remove(q) == {j \in failed_jobs : tracked_queue(j) = q}

begin_purge(p, q) ==
    /\ purge[p] = Idle
    /\ purge' = [purge EXCEPT ![p] = [op |-> "purge", queue |-> q, ids |-> to_remove(q)]]
    /\ purged_queues' = purged_queues \cup {q}
    /\ UNCHANGED <<run, job, failed_count, failed_jobs, score, paused>> /\ unchangedJobs

purge_failed(p) ==
    /\ purge[p] # Idle
    /\ LET ids == purge[p].ids IN
       /\ job' = [j \in Jobs |-> IF j \in ids THEN Absent ELSE job[j]]
       /\ failed_jobs' = failed_jobs \ ids
       /\ failed_count' = IF ids = {} THEN failed_count ELSE [failed_count EXCEPT ![purge[p].queue] = 0]
    /\ purge' = [purge EXCEPT ![p] = Idle]
    /\ UNCHANGED <<run, score, paused, purged_queues>> /\ unchangedJobs

\* What the console shows; a list names a job whose hash is gone no more.  The
\* page of a queue is filled from the latest failures of all queues.
_waiting_jobs(q) == {j \in Jobs : run[j].status = "queued" /\ run[j].queue = q}
_active_jobs(q) == {j \in Jobs : run[j].status \in {"running", "counted", "listed", "trimmed"} /\ run[j].queue = q}
of_queue(q, S) == {j \in S : job[j] # Absent /\ job[j].queue = q}
_indexed_jobs(q) == newest(PAGE, of_queue(q, newest(PAGE * OVERREAD, failed_jobs)))

queue_cards(q) == [waiting |-> Cardinality(_waiting_jobs(q)), active |-> Cardinality(_active_jobs(q)),
                   failed |-> failed_count[q]]

\* Seven days.
expire_job(j) ==
    /\ job[j].status = "tracked" /\ run[j].status \in {"failed", "succeeded"}
    /\ job' = [job EXCEPT ![j] = Absent]
    /\ UNCHANGED <<run, failed_count, failed_jobs, score, paused, purge, purged_queues>> /\ unchangedJobs

pause_queue(q) ==
    /\ paused' = paused \cup {q}
    /\ UNCHANGED <<run, job, failed_count, failed_jobs, score, purge, purged_queues>> /\ unchangedJobs

resume_queue(q) ==
    /\ paused' = paused \ {q}
    /\ UNCHANGED <<run, job, failed_count, failed_jobs, score, purge, purged_queues>> /\ unchangedJobs

-----------------------------------------------------------------------------
(* The log *)

unchangedLogs == UNCHANGED <<jobVars, healthVars>>
open_rows(f) == {l \in Logs : log[l] # Absent /\ log[l].fingerprint = f /\ ~log[l].resolved}
latest(S) == {l \in S : \A m \in S : log[m].created <= log[l].created}

\* created_at is the time the transaction began.
begin_capture(c, f) ==
    /\ capture[c] = Idle /\ clock < MaxTime
    /\ clock' = clock + 1
    /\ \E found \in IF open_rows(f) = {} THEN {{}} ELSE {{l} : l \in latest(open_rows(f))} :
        capture' = [capture EXCEPT ![c] = [op |-> "capture", fingerprint |-> f, now |-> clock', existing |-> found,
            count |-> IF found = {} THEN 0 ELSE log[CHOOSE l \in found : TRUE].count]]
    /\ UNCHANGED <<log, tail>> /\ unchangedLogs

\* A row deleted meanwhile is not found, and the exception is not captured.
bump(c) ==
    /\ capture[c].op = "capture" /\ capture[c].existing # {}
    /\ log' = [l \in Logs |-> IF l \in capture[c].existing /\ log[l] # Absent
                              THEN [log[l] EXCEPT !.count = capture[c].count + 1] ELSE log[l]]
    /\ capture' = [capture EXCEPT ![c] = Idle]
    /\ UNCHANGED <<clock, tail>> /\ unchangedLogs

create(c, l) ==
    /\ capture[c].op = "capture" /\ capture[c].existing = {} /\ log[l] = Absent
    /\ log' = [log EXCEPT ![l] = [status |-> "there", fingerprint |-> capture[c].fingerprint,
        resolved |-> FALSE, count |-> 1, created |-> capture[c].now]]
    /\ capture' = [capture EXCEPT ![c] = Idle]
    /\ UNCHANGED <<clock, tail>> /\ unchangedLogs

resolve(l) ==
    /\ log[l] # Absent
    /\ log' = [log EXCEPT ![l].resolved = TRUE]
    /\ UNCHANGED <<capture, clock, tail>> /\ unchangedLogs

resolve_all_by_fingerprint(f) ==
    /\ open_rows(f) # {}
    /\ log' = [l \in Logs |-> IF l \in open_rows(f) THEN [log[l] EXCEPT !.resolved = TRUE] ELSE log[l]]
    /\ UNCHANGED <<capture, clock, tail>> /\ unchangedLogs

delete(l) ==
    /\ log[l] # Absent
    /\ log' = [log EXCEPT ![l] = Absent]
    /\ tail' = [t \in Tails |-> [tail[t] EXCEPT !.shown = @ \ {l}]]     \* the row's name is free again
    /\ UNCHANGED <<capture, clock>> /\ unchangedLogs

after(t) == {l \in Logs : log[l] # Absent /\ log[l].created > tail[t].cursor}

list_since(t) == {l \in after(t) : Cardinality({m \in after(t) : log[m].created < log[l].created}) < LIMIT}

\* MUTANT of next_cursor: the time of the poll.
next_cursor_now(rows) == clock

next_cursor(rows) == LET last == CHOOSE l \in rows : \A m \in rows : log[m].created <= log[l].created
                     IN log[last].created

stream_logs(t) ==
    /\ after(t) # {}
    /\ tail' = [tail EXCEPT ![t] = [cursor |-> next_cursor(list_since(t)), shown |-> @.shown \cup list_since(t)]]
    /\ UNCHANGED <<log, capture, clock>> /\ unchangedLogs

-----------------------------------------------------------------------------
(* Health *)

unchangedHealth == UNCHANGED <<jobVars, logVars>>

things_change ==
    /\ world < MaxReadings /\ world' = world + 1
    /\ UNCHANGED <<cache, cleared, probe, ring, pushed>> /\ unchangedHealth

begin_probe(p, step_, k) == probe[p] = Idle /\ probe' = [probe EXCEPT ![p] = [op |-> step_, key |-> k, value |-> world]]

rpush(ms) ==
    /\ Len(pushed) < MaxReadings
    /\ pushed' = Append(pushed, ms) /\ ring' = Append(ring, ms)

\* The database and Redis are asked each time.
probe_database(p, ms) ==
    /\ begin_probe(p, "pushed", "none") /\ rpush(ms)
    /\ UNCHANGED <<cache, cleared, world>> /\ unchangedHealth

probe_smtp(p, ms) ==
    /\ "smtp" \in Keys /\ cache["smtp"] = -1
    /\ begin_probe(p, "pushed", "smtp") /\ rpush(ms)
    /\ UNCHANGED <<cache, cleared, world>> /\ unchangedHealth

\* Celery, and the statistics of the database: no latency is kept.
probe_celery(p, k) ==
    /\ k # "smtp" /\ cache[k] = -1
    /\ begin_probe(p, "measured", k)
    /\ UNCHANGED <<cache, cleared, world, ring, pushed>> /\ unchangedHealth

\* MUTANT of ltrim: one too many is kept.
ltrim_off_by_one(s) == IF Len(s) > _RING + 1 THEN SubSeq(s, Len(s) - _RING, Len(s)) ELSE s

ltrim(s) == IF Len(s) > _RING THEN SubSeq(s, Len(s) - _RING + 1, Len(s)) ELSE s

push_latency(p) ==
    /\ probe[p].op = "pushed"
    /\ ring' = ltrim(ring)
    /\ probe' = [probe EXCEPT ![p] = IF @.key = "none" THEN Idle ELSE [@ EXCEPT !.op = "measured"]]
    /\ UNCHANGED <<cache, cleared, world, pushed>> /\ unchangedHealth

hset(p) ==
    /\ probe[p].op = "measured"
    /\ cache' = [cache EXCEPT ![probe[p].key] = probe[p].value]
    /\ probe' = [probe EXCEPT ![p] = Idle]
    /\ UNCHANGED <<cleared, world, ring, pushed>> /\ unchangedHealth

expire_cache(k) ==
    /\ cache[k] # -1
    /\ cache' = [cache EXCEPT ![k] = -1]
    /\ UNCHANGED <<cleared, world, probe, ring, pushed>> /\ unchangedHealth

\* KEYS, then DEL of what KEYS found.
begin_invalidate(p) ==
    /\ probe[p] = Idle
    /\ probe' = [probe EXCEPT ![p] = [op |-> "invalidate", since |-> world,
        keys |-> {k \in Keys : cache[k] # -1}]]
    /\ UNCHANGED <<cache, cleared, world, ring, pushed>> /\ unchangedHealth

invalidate_health_cache(p) ==
    /\ probe[p].op = "invalidate"
    /\ cache' = [k \in Keys |-> IF k \in probe[p].keys THEN -1 ELSE cache[k]]
    /\ cleared' = probe[p].since
    /\ probe' = [probe EXCEPT ![p] = Idle]
    /\ UNCHANGED <<world, ring, pushed>> /\ unchangedHealth

sorted(values) == SortSeq(values, <)

\* MUTANT of pct_index: counted from one and not from zero.
pct_index_short(n, p) == IF (n * p) \div 100 = 0 THEN 1 ELSE (n * p) \div 100

\* The index into the sorted readings, from 1.
pct_index(n, p) == LET i == (n * p) \div 100 IN 1 + (IF i < n - 1 THEN i ELSE n - 1)

_pct(values, p) == IF values = <<>> THEN 0 ELSE sorted(values)[pct_index(Len(values), p)]

-----------------------------------------------------------------------------
jobStep ==
    \/ \E j \in Jobs :
        \/ \E q \in NAMED_QUEUES : submit(j, q)
        \/ on_task_prerun(j) \/ on_task_postrun(j)
        \/ count_failure(j) \/ list_failure(j) \/ trim_failures(j) \/ on_task_failure(j)
        \/ expire_job(j) \/ \E new \in Jobs : retry_job(j, new)
    \/ \E p \in Purgers : purge_failed(p) \/ \E q \in NAMED_QUEUES : begin_purge(p, q)
    \/ \E q \in NAMED_QUEUES : pause_queue(q) \/ resume_queue(q)

logStep ==
    \/ \E c \in Captures : bump(c) \/ (\E f \in Fingerprints : begin_capture(c, f)) \/ \E l \in Logs : create(c, l)
    \/ \E l \in Logs : resolve(l) \/ delete(l)
    \/ \E f \in Fingerprints : resolve_all_by_fingerprint(f)
    \/ \E t \in Tails : stream_logs(t)

healthStep ==
    \/ \E p \in Probes :
        \/ \E ms \in Latencies : probe_database(p, ms) \/ probe_smtp(p, ms)
        \/ \E k \in Keys : probe_celery(p, k)
        \/ push_latency(p) \/ hset(p) \/ begin_invalidate(p) \/ invalidate_health_cache(p)
    \/ \E k \in Keys : expire_cache(k)
    \/ things_change

Next == jobStep \/ logStep \/ healthStep

Spec == Init /\ [][Next]_monitorVars

-----------------------------------------------------------------------------
(* Properties *)

\* The jobs that failed after j and were put on the list.
newer(j) == {k \in Jobs : run[k].status \in {"listed", "trimmed", "failed"} /\ score[k] > score[j]}

(* Unless so many jobs failed after it, in any queue, that the list has no *)
(* room for it or the console reads no further, or a page of its own       *)
(* queue, a failed job that is still tracked is shown with its error, as   *)
(* long as nobody purges its queue; and the card of the queue counts its   *)
(* failures, whatever is purged from other queues at the same time.        *)
FailuresAreKept ==
    \A q \in NAMED_QUEUES \ purged_queues :
        /\ \A j \in Jobs : run[j].status = "failed" /\ run[j].queue = q /\ job[j] # Absent
            => /\ job[j].failed
               /\ \/ Cardinality(newer(j)) >= KEPT
                  \/ Cardinality(newer(j) \cap failed_jobs) >= PAGE * OVERREAD
                  \/ Cardinality(of_queue(q, newer(j) \cap failed_jobs)) >= PAGE
                  \/ j \in _indexed_jobs(q)
        /\ queue_cards(q).failed = Cardinality({j \in Jobs :
                run[j].status \in {"counted", "listed", "trimmed", "failed"} /\ run[j].queue = q})

(* "Delete all tracked failed jobs for a specific queue": what was purged  *)
(* is gone, also the job whose failure is being written down.              *)
PurgedIsGone == \A j \in Jobs : job[j].status # "remains"

(* A retry runs the task as it was: a job is never given less than the     *)
(* arguments it was first sent with.                                       *)
RetriedAsItWas == \A j \in Jobs : run[j] # Absent => run[j].args = "whole"

(* A poll of the live tail shows everything up to where it moves the       *)
(* cursor, however many entries there are: no entry is passed over.        *)
TailSkipsNothing ==
    [][\A t \in Tails, l \in Logs :
        log[l] # Absent /\ log[l] = log'[l] /\ tail[t].cursor < log[l].created /\ log[l].created <= tail'[t].cursor
            => l \in tail'[t].shown]_monitorVars

(* "Streams new AppLog rows as they arrive": an entry the cursor is past   *)
(* has been shown.                                                         *)
TailShowsEverything ==
    \A t \in Tails, l \in Logs : log[l] # Absent /\ log[l].created <= tail[t].cursor => l \in tail[t].shown

(* "Increment occurrence_count if fingerprint seen recently, else create   *)
(* new": identical errors are one open issue.                              *)
OneOpenIssue == \A f \in Fingerprints : Cardinality(open_rows(f)) <= 1

(* "Last 60 readings": the ring holds the latest readings, in order, and   *)
(* no more than fit and those being pushed.                                *)
RingHoldsTheLatest ==
    /\ IsSuffix(ring, pushed)
    /\ Len(ring) <= _RING + Cardinality({p \in Probes : probe[p].op = "pushed"})

(* At least p per cent of the readings are at most the percentile, and it  *)
(* is the percentile of a reading there was.                               *)
PercentilesHold ==
    ring # <<>> => \A p \in {50, 95, 99} :
        /\ Cardinality({i \in DOMAIN ring : ring[i] <= _pct(ring, p)}) * 100 >= Len(ring) * p
        /\ _pct(ring, p) \in {ring[i] : i \in DOMAIN ring}

(* After the cache was cleared, no answer is from before.                  *)
ClearedIsCleared == \A k \in Keys : cache[k] # -1 => cache[k] >= cleared
=============================================================================
