--------------------------- MODULE ReportExports ---------------------------
(***************************************************************************)
(* Report exports: the jobs one user asks for under one idempotency key,   *)
(* the requests that find, restart or create them, and the Celery tasks    *)
(* that render them.  Jobs of other users or keys do not meet these.       *)
(*                                                                         *)
(* A request looks for a job it can answer with, then for one it must      *)
(* restart, and only then writes; the task is sent before the commit.  A   *)
(* write flushed and not committed holds back the other writes of its row  *)
(* and of its key in the unique index.  A session keeps the columns it has *)
(* loaded, and an UPDATE writes those that differ from what was loaded.    *)
(*                                                                         *)
(* Time passes in ticks: a request, and the start of a task, take less     *)
(* than one.  What a file says is abstracted to how old its data is.       *)
(***************************************************************************)
EXTENDS Integers, FiniteSets

CONSTANTS
    Jobs,      \* job ids: the bound on rows
    Requests,  \* slots for POST /reports/exports served concurrently
    Tasks,     \* slots for generate_report_export messages and their runs
    Window,    \* REUSE_WINDOW
    Limit,     \* task_time_limit: a render that takes longer is killed
    MaxWait,   \* how long a message may wait for a worker
    MaxDeaths, \* bound on workers that die
    MaxLost    \* bound on requests that die

ASSUME ConstantsAssumption ==
    /\ Window \in Nat /\ Limit \in Nat /\ MaxWait \in Nat
    /\ MaxDeaths \in Nat /\ MaxLost \in Nat

VARIABLES
    job,      \* report_export_jobs, committed
    request,  \* the requests, with the columns they have loaded
    task,     \* the messages and the runs they have become
    deaths, lost

losses == <<deaths, lost>>
vars == <<job, request, task, losses>>

NoJob == "no job"
NoFile == -1
Oldest == Window + Limit + 1
Ages == 0..(Window + 1)
FileAges == {NoFile} \cup 0..Oldest

Statuses == {"pending", "processing", "completed", "failed"}
Job == [status : Statuses \cup {"absent"}, file : FileAges, age : Ages]
Request == [stage : {"idle", "looked", "restart", "create", "flushed"},
            job : Jobs \cup {NoJob}, status : Statuses \cup {"absent"}, file : FileAges]
Task == [stage : {"none", "queued", "loaded", "rendering"}, job : Jobs \cup {NoJob},
         status : Statuses \cup {"absent"}, age : Nat]

Absent == [status |-> "absent", file |-> NoFile, age |-> 0]
NoRequest == [stage |-> "idle", job |-> NoJob, status |-> "absent", file |-> NoFile]
NoTask == [stage |-> "none", job |-> NoJob, status |-> "absent", age |-> 0]

TypeOK ==
    /\ job \in [Jobs -> Job]
    /\ request \in [Requests -> Request]
    /\ task \in [Tasks -> Task]
    /\ deaths \in 0..MaxDeaths /\ lost \in 0..MaxLost

Init ==
    /\ job = [j \in Jobs |-> Absent]
    /\ request = [r \in Requests |-> NoRequest]
    /\ task = [t \in Tasks |-> NoTask]
    /\ deaths = 0 /\ lost = 0

-----------------------------------------------------------------------------
(* Helpers *)

\* The rows the partial unique index holds.
live(j) == job[j].status \notin {"absent", "failed"}

\* uq_report_export_idempotency: another job that is not failed has the key.
collides(j) == \E k \in Jobs \ {j} : live(k)

\* MUTANT of recent: a job of any age is served.
recent_forever(j) == TRUE

\* MUTANT of recent: the window ends one moment early.
recent_until(j) == job[j].age < Window

recent(j) == job[j].age <= Window

\* A flushed write that is not committed holds back the others.
locked == \E r \in Requests : request[r].stage = "flushed"

\* Never a row, nor named by a message: a fresh uuid.
unused(j) ==
    /\ job[j].status = "absent"
    /\ \A t \in Tasks : task[t].stage # "none" => task[t].job # j

\* generate_report_export.delay(job_id)
send(j) == \E t \in Tasks :
    /\ task[t].stage = "none"
    /\ task' = [task EXCEPT ![t] = [stage |-> "queued", job |-> j,
                                    status |-> "absent", age |-> 0]]

-----------------------------------------------------------------------------
(* create_or_get_job *)

\* A job of the key within the window, in flight or completed, is the answer, and
\* nothing changes.  Without one the request goes on.
get_reusable(r) ==
    /\ request[r].stage = "idle"
    /\ ~\E j \in Jobs : live(j) /\ recent(j)
    /\ request' = [request EXCEPT ![r].stage = "looked"]
    /\ UNCHANGED <<job, task, losses>>

\* Else a job of the key that is not failed, of any age, is to be restarted.
get_recyclable(r) ==
    /\ request[r].stage = "looked"
    /\ \/ \E j \in Jobs : /\ live(j)
                          /\ request' = [request EXCEPT ![r] = [stage |-> "restart", job |-> j,
                                 status |-> job[j].status, file |-> job[j].file]]
       \/ /\ ~\E j \in Jobs : live(j)
          /\ request' = [request EXCEPT ![r].stage = "create"]
    /\ UNCHANGED <<job, task, losses>>

\* An IntegrityError: the answer is a 500.
refuse(r) ==
    /\ request' = [request EXCEPT ![r] = NoRequest]
    /\ UNCHANGED task

flush(r, j) ==
    /\ request' = [request EXCEPT ![r].stage = "flushed", ![r].job = j]
    /\ send(j)

\* Restarting flushes an UPDATE, which fails if it would bring back a failed row
\* beside another.
restart(r) ==
    LET j == request[r].job IN
    /\ request[r].stage = "restart" /\ ~locked
    /\ IF ~live(j) /\ request[r].status # "pending" /\ collides(j) THEN refuse(r) ELSE flush(r, j)
    /\ UNCHANGED <<job, losses>>

\* The INSERT fails if another request has taken the key meanwhile.
create(r) ==
    /\ request[r].stage = "create" /\ ~locked
    /\ IF collides(NoJob) THEN refuse(r) ELSE \E j \in Jobs : unused(j) /\ flush(r, j)
    /\ UNCHANGED <<job, losses>>

\* MUTANT of restarted: the old status and file stay.
restarted_in_name(r) == [job[request[r].job] EXCEPT !.age = 0]

\* MUTANT of restarted: a status the model does not know.
restarted_misspelt(r) == [status |-> "queued", file |-> NoFile, age |-> 0]

\* MUTANT of restarted: the window is not begun again.
restarted_aged(r) ==
    [status |-> "pending", file |-> NoFile, age |-> job[request[r].job].age]

\* The row after restart: the columns that differ from those loaded.
restarted(r) ==
    [status |-> IF request[r].status = "pending" THEN job[request[r].job].status ELSE "pending",
     file |-> IF request[r].file = NoFile THEN job[request[r].job].file ELSE NoFile,
     age |-> 0]

commit(r) ==
    LET j == request[r].job IN
    /\ request[r].stage = "flushed"
    /\ job' = [job EXCEPT ![j] = IF job[j].status = "absent"
                                 THEN [status |-> "pending", file |-> NoFile, age |-> 0]
                                 ELSE restarted(r)]
    /\ request' = [request EXCEPT ![r] = NoRequest]
    /\ UNCHANGED <<task, losses>>

\* A request dies before its commit; the message it has sent stays sent.
request_dies(r) ==
    /\ request[r].stage # "idle"
    /\ lost < MaxLost
    /\ request' = [request EXCEPT ![r] = NoRequest]
    /\ lost' = lost + 1
    /\ UNCHANGED <<job, task, deaths>>

-----------------------------------------------------------------------------
(* generate_report_export *)

set_status(j, status) == job' = [job EXCEPT ![j].status = status]

ends(t) == task' = [task EXCEPT ![t] = NoTask]

\* A worker takes the message and loads the job; without a row it returns.
load_job(t) ==
    LET j == task[t].job IN
    /\ task[t].stage = "queued"
    /\ IF job[j].status = "absent"
       THEN ends(t)
       ELSE task' = [task EXCEPT ![t] = [stage |-> "loaded", job |-> j,
                                         status |-> job[j].status, age |-> 0]]
    /\ UNCHANGED <<job, request, losses>>

\* Does bringing the row to a status that is not failed violate the index?
cannot_revive(j) == job[j].status = "failed" /\ collides(j)

\* The row is marked and committed before the render.  If the index forbids it
\* the outer handler marks the job failed, which it is.
mark_processing(t) ==
    LET j == task[t].job IN
    /\ task[t].stage = "loaded" /\ ~locked
    /\ IF task[t].status # "processing" /\ cannot_revive(j)
       THEN ends(t) /\ UNCHANGED job
       ELSE /\ task' = [task EXCEPT ![t] = [stage |-> "rendering", job |-> j,
                                            status |-> "processing", age |-> task[t].age]]
            /\ IF task[t].status = "processing" THEN UNCHANGED job ELSE set_status(j, "processing")
    /\ UNCHANGED <<request, losses>>

\* The document is assembled once the row is committed as processing: the file
\* tells how things were then.
rendered(t) == task[t].age

\* MUTANT of completed: the address of the file is not saved.
completed_unsaved(t) == [job[task[t].job] EXCEPT !.status = "completed"]

completed(t) ==
    [status |-> "completed", file |-> rendered(t), age |-> job[task[t].job].age]

\* The file is uploaded under a name of its own and the row points to it.
mark_completed(t) ==
    LET j == task[t].job IN
    /\ task[t].stage = "rendering" /\ ~locked
    /\ IF cannot_revive(j) THEN UNCHANGED job ELSE job' = [job EXCEPT ![j] = completed(t)]
    /\ ends(t)
    /\ UNCHANGED <<request, losses>>

\* Any failure of the render, as long as the bound leaves a row to retry with.
mark_failed(t) ==
    /\ task[t].stage = "rendering" /\ ~locked
    /\ \E k \in Jobs : unused(k)
    /\ set_status(task[t].job, "failed")
    /\ ends(t)
    /\ UNCHANGED <<request, losses>>

\* The worker dies or is killed; the broker does not deliver the message again.
worker_dies(t) ==
    /\ task[t].stage \in {"loaded", "rendering"}
    /\ deaths < MaxDeaths
    /\ ends(t)
    /\ deaths' = deaths + 1
    /\ UNCHANGED <<job, request, lost>>

older(age, most) == IF age < most THEN age + 1 ELSE age

\* Time passes, for all rows, files, messages and renders.
tick ==
    /\ \A r \in Requests : request[r].stage = "idle"
    /\ \A t \in Tasks : /\ task[t].stage # "loaded"
                        /\ task[t].stage = "queued" => task[t].age < MaxWait
                        /\ task[t].stage = "rendering" => task[t].age < Limit
    /\ job' = [j \in Jobs |->
                 IF job[j].status = "absent" THEN job[j]
                 ELSE [status |-> job[j].status,
                       file |-> IF job[j].file = NoFile THEN NoFile ELSE older(job[j].file, Oldest),
                       age |-> older(job[j].age, Window + 1)]]
    /\ task' = [t \in Tasks |->
                 IF task[t].stage = "none" THEN task[t]
                 ELSE [stage |-> task[t].stage, job |-> task[t].job,
                       status |-> task[t].status, age |-> task[t].age + 1]]
    /\ UNCHANGED <<request, losses>>

-----------------------------------------------------------------------------
Serve(r) ==
    get_reusable(r) \/ get_recyclable(r) \/ restart(r) \/ create(r) \/ commit(r)
Work(t) == load_job(t) \/ mark_processing(t) \/ mark_completed(t) \/ mark_failed(t)

Next ==
    \/ \E r \in Requests : Serve(r) \/ request_dies(r)
    \/ \E t \in Tasks : Work(t) \/ worker_dies(t)
    \/ tick

Spec == Init /\ [][Next]_vars

\* The server answers, the worker works off its queue and ends what it renders,
\* and the user asks again.
FairSpec ==
    /\ Spec /\ WF_vars(tick)
    /\ \A r \in Requests : WF_vars(Serve(r))
    /\ \A t \in Tasks : WF_vars(Work(t))

-----------------------------------------------------------------------------
(* Properties *)

(* A job shown as completed has its file: no restart that overlaps a task, *)
(* and no two tasks of one job, leave it completed with nothing to fetch.  *)
CompletedHasFile == \A j \in Jobs : job[j].status = "completed" => job[j].file # NoFile

(* get_reusable: 'It also stops a "completed" job being served as a stale  *)
(* cache'.  A completed job young enough to be the answer has a file of    *)
(* the last window, give or take one render, whatever late task wrote it.  *)
AnswersAreCurrent ==
    \A j \in Jobs :
        job[j].status = "completed" /\ job[j].age <= Window => job[j].file <= Window + Limit

(* get_reusable: the age bound "stops a stranded job blocking exports      *)
(* forever".  To a user who keeps asking, each job ends as completed or    *)
(* failed, although tasks die, find no row or overlap restarts.            *)
EveryExportEnds ==
    \A j \in Jobs :
        job[j].status \in {"pending", "processing"} ~> job[j].status \in {"completed", "failed"}

(* "A retried/duplicated request with the same key returns the existing    *)
(* job instead of enqueueing a second render" (ReportExportJob): a key     *)
(* is rendered by one task at a time.                                      *)
OneRenderAtATime ==
    \A t, u \in Tasks : task[t].stage = "rendering" /\ task[u].stage = "rendering" => t = u

(* REUSE_WINDOW is "long enough that a legitimately slow render is never   *)
(* treated as stranded": no row is restarted under a task that renders it. *)
NoRenderIsStranded ==
    \A r \in Requests, t \in Tasks :
        request[r].stage = "restart" => ~(task[t].stage = "rendering" /\ task[t].job = request[r].job)
=============================================================================
