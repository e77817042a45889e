------------------------ MODULE ReportExportsProofs ------------------------
(***************************************************************************)
(* What holds of ReportExports for every window, queue and number of jobs: *)
(* its types, that no stale file is served, and, of requests one at a time *)
(* and a queue prompt enough for the window, that a key is rendered once   *)
(* at a time, never restarted under a render, and completed with a file.   *)
(***************************************************************************)
EXTENDS ReportExports, TLAPS

USE ConstantsAssumption

(* What the slots name exists; a row that is absent is blank; no render is *)
(* older than the limit at which it is killed.                             *)
Named ==
    /\ \A r \in Requests : request[r].stage \in {"restart", "flushed"} => request[r].job \in Jobs
    /\ \A t \in Tasks : task[t].stage # "none" => task[t].job \in Jobs
    /\ \A j \in Jobs : job[j].status = "absent" => job[j] = Absent
    /\ \A t \in Tasks : /\ task[t].stage = "loaded" => task[t].age = 0
                        /\ task[t].stage = "rendering" => task[t].age <= Limit

TInv == TypeOK /\ Named

LEMMA NoJobIsNoJob == NoFile = -1 /\ NoFile \in FileAges /\ Oldest \in Nat
BY DEF NoFile, FileAges, Oldest

(* Initially every slot is free and every row absent. *)
LEMMA TInit == Init => TInv
BY DEF Init, TInv, TypeOK, Named, Absent, NoRequest, NoTask, NoFile, FileAges, Ages, Oldest,
       Job, Request, Task, Statuses

(* Every step of a request, of a task and of time keeps TInv. *)
LEMMA TNext == TInv /\ [Next]_vars => TInv'
<1> SUFFICES ASSUME TInv, [Next]_vars PROVE TInv'
  OBVIOUS
<1> USE DEF TInv
<1>1. CASE UNCHANGED vars
  BY <1>1 DEF vars, losses, TypeOK, Named
<1>2. ASSUME NEW r \in Requests, get_reusable(r) PROVE TInv'
  BY <1>2 DEF get_reusable, losses, TypeOK, Named, Request
<1>3. ASSUME NEW r \in Requests, get_recyclable(r) PROVE TInv'
  <2>1. CASE request' = [request EXCEPT ![r].stage = "create"]
    BY <1>3, <2>1 DEF get_recyclable, losses, TypeOK, Named, Request
  <2>2. ASSUME ~(request' = [request EXCEPT ![r].stage = "create"]) PROVE TInv'
    <3>1. PICK j \in Jobs :
              request' = [request EXCEPT ![r] = [stage |-> "restart", job |-> j,
                                 status |-> job[j].status, file |-> job[j].file]]
      BY <1>3, <2>2 DEF get_recyclable
    <3>2. [stage |-> "restart", job |-> j, status |-> job[j].status, file |-> job[j].file] \in Request
      BY DEF TypeOK, Request, Job
    <3>3. request' \in [Requests -> Request]
      BY <3>1, <3>2 DEF TypeOK
    <3>4. \A q \in Requests : request'[q].stage \in {"restart", "flushed"} => request'[q].job \in Jobs
      BY <3>1 DEF TypeOK, Named
    <3> QED BY <1>3, <3>3, <3>4 DEF get_recyclable, losses, TypeOK, Named
  <2> QED BY <2>1, <2>2
<1>4. ASSUME NEW r \in Requests, refuse(r), UNCHANGED <<job, losses>> PROVE TInv'
  <2>1. NoRequest \in Request
    BY DEF NoRequest, Request, FileAges
  <2> QED BY <1>4, <2>1 DEF refuse, losses, TypeOK, Named, NoRequest
<1>5. ASSUME NEW r \in Requests, NEW j \in Jobs, flush(r, j), UNCHANGED <<job, losses>> PROVE TInv'
  <2>1. PICK t \in Tasks :
            task' = [task EXCEPT ![t] = [stage |-> "queued", job |-> j,
                                         status |-> "absent", age |-> 0]]
    BY <1>5 DEF flush, send
  <2>2. [stage |-> "queued", job |-> j, status |-> "absent", age |-> 0] \in Task
    BY DEF Task
  <2>3. task' \in [Tasks -> Task]
    BY <2>1, <2>2 DEF TypeOK
  <2>4. request' \in [Requests -> Request]
    BY <1>5 DEF flush, TypeOK, Request
  <2>5. Named'
    BY <1>5, <2>1, <2>2, <2>3, <2>4 DEF flush, Named, TypeOK, Request, Task
  <2> QED BY <1>5, <2>3, <2>4, <2>5 DEF TypeOK, losses
<1>6. ASSUME NEW r \in Requests, restart(r) PROVE TInv'
  <2>1. request[r].job \in Jobs
    BY <1>6 DEF restart, Named
  <2> QED BY <1>4, <1>5, <1>6, <2>1 DEF restart
<1>7. ASSUME NEW r \in Requests, create(r) PROVE TInv'
  BY <1>4, <1>5, <1>7 DEF create
<1>8. ASSUME NEW r \in Requests, commit(r) PROVE TInv'
  <2>1. request[r].job \in Jobs
    BY <1>8 DEF commit, Named
  <2>2. NoRequest \in Request
    BY DEF NoRequest, Request, FileAges
  <2>3. [status |-> "pending", file |-> NoFile, age |-> 0] \in Job
    BY DEF Job, Statuses, FileAges, Ages
  <2>4. restarted(r) \in Job
    BY <2>1 DEF restarted, TypeOK, Job, Statuses, FileAges, Ages
  <2>5. job' \in [Jobs -> Job]
    BY <1>8, <2>1, <2>3, <2>4 DEF commit, TypeOK
  <2>6. job[request[r].job].status # "absent" => restarted(r).status # "absent"
    BY DEF restarted
  <2>7. \A j \in Jobs : job'[j].status = "absent" => job'[j] = Absent
    BY <1>8, <2>1, <2>6 DEF commit, Named, TypeOK
  <2> QED BY <1>8, <2>2, <2>5, <2>7 DEF commit, losses, TypeOK, Named, NoRequest
<1>9. ASSUME NEW r \in Requests, request_dies(r) PROVE TInv'
  <2>1. NoRequest \in Request
    BY DEF NoRequest, Request, FileAges
  <2> QED BY <1>9, <2>1 DEF request_dies, TypeOK, Named, NoRequest
<1>10. ASSUME NEW t \in Tasks, ends(t), UNCHANGED request,
              deaths' \in 0..MaxDeaths, lost' = lost,
              \/ UNCHANGED job
              \/ \E j \in Jobs : /\ job' = [job EXCEPT ![j] = job'[j]] /\ job'[j] \in Job
                                 /\ job'[j].status # "absent"
       PROVE  TInv'
  <2>1. NoTask \in Task
    BY DEF NoTask, Task
  <2>2. task' \in [Tasks -> Task]
    BY <1>10, <2>1 DEF ends, TypeOK
  <2>3. \A u \in Tasks : task'[u].stage # "none" => task'[u] = task[u]
    BY <1>10 DEF ends, NoTask, TypeOK
  <2>4. job' \in [Jobs -> Job] /\ \A j \in Jobs : job'[j].status = "absent" => job'[j] = Absent
    BY <1>10 DEF TypeOK, Named
  <2> QED BY <1>10, <2>2, <2>3, <2>4 DEF TypeOK, Named
<1>11. ASSUME NEW t \in Tasks, load_job(t) PROVE TInv'
  <2>1. CASE ends(t)
    BY <1>10, <1>11, <2>1 DEF load_job, losses, TypeOK
  <2>2. CASE task' = [task EXCEPT ![t] = [stage |-> "loaded", job |-> task[t].job,
                                         status |-> job[task[t].job].status, age |-> 0]]
    <3>1. task[t].job \in Jobs
      BY <1>11 DEF load_job, Named
    <3> QED BY <1>11, <2>2, <3>1 DEF load_job, losses, TypeOK, Named, Task, Job
  <2> QED BY <1>11, <2>1, <2>2 DEF load_job
<1>12. ASSUME NEW t \in Tasks, mark_processing(t) PROVE TInv'
  <2>1. task[t].job \in Jobs
    BY <1>12 DEF mark_processing, Named
  <2>2. CASE ends(t) /\ UNCHANGED job
    BY <1>10, <1>12, <2>2 DEF mark_processing, losses, TypeOK
  <2>3. ASSUME task' = [task EXCEPT ![t] = [stage |-> "rendering", job |-> task[t].job,
                                             status |-> "processing", age |-> task[t].age]],
               \/ UNCHANGED job
               \/ set_status(task[t].job, "processing") /\ task[t].status # "processing"
        PROVE  TInv'
    <3>1. [stage |-> "rendering", job |-> task[t].job, status |-> "processing", age |-> task[t].age]
              \in Task
      BY <2>1 DEF TypeOK, Task, Statuses
    <3>2. task' \in [Tasks -> Task]
      BY <2>3, <3>1 DEF TypeOK
    <3>3. \A u \in Tasks : /\ task'[u].stage # "none" => task'[u].job \in Jobs
                           /\ task'[u].stage = "loaded" => task'[u].age = 0
                           /\ task'[u].stage = "rendering" => task'[u].age <= Limit
      BY <1>12, <2>1, <2>3 DEF mark_processing, TypeOK, Named
    <3>4. /\ job' \in [Jobs -> Job]
          /\ \A j \in Jobs : job'[j].status = "absent" => job'[j] = Absent
      <4>1. CASE UNCHANGED job
        BY <4>1 DEF TypeOK, Named
      <4>2. CASE set_status(task[t].job, "processing")
        <5>1. [job[task[t].job] EXCEPT !.status = "processing"] \in Job
          BY <2>1 DEF TypeOK, Job, Statuses
        <5>2. job' = [job EXCEPT ![task[t].job] = [job[task[t].job] EXCEPT !.status = "processing"]]
          BY <2>1, <4>2 DEF set_status, TypeOK
        <5> QED BY <2>1, <5>1, <5>2 DEF TypeOK, Named, Job
      <4> QED BY <2>3, <4>1, <4>2
    <3> QED BY <1>12, <3>2, <3>3, <3>4 DEF mark_processing, losses, TypeOK, Named
  <2> QED BY <1>12, <2>2, <2>3 DEF mark_processing
<1>13. ASSUME NEW t \in Tasks, mark_failed(t) PROVE TInv'
  <2>1. task[t].job \in Jobs
    BY <1>13 DEF mark_failed, Named
  <2>2. job' = [job EXCEPT ![task[t].job] = [job[task[t].job] EXCEPT !.status = "failed"]]
    BY <1>13, <2>1 DEF mark_failed, set_status, TypeOK
  <2>3. [job[task[t].job] EXCEPT !.status = "failed"] \in Job
    BY <2>1 DEF TypeOK, Job, Statuses
  <2>4. [job[task[t].job] EXCEPT !.status = "failed"].status = "failed"
    BY <2>1 DEF TypeOK, Job
  <2>5. /\ job' = [job EXCEPT ![task[t].job] = job'[task[t].job]]
        /\ job'[task[t].job] \in Job /\ job'[task[t].job].status # "absent"
    BY <2>1, <2>2, <2>3, <2>4 DEF TypeOK
  <2>6. deaths' \in 0..MaxDeaths /\ lost' = lost
    BY <1>13 DEF mark_failed, losses, TypeOK
  <2> QED BY <1>10, <1>13, <2>1, <2>5, <2>6 DEF mark_failed
<1>14. ASSUME NEW t \in Tasks, worker_dies(t) PROVE TInv'
  BY <1>10, <1>14 DEF worker_dies, TypeOK
<1>15. ASSUME NEW t \in Tasks, mark_completed(t) PROVE TInv'
  <2>1. task[t].job \in Jobs
    BY <1>15 DEF mark_completed, Named
  <2>2. completed(t) \in Job /\ completed(t).status = "completed"
    BY <1>15, <2>1 DEF completed, rendered, mark_completed, TypeOK, Named, Job, Task, Statuses,
                       FileAges, Oldest
  <2>3. \/ UNCHANGED job
        \/ /\ job' = [job EXCEPT ![task[t].job] = job'[task[t].job]]
           /\ job'[task[t].job] \in Job /\ job'[task[t].job].status # "absent"
    BY <1>15, <2>1, <2>2 DEF mark_completed, TypeOK
  <2>4. deaths' \in 0..MaxDeaths /\ lost' = lost
    BY <1>15 DEF mark_completed, losses, TypeOK
  <2> QED BY <1>10, <1>15, <2>1, <2>3, <2>4 DEF mark_completed
<1>16. ASSUME tick PROVE TInv'
  <2>1. job' \in [Jobs -> Job]
    <3>1. \A j \in Jobs : job'[j] \in Job
      BY <1>16 DEF tick, older, TypeOK, Job, Ages, FileAges, Oldest, NoFile
    <3> QED BY <1>16, <3>1 DEF tick
  <2>2. task' \in [Tasks -> Task]
    BY <1>16 DEF tick, TypeOK, Task
  <2>3. \A j \in Jobs : job'[j].status = "absent" => job'[j] = Absent
    BY <1>16 DEF tick, TypeOK, Named, Job
  <2>4. \A t \in Tasks : /\ task'[t].stage # "none" => task'[t].job \in Jobs
                         /\ task'[t].stage = "loaded" => task'[t].age = 0
                         /\ task'[t].stage = "rendering" => task'[t].age <= Limit
    BY <1>16 DEF tick, TypeOK, Named, Task
  <2> QED BY <1>16, <2>1, <2>2, <2>3, <2>4 DEF tick, losses, TypeOK, Named
<1> QED BY <1>1, <1>2, <1>3, <1>6, <1>7, <1>8, <1>9, <1>11, <1>12, <1>13, <1>14,
      <1>15, <1>16 DEF Next, Serve, Work

(* Every variable stays in its type, whatever the constants. *)
THEOREM TypeCorrect == Spec => []TypeOK
<1>1. Init => TInv
  BY TInit
<1>2. TInv /\ [Next]_vars => TInv'
  BY TNext
<1>3. TInv => TypeOK
  BY DEF TInv
<1> QED BY <1>1, <1>2, <1>3, PTL DEF Spec

-----------------------------------------------------------------------------
(* A file is at most one render older than its row, whose age a restart    *)
(* begins anew: the file a request found none of is at most one render     *)
(* old, for no time passes under a request.                                *)
FileYoung ==
    /\ \A j \in Jobs : job[j].file <= job[j].age + Limit
    /\ \A r \in Requests :
          request[r].stage \in {"restart", "flushed"} /\ request[r].file = NoFile
              => job[request[r].job].file <= Limit

FInv == TInv /\ FileYoung

(* Every step keeps the two bounds. *)
LEMMA YoungNext == FInv /\ [Next]_vars => FileYoung'
<1> SUFFICES ASSUME TInv, FileYoung, [Next]_vars PROVE FileYoung'
  BY DEF FInv
<1> USE DEF NoFile
<1>t. /\ job \in [Jobs -> Job] /\ request \in [Requests -> Request] /\ task \in [Tasks -> Task]
      /\ Named
  BY DEF TInv, TypeOK
<1>1. CASE UNCHANGED vars
  BY <1>1 DEF vars, FileYoung
<1>2. ASSUME NEW r \in Requests, get_reusable(r) PROVE FileYoung'
  BY <1>t, <1>2 DEF get_reusable, FileYoung
<1>3. ASSUME NEW r \in Requests, get_recyclable(r) PROVE FileYoung'
  <2>1. CASE request' = [request EXCEPT ![r].stage = "create"]
    BY <1>t, <1>3, <2>1 DEF get_recyclable, FileYoung
  <2>2. ASSUME ~(request' = [request EXCEPT ![r].stage = "create"]) PROVE FileYoung'
    <3>1. PICK j \in Jobs :
              request' = [request EXCEPT ![r] = [stage |-> "restart", job |-> j,
                                 status |-> job[j].status, file |-> job[j].file]]
      BY <1>3, <2>2 DEF get_recyclable
    <3>2. request'[r].file = job[j].file /\ request'[r].job = j
      BY <1>t, <3>1
    <3> QED BY <1>t, <1>3, <3>1, <3>2 DEF get_recyclable, FileYoung
  <2> QED BY <2>1, <2>2
<1>4. ASSUME NEW r \in Requests, request' = [request EXCEPT ![r] = NoRequest], UNCHANGED job
      PROVE  FileYoung'
  BY <1>t, <1>4 DEF NoRequest, FileYoung
<1>5. ASSUME NEW r \in Requests, NEW j \in Jobs, flush(r, j), UNCHANGED job,
             request[r].file = NoFile => job[j].file <= Limit
      PROVE  FileYoung'
  <2>1. \A q \in Requests \ {r} : request'[q] = request[q]
    BY <1>t, <1>5 DEF flush
  <2>2. request'[r].job = j /\ request'[r].file = request[r].file
    BY <1>t, <1>5 DEF flush, Request
  <2> QED BY <1>5, <2>1, <2>2 DEF FileYoung
<1>6. ASSUME NEW r \in Requests, restart(r) PROVE FileYoung'
  <2>1. CASE refuse(r)
    BY <1>4, <1>6, <2>1 DEF restart, refuse
  <2>2. CASE flush(r, request[r].job)
    BY <1>t, <1>5, <1>6, <2>2 DEF restart, Named, FileYoung
  <2> QED BY <1>6, <2>1, <2>2 DEF restart
<1>7. ASSUME NEW r \in Requests, create(r) PROVE FileYoung'
  <2>1. CASE refuse(r)
    BY <1>4, <1>7, <2>1 DEF create, refuse
  <2>2. ASSUME NEW j \in Jobs, unused(j), flush(r, j) PROVE FileYoung'
    <3>1. job[j].file <= Limit
      BY <1>t, <2>2 DEF unused, Named, Absent
    <3> QED BY <1>5, <1>7, <2>2, <3>1 DEF create
  <2> QED BY <1>7, <2>1, <2>2 DEF create
<1>8. ASSUME NEW r \in Requests, commit(r) PROVE FileYoung'
  <2>1. request[r].job \in Jobs
    BY <1>t, <1>8 DEF commit, Named
  <2> DEFINE row == job'[request[r].job]
  <2>2. job' = [job EXCEPT ![request[r].job] = row]
    BY <1>t, <1>8, <2>1 DEF commit
  <2>3. row.age = 0 /\ row.file <= Limit
    <3>1. CASE job[request[r].job].status = "absent"
      BY <1>t, <1>8, <2>1, <3>1 DEF commit
    <3>2. CASE job[request[r].job].status # "absent"
      BY <1>t, <1>8, <2>1, <3>2 DEF commit, restarted, FileYoung
    <3> QED BY <3>1, <3>2
  <2>4. \A q \in Requests : request'[q] = IF q = r THEN NoRequest ELSE request[q]
    BY <1>t, <1>8 DEF commit
  <2> HIDE DEF row
  <2> QED BY <1>t, <2>1, <2>2, <2>3, <2>4 DEF FileYoung, NoRequest
<1>9. ASSUME NEW r \in Requests, request_dies(r) PROVE FileYoung'
  BY <1>4, <1>9 DEF request_dies
<1>10. ASSUME NEW j \in Jobs, UNCHANGED request, job' = [job EXCEPT ![j] = job'[j]],
              job'[j].age = job[j].age,
              \/ job'[j].file \in Int /\ job'[j].file <= Limit
              \/ job'[j].file = job[j].file
       PROVE  FileYoung'
  <2>1. /\ job[j].age \in Nat /\ job[j].file \in Int
        /\ job'[j].file = job[j].file => job'[j].file \in Int
    BY <1>t DEF Job, Ages, FileAges, Oldest
  <2>2. \A k \in Jobs \ {j} : job'[k] = job[k]
    BY <1>t, <1>10
  <2>3. job'[j].file <= job'[j].age + Limit
    <3>1. CASE job'[j].file = job[j].file
      BY <1>10, <3>1 DEF FileYoung
    <3>2. CASE job'[j].file # job[j].file
      <4>1. job'[j].file <= Limit /\ job'[j].file \in Int
        BY <1>10, <3>2
      <4> QED BY <1>10, <2>1, <4>1
    <3> QED BY <3>1, <3>2
  <2> QED BY <1>t, <1>10, <2>1, <2>2, <2>3 DEF FileYoung, Named
<1>11. ASSUME NEW t \in Tasks, Work(t) \/ worker_dies(t) PROVE FileYoung'
  <2>1. CASE UNCHANGED <<job, request>>
    BY <2>1 DEF FileYoung
  <2>2. CASE mark_processing(t) /\ ~UNCHANGED job
    <3>1. task[t].job \in Jobs /\ job' = [job EXCEPT ![task[t].job].status = "processing"]
      BY <1>t, <2>2 DEF mark_processing, set_status, Named
    <3>2. /\ job'[task[t].job].age = job[task[t].job].age
          /\ job'[task[t].job].file = job[task[t].job].file
          /\ job' = [job EXCEPT ![task[t].job] = job'[task[t].job]]
      BY <1>t, <3>1 DEF Job
    <3> QED BY <1>10, <2>2, <3>1, <3>2 DEF mark_processing
  <2>3. CASE mark_failed(t)
    <3>1. task[t].job \in Jobs /\ job' = [job EXCEPT ![task[t].job].status = "failed"]
      BY <1>t, <2>3 DEF mark_failed, set_status, Named
    <3>2. /\ job'[task[t].job].age = job[task[t].job].age
          /\ job'[task[t].job].file = job[task[t].job].file
          /\ job' = [job EXCEPT ![task[t].job] = job'[task[t].job]]
      BY <1>t, <3>1 DEF Job
    <3> QED BY <1>10, <2>3, <3>1, <3>2 DEF mark_failed
  <2>4. CASE mark_completed(t) /\ ~UNCHANGED job
    <3>1. task[t].job \in Jobs /\ job' = [job EXCEPT ![task[t].job] = completed(t)]
      BY <1>t, <2>4 DEF mark_completed, Named
    <3>2. /\ job'[task[t].job].age = job[task[t].job].age
          /\ job'[task[t].job].file \in Int /\ job'[task[t].job].file <= Limit
          /\ job' = [job EXCEPT ![task[t].job] = job'[task[t].job]]
      <4>1. task[t].age \in Int /\ task[t].age <= Limit
        BY <1>t, <2>4 DEF mark_completed, Named, Task
      <4>2. completed(t).file = task[t].age /\ completed(t).age = job[task[t].job].age
        BY DEF completed, rendered
      <4>3. job'[task[t].job] = completed(t)
        BY <1>t, <3>1
      <4> QED BY <3>1, <4>1, <4>2, <4>3
    <3> QED BY <1>10, <2>4, <3>1, <3>2 DEF mark_completed
  <2>5. CASE load_job(t) \/ worker_dies(t)
    BY <2>1, <2>5 DEF load_job, worker_dies
  <2>6. UNCHANGED request
    BY <1>11 DEF Work, load_job, mark_processing, mark_completed, mark_failed, worker_dies
  <2> QED BY <1>11, <2>1, <2>2, <2>3, <2>4, <2>5, <2>6 DEF Work
<1>12. ASSUME tick PROVE FileYoung'
  <2>1. \A j \in Jobs : job'[j].file <= job'[j].age + Limit
    <3> SUFFICES ASSUME NEW j \in Jobs PROVE job'[j].file <= job'[j].age + Limit
      OBVIOUS
    <3>1. job[j].file \in FileAges /\ job[j].age \in Ages /\ job[j].file <= job[j].age + Limit
      BY <1>t DEF Job, FileYoung
    <3>2. CASE job[j].status = "absent"
      BY <1>12, <3>1, <3>2 DEF tick
    <3>3. CASE job[j].status # "absent"
      BY <1>12, <3>1, <3>3 DEF tick, older, FileAges, Ages, Oldest
    <3> QED BY <3>2, <3>3
  <2> QED BY <1>12, <2>1 DEF tick, FileYoung
<1> QED BY <1>1, <1>2, <1>3, <1>6, <1>7, <1>8, <1>9, <1>11, <1>12 DEF Next, Serve

(* A completed job a request may be answered with tells how things were in *)
(* the last window, give or take a render, whatever task wrote it.         *)
THEOREM NoStaleAnswer == Spec => []AnswersAreCurrent
<1>1. Init => FInv
  <2>1. Init => FileYoung
    BY DEF Init, FileYoung, Absent, NoRequest, NoFile
  <2> QED BY <2>1, TInit DEF FInv
<1>2. FInv /\ [Next]_vars => FInv'
  BY TNext, YoungNext DEF FInv
<1>3. FInv => AnswersAreCurrent
  <2> SUFFICES ASSUME FInv, NEW j \in Jobs, job[j].age <= Window
               PROVE  job[j].file <= Window + Limit
    BY DEF AnswersAreCurrent
  <2>1. job[j].file \in Int /\ job[j].age \in Int
    BY DEF FInv, TInv, TypeOK, Job, FileAges, Ages, Oldest, NoFile
  <2> QED BY <2>1 DEF FInv, FileYoung
<1> QED BY <1>1, <1>2, <1>3, PTL DEF Spec

-----------------------------------------------------------------------------
(* Requests one at a time, none of which dies, and a window no shorter     *)
(* than the queue and the longest render together.                         *)
OneClickAtATime == MaxLost = 0 /\ \A r, s \in Requests : r = s
PromptQueue == MaxWait + Limit <= Window

active(t) == task[t].stage # "none"

OneTaskAtATime == \A t, u \in Tasks : active(t) /\ active(u) => t = u

(* While a task is under way the only request is the one that has sent it. *)
SentByItsRequest ==
    \A t \in Tasks, r \in Requests : active(t) =>
        /\ request[r].stage \in {"idle", "flushed"}
        /\ request[r].stage = "flushed" =>
             /\ task[t].stage \in {"queued", "loaded"}
             /\ request[r].job = task[t].job

(* The row of a task whose request is over is in flight and young: at most *)
(* as old as the message, or as the longest wait and the render so far.    *)
InTime ==
    \A t \in Tasks : active(t) =>
        /\ task[t].stage = "queued" => task[t].age <= MaxWait
        /\ (\A r \in Requests : request[r].stage = "idle") =>
             /\ job[task[t].job].status \in {"pending", "processing"}
             /\ task[t].stage = "queued" => job[task[t].job].age <= task[t].age
             /\ task[t].stage = "loaded" => job[task[t].job].age <= MaxWait
             /\ task[t].stage = "rendering" => job[task[t].job].age <= MaxWait + task[t].age

(* A restart writes over the row it has loaded. *)
AsLoaded ==
    \A r \in Requests :
        request[r].stage \in {"restart", "flushed"} /\ job[request[r].job].status # "absent" =>
            /\ request[r].status = job[request[r].job].status
            /\ request[r].file = job[request[r].job].file

Serial == OneTaskAtATime /\ SentByItsRequest /\ InTime /\ AsLoaded /\ CompletedHasFile

SInv == TInv /\ Serial

LEMMA InitSerial == Init => Serial
BY DEF Init, Serial, OneTaskAtATime, SentByItsRequest, InTime, AsLoaded, CompletedHasFile, active,
       Absent, NoRequest, NoTask

(* A task under way whose request is over keeps its job the answer to the  *)
(* next one: it is live and recent.                                        *)
LEMMA UnderWayIsAnswer ==
    ASSUME SInv, PromptQueue, NEW t \in Tasks, active(t),
           \A r \in Requests : request[r].stage = "idle"
    PROVE  task[t].job \in Jobs /\ live(task[t].job) /\ recent(task[t].job)
<1>1. /\ task[t].job \in Jobs /\ job[task[t].job] \in Job /\ task[t] \in Task
      /\ task[t].stage \in {"loaded", "rendering"} => task[t].age <= Limit
  BY DEF SInv, TInv, TypeOK, Named, active
<1>2. /\ job[task[t].job].age \in Nat /\ task[t].age \in Nat
      /\ task[t].stage \in {"queued", "loaded", "rendering"}
  BY <1>1 DEF Job, Ages, Task, active
<1>3. job[task[t].job].age <= MaxWait + Limit
  BY <1>1, <1>2 DEF SInv, Serial, InTime
<1> QED BY <1>1, <1>2, <1>3 DEF SInv, Serial, InTime, live, recent, PromptQueue

(* A step that touches neither jobs nor tasks and leaves a request short   *)
(* of a restart keeps Serial if no task is under way.                      *)
LEMMA NoTaskUnderWay ==
    ASSUME SInv, OneClickAtATime, NEW r \in Requests, UNCHANGED <<job, task>>,
           ~\E t \in Tasks : active(t),
           request' \in [Requests -> Request],
           request'[r].stage \in {"restart", "flushed"} =>
              /\ request'[r].status = job[request'[r].job].status
              /\ request'[r].file = job[request'[r].job].file
    PROVE  Serial'
BY DEF SInv, Serial, OneClickAtATime, OneTaskAtATime, SentByItsRequest, InTime, AsLoaded,
       CompletedHasFile, active

(* A step of a task that ends it, on a row that is then not completed      *)
(* without a file.                                                         *)
LEMMA TaskOver ==
    ASSUME SInv, NEW t \in Tasks, active(t), ends(t), UNCHANGED request,
           CompletedHasFile',
           UNCHANGED job \/ \A r \in Requests : request[r].stage # "flushed"
    PROVE  Serial'
<1>1. task \in [Tasks -> Task]
  BY DEF SInv, TInv, TypeOK
<1>2. \A u \in Tasks : task'[u].stage = "none"
  BY <1>1 DEF SInv, Serial, OneTaskAtATime, ends, NoTask, active
<1>3. AsLoaded'
  BY DEF SInv, Serial, SentByItsRequest, AsLoaded, active
<1> QED BY <1>2, <1>3 DEF Serial, OneTaskAtATime, SentByItsRequest, InTime, active

(* Every step keeps Serial.                                                *)
LEMMA SerialNext ==
    ASSUME OneClickAtATime, PromptQueue, SInv, [Next]_vars
    PROVE  Serial'
<1>t. /\ job \in [Jobs -> Job] /\ request \in [Requests -> Request] /\ task \in [Tasks -> Task]
      /\ Named /\ lost \in 0..MaxLost
  BY DEF SInv, TInv, TypeOK
<1>t2. /\ request' \in [Requests -> Request] /\ task' \in [Tasks -> Task]
       /\ job' \in [Jobs -> Job]
  BY TNext DEF SInv, TInv, TypeOK
<1>1. CASE UNCHANGED vars
  BY <1>1 DEF vars, SInv, Serial, OneTaskAtATime, SentByItsRequest, InTime, AsLoaded,
              CompletedHasFile, active
<1>2. ASSUME NEW r \in Requests, get_reusable(r) PROVE Serial'
  <2>1. \A q \in Requests : request[q].stage = "idle"
    BY <1>2 DEF get_reusable, OneClickAtATime
  <2>2. ~\E t \in Tasks : active(t)
    BY <1>2, <2>1, UnderWayIsAnswer DEF get_reusable
  <2>3. request'[r].stage = "looked"
    BY <1>t, <1>2 DEF get_reusable
  <2> QED BY <1>t2, <1>2, <2>2, <2>3, NoTaskUnderWay DEF get_reusable
<1>3. ASSUME NEW r \in Requests, get_recyclable(r) PROVE Serial'
  <2>1. ~\E t \in Tasks : active(t)
    BY <1>3 DEF get_recyclable, SInv, Serial, SentByItsRequest
  <2>2. CASE request' = [request EXCEPT ![r].stage = "create"]
    <3>1. request'[r].stage = "create"
      BY <1>t, <2>2
    <3> QED BY <1>t2, <1>3, <2>1, <3>1, NoTaskUnderWay DEF get_recyclable
  <2>3. ASSUME ~(request' = [request EXCEPT ![r].stage = "create"]) PROVE Serial'
    <3>1. PICK j \in Jobs :
              request' = [request EXCEPT ![r] = [stage |-> "restart", job |-> j,
                                 status |-> job[j].status, file |-> job[j].file]]
      BY <1>3, <2>3 DEF get_recyclable
    <3>2. /\ request'[r].job = j /\ request'[r].status = job[j].status
          /\ request'[r].file = job[j].file
      BY <1>t, <3>1
    <3> QED BY <1>t2, <1>3, <2>1, <3>2, NoTaskUnderWay DEF get_recyclable
  <2> QED BY <2>2, <2>3
<1>4. ASSUME NEW r \in Requests, request[r].stage \in {"restart", "create"},
             refuse(r), UNCHANGED job
      PROVE  Serial'
  <2>1. ~\E t \in Tasks : active(t)
    BY <1>4 DEF SInv, Serial, SentByItsRequest
  <2>2. request'[r].stage = "idle"
    BY <1>t, <1>4 DEF refuse, NoRequest
  <2> QED BY <1>t2, <1>4, <2>1, <2>2, NoTaskUnderWay DEF refuse
<1>5. ASSUME NEW r \in Requests, NEW j \in Jobs, request[r].stage \in {"restart", "create"},
             flush(r, j), UNCHANGED job,
             job[j].status = "absent" \/ (request[r].stage = "restart" /\ request[r].job = j)
      PROVE  Serial'
  <2>1. ~\E t \in Tasks : active(t)
    BY <1>5 DEF SInv, Serial, SentByItsRequest
  <2>2. PICK t \in Tasks :
            task' = [task EXCEPT ![t] = [stage |-> "queued", job |-> j,
                                         status |-> "absent", age |-> 0]]
    BY <1>5 DEF flush, send
  <2>3. /\ \A u \in Tasks \ {t} : task'[u].stage = "none"
        /\ task'[t].stage = "queued" /\ task'[t].job = j /\ task'[t].age = 0
    BY <1>t, <2>1, <2>2 DEF active
  <2>4. /\ request'[r].stage = "flushed" /\ request'[r].job = j
        /\ request'[r].status = request[r].status /\ request'[r].file = request[r].file
    BY <1>t, <1>5 DEF flush, Request
  <2>5. \A q \in Requests : q = r
    BY DEF OneClickAtATime
  <2>6. AsLoaded'
    BY <1>5, <2>4, <2>5 DEF AsLoaded, SInv, Serial
  <2>7. CompletedHasFile'
    BY <1>5 DEF CompletedHasFile, SInv, Serial
  <2> QED BY <2>3, <2>4, <2>5, <2>6, <2>7
          DEF Serial, OneTaskAtATime, SentByItsRequest, InTime, active
<1>6. ASSUME NEW r \in Requests, restart(r) PROVE Serial'
  <2>1. request[r].job \in Jobs
    BY <1>t, <1>6 DEF restart, Named
  <2> QED BY <1>4, <1>5, <1>6, <2>1 DEF restart
<1>7. ASSUME NEW r \in Requests, create(r) PROVE Serial'
  BY <1>4, <1>5, <1>7 DEF create, unused
<1>8. ASSUME NEW r \in Requests, commit(r) PROVE Serial'
  <2> DEFINE j == request[r].job
  <2>1. j \in Jobs
    BY <1>t, <1>8 DEF commit, Named
  <2>2. job'[j].status = "pending" /\ job'[j].file = NoFile /\ job'[j].age = 0
    BY <1>t, <1>8, <2>1 DEF commit, restarted, SInv, Serial, AsLoaded
  <2>3. \A k \in Jobs \ {j} : job'[k] = job[k]
    BY <1>t, <1>8 DEF commit
  <2>4. \A q \in Requests : q = r
    BY DEF OneClickAtATime
  <2>5. request'[r].stage = "idle"
    BY <1>t, <1>8 DEF commit, NoRequest
  <2>6. \A t \in Tasks : active(t) => /\ task[t].job = j /\ task[t].age \in Nat
                                      /\ task[t].stage \in {"queued", "loaded"}
    BY <1>t, <1>8 DEF commit, SInv, Serial, SentByItsRequest, Task
  <2>7. UNCHANGED task
    BY <1>8 DEF commit
  <2>8. CompletedHasFile'
    BY <2>2, <2>3 DEF CompletedHasFile, SInv, Serial
  <2> HIDE DEF j
  <2>9. InTime'
    BY <2>2, <2>6, <2>7 DEF InTime, SInv, Serial, active
  <2> QED BY <2>4, <2>5, <2>7, <2>8, <2>9
          DEF Serial, SInv, OneTaskAtATime, SentByItsRequest, AsLoaded, active
<1>9. ASSUME NEW r \in Requests, request_dies(r) PROVE Serial'
  BY <1>t, <1>9 DEF request_dies, OneClickAtATime
<1>10. ASSUME NEW t \in Tasks, load_job(t) PROVE Serial'
  <2> DEFINE j == task[t].job
  <2>1. active(t) /\ UNCHANGED <<job, request>>
    BY <1>10 DEF load_job, active
  <2>2. CompletedHasFile' /\ AsLoaded'
    BY <2>1 DEF CompletedHasFile, AsLoaded, SInv, Serial
  <2>3. CASE ends(t)
    BY <2>1, <2>2, <2>3, TaskOver
  <2>4. ASSUME task' = [task EXCEPT ![t] = [stage |-> "loaded", job |-> j,
                                           status |-> job[j].status, age |-> 0]]
        PROVE  Serial'
    <3>1. /\ task'[t].stage = "loaded" /\ task'[t].job = task[t].job
          /\ \A u \in Tasks \ {t} : task'[u] = task[u]
      BY <1>t, <2>4
    <3>2. \A u \in Tasks \ {t} : task[u].stage = "none"
      BY <2>1 DEF SInv, Serial, OneTaskAtATime, active
    <3>3. /\ task[t].stage = "queued" /\ task[t].age <= MaxWait /\ task[t].age \in Nat
          /\ task[t].job \in Jobs
      BY <1>t, <1>10, <2>1 DEF load_job, SInv, Serial, InTime, Task, Named, active
    <3>4. job[task[t].job].age \in Nat
      BY <1>t, <3>3 DEF Job, Ages
    <3>5. InTime'
      BY <2>1, <3>1, <3>2, <3>3, <3>4 DEF InTime, SInv, Serial, active
    <3> QED BY <2>1, <2>2, <3>1, <3>2, <3>5
            DEF Serial, SInv, OneTaskAtATime, SentByItsRequest, active
  <2> QED BY <1>10, <2>3, <2>4 DEF load_job
<1>11. ASSUME NEW t \in Tasks, active(t), ~locked PROVE \A r \in Requests : request[r].stage = "idle"
  BY <1>11 DEF locked, SInv, Serial, SentByItsRequest
<1>12. ASSUME NEW t \in Tasks, mark_processing(t) PROVE Serial'
  <2> DEFINE j == task[t].job
  <2>1. active(t) /\ (\A r \in Requests : request[r].stage = "idle") /\ UNCHANGED request
    BY <1>11, <1>12 DEF mark_processing, active
  <2>2. /\ j \in Jobs /\ job[j].status \in {"pending", "processing"}
        /\ job[j].age <= MaxWait /\ job[j].age \in Nat /\ task[t].age = 0
    BY <1>t, <1>12, <2>1 DEF mark_processing, SInv, Serial, InTime, Named, Job, Ages, active
  <2>3. /\ task' = [task EXCEPT ![t] = [stage |-> "rendering", job |-> j,
                                        status |-> "processing", age |-> task[t].age]]
        /\ UNCHANGED job \/ set_status(j, "processing")
    BY <1>12, <2>2 DEF mark_processing, cannot_revive
  <2>4. /\ job'[j].status \in {"pending", "processing"} /\ job'[j].age = job[j].age
        /\ \A k \in Jobs \ {j} : job'[k] = job[k]
    BY <1>t, <2>2, <2>3 DEF set_status, Job
  <2>5. /\ task'[t].stage = "rendering" /\ task'[t].job = j /\ task'[t].age = 0
        /\ \A u \in Tasks \ {t} : task'[u] = task[u]
    BY <1>t, <2>2, <2>3
  <2>6. \A u \in Tasks \ {t} : task[u].stage = "none"
    BY <2>1 DEF SInv, Serial, OneTaskAtATime, active
  <2>7. CompletedHasFile'
    BY <2>4 DEF CompletedHasFile, SInv, Serial
  <2> HIDE DEF j
  <2>8. InTime'
    BY <2>2, <2>4, <2>5, <2>6 DEF InTime, active
  <2> QED BY <2>1, <2>5, <2>6, <2>7, <2>8
          DEF Serial, OneTaskAtATime, SentByItsRequest, AsLoaded, active
<1>13. ASSUME NEW t \in Tasks, mark_completed(t) \/ mark_failed(t) PROVE Serial'
  <2>1. /\ active(t) /\ (\A r \in Requests : request[r].stage = "idle") /\ UNCHANGED request
        /\ ends(t) /\ task[t].job \in Jobs
    BY <1>t, <1>11, <1>13 DEF mark_completed, mark_failed, Named, active
  <2>2. CompletedHasFile'
    <3>1. CASE UNCHANGED job
      BY <3>1 DEF CompletedHasFile, SInv, Serial
    <3>2. CASE job' = [job EXCEPT ![task[t].job] = completed(t)]
      <4>1. completed(t).file # NoFile
        BY <1>t DEF completed, rendered, Task, NoFile
      <4> QED BY <1>t, <3>2, <4>1 DEF CompletedHasFile, SInv, Serial
    <3>3. CASE set_status(task[t].job, "failed")
      BY <1>t, <2>1, <3>3 DEF set_status, CompletedHasFile, SInv, Serial, Job
    <3> QED BY <1>13, <3>1, <3>2, <3>3 DEF mark_completed, mark_failed
  <2> QED BY <2>1, <2>2, TaskOver
<1>14. ASSUME NEW t \in Tasks, worker_dies(t) PROVE Serial'
  <2>1. active(t) /\ ends(t) /\ UNCHANGED <<job, request>>
    BY <1>14 DEF worker_dies, active
  <2>2. CompletedHasFile'
    BY <2>1 DEF CompletedHasFile, SInv, Serial
  <2> QED BY <2>1, <2>2, TaskOver
<1>15. ASSUME tick PROVE Serial'
  <2>1. /\ \A r \in Requests : request[r].stage = "idle"
        /\ UNCHANGED request
    BY <1>15 DEF tick
  <2>2. \A k \in Jobs : /\ job'[k].status = job[k].status
                        /\ job'[k].file = NoFile => job[k].file = NoFile
                        /\ job'[k].age <= job[k].age + 1
    <3> SUFFICES ASSUME NEW k \in Jobs
                 PROVE  /\ job'[k].status = job[k].status
                        /\ job'[k].file = NoFile => job[k].file = NoFile
                        /\ job'[k].age <= job[k].age + 1
      OBVIOUS
    <3>1. job[k].file \in FileAges /\ job[k].age \in Ages
      BY <1>t DEF Job
    <3>2. CASE job[k].status = "absent"
      BY <1>15, <3>1, <3>2 DEF tick, Ages
    <3>3. CASE job[k].status # "absent"
      BY <1>15, <3>1, <3>3 DEF tick, older, FileAges, Ages, Oldest, NoFile
    <3> QED BY <3>2, <3>3
  <2>3. \A t \in Tasks : /\ task'[t].stage = task[t].stage /\ task'[t].job = task[t].job
                         /\ active(t) => task'[t].age = task[t].age + 1
                         /\ task[t].stage = "queued" => task[t].age < MaxWait
                         /\ task[t].stage # "loaded"
    BY <1>15 DEF tick, active
  <2>4. \A t \in Tasks : active(t) => /\ task[t].job \in Jobs /\ task[t].age \in Nat
                                      /\ job[task[t].job].age \in Nat
                                      /\ job'[task[t].job].age \in Nat
    BY <1>t, <1>t2 DEF Named, Task, Job, Ages, active
  <2>5. InTime'
    <3> SUFFICES ASSUME NEW t \in Tasks, active(t)
                 PROVE  /\ task[t].stage = "queued" => task'[t].age <= MaxWait
                        /\ job'[task[t].job].status \in {"pending", "processing"}
                        /\ task[t].stage = "queued" => job'[task[t].job].age <= task'[t].age
                        /\ task[t].stage = "rendering" => job'[task[t].job].age <= MaxWait + task'[t].age
      BY <2>3 DEF InTime, active
    <3> QED BY <2>1, <2>2, <2>3, <2>4 DEF InTime, SInv, Serial
  <2>6. CompletedHasFile'
    BY <2>2 DEF CompletedHasFile, SInv, Serial
  <2> QED BY <2>1, <2>3, <2>5, <2>6
          DEF Serial, SInv, OneTaskAtATime, SentByItsRequest, AsLoaded, active
<1> QED BY <1>1, <1>2, <1>3, <1>6, <1>7, <1>8, <1>9, <1>10, <1>12, <1>13, <1>14, <1>15
        DEF Next, Serve, Work

LEMMA SerialHolds ==
    ASSUME OneClickAtATime, PromptQueue
    PROVE  Spec => []SInv
<1>1. Init => SInv
  BY TInit, InitSerial DEF SInv
<1>2. SInv /\ [Next]_vars => SInv'
  BY TNext, SerialNext DEF SInv
<1> QED BY <1>1, <1>2, PTL DEF Spec

(* Requests one at a time on a prompt queue: no two tasks render the key   *)
(* at once ("instead of enqueueing a second render").                      *)
THEOREM KeyRendersOnce ==
    ASSUME OneClickAtATime, PromptQueue
    PROVE  Spec => []OneRenderAtATime
<1>1. SInv => OneRenderAtATime
  BY DEF SInv, Serial, OneTaskAtATime, OneRenderAtATime, active
<1> QED BY <1>1, SerialHolds, PTL

(* Under the same assumptions "a legitimately slow render is never treated *)
(* as stranded".                                                           *)
THEOREM SlowIsNotStranded ==
    ASSUME OneClickAtATime, PromptQueue
    PROVE  Spec => []NoRenderIsStranded
<1>1. SInv => NoRenderIsStranded
  BY DEF SInv, Serial, SentByItsRequest, NoRenderIsStranded, active
<1> QED BY <1>1, SerialHolds, PTL

(* Under the same assumptions a job shown as completed has its file.       *)
THEOREM CompletedIsThere ==
    ASSUME OneClickAtATime, PromptQueue
    PROVE  Spec => []CompletedHasFile
<1>1. SInv => CompletedHasFile
  BY DEF SInv, Serial
<1> QED BY <1>1, SerialHolds, PTL
=============================================================================
