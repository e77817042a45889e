--------------------------- MODULE ConsoleProofs ---------------------------
(***************************************************************************)
(* Theorems about check-in and about the parts of the console.             *)
(*                                                                         *)
(* CheckIn: any number of tickets, dates and cancellations.                *)
(*                                                                         *)
(* Console: any finite number of jobs, log entries and users, and any      *)
(* number of workers, purges, captures, tails, clients and tabs that       *)
(* overlap.                                                                *)
(***************************************************************************)
EXTENDS CheckIn, Console, Sequences, FiniteSetTheorems, FunctionTheorems,
        WellFoundedInduction, TLAPS

\* Scans do not overlap.
OneGate == \A s, u \in Scanners : s = u

\* A ticket in hand at the gate, or still valid, has let nobody in.
UnusedYet ==
    /\ \A t \in Tickets : status[t] = "valid" => admitted[t] = 0
    /\ \A s \in Scanners : scan[s].ticket # NoTicket => admitted[scan[s].ticket] = 0

\* Every ticket is valid at first.
LEMMA InitTypes == Init => TypeOK
  BY DEF Init, TypeOK, NoScan, Channels

\* Every step writes what it read, or a constant.
LEMMA StepTypes == TypeOK /\ [Next]_vars => TypeOK'
<1> SUFFICES ASSUME TypeOK, [Next]_vars PROVE TypeOK'
  OBVIOUS
<1>1. ASSUME NEW s \in Scanners, NEW t \in Tickets, NEW how \in Channels, validate_ticket(s, t, how)
      PROVE  TypeOK'
  BY <1>1 DEF validate_ticket, TypeOK, table, clock
<1>2. ASSUME NEW s \in Scanners, mark_as_used(s) PROVE TypeOK'
  <2>1. scan[s].ticket \in Tickets /\ scan[s].channel \in Channels
    BY <1>2 DEF mark_as_used, TypeOK
  <2>2. UNCHANGED <<scan_enabled, clock, cancel, sweep>>
    BY <1>2 DEF mark_as_used
  <2>3. /\ status' \in [Tickets -> {"valid", "used", "cancelled", "expired"}]
        /\ channel' \in [Tickets -> Channels \cup {"none"}]
        /\ admitted' \in [Tickets -> Nat]
    BY <1>2, <2>1 DEF mark_as_used, TypeOK
  <2>4. scan' \in [Scanners -> [ticket : Tickets \cup {NoTicket}, channel : Channels]]
    BY <1>2 DEF mark_as_used, TypeOK, NoScan, Channels
  <2> QED BY <2>2, <2>3, <2>4 DEF TypeOK, clock
<1>3. ASSUME NEW h \in Holders, NEW t \in Tickets, begin_cancel(h, t) PROVE TypeOK'
  BY <1>3 DEF begin_cancel, TypeOK, table, clock
<1>4. ASSUME NEW h \in Holders, cancel_ticket(h) PROVE TypeOK'
  BY <1>4 DEF cancel_ticket, TypeOK, clock
<1>5. CASE roll_back
  <2>1. UNCHANGED <<status, channel, admitted, scan_enabled, event_date, link, today>>
    BY <1>5 DEF roll_back, table, clock
  <2>2. scan' \in [Scanners -> [ticket : Tickets \cup {NoTicket}, channel : Channels]]
    BY <1>5 DEF roll_back, TypeOK, NoScan, Channels
  <2>3. cancel' \in [Holders -> Tickets \cup {NoTicket}] /\ sweep' \subseteq Tickets
    BY <1>5 DEF roll_back, TypeOK
  <2> QED BY <2>1, <2>2, <2>3 DEF TypeOK
<1>6. CASE read_valid_tickets
  BY <1>6 DEF read_valid_tickets, TypeOK, table, clock
<1>7. CASE check_expired_tickets
  BY <1>7 DEF check_expired_tickets, TypeOK, clock
<1>8. CASE switch_check_in \/ update_event \/ get_event_scan_token \/ midnight
  <2>1. UNCHANGED <<status, channel, admitted, scan, cancel, sweep>>
    BY <1>8 DEF switch_check_in, update_event, get_event_scan_token, midnight, table
  <2>2. CASE switch_check_in
    BY <2>1, <2>2 DEF switch_check_in, TypeOK, clock
  <2>3. CASE update_event
    BY <2>1, <2>3 DEF update_event, TypeOK
  <2>4. CASE get_event_scan_token
    BY <2>1, <2>4 DEF get_event_scan_token, TypeOK
  <2>5. CASE midnight
    BY <2>1, <2>5 DEF midnight, TypeOK
  <2> QED BY <1>8, <2>2, <2>3, <2>4, <2>5
<1>9. CASE UNCHANGED vars
  BY <1>9 DEF vars, TypeOK, table, clock
<1> QED BY <1>1, <1>2, <1>3, <1>4, <1>5, <1>6, <1>7, <1>8, <1>9 DEF Next

(* Every reachable state has the types of CheckIn.                         *)
THEOREM TypeCorrect == Spec => []TypeOK
  BY InitTypes, StepTypes, PTL DEF Spec

(* The steps that admit nobody, make no ticket valid and start no scan.    *)
LEMMA NobodyEnters ==
    ASSUME TypeOK, UnusedYet, AdmittedOnce,
           UNCHANGED admitted,
           \A t \in Tickets : status'[t] = "valid" => status[t] = "valid",
           \A s \in Scanners : scan'[s] = scan[s] \/ scan'[s] = NoScan
    PROVE  UnusedYet' /\ AdmittedOnce'
  BY DEF UnusedYet, AdmittedOnce, NoScan

(* While scans do not overlap a ticket admits one guest, whatever its      *)
(* holder, the hourly task and the organizer do between the read and the   *)
(* write of a scan (validate_ticket, mark_as_used).                        *)
THEOREM OneGateAdmitsOnce ==
    ASSUME OneGate
    PROVE  Spec => []AdmittedOnce
<1> DEFINE AInv == TypeOK /\ UnusedYet /\ AdmittedOnce
<1>1. Init => AInv
  BY InitTypes DEF Init, UnusedYet, AdmittedOnce, NoScan
<1>2. AInv /\ [Next]_vars => AInv'
  <2> SUFFICES ASSUME AInv, [Next]_vars PROVE UnusedYet' /\ AdmittedOnce'
    BY StepTypes
  <2>1. ASSUME NEW s \in Scanners, NEW t \in Tickets, NEW how \in Channels, validate_ticket(s, t, how)
        PROVE  UnusedYet' /\ AdmittedOnce'
    BY <2>1 DEF validate_ticket, UnusedYet, AdmittedOnce, TypeOK, table
  <2>2. ASSUME NEW s \in Scanners, mark_as_used(s)
        PROVE  UnusedYet' /\ AdmittedOnce'
    <3> DEFINE t == scan[s].ticket
    <3>1. t \in Tickets /\ admitted[t] = 0
      BY <2>2 DEF mark_as_used, TypeOK, UnusedYet
    <3> HIDE DEF t
    <3>2. /\ status' = [status EXCEPT ![t] = "used"]
          /\ admitted' = [admitted EXCEPT ![t] = @ + 1]
          /\ scan' = [scan EXCEPT ![s] = NoScan]
      BY <2>2 DEF mark_as_used, t
    <3>3. \A u \in Scanners : scan'[u] = NoScan
      BY <3>2 DEF OneGate, TypeOK
    <3>4. /\ status'[t] = "used" /\ admitted'[t] = 1
          /\ \A u \in Tickets \ {t} : status'[u] = status[u] /\ admitted'[u] = admitted[u]
      BY <3>1, <3>2 DEF TypeOK
    <3>5. UnusedYet'
      BY <3>3, <3>4 DEF UnusedYet, NoScan
    <3>6. AdmittedOnce'
      BY <3>4 DEF AdmittedOnce
    <3> QED BY <3>5, <3>6
  <2>3. ASSUME NEW h \in Holders, cancel_ticket(h) PROVE UnusedYet' /\ AdmittedOnce'
    BY <2>3, NobodyEnters DEF cancel_ticket, TypeOK
  <2>4. ASSUME NEW h \in Holders, NEW t \in Tickets, begin_cancel(h, t)
        PROVE  UnusedYet' /\ AdmittedOnce'
    BY <2>4, NobodyEnters DEF begin_cancel, table
  <2>5. CASE check_expired_tickets
    BY <2>5, NobodyEnters DEF check_expired_tickets, TypeOK
  <2>6. CASE roll_back
    <3>1. UNCHANGED <<status, admitted>>
      BY <2>6 DEF roll_back, table
    <3>2. \A s \in Scanners : scan'[s] = scan[s] \/ scan'[s] = NoScan
      BY <2>6 DEF roll_back, TypeOK
    <3> QED BY <3>1, <3>2, NobodyEnters
  <2>7. CASE \/ read_valid_tickets \/ switch_check_in \/ update_event
             \/ get_event_scan_token \/ midnight \/ UNCHANGED vars
    <3>1. UNCHANGED <<status, admitted, scan>>
      BY <2>7 DEF read_valid_tickets, switch_check_in, update_event, get_event_scan_token,
         midnight, vars, table, clock
    <3> QED BY <3>1, NobodyEnters
  <2> QED BY <2>1, <2>2, <2>3, <2>4, <2>5, <2>6, <2>7 DEF Next
<1>3. AInv => AdmittedOnce
  OBVIOUS
<1> HIDE DEF AInv
<1> QED BY <1>1, <1>2, <1>3, PTL DEF Spec

\* Nobody cancels, and the hourly task is not run.
OnlyScans == Holders = {} /\ Sweeping = FALSE

(* With no cancellations and before the hourly task runs, entry is granted *)
(* exactly for the used tickets, at any number of overlapping gates.       *)
THEOREM GatesKeepTheRegister ==
    ASSUME OnlyScans
    PROVE  Spec => []RegisterIsTrue
<1> DEFINE RInv == TypeOK /\ RegisterIsTrue /\ sweep = {}
<1>1. Init => RInv
  BY InitTypes DEF Init, RegisterIsTrue
<1>2. RInv /\ [Next]_vars => RInv'
  <2> SUFFICES ASSUME RInv, [Next]_vars PROVE RegisterIsTrue' /\ sweep' = {}
    BY StepTypes
  <2>1. ASSUME NEW s \in Scanners, mark_as_used(s) PROVE RegisterIsTrue' /\ sweep' = {}
    <3> DEFINE t == scan[s].ticket
    <3>1. t \in Tickets
      BY <2>1 DEF mark_as_used, TypeOK
    <3> HIDE DEF t
    <3>2. /\ status' = [status EXCEPT ![t] = "used"]
          /\ admitted' = [admitted EXCEPT ![t] = @ + 1]
          /\ sweep' = sweep
      BY <2>1 DEF mark_as_used, t
    <3>3. /\ status'[t] = "used" /\ admitted'[t] > 0
          /\ \A u \in Tickets \ {t} : status'[u] = status[u] /\ admitted'[u] = admitted[u]
      BY <3>1, <3>2 DEF TypeOK
    <3> QED BY <3>2, <3>3 DEF RegisterIsTrue
  <2>2. ASSUME UNCHANGED <<status, admitted, sweep>> PROVE RegisterIsTrue' /\ sweep' = {}
    BY <2>2 DEF RegisterIsTrue
  <2>3. CASE check_expired_tickets \/ read_valid_tickets
    BY <2>3 DEF check_expired_tickets, read_valid_tickets, OnlyScans
  <2>4. ASSUME NEW s \in Scanners, NEW t \in Tickets, NEW how \in Channels, validate_ticket(s, t, how)
        PROVE  RegisterIsTrue' /\ sweep' = {}
    BY <2>2, <2>4 DEF validate_ticket, table
  <2>5. CASE roll_back
    BY <2>2, <2>5 DEF roll_back, table
  <2>6. CASE switch_check_in \/ update_event \/ get_event_scan_token \/ midnight \/ UNCHANGED vars
    BY <2>2, <2>6 DEF switch_check_in, update_event, get_event_scan_token, midnight, vars,
       table
  <2> QED BY <2>1, <2>3, <2>4, <2>5, <2>6 DEF Next, OnlyScans
<1>3. RInv => RegisterIsTrue
  OBVIOUS
<1> HIDE DEF RInv
<1> QED BY <1>1, <1>2, <1>3, PTL DEF Spec

-----------------------------------------------------------------------------
(* Jobs: what failed is shown and counted. *)

\* An instance has its own copy of FiniteSets.
LEMMA SameSize ==
    ASSUME NEW S
    PROVE  Monitor!Cardinality(S) = Cardinality(S) /\ Pages!Cardinality(S) = Cardinality(S)
  BY DEF Cardinality, Monitor!Cardinality, Pages!Cardinality

\* A failure that is on the list, or was, and one that the card counts.
Written == {"listed", "trimmed", "failed"}
Counts == {"counted"} \cup Written

RunRows ==
    [status : {"queued", "running", "succeeded", "counted", "listed", "trimmed", "failed"},
     queue : MonitoredQueues \cup {"celery"}, args : {"whole", "none"}]
JobRows ==
    [status : {"tracked", "remains"}, queue : MonitoredQueues \cup {"celery"}, failed :
      BOOLEAN,
     args : {"whole", "cut", "none"}]

\* The jobs of a queue whose failure was counted.
Counted(q) == {j \in MonitoredJobs :
  monitor_run[j].status \in Counts /\ monitor_run[j].queue = q}

\* A job has a hash from its start to its failure, of its own queue, unless that queue is purged;
\* a hash that was deleted under the failure handler remains in part.
JobOK(j) ==
    /\ monitor_run[j] \in RunRows \cup {Monitor!Absent}
    /\ monitor_job[j] \in JobRows \cup {Monitor!Absent}
    /\ monitor_run[j] = Monitor!Absent \/ monitor_run[j].status = "queued"
         => monitor_job[j] = Monitor!Absent
    /\ monitor_run[j].status \in {"running", "counted"} => monitor_job[j] # Monitor!Absent
    /\ monitor_run[j].status \in {"listed", "trimmed"}
         /\ monitor_run[j].queue \notin monitor_purged_queues
              => monitor_job[j] # Monitor!Absent
    /\ monitor_job[j].status = "tracked" =>
                /\ monitor_job[j].queue = monitor_run[j].queue
                /\ monitor_run[j].status = "failed" => monitor_job[j].failed = TRUE
    /\ monitor_job[j].status = "remains"
         => monitor_run[j].status = "failed"
           /\ monitor_run[j].queue \in monitor_purged_queues
    /\ j \in monitor_failed_jobs => monitor_run[j].status \in Written

\* What is being purged is of a queue that was, or has no hash any more.
Purged(j) ==
    /\ monitor_run[j].status \in Written
    /\ monitor_run[j].queue \in monitor_purged_queues
         \/ (monitor_job[j] = Monitor!Absent /\ monitor_run[j].status = "failed")

JobsOK ==
    /\ monitor_run = [j \in MonitoredJobs |-> monitor_run[j]]
    /\ monitor_job = [j \in MonitoredJobs |-> monitor_job[j]]
    /\ \A j \in MonitoredJobs : JobOK(j)

PurgesOK ==
    /\ monitor_purge = [p \in MonitoredPurgers |-> monitor_purge[p]]
    /\ \A p \in MonitoredPurgers : monitor_purge[p] # Monitor!Idle =>
        monitor_purge[p].queue \in monitor_purged_queues
          /\ \A j \in MonitoredJobs \cap monitor_purge[p].ids : Purged(j)

CountsOK ==
    /\ monitor_failed_count \in [MonitoredQueues -> Nat]
    /\ \A q \in MonitoredQueues \ monitor_purged_queues :
         monitor_failed_count[q] = Cardinality(Counted(q))

\* A tracked failure is on the list unless as many as it keeps came after it.
ListOK ==
    /\ monitor_failed_jobs \subseteq MonitoredJobs
    /\ monitor_score = [j \in MonitoredJobs |-> monitor_score[j]]
    /\ \A j \in MonitoredJobs :
         monitor_job[j].status = "tracked" /\ monitor_run[j].status \in Written
           => j \in monitor_failed_jobs \/ Cardinality(Monitor!newer(j)) >= MonitoredKept

MInv == JobsOK /\ PurgesOK /\ CountsOK /\ ListOK

\* No job was sent yet.
LEMMA InitMInv == Monitor!Init => MInv
<1> SUFFICES ASSUME Monitor!Init PROVE MInv
  OBVIOUS
<1>1. JobsOK /\ PurgesOK /\ ListOK
  BY DEF Monitor!Init, JobsOK, JobOK, PurgesOK, ListOK, Written, Monitor!Absent, Monitor!Idle
<1>2. \A q : Counted(q) = {}
  BY DEF Monitor!Init, Counted, Counts, Written, Monitor!Absent
<1>3. CountsOK
  BY <1>2, FS_EmptySet DEF Monitor!Init, CountsOK
<1> QED BY <1>1, <1>3 DEF MInv

\* One job goes on, and what is being purged is left as it is.
LEMMA JobGoes ==
    ASSUME MInv, NEW j \in MonitoredJobs, JobOK(j)', Purged(j) => Purged(j)',
           NEW r, monitor_run' = [monitor_run EXCEPT ![j] = r], NEW h,
             monitor_job' = [monitor_job EXCEPT ![j] = h],
           \A k \in MonitoredJobs \ {j} : k \in monitor_failed_jobs'
             => k \in monitor_failed_jobs,
           UNCHANGED <<monitor_purge, monitor_purged_queues>>
    PROVE  JobsOK' /\ PurgesOK'
<1>1. /\ monitor_run' = [k \in MonitoredJobs |-> monitor_run'[k]]
      /\ monitor_job' = [k \in MonitoredJobs |-> monitor_job'[k]]
      /\ \A k \in MonitoredJobs \ {j} : monitor_run'[k] = monitor_run[k]
           /\ monitor_job'[k] = monitor_job[k]
  BY DEF MInv, JobsOK
<1>2. ASSUME NEW k \in MonitoredJobs PROVE JobOK(k)' /\ (Purged(k) => Purged(k)')
  <2>1. CASE k = j
    BY <2>1
  <2>2. CASE k # j
    BY <1>1, <2>2 DEF MInv, JobsOK, JobOK, Purged
  <2> QED BY <2>1, <2>2
<1> QED BY <1>1, <1>2 DEF MInv, JobsOK, PurgesOK

\* What failed stays so, and stays on the list or was dropped from it when it was full.
LEMMA ListStays ==
    ASSUME MInv, monitor_failed_jobs' \subseteq MonitoredJobs,
           monitor_score' = [k \in MonitoredJobs |-> monitor_score'[k]],
           \A k \in MonitoredJobs : monitor_run[k].status \in Written
             => monitor_run'[k].status \in Written /\ monitor_score'[k] = monitor_score[k],
           \A k \in MonitoredJobs :
             monitor_job'[k].status = "tracked" /\ monitor_run'[k].status \in Written
               => \/ k \in monitor_failed_jobs'
                  \/ /\ monitor_run[k].status \in Written
                     /\ k \in monitor_failed_jobs
                          => Cardinality(Monitor!newer(k)) >= MonitoredKept
                     /\ monitor_job[k].status = "tracked"
    PROVE  ListOK'
<1>1. ASSUME NEW k \in MonitoredJobs, k \notin monitor_failed_jobs',
             monitor_job'[k].status = "tracked", monitor_run'[k].status \in Written
      PROVE  Cardinality(Monitor!newer(k))' >= MonitoredKept
  <2>1. Cardinality(Monitor!newer(k)) >= MonitoredKept /\ monitor_score'[k] = monitor_score[k]
    BY <1>1 DEF MInv, ListOK
  <2>2. Monitor!newer(k) \in SUBSET Monitor!newer(k)'
    BY <2>1 DEF Monitor!newer, Written
  <2>3. IsFiniteSet(Monitor!newer(k)')
    BY FS_Subset, ConsoleAssumption DEF Monitor!newer
  <2>4. /\ Cardinality(Monitor!newer(k)) <= Cardinality(Monitor!newer(k)')
        /\ Cardinality(Monitor!newer(k)) \in Nat /\ Cardinality(Monitor!newer(k)') \in Nat
    BY <2>2, <2>3, FS_Subset, FS_CardinalityType
  <2>5. Cardinality(Monitor!newer(k)') >= MonitoredKept
    BY <2>1, <2>4, ConsoleAssumption
  <2> QED BY <2>5
<1> QED BY <1>1 DEF ListOK

\* One job goes on and none is put on the list.
LEMMA ListIsLeft ==
    ASSUME MInv, NEW j \in MonitoredJobs,
           NEW r, monitor_run' = [monitor_run EXCEPT ![j] = r], monitor_run'[j] = r,
           NEW h, monitor_job' = [monitor_job EXCEPT ![j] = h], monitor_job'[j] = h,
           monitor_run[j].status \in Written => r.status \in Written,
           h.status = "tracked" /\ r.status \in Written
             => monitor_job[j].status = "tracked" /\ monitor_run[j].status \in Written,
           UNCHANGED <<monitor_failed_jobs, monitor_score>>
    PROVE  ListOK'
<1>1. \A k \in MonitoredJobs \ {j} : monitor_run'[k] = monitor_run[k]
                                    /\ monitor_job'[k] = monitor_job[k]
  BY DEF MInv, JobsOK
<1>2. /\ monitor_failed_jobs' \subseteq MonitoredJobs
      /\ monitor_score' = [k \in MonitoredJobs |-> monitor_score'[k]]
  BY DEF MInv, ListOK
<1>3. \A k \in MonitoredJobs : monitor_run[k].status \in Written
        => monitor_run'[k].status \in Written /\ monitor_score'[k] = monitor_score[k]
  BY <1>1
<1>4. \A k \in MonitoredJobs :
        monitor_job'[k].status = "tracked" /\ monitor_run'[k].status \in Written
          => monitor_job[k].status = "tracked" /\ monitor_run[k].status \in Written
  BY <1>1
<1> QED BY <1>2, <1>3, <1>4, ListStays

\* A job goes on that was not counted and is not now, or was and is.
LEMMA CountStays ==
    ASSUME MInv, NEW j \in MonitoredJobs, NEW r,
           monitor_run' = [monitor_run EXCEPT ![j] = r],
           r.status \in Counts <=>
               monitor_run[j].status \in Counts,
           r.status \in Counts => r.queue = monitor_run[j].queue,
           UNCHANGED <<monitor_failed_count, monitor_purged_queues>>
    PROVE  CountsOK'
<1>1. \A k \in MonitoredJobs : monitor_run'[k] = IF k = j THEN r ELSE monitor_run[k]
  BY DEF MInv, JobsOK
<1>2. \A q : Counted(q)' = Counted(q)
  BY <1>1 DEF Counted, Counts, Written
<1> QED BY <1>2 DEF MInv, CountsOK

\* A job is sent, or sent again under a name of its own.
LEMMA Sent ==
    ASSUME MInv, NEW j \in MonitoredJobs, monitor_run[j] = Monitor!Absent,
           NEW q \in MonitoredQueues \cup {"celery"},
           NEW a \in {"whole", "none"},
           monitor_run' = [monitor_run EXCEPT ![j] =
             [status |-> "queued", queue |-> q, args |-> a]],
           UNCHANGED <<monitor_job, monitor_failed_count, monitor_failed_jobs,
             monitor_score, monitor_purge, monitor_purged_queues>>
    PROVE  MInv'
<1> DEFINE r == [status |-> "queued", queue |-> q, args |-> a]
<1>1. r \in RunRows /\ r.status = "queued"
  BY DEF RunRows
<1>2. monitor_run' = [monitor_run EXCEPT ![j] = r]
  OBVIOUS
<1> HIDE DEF r
<1>3. monitor_run'[j] = r /\ monitor_job' = [monitor_job EXCEPT ![j] = monitor_job[j]]
  BY <1>2 DEF MInv, JobsOK
<1>4. JobOK(j)'
  BY <1>1, <1>3 DEF MInv, JobsOK, JobOK, Written, Monitor!Absent
<1>5. ~Purged(j)
  BY DEF Purged, Written, Monitor!Absent
<1>6. JobsOK' /\ PurgesOK'
  BY <1>2, <1>3, <1>4, <1>5, JobGoes
<1>7. monitor_run[j].status = "none"
  BY DEF Monitor!Absent
<1>8. /\ r.status \notin Counts /\ r.status \notin Written
      /\ monitor_run[j].status \notin Counts /\ monitor_run[j].status \notin Written
      /\ UNCHANGED <<monitor_failed_count, monitor_purged_queues>>
  BY <1>1, <1>7 DEF Counts, Written
<1>11. monitor_job'[j] = monitor_job[j]
  BY <1>3 DEF MInv, JobsOK
<1>9. CountsOK'
  BY <1>2, <1>8, CountStays
<1>10. ListOK'
  BY <1>2, <1>3, <1>8, <1>11, ListIsLeft
<1> QED BY <1>6, <1>9, <1>10 DEF MInv

\* The worker takes a job and tracks it.
LEMMA Started ==
    ASSUME MInv, NEW j \in MonitoredJobs, Monitor!on_task_prerun(j)
    PROVE  MInv'
<1> DEFINE r == [monitor_run[j] EXCEPT !.status = "running"]
           h == [status |-> "tracked", queue |-> monitor_run[j].queue, failed |-> FALSE,
                 args |-> IF j \in MonitoredLong THEN "cut" ELSE monitor_run[j].args]
<1>1. /\ monitor_run[j].status = "queued" /\ monitor_run' = [monitor_run EXCEPT ![j] = r]
      /\ monitor_job' = [monitor_job EXCEPT ![j] = h]
      /\ UNCHANGED <<monitor_failed_count, monitor_failed_jobs,
           monitor_score, monitor_purge, monitor_purged_queues>>
  BY DEF Monitor!on_task_prerun, Monitor!step, MInv, JobsOK
<1>2. monitor_run[j] \in RunRows
  BY <1>1 DEF MInv, JobsOK, JobOK, Monitor!Absent
<1>3. r \in RunRows /\ r.status = "running" /\ r.queue = monitor_run[j].queue
  BY <1>2 DEF RunRows
<1>4. h \in JobRows /\ h.status = "tracked" /\ h.queue = monitor_run[j].queue
  BY <1>2 DEF RunRows, JobRows
<1> HIDE DEF r, h
<1>5. monitor_run'[j] = r /\ monitor_job'[j] = h
  BY <1>1 DEF MInv, JobsOK
<1>6. JobOK(j)'
  BY <1>1, <1>3, <1>4, <1>5 DEF MInv, JobsOK, JobOK, Written, Monitor!Absent, JobRows
<1>7. ~Purged(j)
  BY <1>1 DEF Purged, Written
<1>8. JobsOK' /\ PurgesOK'
  BY <1>1, <1>6, <1>7, JobGoes
<1>9. CountsOK'
  BY <1>1, <1>3, CountStays DEF Counts, Written
<1>10. ListOK'
  BY <1>1, <1>3, <1>5, ListIsLeft DEF Written
<1> QED BY <1>8, <1>9, <1>10 DEF MInv

\* A step of a job that is running or failing.
LEMMA RunGoes ==
    ASSUME MInv, NEW j \in MonitoredJobs, NEW s, Monitor!step(j, s),
           monitor_run[j].status \in {"running", "counted", "listed", "trimmed"},
           s \in {"succeeded", "counted", "listed", "trimmed", "failed"}
    PROVE  \E r \in RunRows : /\ monitor_run' = [monitor_run EXCEPT ![j] = r]
                              /\ monitor_run'[j] = r
                              /\ r.status = s /\ r.queue = monitor_run[j].queue
<1>1. monitor_run[j] \in RunRows
  BY DEF MInv, JobsOK, JobOK, Monitor!Absent
<1> DEFINE r == [monitor_run[j] EXCEPT !.status = s]
<1>2. r \in RunRows /\ r.status = s /\ r.queue = monitor_run[j].queue
  BY <1>1 DEF RunRows
<1>3. monitor_run' = [monitor_run EXCEPT ![j] = r] /\ monitor_run'[j] = r
  BY DEF Monitor!step, MInv, JobsOK
<1> HIDE DEF r
<1> QED BY <1>2, <1>3

\* It succeeds.
LEMMA Succeeded ==
    ASSUME MInv, NEW j \in MonitoredJobs, Monitor!on_task_postrun(j)
    PROVE  MInv'
<1>1. /\ monitor_run[j].status = "running" /\ Monitor!step(j, "succeeded")
      /\ UNCHANGED <<monitor_job, monitor_failed_count, monitor_failed_jobs,
           monitor_score, monitor_purge, monitor_purged_queues>>
  BY DEF Monitor!on_task_postrun
<1>2. PICK r \in RunRows : /\ monitor_run' = [monitor_run EXCEPT ![j] = r]
                           /\ monitor_run'[j] = r
                           /\ r.status = "succeeded" /\ r.queue = monitor_run[j].queue
  BY <1>1, RunGoes
<1>3. JobOK(j)' /\ ~Purged(j)
  BY <1>1, <1>2 DEF MInv, JobsOK, JobOK, Written, Monitor!Absent, Purged
<1>4. monitor_job' = [monitor_job EXCEPT ![j] = monitor_job[j]]
  BY <1>1 DEF MInv, JobsOK
<1>5. JobsOK' /\ PurgesOK'
  BY <1>1, <1>2, <1>3, <1>4, JobGoes
<1>6. CountsOK'
  BY <1>1, <1>2, CountStays DEF Counts, Written
<1>7. ListOK'
  BY <1>1, <1>2, <1>4, ListIsLeft DEF Written
<1> QED BY <1>5, <1>6, <1>7 DEF MInv

\* Its failure is counted, for the queue in its hash.
LEMMA FailureCounted ==
    ASSUME MInv, NEW j \in MonitoredJobs, Monitor!count_failure(j)
    PROVE  MInv'
<1>1. /\ monitor_run[j].status = "running" /\ Monitor!step(j, "counted")
      /\ monitor_failed_count' =
           [monitor_failed_count EXCEPT ![Monitor!tracked_queue(j)] = @ + 1]
      /\ monitor_score' = [monitor_score EXCEPT ![j] =
           1 + Monitor!Cardinality({k \in MonitoredJobs : monitor_score[k] > 0})]
      /\ UNCHANGED <<monitor_job, monitor_failed_jobs, monitor_purge,
           monitor_purged_queues>>
  BY DEF Monitor!count_failure
<1>2. PICK r \in RunRows : /\ monitor_run' = [monitor_run EXCEPT ![j] = r]
                           /\ monitor_run'[j] = r
                           /\ r.status = "counted" /\ r.queue = monitor_run[j].queue
  BY <1>1, RunGoes
<1>3. JobOK(j)' /\ ~Purged(j)
  BY <1>1, <1>2 DEF MInv, JobsOK, JobOK, Written, Monitor!Absent, Purged
<1>4. monitor_job' = [monitor_job EXCEPT ![j] = monitor_job[j]]
  BY <1>1 DEF MInv, JobsOK
<1>5. JobsOK' /\ PurgesOK'
  BY <1>1, <1>2, <1>3, <1>4, JobGoes
<1>6. PICK at : at = monitor_run[j].queue
  OBVIOUS
<1>7. Monitor!tracked_queue(j) = at
  BY <1>1, <1>6 DEF Monitor!tracked_queue, MInv, JobsOK, JobOK, JobRows, Monitor!Absent
<1>8. \A q : Counted(q)' = IF q = at THEN Counted(q) \cup {j} ELSE Counted(q)
  BY <1>2, <1>6 DEF Counted, Counts, Written, MInv, JobsOK
<1>9. j \notin Counted(at) /\ IsFiniteSet(Counted(at))
  BY <1>1, FS_Subset, ConsoleAssumption DEF Counted, Counts, Written
<1>10. Cardinality(Counted(at) \cup {j}) = Cardinality(Counted(at)) + 1
  BY <1>9, FS_AddElement
<1>11. monitor_failed_count' = [monitor_failed_count EXCEPT ![at] =
  monitor_failed_count[at] + 1]
  BY <1>1, <1>7
<1>13. monitor_failed_count \in [MonitoredQueues -> Nat]
  BY DEF MInv, CountsOK
<1>14. \A q \in MonitoredQueues :
             monitor_failed_count'[q] = IF q = at THEN monitor_failed_count[q] + 1 ELSE
               monitor_failed_count[q]
  BY <1>11, <1>13
<1>15. monitor_failed_count' = [q \in MonitoredQueues |-> monitor_failed_count'[q]]
  BY <1>11, <1>13
<1>16. \A q \in MonitoredQueues : monitor_failed_count'[q] \in Nat
  BY <1>13, <1>14
<1>17. monitor_failed_count' \in [MonitoredQueues -> Nat]
  BY <1>15, <1>16
<1>12. CountsOK'
  BY <1>1, <1>8, <1>10, <1>14, <1>17 DEF MInv, CountsOK
<1>18. /\ monitor_failed_jobs' \subseteq MonitoredJobs
       /\ monitor_score' = [k \in MonitoredJobs |-> monitor_score'[k]]
       /\ \A k \in MonitoredJobs \ {j} : monitor_score'[k] = monitor_score[k]
  BY <1>1 DEF MInv, ListOK
<1>19. \A k \in MonitoredJobs : /\ monitor_job'[k] = monitor_job[k]
                                /\ k # j => monitor_run'[k] = monitor_run[k]
  BY <1>1, <1>2 DEF MInv, JobsOK
<1>20. monitor_run[j].status \notin Written /\ monitor_run'[j].status \notin Written
  BY <1>1, <1>2 DEF Written
<1>21. ASSUME NEW k \in MonitoredJobs, monitor_run[k].status \in Written
       PROVE  monitor_run'[k].status \in Written /\ monitor_score'[k] = monitor_score[k]
  <2>1. k # j
    BY <1>20, <1>21
  <2>2. monitor_run'[k] = monitor_run[k]
    BY <1>19, <2>1
  <2>3. monitor_score'[k] = monitor_score[k]
    BY <1>18, <2>1
  <2> QED BY <1>21, <2>2, <2>3
<1>22. \A k \in MonitoredJobs :
         monitor_job'[k].status = "tracked" /\ monitor_run'[k].status \in Written
           => \/ k \in monitor_failed_jobs'
              \/ /\ monitor_run[k].status \in Written
                 /\ k \notin monitor_failed_jobs
                 /\ monitor_job[k].status = "tracked"
  BY <1>1, <1>19, <1>20
<1>23. ListOK'
  BY <1>18, <1>21, <1>22, ListStays
<1> QED BY <1>5, <1>12, <1>23 DEF MInv

\* It is listed.
LEMMA Listed ==
    ASSUME MInv, NEW j \in MonitoredJobs, Monitor!list_failure(j)
    PROVE  MInv'
<1>1. /\ monitor_run[j].status = "counted" /\ Monitor!step(j, "listed")
      /\ monitor_failed_jobs' = monitor_failed_jobs \cup {j}
      /\ UNCHANGED <<monitor_job, monitor_failed_count, monitor_score, monitor_purge,
           monitor_purged_queues>>
  BY DEF Monitor!list_failure
<1>2. PICK r \in RunRows : /\ monitor_run' = [monitor_run EXCEPT ![j] = r]
                           /\ monitor_run'[j] = r
                           /\ r.status = "listed" /\ r.queue = monitor_run[j].queue
  BY <1>1, RunGoes
<1>3. JobOK(j)' /\ ~Purged(j)
  BY <1>1, <1>2 DEF MInv, JobsOK, JobOK, Written, Monitor!Absent, Purged
<1>4. monitor_job' = [monitor_job EXCEPT ![j] = monitor_job[j]]
  BY <1>1 DEF MInv, JobsOK
<1>5. JobsOK' /\ PurgesOK'
  BY <1>1, <1>2, <1>3, <1>4, JobGoes
<1>6. CountsOK'
  BY <1>1, <1>2, CountStays DEF Counts, Written
<1>7. /\ monitor_failed_jobs' \subseteq MonitoredJobs
      /\ monitor_score' = [k \in MonitoredJobs |-> monitor_score'[k]]
  BY <1>1 DEF MInv, ListOK
<1>8. \A k \in MonitoredJobs : /\ monitor_job'[k] = monitor_job[k]
                               /\ k # j => monitor_run'[k] = monitor_run[k]
  BY <1>1, <1>2 DEF MInv, JobsOK
<1>9. \A k \in MonitoredJobs : monitor_run[k].status \in Written
        => monitor_run'[k].status \in Written /\ monitor_score'[k] = monitor_score[k]
  BY <1>1, <1>2, <1>8 DEF Written
<1>10. \A k \in MonitoredJobs :
         monitor_job'[k].status = "tracked" /\ monitor_run'[k].status \in Written
           => \/ k \in monitor_failed_jobs'
              \/ /\ monitor_run[k].status \in Written
                 /\ k \notin monitor_failed_jobs
                 /\ monitor_job[k].status = "tracked"
  BY <1>1, <1>8
<1>11. ListOK'
  BY <1>7, <1>9, <1>10, ListStays
<1> QED BY <1>5, <1>6, <1>11 DEF MInv

\* What is not among the n latest has n after it.
LEMMA NotNewest ==
    ASSUME NEW n \in Nat, NEW S, NEW j \in S, j \notin Monitor!newest(n, S),
           NEW T, IsFiniteSet(T), \A k \in S : monitor_score[k] > monitor_score[j] => k \in T
    PROVE  Cardinality(T) >= n
<1>1. PICK U : U = {k \in S : monitor_score[k] > monitor_score[j]}
  OBVIOUS
<1>2. ~(Cardinality(U) < n)
  BY <1>1, SameSize DEF Monitor!newest
<1>3. U \in SUBSET T
  BY <1>1
<1>4. /\ Cardinality(U) <= Cardinality(T)
      /\ Cardinality(U) \in Nat /\ Cardinality(T) \in Nat
  BY <1>3, FS_Subset, FS_CardinalityType
<1> QED BY <1>2, <1>4

\* The list is cut to the latest: what is dropped has as many after it as it keeps.
LEMMA Trimmed ==
    ASSUME MInv, NEW j \in MonitoredJobs, Monitor!trim_failures(j)
    PROVE  MInv'
<1>1. /\ monitor_run[j].status = "listed" /\ Monitor!step(j, "trimmed")
      /\ monitor_failed_jobs' = Monitor!newest(MonitoredKept, monitor_failed_jobs)
      /\ UNCHANGED <<monitor_job, monitor_failed_count, monitor_score, monitor_purge,
           monitor_purged_queues>>
  BY DEF Monitor!trim_failures
<1>2. PICK r \in RunRows : /\ monitor_run' = [monitor_run EXCEPT ![j] = r]
                           /\ monitor_run'[j] = r
                           /\ r.status = "trimmed" /\ r.queue = monitor_run[j].queue
  BY <1>1, RunGoes
<1>3. monitor_failed_jobs' \subseteq monitor_failed_jobs
  BY <1>1 DEF Monitor!newest
<1>4. JobOK(j)' /\ (Purged(j) => Purged(j)')
  BY <1>1, <1>2, <1>3 DEF MInv, JobsOK, JobOK, Written, Monitor!Absent, Purged
<1>5. monitor_job' = [monitor_job EXCEPT ![j] = monitor_job[j]]
  BY <1>1 DEF MInv, JobsOK
<1>6. JobsOK' /\ PurgesOK'
  BY <1>1, <1>2, <1>3, <1>4, <1>5, JobGoes
<1>7. CountsOK'
  BY <1>1, <1>2, CountStays DEF Counts, Written
<1>8. /\ monitor_failed_jobs' \subseteq MonitoredJobs
      /\ monitor_score' = [k \in MonitoredJobs |-> monitor_score'[k]]
  BY <1>1, <1>3 DEF MInv, ListOK
<1>9. \A k \in MonitoredJobs : /\ monitor_job'[k] = monitor_job[k]
                               /\ k # j => monitor_run'[k] = monitor_run[k]
  BY <1>1, <1>2 DEF MInv, JobsOK
<1>10. \A k \in MonitoredJobs : monitor_run[k].status \in Written
         => monitor_run'[k].status \in Written /\ monitor_score'[k] = monitor_score[k]
  BY <1>1, <1>2, <1>9 DEF Written
<1>11. ASSUME NEW k \in MonitoredJobs, k \in monitor_failed_jobs, k \notin monitor_failed_jobs'
       PROVE  Cardinality(Monitor!newer(k)) >= MonitoredKept
  <2>1. \A i \in monitor_failed_jobs : i \in MonitoredJobs /\ monitor_run[i].status \in Written
    BY DEF MInv, ListOK, JobsOK, JobOK
  <2>2. \A i \in monitor_failed_jobs :
          monitor_score[i] > monitor_score[k] => i \in Monitor!newer(k)
    BY <2>1 DEF Monitor!newer, Written
  <2>3. IsFiniteSet(Monitor!newer(k))
    BY FS_Subset, ConsoleAssumption DEF Monitor!newer
  <2> QED BY <1>1, <1>11, <2>2, <2>3, NotNewest, ConsoleAssumption
<1>12. \A k \in MonitoredJobs :
         monitor_job'[k].status = "tracked" /\ monitor_run'[k].status \in Written
           => \/ k \in monitor_failed_jobs'
              \/ /\ monitor_run[k].status \in Written
                 /\ k \in monitor_failed_jobs
                      => Cardinality(Monitor!newer(k)) >= MonitoredKept
                 /\ monitor_job[k].status = "tracked"
  BY <1>1, <1>9, <1>11 DEF Written
<1>13. ListOK'
  BY <1>8, <1>10, <1>12, ListStays
<1> QED BY <1>6, <1>7, <1>13 DEF MInv

\* The hash is told, or what remains of it is made.
LEMMA Failed ==
    ASSUME MInv, NEW j \in MonitoredJobs, Monitor!on_task_failure(j)
    PROVE  MInv'
<1> DEFINE h == IF monitor_job[j] = Monitor!Absent
                THEN [status |-> "remains", queue |-> "celery", failed |-> TRUE,
                  args |-> "none"]
                ELSE [monitor_job[j] EXCEPT !.failed = TRUE]
<1>1. /\ monitor_run[j].status = "trimmed" /\ Monitor!step(j, "failed")
      /\ monitor_job' = [monitor_job EXCEPT ![j] = h]
      /\ UNCHANGED <<monitor_failed_count, monitor_failed_jobs,
           monitor_score, monitor_purge, monitor_purged_queues>>
  BY DEF Monitor!on_task_failure, MInv, JobsOK
<1>2. PICK r \in RunRows : /\ monitor_run' = [monitor_run EXCEPT ![j] = r]
                           /\ monitor_run'[j] = r
                           /\ r.status = "failed" /\ r.queue = monitor_run[j].queue
  BY <1>1, RunGoes
<1>3. h \in JobRows /\ h.failed = TRUE
  BY DEF MInv, JobsOK, JobOK, JobRows
<1>4. /\ monitor_job[j] = Monitor!Absent => h.status = "remains"
      /\ monitor_job[j] # Monitor!Absent
           => h.status = monitor_job[j].status /\ h.queue = monitor_job[j].queue
  BY DEF MInv, JobsOK, JobOK, JobRows
<1> HIDE DEF h
<1>5. monitor_job'[j] = h
  BY <1>1 DEF MInv, JobsOK
<1>6. JobOK(j)'
  BY <1>1, <1>2, <1>3, <1>4, <1>5 DEF MInv, JobsOK, JobOK, JobRows, Written, Monitor!Absent
<1>7. Purged(j) => Purged(j)'
  BY <1>1, <1>2 DEF Purged, Written
<1>8. JobsOK' /\ PurgesOK'
  BY <1>1, <1>2, <1>6, <1>7, JobGoes
<1>9. CountsOK'
  BY <1>1, <1>2, CountStays DEF Counts, Written
<1>10. h.status = "tracked" => monitor_job[j].status = "tracked"
  BY <1>4
<1>11. ListOK'
  BY <1>1, <1>2, <1>5, <1>10, ListIsLeft DEF Written
<1> QED BY <1>8, <1>9, <1>11 DEF MInv

\* A hash expires.
LEMMA Expired ==
    ASSUME MInv, NEW j \in MonitoredJobs, Monitor!expire_job(j)
    PROVE  MInv'
<1>1. /\ monitor_job[j].status = "tracked"
      /\ monitor_run[j].status \in {"failed", "succeeded"}
      /\ monitor_job' = [monitor_job EXCEPT ![j] = Monitor!Absent]
      /\ UNCHANGED <<monitor_run, monitor_failed_count, monitor_failed_jobs,
           monitor_score, monitor_purge, monitor_purged_queues>>
  BY DEF Monitor!expire_job
<1>2. monitor_run' = [monitor_run EXCEPT ![j] = monitor_run[j]]
  /\ monitor_job'[j] = Monitor!Absent /\ monitor_run'[j] = monitor_run[j]
  BY <1>1 DEF MInv, JobsOK
<1>3. JobOK(j)' /\ (Purged(j) => Purged(j)')
  BY <1>1, <1>2 DEF MInv, JobsOK, JobOK, Written, Monitor!Absent, Purged
<1>4. JobsOK' /\ PurgesOK'
  BY <1>1, <1>2, <1>3, JobGoes
<1>5. CountsOK'
  BY <1>1, <1>2, CountStays
<1>6. ListOK'
  BY <1>1, <1>2, ListIsLeft DEF Monitor!Absent
<1> QED BY <1>4, <1>5, <1>6 DEF MInv

\* A purge reads the list, and the hashes to know their queues.
LEMMA PurgeBegins ==
    ASSUME MInv, NEW p \in MonitoredPurgers, NEW q \in MonitoredQueues,
           Monitor!begin_purge(p, q)
    PROVE  MInv'
<1> DEFINE u == [op |-> "purge", queue |-> q, ids |-> Monitor!to_remove(q)]
<1>1. /\ monitor_purge' = [monitor_purge EXCEPT ![p] = u]
      /\ monitor_purged_queues' = monitor_purged_queues \cup {q}
      /\ UNCHANGED <<monitor_run, monitor_job, monitor_failed_count, monitor_failed_jobs,
           monitor_score>>
  BY DEF Monitor!begin_purge
<1>2. JobsOK'
  BY <1>1 DEF MInv, JobsOK, JobOK
<1>3. \A j \in MonitoredJobs : Purged(j) => Purged(j)'
  BY <1>1 DEF Purged
<1>4. ASSUME NEW j \in MonitoredJobs, j \in Monitor!to_remove(q) PROVE Purged(j)'
  <2>1. j \in monitor_failed_jobs /\ Monitor!tracked_queue(j) = q
    /\ monitor_run[j].status \in Written
    BY <1>4 DEF Monitor!to_remove, MInv, JobsOK, JobOK
  <2>2. JobOK(j)
    BY DEF MInv, JobsOK
  <2>3. CASE monitor_job[j] = Monitor!Absent
    BY <1>1, <2>1, <2>2, <2>3 DEF JobOK, Purged, Written
  <2>4. CASE monitor_job[j] # Monitor!Absent
    BY <1>1, <2>1, <2>2, <2>4 DEF JobOK, JobRows, Purged, Monitor!tracked_queue
  <2> QED BY <2>3, <2>4
<1>5. u.queue = q /\ u.ids = Monitor!to_remove(q)
  OBVIOUS
<1> HIDE DEF u
<1>6. \A k \in MonitoredPurgers : monitor_purge'[k] = IF k = p THEN u ELSE monitor_purge[k]
  BY <1>1 DEF MInv, PurgesOK
<1>7. monitor_purge' = [k \in MonitoredPurgers |-> monitor_purge'[k]]
  BY <1>1 DEF MInv, PurgesOK
<1>8. ASSUME NEW k \in MonitoredPurgers, monitor_purge'[k] # Monitor!Idle
      PROVE  monitor_purge'[k].queue \in monitor_purged_queues'
             /\ \A j \in MonitoredJobs \cap monitor_purge'[k].ids : Purged(j)'
  BY <1>1, <1>3, <1>4, <1>5, <1>6, <1>8 DEF MInv, PurgesOK
<1>9. PurgesOK'
  BY <1>7, <1>8 DEF PurgesOK
<1>10. CountsOK'
  BY <1>1 DEF MInv, CountsOK, Counted
<1>11. ListOK'
  BY <1>1 DEF MInv, ListOK, Monitor!newer
<1> QED BY <1>2, <1>9, <1>10, <1>11 DEF MInv

\* It deletes what it found, and the count.
LEMMA PurgeEnds ==
    ASSUME MInv, NEW p \in MonitoredPurgers, Monitor!purge_failed(p)
    PROVE  MInv'
<1>1. PICK ids : ids = monitor_purge[p].ids
  OBVIOUS
<1>2. /\ monitor_purge[p] # Monitor!Idle
      /\ monitor_job' = [j \in MonitoredJobs |-> IF j \in ids THEN Monitor!Absent ELSE
           monitor_job[j]]
      /\ monitor_failed_jobs' = monitor_failed_jobs \ ids
      /\ monitor_failed_count' = IF ids = {} THEN monitor_failed_count
                                 ELSE [monitor_failed_count EXCEPT ![monitor_purge[p].queue] = 0]
      /\ monitor_purge' = [monitor_purge EXCEPT ![p] = Monitor!Idle]
      /\ UNCHANGED <<monitor_run, monitor_score, monitor_purged_queues>>
  BY <1>1 DEF Monitor!purge_failed
<1>3. monitor_purge[p].queue \in monitor_purged_queues
  /\ \A j \in MonitoredJobs \cap ids : Purged(j)
  BY <1>1, <1>2 DEF MInv, PurgesOK
<1>4. ASSUME NEW j \in MonitoredJobs PROVE JobOK(j)'
  <2>1. JobOK(j) /\ monitor_run'[j] = monitor_run[j]
    BY <1>2 DEF MInv, JobsOK
  <2>2. CASE j \in ids
    BY <1>2, <1>3, <2>1, <2>2 DEF JobOK, Purged, Written, Monitor!Absent
  <2>3. CASE j \notin ids
    BY <1>2, <2>1, <2>3 DEF JobOK
  <2> QED BY <2>2, <2>3
<1>5. JobsOK'
  BY <1>2, <1>4 DEF MInv, JobsOK
<1>6. \A j \in MonitoredJobs : Purged(j) => Purged(j)'
  BY <1>2 DEF Purged
<1>7. PurgesOK'
  BY <1>2, <1>6 DEF MInv, PurgesOK
<1>8. CountsOK'
  BY <1>2, <1>3 DEF MInv, CountsOK, Counted
<1>9. /\ monitor_failed_jobs' \subseteq MonitoredJobs
      /\ monitor_score' = [k \in MonitoredJobs |-> monitor_score'[k]]
  BY <1>2 DEF MInv, ListOK
<1>10. \A k \in MonitoredJobs : monitor_run[k].status \in Written
         => monitor_run'[k].status \in Written /\ monitor_score'[k] = monitor_score[k]
  BY <1>2
<1>11. \A k \in MonitoredJobs : monitor_job'[k].status = "tracked"
         => monitor_job[k].status = "tracked" /\ k \notin ids
  BY <1>2 DEF Monitor!Absent
<1>12. \A k \in MonitoredJobs :
         monitor_job'[k].status = "tracked" /\ monitor_run'[k].status \in Written
           => \/ k \in monitor_failed_jobs'
              \/ /\ monitor_run[k].status \in Written
                 /\ k \notin monitor_failed_jobs
                 /\ monitor_job[k].status = "tracked"
  BY <1>2, <1>11
<1>13. ListOK'
  BY <1>9, <1>10, <1>12, ListStays
<1> QED BY <1>5, <1>7, <1>8, <1>13 DEF MInv

\* A failure is shown, or as many came after it as there is room for.
ShownOrPassed(q, j) ==
    \/ Cardinality(Monitor!newer(j)) >= MonitoredKept
    \/ Cardinality(Monitor!newer(j) \cap monitor_failed_jobs)
         >= MonitoredPage * MonitoredOverread
    \/ Cardinality(Monitor!of_queue(q, Monitor!newer(j) \cap monitor_failed_jobs))
         >= MonitoredPage
    \/ j \in Monitor!_indexed_jobs(q)

\* A tracked failure that is on the list is on its page unless others fill it.
LEMMA IsShown ==
    ASSUME MInv, NEW q, NEW j \in MonitoredJobs,
           monitor_run[j].status = "failed", monitor_job[j] # Monitor!Absent,
           monitor_job[j].status = "tracked", monitor_job[j].queue = q
    PROVE  ShownOrPassed(q, j)
<1>1. CASE j \notin monitor_failed_jobs
  BY <1>1 DEF MInv, ListOK, Written, ShownOrPassed
<1>2. CASE j \in monitor_failed_jobs
  <2> DEFINE L == monitor_failed_jobs
             N == Monitor!newer(j) \cap L
             W == Monitor!newest(MonitoredPage * MonitoredOverread, L)
  <2>1. \A k \in L : monitor_score[k] > monitor_score[j] => k \in N
    <3>1. \A k \in L : k \in MonitoredJobs /\ monitor_run[k].status \in Written
      BY DEF MInv, ListOK, JobsOK, JobOK
    <3> QED BY <3>1 DEF Monitor!newer, Written
  <2>2. IsFiniteSet(N) /\ IsFiniteSet(Monitor!of_queue(q, N))
    BY FS_Subset, ConsoleAssumption DEF Monitor!newer, Monitor!of_queue
  <2>3. MonitoredPage * MonitoredOverread \in Nat /\ MonitoredPage \in Nat
    BY ConsoleAssumption
  <2>4. W \subseteq L
    BY DEF Monitor!newest
  <2>5. Monitor!_indexed_jobs(q) = Monitor!newest(MonitoredPage, Monitor!of_queue(q, W))
    BY DEF Monitor!_indexed_jobs
  <2>6. j \notin W => Cardinality(N) >= MonitoredPage * MonitoredOverread
    <3> HIDE DEF N
    <3> QED BY <1>2, <2>1, <2>2, <2>3, NotNewest
  <2> HIDE DEF W
  <2>7. \A k \in Monitor!of_queue(q, W) :
          monitor_score[k] > monitor_score[j] => k \in Monitor!of_queue(q, N)
    <3> HIDE DEF N
    <3> QED BY <2>1, <2>4 DEF Monitor!of_queue
  <2>8. j \in W => j \in Monitor!of_queue(q, W)
    BY DEF Monitor!of_queue
  <2> HIDE DEF N
  <2>9. j \in W /\ j \notin Monitor!_indexed_jobs(q)
          => Cardinality(Monitor!of_queue(q, N)) >= MonitoredPage
    BY <2>2, <2>3, <2>5, <2>7, <2>8, NotNewest
  <2>10. \/ Cardinality(N) >= MonitoredPage * MonitoredOverread
         \/ Cardinality(Monitor!of_queue(q, N)) >= MonitoredPage
         \/ j \in Monitor!_indexed_jobs(q)
    BY <2>6, <2>9
  <2> QED BY <2>10 DEF ShownOrPassed, N
<1> QED BY <1>1, <1>2

\* Unless as many jobs failed after it as the list keeps or the console reads, or as its own
\* queue's page holds, a failed job that is still tracked is shown with its error, as long as
\* nobody purges its queue; and the card of the queue counts its failures, whatever is purged
\* from other queues at the same time (queue_service.py, signals.py).
THEOREM FailuresStay == Monitor!Spec => []FailuresAreKept
<1>1. MInv /\ [Monitor!Next]_(Monitor!monitorVars) => MInv'
  <2> SUFFICES ASSUME MInv, [Monitor!Next]_(Monitor!monitorVars) PROVE MInv'
    OBVIOUS
  <2>1. ASSUME UNCHANGED <<monitor_run, monitor_job, monitor_failed_count,
               monitor_failed_jobs, monitor_score, monitor_purge, monitor_purged_queues>> PROVE MInv'
    <3>1. JobsOK' /\ PurgesOK'
      BY <2>1 DEF MInv, JobsOK, JobOK, PurgesOK, Purged
    <3>2. CountsOK'
      BY <2>1 DEF MInv, CountsOK, Counted
    <3>3. ListOK'
      BY <2>1 DEF MInv, ListOK, Monitor!newer
    <3> QED BY <3>1, <3>2, <3>3 DEF MInv
  <2>2. ASSUME NEW j \in MonitoredJobs, NEW q \in MonitoredQueues, Monitor!submit(j, q)
        PROVE MInv'
    BY <2>2, Sent DEF Monitor!submit
  <2>3. ASSUME NEW j \in MonitoredJobs, NEW new \in MonitoredJobs,
               Monitor!retry_job(j, new) PROVE MInv'
    <3>1. PICK q, a : /\ monitor_run' =
                           [monitor_run EXCEPT ![new] =
                             [status |-> "queued", queue |-> q, args |-> a]]
                      /\ <<q, a>> \in {<<monitor_job[j].queue, "whole">>,
                           <<"celery", "none">>}
      BY <2>3 DEF Monitor!retry_job
    <3>2. q \in MonitoredQueues \cup {"celery"} /\ a \in {"whole", "none"}
      BY <2>3, <3>1 DEF Monitor!retry_job, MInv, JobsOK, JobOK, JobRows, Monitor!Absent
    <3> QED BY <2>3, <3>1, <3>2, Sent DEF Monitor!retry_job
  <2>4. ASSUME NEW q \in MonitoredQueues, Monitor!pause_queue(q) \/ Monitor!resume_queue(q)
        PROVE MInv'
    BY <2>1, <2>4 DEF Monitor!pause_queue, Monitor!resume_queue
  <2>5. CASE Monitor!logStep \/ Monitor!healthStep \/ UNCHANGED Monitor!monitorVars
    BY <2>1, <2>5 DEF Monitor!logStep, Monitor!bump, Monitor!begin_capture, Monitor!create,
       Monitor!resolve, Monitor!delete, Monitor!resolve_all_by_fingerprint,
       Monitor!stream_logs, Monitor!unchangedLogs, Monitor!healthStep,
       Monitor!probe_database, Monitor!probe_smtp, Monitor!probe_celery,
       Monitor!push_latency, Monitor!hset, Monitor!begin_invalidate,
       Monitor!invalidate_health_cache, Monitor!expire_cache, Monitor!things_change,
       Monitor!unchangedHealth, Monitor!monitorVars, Monitor!jobVars
  <2> QED BY <2>2, <2>3, <2>4, <2>5, Started, Succeeded, FailureCounted, Listed, Trimmed, Failed,
             Expired, PurgeBegins, PurgeEnds DEF Monitor!Next, Monitor!jobStep
<1>2. MInv => FailuresAreKept
  <2> SUFFICES ASSUME MInv, NEW q \in MonitoredQueues \ monitor_purged_queues
               PROVE  /\ \A j \in MonitoredJobs :
                            monitor_run[j].status = "failed" /\ monitor_run[j].queue = q
                              /\ monitor_job[j] # Monitor!Absent
                                => monitor_job[j].failed /\ ShownOrPassed(q, j)
                      /\ Monitor!queue_cards(q).failed = Cardinality(Counted(q))
    BY SameSize DEF FailuresAreKept, Monitor!FailuresAreKept, Counted, Counts, Written,
       ShownOrPassed
  <2>1. Monitor!queue_cards(q).failed = Cardinality(Counted(q))
    BY DEF Monitor!queue_cards, MInv, CountsOK
  <2>2. ASSUME NEW j \in MonitoredJobs, monitor_run[j].status = "failed",
               monitor_run[j].queue = q, monitor_job[j] # Monitor!Absent
        PROVE  monitor_job[j].failed /\ ShownOrPassed(q, j)
    <3>1. /\ monitor_job[j].failed /\ monitor_job[j].status = "tracked"
          /\ monitor_job[j].queue = q
      BY <2>2 DEF MInv, JobsOK, JobOK, JobRows
    <3> QED BY <2>2, <3>1, IsShown
  <2> QED BY <2>1, <2>2
<1> QED BY <1>1, <1>2, InitMInv, PTL DEF Monitor!Spec

-----------------------------------------------------------------------------
(* The log: the live tail passes over no entry. *)

\* No entry is later than the last transaction.
Entries(now) ==
    [status : {"there"}, fingerprint : MonitoredFingerprints, resolved : BOOLEAN, count :
      Nat, created : 0..now]
Cursors == [cursor : Nat, shown : SUBSET MonitoredLogs]

LInv ==
    /\ monitor_clock \in Nat
    /\ monitor_log \in [MonitoredLogs -> Entries(monitor_clock) \cup {Monitor!Absent}]
    /\ monitor_capture = [c \in MonitoredCaptures |-> monitor_capture[c]]
    /\ \A c \in MonitoredCaptures : monitor_capture[c].op = "capture" =>
        /\ monitor_capture[c].fingerprint \in MonitoredFingerprints
        /\ monitor_capture[c].now \in 0..monitor_clock /\ monitor_capture[c].count \in Nat
    /\ monitor_tail \in [MonitoredTails -> Cursors]

\* Nothing was logged yet.
LEMMA InitLInv == Monitor!Init => LInv
  BY DEF Monitor!Init, LInv, Monitor!Idle, Cursors

\* A capture ends, or none does.
LEMMA CaptureEnds ==
    ASSUME LInv, monitor_clock' = monitor_clock,
           monitor_log' \in [MonitoredLogs -> Entries(monitor_clock) \cup {Monitor!Absent}],
           UNCHANGED monitor_capture
             \/ \E c \in MonitoredCaptures :
                  monitor_capture' = [monitor_capture EXCEPT ![c] = Monitor!Idle],
           monitor_tail' \in [MonitoredTails -> Cursors]
    PROVE  LInv'
<1>1. monitor_capture' = [c \in MonitoredCaptures |-> monitor_capture'[c]]
  BY DEF LInv
<1>2. \A c \in MonitoredCaptures : monitor_capture'[c] = monitor_capture[c]
  \/ monitor_capture'[c] = Monitor!Idle
  BY DEF LInv
<1> QED BY <1>1, <1>2 DEF LInv, Monitor!Idle

\* An exception is captured: what it found is an entry.
LEMMA Captured ==
    ASSUME LInv, NEW c \in MonitoredCaptures, NEW f \in MonitoredFingerprints,
           Monitor!begin_capture(c, f)
    PROVE  LInv'
<1>1. PICK found \in IF Monitor!open_rows(f) = {} THEN {{}} ELSE
  {{l} : l \in Monitor!latest(Monitor!open_rows(f))} :
        monitor_capture' = [monitor_capture EXCEPT ![c] =
          [op |-> "capture", fingerprint |-> f, now |-> monitor_clock',
                    existing |-> found,
                    count |-> IF found = {} THEN 0 ELSE
                      monitor_log[CHOOSE l \in found : TRUE].count]]
  BY DEF Monitor!begin_capture
<1>2. monitor_clock' = monitor_clock + 1 /\ UNCHANGED <<monitor_log, monitor_tail>>
  BY DEF Monitor!begin_capture
<1>3. PICK n : n = IF found = {} THEN 0 ELSE monitor_log[CHOOSE l \in found : TRUE].count
  OBVIOUS
<1>4. n \in Nat
  <2>1. CASE found = {}
    BY <1>3, <2>1
  <2>2. CASE found # {}
    <3>1. PICK l \in Monitor!latest(Monitor!open_rows(f)) : found = {l}
      BY <1>1, <2>2
    <3>2. (CHOOSE k \in found : TRUE) = l
      BY <3>1
    <3>3. l \in MonitoredLogs /\ monitor_log[l] # Monitor!Absent
      BY <3>1 DEF Monitor!latest, Monitor!open_rows
    <3>4. monitor_log[l] \in Entries(monitor_clock)
      BY <3>3 DEF LInv
    <3> QED BY <1>3, <2>2, <3>2, <3>4 DEF Entries
  <2> QED BY <2>1, <2>2
<1>5. monitor_capture' = [monitor_capture EXCEPT ![c] = [op |-> "capture",
  fingerprint |-> f, now |-> monitor_clock',
                                                        existing |-> found, count |-> n]]
  BY <1>1, <1>3
<1>6. Entries(monitor_clock) \subseteq Entries(monitor_clock')
  BY <1>2 DEF LInv, Entries
<1>7. monitor_log' \in [MonitoredLogs -> Entries(monitor_clock') \cup {Monitor!Absent}]
  BY <1>2, <1>6 DEF LInv
<1>8. monitor_capture' = [d \in MonitoredCaptures |-> monitor_capture'[d]]
  BY <1>5 DEF LInv
<1>9. \A d \in MonitoredCaptures : monitor_capture'[d].op = "capture" =>
        /\ monitor_capture'[d].fingerprint \in MonitoredFingerprints
        /\ monitor_capture'[d].now \in 0..monitor_clock'
        /\ monitor_capture'[d].count \in Nat
  <2> SUFFICES ASSUME NEW d \in MonitoredCaptures, monitor_capture'[d].op = "capture"
               PROVE  /\ monitor_capture'[d].fingerprint \in MonitoredFingerprints
                      /\ monitor_capture'[d].now \in 0..monitor_clock'
                      /\ monitor_capture'[d].count \in Nat
    OBVIOUS
  <2>1. CASE d = c
    BY <1>2, <1>4, <1>5, <2>1 DEF LInv
  <2>2. CASE d # c
    BY <1>2, <1>5, <2>2 DEF LInv
  <2> QED BY <2>1, <2>2
<1> QED BY <1>2, <1>7, <1>8, <1>9 DEF LInv

\* An entry is bumped, made, resolved or deleted.
LEMMA EntryChanges ==
    ASSUME LInv,
           \/ \E c \in MonitoredCaptures : Monitor!bump(c)
                \/ \E l \in MonitoredLogs : Monitor!create(c, l)
           \/ \E l \in MonitoredLogs : Monitor!resolve(l) \/ Monitor!delete(l)
           \/ \E f \in MonitoredFingerprints : Monitor!resolve_all_by_fingerprint(f)
    PROVE  LInv'
<1>1. ASSUME NEW c \in MonitoredCaptures, Monitor!bump(c) PROVE LInv'
  <2>1. monitor_capture[c].count + 1 \in Nat
    BY <1>1 DEF Monitor!bump, LInv
  <2>2. monitor_log' \in [MonitoredLogs -> Entries(monitor_clock) \cup {Monitor!Absent}]
    BY <1>1, <2>1 DEF Monitor!bump, LInv, Entries
  <2> QED BY <1>1, <2>2, CaptureEnds DEF Monitor!bump, LInv
<1>2. ASSUME NEW c \in MonitoredCaptures, NEW l \in MonitoredLogs, Monitor!create(c, l)
      PROVE LInv'
  <2>1. monitor_log' \in [MonitoredLogs -> Entries(monitor_clock) \cup {Monitor!Absent}]
    BY <1>2 DEF Monitor!create, LInv, Entries
  <2> QED BY <1>2, <2>1, CaptureEnds DEF Monitor!create, LInv
<1>3. ASSUME NEW l \in MonitoredLogs, Monitor!resolve(l) PROVE LInv'
  <2>1. monitor_log' \in [MonitoredLogs -> Entries(monitor_clock) \cup {Monitor!Absent}]
    BY <1>3 DEF Monitor!resolve, LInv, Entries
  <2> QED BY <1>3, <2>1, CaptureEnds DEF Monitor!resolve, LInv
<1>4. ASSUME NEW l \in MonitoredLogs, Monitor!delete(l) PROVE LInv'
  <2>1. monitor_log' \in [MonitoredLogs -> Entries(monitor_clock) \cup {Monitor!Absent}]
    BY <1>4 DEF Monitor!delete, LInv
  <2>2. monitor_tail' \in [MonitoredTails -> Cursors]
    BY <1>4 DEF Monitor!delete, LInv, Cursors
  <2> QED BY <1>4, <2>1, <2>2, CaptureEnds DEF Monitor!delete
<1>5. ASSUME NEW f \in MonitoredFingerprints, Monitor!resolve_all_by_fingerprint(f)
      PROVE LInv'
  <2>1. ASSUME NEW l \in Monitor!open_rows(f)
        PROVE  [monitor_log[l] EXCEPT !.resolved = TRUE] \in Entries(monitor_clock)
    <3>1. monitor_log[l] \in Entries(monitor_clock)
      BY DEF LInv, Monitor!open_rows
    <3> QED BY <3>1 DEF Entries
  <2>2. monitor_log' \in [MonitoredLogs -> Entries(monitor_clock) \cup {Monitor!Absent}]
    BY <1>5, <2>1 DEF Monitor!resolve_all_by_fingerprint, LInv
  <2> QED BY <1>5, <2>2, CaptureEnds DEF Monitor!resolve_all_by_fingerprint, LInv
<1> QED BY <1>1, <1>2, <1>3, <1>4, <1>5

\* The least of some natural numbers.
LEMMA Least ==
    ASSUME NEW S \in SUBSET Nat, S # {}
    PROVE  \E n \in S : \A m \in S : n <= m
<1> DEFINE Before == {mn \in Nat \X Nat : mn[1] < mn[2]}
<1>1. IsWellFoundedOn(Before, Nat)
  BY NatLessThanWellFounded DEF OpToRel
<1>2. PICK n \in S : \A m \in S : ~(<<m, n>> \in Before)
  BY <1>1, WFMin
<1>3. ASSUME NEW m \in S PROVE n <= m
  <2>1. m \in Nat /\ n \in Nat
    OBVIOUS
  <2>2. ~(m < n)
    BY <1>2, <2>1
  <2> QED BY <2>1, <2>2
<1> QED BY <1>3

\* Some entry of a set is the earliest.
LEMMA Earliest ==
    ASSUME LInv, NEW S \in SUBSET MonitoredLogs, S # {},
           \A l \in S : monitor_log[l] # Monitor!Absent
    PROVE  \E l \in S : \A m \in S : monitor_log[l].created <= monitor_log[m].created
<1> DEFINE At == {monitor_log[l].created : l \in S}
<1>1. \A l \in S : monitor_log[l].created \in Nat
  BY DEF LInv, Entries
<1>2. At \in SUBSET Nat /\ At # {}
  BY <1>1
<1>3. PICK n \in At : \A m \in At : n <= m
  BY <1>2, Least
<1> QED BY <1>3

\* Some entry of a set is the latest.
LEMMA Latest ==
    ASSUME LInv, NEW S \in SUBSET MonitoredLogs, S # {},
           \A l \in S : monitor_log[l] # Monitor!Absent
    PROVE  \E l \in S : \A m \in S : monitor_log[m].created <= monitor_log[l].created
<1> DEFINE Ago == {monitor_clock - monitor_log[l].created : l \in S}
<1>1. \A l \in S : monitor_log[l].created \in 0..monitor_clock
  BY DEF LInv, Entries
<1>2. Ago \in SUBSET Nat /\ Ago # {}
  BY <1>1 DEF LInv
<1>3. PICK n \in Ago : \A m \in Ago : n <= m
  BY <1>2, Least
<1>4. PICK l \in S : monitor_clock - monitor_log[l].created = n
  BY <1>3
<1>5. ASSUME NEW m \in S PROVE monitor_log[m].created <= monitor_log[l].created
  <2>1. monitor_clock - monitor_log[l].created <= monitor_clock - monitor_log[m].created
    BY <1>3, <1>4
  <2> QED BY <1>1, <2>1 DEF LInv
<1> QED BY <1>5

\* What a poll returns: the entries up to the cursor it returns, and one of them is there.
LEMMA PollIsWhole ==
    ASSUME LInv, NEW t \in MonitoredTails, Monitor!after(t) # {}
    PROVE  /\ Monitor!next_cursor(Monitor!list_since(t)) \in Nat
           /\ Monitor!list_since(t) \subseteq MonitoredLogs
           /\ \A l \in Monitor!after(t) :
                monitor_log[l].created <= Monitor!next_cursor(Monitor!list_since(t))
                => l \in Monitor!list_since(t)
<1> DEFINE Sooner(l) == {m \in Monitor!after(t) :
  monitor_log[m].created < monitor_log[l].created}
<1>1. Monitor!after(t) \in SUBSET MonitoredLogs
  /\ \A l \in Monitor!after(t) : monitor_log[l] # Monitor!Absent
       /\ monitor_log[l].created \in Nat
  BY DEF Monitor!after, LInv, Entries
<1>2. PICK first \in Monitor!after(t) : \A m \in Monitor!after(t) :
  monitor_log[first].created <= monitor_log[m].created
  BY <1>1, Earliest
<1>3. Sooner(first) = {}
  BY <1>1, <1>2
<1>4. Cardinality(Sooner(first)) < MonitoredLimit
  <2>1. MonitoredLimit \in Nat \ {0}
    BY ConsoleAssumption
  <2>2. Cardinality(Sooner(first)) = 0
    BY <1>3, FS_EmptySet
  <2> QED BY <2>1, <2>2
<1>5. first \in Monitor!list_since(t)
  BY <1>4, SameSize DEF Monitor!list_since
<1>6. Monitor!list_since(t) \subseteq Monitor!after(t)
  BY DEF Monitor!list_since
<1>7. \E last \in Monitor!list_since(t) : \A m \in Monitor!list_since(t) :
  monitor_log[m].created <= monitor_log[last].created
  BY <1>1, <1>5, <1>6, Latest
<1>8. PICK last \in Monitor!list_since(t) :
  Monitor!next_cursor(Monitor!list_since(t)) = monitor_log[last].created
  BY <1>7 DEF Monitor!next_cursor
<1>9. ASSUME NEW l \in Monitor!after(t),
             monitor_log[l].created <= monitor_log[last].created
             PROVE l \in Monitor!list_since(t)
  <2>1. Sooner(l) \in SUBSET Sooner(last)
    BY <1>1, <1>6, <1>9
  <2>2. IsFiniteSet(Sooner(last))
    <3>1. Sooner(last) \in SUBSET MonitoredLogs
      BY <1>1
    <3> QED BY <3>1, FS_Subset, ConsoleAssumption
  <2>3. IsFiniteSet(Sooner(l)) /\ Cardinality(Sooner(l)) <= Cardinality(Sooner(last))
    BY <2>1, <2>2, FS_Subset
  <2>4. Cardinality(Sooner(l)) \in Nat /\ Cardinality(Sooner(last)) \in Nat
    BY <2>2, <2>3, FS_CardinalityType
  <2>5. Cardinality(Sooner(last)) < MonitoredLimit
    BY SameSize DEF Monitor!list_since
  <2>6. Cardinality(Sooner(l)) < MonitoredLimit
    BY <2>3, <2>4, <2>5, ConsoleAssumption
  <2> QED BY <2>6, SameSize DEF Monitor!list_since
<1> QED BY <1>1, <1>6, <1>8, <1>9

\* A poll moves its own cursor, and keeps what it was shown.
LEMMA Polled ==
    ASSUME LInv, NEW t \in MonitoredTails, Monitor!stream_logs(t)
    PROVE  /\ LInv'
           /\ \A u \in MonitoredTails \ {t} : monitor_tail'[u] = monitor_tail[u]
           /\ monitor_tail'[t].cursor = Monitor!next_cursor(Monitor!list_since(t))
           /\ Monitor!list_since(t) \subseteq monitor_tail'[t].shown
<1>1. PICK new : new = [cursor |-> Monitor!next_cursor(Monitor!list_since(t)),
                        shown |-> monitor_tail[t].shown \cup Monitor!list_since(t)]
  OBVIOUS
<1>2. monitor_tail' = [monitor_tail EXCEPT ![t] = new]
  /\ UNCHANGED <<monitor_log, monitor_capture, monitor_clock>>
  BY <1>1 DEF Monitor!stream_logs, LInv
<1>3. new \in Cursors
  BY <1>1, PollIsWhole DEF Monitor!stream_logs, LInv, Cursors
<1>4. monitor_tail' \in [MonitoredTails -> Cursors] /\ monitor_tail'[t] = new
  BY <1>2, <1>3 DEF LInv
<1>5. LInv'
  BY <1>2, <1>4, CaptureEnds DEF LInv
<1> QED BY <1>1, <1>2, <1>4, <1>5

\* A poll of the live tail shows every entry up to where it moves the cursor, however many
\* there are and whatever is captured, resolved and deleted meanwhile (app_logs.py,
\* stream_logs).
THEOREM TailIsWhole == Monitor!Spec => TailSkipsNothing
<1>1. ASSUME LInv, UNCHANGED Monitor!logVars PROVE LInv' /\ UNCHANGED monitor_tail
  BY <1>1, CaptureEnds DEF Monitor!logVars, LInv
<1>2. ASSUME UNCHANGED Monitor!monitorVars \/ Monitor!jobStep \/ Monitor!healthStep
      PROVE UNCHANGED Monitor!logVars
  <2>1. CASE Monitor!jobStep
    BY <2>1 DEF Monitor!jobStep, Monitor!submit, Monitor!on_task_prerun,
       Monitor!on_task_postrun, Monitor!count_failure, Monitor!list_failure,
       Monitor!trim_failures, Monitor!on_task_failure, Monitor!expire_job, Monitor!retry_job,
       Monitor!purge_failed,
       Monitor!begin_purge, Monitor!pause_queue, Monitor!resume_queue, Monitor!unchangedJobs
  <2>2. CASE Monitor!healthStep
    BY <2>2 DEF Monitor!healthStep, Monitor!probe_database, Monitor!probe_smtp,
       Monitor!probe_celery, Monitor!push_latency, Monitor!hset, Monitor!begin_invalidate,
       Monitor!invalidate_health_cache, Monitor!expire_cache, Monitor!things_change,
       Monitor!unchangedHealth
  <2> QED BY <1>2, <2>1, <2>2 DEF Monitor!monitorVars
<1>3. LInv /\ [Monitor!Next]_(Monitor!monitorVars) => LInv'
  BY <1>1, <1>2, Captured, EntryChanges, Polled DEF Monitor!Next, Monitor!logStep
<1>4. ASSUME LInv, [Monitor!Next]_(Monitor!monitorVars), NEW t \in MonitoredTails,
             NEW l \in MonitoredLogs,
             monitor_log[l] # Monitor!Absent, monitor_log[l] = monitor_log'[l],
               monitor_tail[t].cursor < monitor_log[l].created,
             monitor_log[l].created <= monitor_tail'[t].cursor
      PROVE  l \in monitor_tail'[t].shown
  <2>1. monitor_tail[t].cursor \in Nat /\ monitor_log[l].created \in Nat
    BY <1>4 DEF LInv, Entries, Cursors
  <2>2. monitor_tail'[t].cursor # monitor_tail[t].cursor
    BY <1>4, <2>1
  <2>3. ~UNCHANGED Monitor!logVars
    BY <2>2 DEF Monitor!logVars
  <2>4. ~\E k \in MonitoredLogs : Monitor!delete(k)
    <3> SUFFICES ASSUME NEW k \in MonitoredLogs, Monitor!delete(k)
        PROVE monitor_tail'[t].cursor = monitor_tail[t].cursor
      BY <2>2
    <3> QED BY <1>4 DEF Monitor!delete, LInv, Cursors
  <2>5. PICK u \in MonitoredTails : Monitor!stream_logs(u)
    BY <1>2, <1>4, <2>2, <2>3, <2>4 DEF Monitor!Next, Monitor!logStep, Monitor!bump,
       Monitor!begin_capture, Monitor!create, Monitor!resolve,
       Monitor!resolve_all_by_fingerprint
  <2>6. u = t
    BY <1>4, <2>2, <2>5, Polled
  <2>7. l \in Monitor!after(t)
    BY <1>4 DEF Monitor!after
  <2> QED BY <1>4, <2>5, <2>6, <2>7, Polled, PollIsWhole
<1>5. LInv /\ [Monitor!Next]_(Monitor!monitorVars) =>
        [\A t \in MonitoredTails, l \in MonitoredLogs :
            monitor_log[l] # Monitor!Absent /\ monitor_log[l] = monitor_log'[l]
              /\ monitor_tail[t].cursor < monitor_log[l].created
            /\ monitor_log[l].created <= monitor_tail'[t].cursor
                 => l \in monitor_tail'[t].shown]_(Monitor!monitorVars)
  BY <1>4
<1> QED BY <1>3, <1>5, InitLInv, PTL DEF Monitor!Spec, TailSkipsNothing,
           Monitor!TailSkipsNothing

-----------------------------------------------------------------------------
(* Pictures: what is served is whole. *)

Filed == \E S : images_stored \in Seq(S)

\* What is kept of a picture under a key, and what is to be served of it.
Variant(key) == Images!transcode(key[1], key[2], key[3], key[4])
Asked(c, url) ==
    IF Images!legible(url.file) THEN Variant(Images!key_of(c, url)) ELSE
      Images!original(url.file)

\* The disk keeps whole variants of its keys, the caches on the way what their Accept header
\* asks for.
DiskOK ==
    \A d \in images_disk : d.name[2] = "cached" =>
        d.name[1][1] \in Images!Ids /\ Images!legible(d.name[1][1])
          /\ d.body = Variant(d.name[1])
EdgeOK ==
    \A e \in images_edge :
        e.url.file \in Images!Ids
          /\ (Images!varies(e.url.file) => e.body = Asked(e.accept, e.url))
EncodingOK ==
    /\ images_encoding = [c \in ImageClients |-> images_encoding[c]]
    /\ \A c \in ImageClients : images_encoding[c] # Images!Idle =>
            images_encoding[c].url.file \in Images!Ids
              /\ Images!varies(images_encoding[c].url.file)
ShownOK ==
    /\ images_shown = [c \in ImageClients |-> images_shown[c]]
    /\ \A c \in ImageClients : images_shown[c] # Images!Nothing =>
        /\ images_shown[c].url.file \in Images!Ids
        /\ Images!varies(images_shown[c].url.file)
             => images_shown[c].body = Asked(c, images_shown[c].url)
IInv == Filed /\ DiskOK /\ EdgeOK /\ EncodingOK /\ ShownOK

\* Nothing is uploaded yet.
LEMMA InitIInv == Images!Init => IInv
<1> SUFFICES ASSUME Images!Init PROVE IInv
  OBVIOUS
<1>1. images_stored \in Seq({})
  BY DEF Images!Init
<1> QED BY <1>1 DEF Images!Init, IInv, Filed, DiskOK, EdgeOK, EncodingOK, ShownOK

\* A key begins with the file.
LEMMA KeyOfFile == ASSUME NEW c, NEW url PROVE Images!key_of(c, url)[1] = url.file
  BY DEF Images!key_of, Images!cache_key

\* A file is never changed, so that neither is what is to be served of it.
LEMMA FilesStay ==
    ASSUME Images!Ids \subseteq Images!Ids',
           \A i \in Images!Ids : images_stored'[i] = images_stored[i]
    PROVE  /\ \A i \in Images!Ids : Images!varies(i)' = Images!varies(i)
                /\ Images!legible(i)' = Images!legible(i)
           /\ \A key : key[1] \in Images!Ids => Variant(key)' = Variant(key)
           /\ \A c, url : url.file \in Images!Ids => Asked(c, url)' = Asked(c, url)
<1>1. \A i \in Images!Ids : /\ Images!varies(i)' = Images!varies(i)
                            /\ Images!legible(i)' = Images!legible(i)
                            /\ Images!original(i)' = Images!original(i)
  BY DEF Images!varies, Images!legible, Images!original
<1>2. \A key : key[1] \in Images!Ids => Variant(key)' = Variant(key)
  BY DEF Variant, Images!transcode
<1>3. ASSUME NEW c, NEW url, url.file \in Images!Ids PROVE Asked(c, url)' = Asked(c, url)
  <2>1. Images!key_of(c, url)' = Images!key_of(c, url)
    BY <1>3 DEF Images!key_of
  <2>2. Variant(Images!key_of(c, url))' = Variant(Images!key_of(c, url))
    BY <1>2, <1>3, <2>1, KeyOfFile DEF Variant, Images!transcode
  <2> QED BY <1>1, <1>3, <2>2 DEF Asked
<1> QED BY <1>1, <1>2, <1>3

\* An upload.
LEMMA FileAdded ==
    ASSUME IInv, NEW file, Images!upload_full(file), UNCHANGED Images!pictureVars
    PROVE  IInv'
<1>1. Filed' /\ Images!Ids \subseteq Images!Ids'
  /\ \A i \in Images!Ids : images_stored'[i] = images_stored[i]
  <2>1. PICK S : images_stored \in Seq(S)
    BY DEF IInv, Filed
  <2> DEFINE T == S \cup {file}
  <2>2. images_stored \in Seq(T) /\ file \in T
    /\ images_stored' = Append(images_stored, file)
    BY <2>1 DEF Images!upload_full
  <2> HIDE DEF T
  <2>3. /\ images_stored' \in Seq(T) /\ Images!Ids \subseteq Images!Ids'
        /\ \A i \in Images!Ids : images_stored'[i] = images_stored[i]
    BY <2>2 DEF Images!Ids
  <2> QED BY <2>3 DEF Filed
<1>2. UNCHANGED <<images_disk, images_edge, images_encoding, images_shown>>
  BY DEF Images!pictureVars
<1>3. DiskOK'
  BY <1>1, <1>2, FilesStay DEF IInv, DiskOK
<1>4. EdgeOK'
  BY <1>1, <1>2, FilesStay DEF IInv, EdgeOK
<1>5. EncodingOK'
  BY <1>1, <1>2, FilesStay DEF IInv, EncodingOK
<1>6. ShownOK'
  BY <1>1, <1>2, FilesStay DEF IInv, ShownOK
<1> QED BY <1>1, <1>3, <1>4, <1>5, <1>6 DEF IInv

\* A step that uploads nothing.
LEMMA SameFiles ==
    ASSUME UNCHANGED images_stored
    PROVE  /\ Images!Ids' = Images!Ids
           /\ \A i \in Images!Ids : Images!varies(i)' = Images!varies(i)
                /\ Images!legible(i)' = Images!legible(i)
           /\ \A key : key[1] \in Images!Ids => Variant(key)' = Variant(key)
           /\ \A c, url : url.file \in Images!Ids => Asked(c, url)' = Asked(c, url)
<1>1. Images!Ids' = Images!Ids /\ \A i \in Images!Ids : images_stored'[i] = images_stored[i]
  BY DEF Images!Ids
<1> QED BY <1>1, FilesStay

\* A client is answered.
LEMMA Answered ==
    ASSUME IInv, UNCHANGED images_stored, NEW c \in ImageClients, NEW url,
           url.file \in Images!Ids, NEW body,
           Images!varies(url.file) => body = Asked(c, url),
           images_shown' = [images_shown EXCEPT ![c] = [body |-> body, url |-> url]]
    PROVE  ShownOK'
<1> DEFINE answer == [body |-> body, url |-> url]
<1>1. \A x \in ImageClients : images_shown'[x] = IF x = c THEN answer ELSE images_shown[x]
  BY DEF IInv, ShownOK
<1>2. images_shown' = [x \in ImageClients |-> images_shown'[x]]
  BY DEF IInv, ShownOK
<1>3. ASSUME NEW x \in ImageClients, images_shown'[x] # Images!Nothing
      PROVE  /\ images_shown'[x].url.file \in Images!Ids
             /\ Images!varies(images_shown'[x].url.file)
                  => images_shown'[x].body = Asked(x, images_shown'[x].url)
  BY <1>1, <1>3 DEF IInv, ShownOK
<1> QED BY <1>2, <1>3, SameFiles DEF ShownOK

\* The answer of the server stays in the caches on its way.
LEMMA Cached ==
    ASSUME IInv, UNCHANGED images_stored, NEW c \in ImageClients, NEW url,
           url.file \in Images!Ids, NEW body,
           Images!varies(url.file) => body = Asked(c, url),
           Images!file_response(c, url, body)
    PROVE  EdgeOK' /\ ShownOK'
<1>1. ShownOK'
  BY Answered DEF Images!file_response
<1> DEFINE entry == [url |-> url, accept |-> Images!cache_name(c, url.file), body |-> body]
<1>2. images_edge' = images_edge \cup {entry}
  BY DEF Images!file_response
<1>3. ASSUME NEW e \in images_edge'
      PROVE  e.url.file \in Images!Ids
             /\ (Images!varies(e.url.file) => e.body = Asked(e.accept, e.url))
  <2>1. CASE e = entry
    BY <2>1 DEF Images!cache_name
  <2>2. CASE e \in images_edge
    BY <2>2 DEF IInv, EdgeOK
  <2> QED BY <1>2, <2>1, <2>2
<1>4. EdgeOK'
  BY <1>3, SameFiles DEF EdgeOK
<1> QED BY <1>1, <1>4

\* A client asks for a picture.
LEMMA Downloads ==
    ASSUME IInv, NEW c \in ImageClients, Images!download_file(c)
    PROVE  IInv'
<1>1. PICK f, w, q, url :
        /\ f \in Images!Ids /\ w \in ImageWidths /\ q \in ImageQualities
        /\ url = [file |-> f, w |-> w, q |-> q]
        /\ \/ Images!from_edge(c, url)
           \/ Images!unchanged(c, url) \/ Images!variant_hit(c, url)
                \/ Images!variant_miss(c, url)
        /\ UNCHANGED <<images_stored, images_disk>>
  BY DEF Images!download_file
<1>2. images_stored' = images_stored /\ images_disk' = images_disk
  /\ url.file \in Images!Ids
  BY <1>1
<1>3. Filed' /\ DiskOK'
  BY <1>2, SameFiles DEF IInv, DiskOK, Filed
<1>4. ASSUME UNCHANGED images_edge PROVE EdgeOK'
  BY <1>2, <1>4, SameFiles DEF IInv, EdgeOK
<1>5. ASSUME UNCHANGED images_shown PROVE ShownOK'
  BY <1>2, <1>5, SameFiles DEF IInv, ShownOK
<1>6. ASSUME UNCHANGED images_encoding PROVE EncodingOK'
  BY <1>2, <1>6, SameFiles DEF IInv, EncodingOK
<1>7. CASE Images!from_edge(c, url)
  <2>1. PICK e \in images_edge :
          /\ e.url = url /\ e.accept = Images!cache_name(c, url.file)
          /\ images_shown' = [images_shown EXCEPT ![c] = [body |-> e.body, url |-> url]]
          /\ UNCHANGED <<images_edge, images_encoding>>
    BY <1>7 DEF Images!from_edge
  <2>2. Images!varies(url.file) => e.body = Asked(c, url)
    BY <2>1 DEF IInv, EdgeOK, Images!cache_name
  <2>3. ShownOK'
    BY <1>2, <2>1, <2>2, Answered
  <2> QED BY <1>3, <1>4, <1>6, <2>1, <2>3 DEF IInv
<1>8. CASE Images!unchanged(c, url)
  <2>1. EdgeOK' /\ ShownOK'
    BY <1>2, <1>8, Cached DEF Images!unchanged
  <2> QED BY <1>3, <1>6, <1>8, <2>1 DEF Images!unchanged, IInv
<1>9. CASE Images!variant_hit(c, url)
  <2>1. PICK d \in images_disk : d.name = <<Images!key_of(c, url), "cached">>
    /\ Images!file_response(c, url, d.body)
    BY <1>9 DEF Images!variant_hit, Images!on_disk, Images!cached_path
  <2>2. d.name[1] = Images!key_of(c, url) /\ d.name[2] = "cached"
    BY <2>1
  <2>3. Images!legible(url.file) /\ d.body = Variant(Images!key_of(c, url))
    BY <2>2, KeyOfFile DEF IInv, DiskOK
  <2>4. d.body = Asked(c, url)
    BY <2>3 DEF Asked
  <2>5. EdgeOK' /\ ShownOK'
    BY <1>2, <2>1, <2>4, Cached
  <2> QED BY <1>3, <1>6, <1>9, <2>5 DEF Images!variant_hit, IInv
<1>10. CASE Images!variant_miss(c, url)
  <2> DEFINE q1 == [op |-> "encode", url |-> url]
  <2>1. images_encoding' = [images_encoding EXCEPT ![c] = q1]
    /\ UNCHANGED <<images_edge, images_shown>> /\ Images!varies(url.file)
    BY <1>10 DEF Images!variant_miss
  <2>2. q1.url = url
    OBVIOUS
  <2> HIDE DEF q1
  <2>3. \A x \in ImageClients : images_encoding'[x] = IF x = c THEN q1 ELSE
    images_encoding[x]
    BY <2>1 DEF IInv, EncodingOK
  <2>4. images_encoding' = [x \in ImageClients |-> images_encoding'[x]]
    BY <2>1 DEF IInv, EncodingOK
  <2>5. ASSUME NEW x \in ImageClients, images_encoding'[x] # Images!Idle
        PROVE  images_encoding'[x].url.file \in Images!Ids
               /\ Images!varies(images_encoding'[x].url.file)
    BY <1>2, <2>1, <2>2, <2>3, <2>5 DEF IInv, EncodingOK
  <2>6. EncodingOK'
    BY <1>2, <2>4, <2>5, SameFiles DEF EncodingOK
  <2> QED BY <1>3, <1>4, <1>5, <2>1, <2>6 DEF IInv
<1> QED BY <1>1, <1>7, <1>8, <1>9, <1>10

\* A request ends, or all of them do.
LEMMA EncodingEnds ==
    ASSUME IInv, UNCHANGED images_stored, NEW c \in ImageClients,
           \/ images_encoding' = [images_encoding EXCEPT ![c] = Images!Idle]
           \/ images_encoding' = [x \in ImageClients |-> Images!Idle]
    PROVE  EncodingOK'
<1>1. /\ images_encoding' = [x \in ImageClients |-> images_encoding'[x]]
      /\ \A x \in ImageClients : images_encoding'[x] = Images!Idle
           \/ images_encoding'[x] = images_encoding[x]
  BY DEF IInv, EncodingOK
<1> QED BY <1>1, SameFiles DEF IInv, EncodingOK

\* A picture is encoded, kept and served.
LEMMA Encoded ==
    ASSUME IInv, NEW c \in ImageClients, Images!variant(c)
    PROVE  IInv'
<1>0. PICK url, key : url = images_encoding[c].url /\ key = Images!key_of(c, url)
  OBVIOUS
<1>1. /\ images_encoding[c] # Images!Idle /\ UNCHANGED images_stored
      /\ images_encoding' = [images_encoding EXCEPT ![c] = Images!Idle]
      /\ \/ /\ Images!legible(url.file)
            /\ Images!file_response(c, url, Images!encoded(c))
            /\ \/ images_disk' = {d \in images_disk :
                    d.name \notin {Images!tmp_path(key), Images!cached_path(key)}}
                                 \cup {[name |-> Images!cached_path(key),
                                   body |-> Images!encoded(c)]}
               \/ UNCHANGED images_disk
         \/ ~Images!legible(url.file)
              /\ Images!file_response(c, url, Images!original(url.file))
              /\ UNCHANGED images_disk
  BY <1>0 DEF Images!variant
<1>2. url.file \in Images!Ids /\ Images!varies(url.file)
  BY <1>0, <1>1 DEF IInv, EncodingOK
<1>3. key[1] = url.file
  BY <1>0, KeyOfFile
<1>4. Images!encoded(c) = Variant(key)
  BY <1>0, <1>3 DEF Images!encoded, Variant
<1>5. EncodingOK'
  BY <1>1, EncodingEnds
<1>6. DiskOK'
  <2>1. CASE UNCHANGED images_disk
    BY <1>1, <2>1, SameFiles DEF IInv, DiskOK
  <2>2. CASE /\ Images!legible(url.file)
             /\ images_disk' = {d \in images_disk :
                  d.name \notin {Images!tmp_path(key), Images!cached_path(key)}}
                                 \cup {[name |-> Images!cached_path(key),
                                   body |-> Images!encoded(c)]}
    <3> DEFINE entry == [name |-> Images!cached_path(key), body |-> Variant(key)]
    <3>1. \A d \in images_disk' : d \in images_disk \/ d = entry
      BY <1>4, <2>2
    <3>2. entry.name[1] = key /\ entry.body = Variant(key)
      BY DEF Images!cached_path
    <3> HIDE DEF entry
    <3>3. ASSUME NEW d \in images_disk', d.name[2] = "cached"
          PROVE  /\ d.name[1][1] \in Images!Ids /\ Images!legible(d.name[1][1])
                 /\ d.body = Variant(d.name[1])
      BY <1>2, <1>3, <2>2, <3>1, <3>2, <3>3 DEF IInv, DiskOK
    <3> QED BY <1>1, <3>3, SameFiles DEF DiskOK
  <2> QED BY <1>1, <2>1, <2>2
<1>7. PICK body : /\ Images!file_response(c, url, body)
                  /\ body = IF Images!legible(url.file) THEN Variant(key) ELSE
                       Images!original(url.file)
  BY <1>1, <1>4
<1>8. body = Asked(c, url)
  BY <1>0, <1>7 DEF Asked
<1>9. EdgeOK' /\ ShownOK'
  BY <1>1, <1>2, <1>7, <1>8, Cached
<1>10. Filed'
  BY <1>1 DEF IInv, Filed
<1> QED BY <1>5, <1>6, <1>9, <1>10 DEF IInv

\* The process dies in a write: what it leaves has a name of its own.
LEMMA Crashes ==
    ASSUME IInv, NEW c \in ImageClients, Images!crash(c)
    PROVE  IInv'
<1>1. /\ UNCHANGED <<images_stored, images_edge, images_shown>>
      /\ images_encoding' = [x \in ImageClients |-> Images!Idle]
      /\ Images!write([name |-> Images!tmp_path(Images!key_of(c, images_encoding[c].url)),
           body |-> Images!Half])
  BY DEF Images!crash
<1> DEFINE entry == [name |-> Images!tmp_path(Images!key_of(c, images_encoding[c].url)),
  body |-> Images!Half]
<1>2. \A d \in images_disk' : d \in images_disk \/ d = entry
  BY <1>1 DEF Images!write
<1>3. entry.name[2] = "tmp"
  BY DEF Images!tmp_path
<1> HIDE DEF entry
<1>4. DiskOK'
  BY <1>1, <1>2, <1>3, SameFiles DEF IInv, DiskOK
<1>5. EdgeOK'
  BY <1>1, SameFiles DEF IInv, EdgeOK
<1>6. ShownOK'
  BY <1>1, SameFiles DEF IInv, ShownOK
<1>7. EncodingOK' /\ Filed'
  BY <1>1, EncodingEnds DEF IInv, Filed
<1> QED BY <1>4, <1>5, <1>6, <1>7 DEF IInv

\* Uploads and documents.
LEMMA Others ==
    ASSUME IInv, Images!uploadStep \/ Images!paperStep \/ UNCHANGED Images!filesVars
    PROVE  IInv'
<1>1. UNCHANGED Images!pictureVars
  BY DEF Images!uploadStep, Images!upload_file, Images!upload_event_banner,
     Images!upload_event_candidate_image, Images!upload_candidate_image,
     Images!upload_election_banner, Images!upload_nomination_photo,
     Images!upload_organization_logo, Images!upload_data_uri, Images!upload_avatar,
     Images!remove_avatar, Images!save_image, Images!paperStep, Images!upload_front,
     Images!upload_back, Images!upload_kyc_documents, Images!download_private_file,
     Images!verify_organization, Images!pictureVars, Images!filesVars
<1>2. \/ images_stored' = images_stored
      \/ \E file : Images!upload_full(file)
  BY DEF Images!uploadStep, Images!upload_file, Images!upload_event_banner,
     Images!upload_event_candidate_image, Images!upload_candidate_image,
     Images!upload_election_banner, Images!upload_nomination_photo,
     Images!upload_organization_logo, Images!upload_data_uri, Images!upload_avatar,
     Images!remove_avatar, Images!save_image, Images!paperStep, Images!upload_front,
     Images!upload_back, Images!upload_kyc_documents, Images!download_private_file,
     Images!verify_organization, Images!filesVars
<1>3. CASE images_stored' = images_stored
  <2>1. UNCHANGED <<images_disk, images_edge, images_encoding, images_shown>>
    BY <1>1 DEF Images!pictureVars
  <2>2. DiskOK' /\ EdgeOK'
    BY <1>3, <2>1, SameFiles DEF IInv, DiskOK, EdgeOK
  <2>3. EncodingOK' /\ ShownOK'
    BY <1>3, <2>1, SameFiles DEF IInv, EncodingOK, ShownOK
  <2>4. Filed'
    BY <1>3 DEF IInv, Filed
  <2> QED BY <2>2, <2>3, <2>4 DEF IInv
<1> QED BY <1>1, <1>2, <1>3, FileAdded

\* What is served of a picture is the whole variant that was asked for: of that file, at that
\* width and quality, in a format its client accepts, whichever requests overlap, whatever
\* dies and whoever shares the caches (files.py, _variant).
THEOREM PicturesAreWhole == Images!Spec => []ServedAsAsked
<1>1. IInv => ServedAsAsked
  BY KeyOfFile DEF IInv, ShownOK, ServedAsAsked, Images!ServedAsAsked, Asked, Variant
<1>2. IInv /\ [Images!Next]_(Images!filesVars) => IInv'
  BY Downloads, Encoded, Crashes, Others DEF Images!Next, Images!pictureStep
<1> QED BY <1>1, <1>2, InitIInv, PTL DEF Images!Spec

-----------------------------------------------------------------------------
(* Documents: front and back belong together. *)

Rows == [ext : {p.ext : p \in PaperPictures}, picture : PaperPictures, sealed : BOOLEAN,
  with : Nat]

\* The back names the front that was uploaded before it.
Paired(front, back) ==
    /\ front \in Papers!Ids /\ back \in Papers!Ids
    /\ papers_stored[front].sealed /\ papers_stored[back].sealed
    /\ papers_stored[back].with = front

UploadsOK ==
    /\ papers_upload = [t \in PaperTabs |-> papers_upload[t]]
    /\ \A t \in PaperTabs :
        /\ papers_upload[t].op = "front"
             => papers_upload[t].front \in Papers!Ids
               /\ papers_stored[papers_upload[t].front].sealed
        /\ papers_upload[t].op = "back"
             => Paired(papers_upload[t].front, papers_upload[t].back)

PapersOK == papers_papers # Papers!NoPapers
  => Paired(papers_papers.front, papers_papers.back)
PInv == papers_stored \in Seq(Rows) /\ UploadsOK /\ PapersOK

\* Nothing is uploaded yet.
LEMMA InitPInv == Papers!Init => PInv
  BY DEF Papers!Init, PInv, UploadsOK, PapersOK, Papers!Idle

\* A file gets an id of its own, and the files before it stay.
LEMMA Appended ==
    ASSUME PInv, NEW file \in Rows, Papers!upload_full(file)
    PROVE  /\ papers_stored' \in Seq(Rows)
           /\ Papers!Ids \subseteq Papers!Ids' /\ Len(papers_stored') \in Papers!Ids'
           /\ \A i \in Papers!Ids : papers_stored'[i] = papers_stored[i]
           /\ papers_stored'[Len(papers_stored')] = file
  BY DEF PInv, Papers!upload_full, Papers!Ids

\* A step that uploads no document: what is recorded stays as it is.
LEMMA OtherFiles ==
    ASSUME PInv, papers_stored' \in Seq(Rows), Papers!Ids \subseteq Papers!Ids',
           \A i \in Papers!Ids : papers_stored'[i] = papers_stored[i],
           papers_papers' = papers_papers,
             papers_upload' = papers_upload
               \/ papers_upload' = [t \in PaperTabs |-> Papers!Idle]
    PROVE  PInv'
<1>1. \A i, k : Paired(i, k) => Paired(i, k)'
  BY DEF Paired
<1>2. UploadsOK'
  <2>1. CASE papers_upload' = papers_upload
    BY <1>1, <2>1 DEF PInv, UploadsOK
  <2>2. CASE papers_upload' = [t \in PaperTabs |-> Papers!Idle]
    BY <2>2 DEF UploadsOK, Papers!Idle
  <2> QED BY <2>1, <2>2
<1>3. PapersOK'
  BY <1>1 DEF PInv, PapersOK, Papers!NoPapers
<1> QED BY <1>2, <1>3 DEF PInv

\* A tab goes on to its next step.
LEMMA TabGoes ==
    ASSUME PInv, papers_stored' \in Seq(Rows), Papers!Ids \subseteq Papers!Ids',
           \A i \in Papers!Ids : papers_stored'[i] = papers_stored[i],
           NEW t \in PaperTabs, NEW u, papers_upload' = [papers_upload EXCEPT ![t] = u],
           u.op = "front" => u.front \in Papers!Ids' /\ papers_stored'[u.front].sealed,
           u.op = "back" => /\ u.front \in Papers!Ids' /\ u.back \in Papers!Ids'
                            /\ papers_stored'[u.front].sealed
                            /\ papers_stored'[u.back].sealed
                            /\ papers_stored'[u.back].with = u.front,
           papers_papers' = papers_papers
             \/ (papers_papers' # Papers!NoPapers
                  => Paired(papers_papers'.front, papers_papers'.back))
    PROVE  PInv'
<1>1. \A i, k : Paired(i, k) => Paired(i, k)'
  BY DEF Paired
<1>2. \A x \in PaperTabs : papers_upload'[x] = IF x = t THEN u ELSE papers_upload[x]
  BY DEF PInv, UploadsOK
<1>3. papers_upload' = [x \in PaperTabs |-> papers_upload'[x]]
  BY DEF PInv, UploadsOK
<1>4. ASSUME NEW x \in PaperTabs
      PROVE  /\ papers_upload'[x].op = "front" =>
                           papers_upload'[x].front \in Papers!Ids'
                             /\ papers_stored'[papers_upload'[x].front].sealed
             /\ papers_upload'[x].op = "back"
                  => Paired(papers_upload[x].front, papers_upload[x].back)'
  <2>1. CASE x = t
    BY <1>2, <2>1 DEF Paired
  <2>2. CASE x # t
    BY <1>1, <1>2, <2>2 DEF PInv, UploadsOK, Paired
  <2> QED BY <2>1, <2>2
<1>5. UploadsOK'
  BY <1>3, <1>4 DEF UploadsOK
<1>6. PapersOK'
  BY <1>1 DEF PInv, PapersOK, Papers!NoPapers, Paired
<1> QED BY <1>5, <1>6 DEF PInv

\* The front is stored, encrypted.
LEMMA FrontUploaded ==
    ASSUME PInv, NEW t \in PaperTabs, Papers!upload_front(t)
    PROVE  PInv'
<1>1. PICK file : Papers!upload_full(file)
  /\ \E p \in PaperPictures : file = Papers!encrypted(p, 0)
  BY DEF Papers!upload_front
<1>2. file \in Rows /\ file.sealed
  BY <1>1 DEF Rows, Papers!encrypted
<1>3. /\ papers_stored' \in Seq(Rows) /\ Papers!Ids \subseteq Papers!Ids'
      /\ Len(papers_stored') \in Papers!Ids'
      /\ \A i \in Papers!Ids : papers_stored'[i] = papers_stored[i]
      /\ papers_stored'[Len(papers_stored')].sealed
  BY <1>1, <1>2, Appended
<1> DEFINE u == [op |-> "front", front |-> Len(papers_stored')]
<1>4. papers_upload' = [papers_upload EXCEPT ![t] = u] /\ papers_papers' = papers_papers
  BY DEF Papers!upload_front
<1> QED BY <1>3, <1>4, TabGoes

\* The back is stored with the front, or the front is left behind.
LEMMA BackUploaded ==
    ASSUME PInv, NEW t \in PaperTabs, Papers!upload_back(t)
    PROVE  PInv'
<1>1. papers_upload[t].op = "front" /\ papers_papers' = papers_papers
  BY DEF Papers!upload_back
<1>2. CASE papers_upload' = [papers_upload EXCEPT ![t] = Papers!Idle]
  /\ UNCHANGED papers_stored
  <2>1. papers_stored' \in Seq(Rows) /\ Papers!Ids' = Papers!Ids
    BY <1>2 DEF PInv, Papers!Ids
  <2> QED BY <1>1, <1>2, <2>1, TabGoes DEF Papers!Idle
<1>3. ASSUME NEW p \in PaperPictures,
             Papers!upload_full(Papers!encrypted(p, papers_upload[t].front)),
             papers_upload' = [papers_upload EXCEPT ![t] =
                       [op |-> "back", front |-> @.front, back |-> Len(papers_stored')]]
      PROVE  PInv'
  <2> DEFINE front == papers_upload[t].front
  <2>0. PICK back : back = Len(papers_stored')
    OBVIOUS
  <2>1. front \in Papers!Ids /\ front \in Nat /\ papers_stored[front].sealed
    BY <1>1 DEF PInv, UploadsOK, Papers!Ids
  <2> DEFINE file == Papers!encrypted(p, front)
  <2>2. file \in Rows /\ file.sealed /\ file.with = front /\ Papers!upload_full(file)
    BY <1>3, <2>1 DEF Rows, Papers!encrypted
  <2> HIDE DEF file
  <2>3. /\ papers_stored' \in Seq(Rows) /\ Papers!Ids \subseteq Papers!Ids'
        /\ Len(papers_stored') \in Papers!Ids'
        /\ \A i \in Papers!Ids : papers_stored'[i] = papers_stored[i]
        /\ papers_stored'[Len(papers_stored')].sealed
        /\ papers_stored'[Len(papers_stored')].with = front
    BY <2>2, Appended
  <2> DEFINE u == [op |-> "back", front |-> front, back |-> back]
  <2>4. papers_upload' = [papers_upload EXCEPT ![t] = u]
    BY <1>3, <2>0 DEF PInv, UploadsOK
  <2>5. /\ front \in Papers!Ids' /\ back \in Papers!Ids' /\ papers_stored'[front].sealed
        /\ papers_stored'[back].sealed
        /\ papers_stored'[back].with = front
    BY <2>0, <2>1, <2>3
  <2> QED BY <1>1, <2>3, <2>4, <2>5, TabGoes
<1> QED BY <1>2, <1>3 DEF Papers!upload_back

\* Both are put on record at once.
LEMMA Recorded ==
    ASSUME PInv, NEW t \in PaperTabs, Papers!upload_kyc_documents(t)
    PROVE  PInv'
<1>1. /\ papers_upload[t].op = "back" /\ papers_stored' = papers_stored
      /\ papers_papers' = [front |-> papers_upload[t].front, back |-> papers_upload[t].back]
      /\ papers_upload' = [papers_upload EXCEPT ![t] = Papers!Idle]
  BY DEF Papers!upload_kyc_documents
<1>2. Paired(papers_upload[t].front, papers_upload[t].back)
  BY <1>1 DEF PInv, UploadsOK
<1>3. Paired(papers_papers'.front, papers_papers'.back)
  BY <1>1, <1>2
<1>4. papers_stored' \in Seq(Rows) /\ Papers!Ids' = Papers!Ids
  BY <1>1 DEF PInv, Papers!Ids
<1> QED BY <1>1, <1>3, <1>4, TabGoes DEF Papers!Idle

\* The files that are no documents.
LEMMA OtherUploads ==
    ASSUME PInv, Papers!uploadStep
    PROVE  PInv'
<1>1. papers_papers' = papers_papers /\ papers_upload' = papers_upload
  BY DEF Papers!uploadStep, Papers!upload_file, Papers!upload_event_banner,
     Papers!upload_event_candidate_image, Papers!upload_candidate_image,
     Papers!upload_election_banner, Papers!upload_nomination_photo,
     Papers!upload_organization_logo, Papers!upload_data_uri, Papers!upload_avatar,
     Papers!remove_avatar, Papers!save_image, Papers!paperVars
<1>2. (\E p \in PaperPictures : Papers!upload_full(Papers!clear(p)))
  \/ papers_stored' = papers_stored
  BY DEF Papers!uploadStep, Papers!upload_file, Papers!upload_event_banner,
     Papers!upload_event_candidate_image, Papers!upload_candidate_image,
     Papers!upload_election_banner, Papers!upload_nomination_photo,
     Papers!upload_organization_logo, Papers!upload_data_uri, Papers!upload_avatar,
     Papers!remove_avatar, Papers!save_image
<1>3. CASE papers_stored' = papers_stored
  <2>1. papers_stored' \in Seq(Rows) /\ Papers!Ids' = Papers!Ids
    BY <1>3 DEF PInv, Papers!Ids
  <2> QED BY <1>1, <1>3, <2>1, OtherFiles
<1>4. ASSUME NEW p \in PaperPictures, Papers!upload_full(Papers!clear(p)) PROVE PInv'
  <2>1. Papers!clear(p) \in Rows
    BY DEF Rows, Papers!clear
  <2> QED BY <1>1, <1>4, <2>1, Appended, OtherFiles
<1> QED BY <1>2, <1>3, <1>4

\* The documents on record were uploaded together, the back as the back of its front, and are
\* encrypted, whatever tabs upload at the same time and wherever one stops half-way
\* (organizations.py, upload_kyc_documents).
THEOREM PapersArePaired == Papers!Spec => []DocumentsArePaired
<1>1. PInv /\ [Papers!Next]_(Papers!filesVars) => PInv'
  <2> SUFFICES ASSUME PInv, [Papers!Next]_(Papers!filesVars) PROVE PInv'
    OBVIOUS
  <2>1. ASSUME papers_stored' = papers_stored, papers_papers' = papers_papers,
               papers_upload' = papers_upload
                 \/ papers_upload' = [t \in PaperTabs |-> Papers!Idle]
        PROVE  PInv'
    <3>1. papers_stored' \in Seq(Rows) /\ Papers!Ids' = Papers!Ids
      BY <2>1 DEF PInv, Papers!Ids
    <3> QED BY <2>1, <3>1, OtherFiles
  <2>2. ASSUME NEW c \in PaperClients,
               Papers!download_file(c) \/ Papers!variant(c) \/ Papers!crash(c) PROVE PInv'
    BY <2>1, <2>2 DEF Papers!download_file, Papers!variant, Papers!crash, Papers!paperVars
  <2>3. CASE Papers!download_private_file \/ UNCHANGED Papers!filesVars
    BY <2>1, <2>3 DEF Papers!download_private_file, Papers!filesVars
  <2>4. ASSUME NEW a \in BOOLEAN, Papers!verify_organization(a) PROVE PInv'
    BY <2>1, <2>4 DEF Papers!verify_organization
  <2> QED BY <2>2, <2>3, <2>4, OtherUploads, FrontUploaded, BackUploaded, Recorded
             DEF Papers!Next, Papers!pictureStep, Papers!paperStep
<1>2. PInv => DocumentsArePaired
  BY DEF PInv, PapersOK, Paired, DocumentsArePaired, Papers!DocumentsArePaired
<1> QED BY <1>1, <1>2, InitPInv, PTL DEF Papers!Spec

-----------------------------------------------------------------------------
(* Accounts: the list misses no one. *)

\* Accounts are made one in a transaction.
OneByOne == ListedMaxBatch = 1

Times == {0} \cup {pages_joined[u] : u \in ListedUsers}
\* Who comes before u in the list.
Newer(u) == {v \in Pages!everyone : pages_joined[v] > pages_joined[u]}

\* Whoever is being changed has an account, which never goes.
RequestOK(q, accounts) ==
    /\ q.op = "UPDATE_STATUS" =>
        q.of \in accounts /\ q.status \in {"active", "suspended", "deactivated"}
    /\ q.op = "DELETE_USER" => q.of \in accounts
    /\ q.op = "ADMIN_CREATE_USER" => q.of \in ListedUsers
    /\ q.op = "UPDATE_PLATFORM_SETTINGS" =>
        q = [by |-> q.by, op |-> q.op, of |-> q.of, left |-> q.left, values |-> q.values]

\* No two accounts were made at one time, and none later than now.
AccountsOK ==
    /\ pages_account \in [ListedUsers -> {"none", "active", "suspended", "deactivated"}]
    /\ pages_joined \in [ListedUsers -> Nat]
    /\ \A u \in ListedUsers : pages_joined[u] = 0 <=> pages_account[u] = "none"
    /\ \A u, v \in Pages!everyone : pages_joined[u] = pages_joined[v] => u = v
    /\ \A u \in ListedUsers : pages_joined[u] < Cardinality(Times)

RequestsOK ==
    /\ pages_request = [r \in ListedRequests |-> pages_request[r]]
    /\ \A r \in ListedRequests : RequestOK(pages_request[r], Pages!everyone)

\* Whom the reader has not seen comes after the pages that were read.
ReaderOK ==
    \/ pages_reader = Pages!Idle
    \/ /\ pages_reader \in [op : {"reading", "read"}, skip : Nat, seen :
            SUBSET ListedUsers, there : SUBSET Pages!everyone]
       /\ \A u \in pages_reader.there \ pages_reader.seen :
             pages_reader.op = "reading" /\ Cardinality(Newer(u)) >= pages_reader.skip

AInv == AccountsOK /\ RequestsOK /\ ReaderOK

\* The founders' accounts were made one after another.
LEMMA InitAInv == Pages!Init => AInv
<1> SUFFICES ASSUME Pages!Init PROVE AInv
  OBVIOUS
<1>1. RequestsOK /\ ReaderOK
  BY DEF Pages!Init, RequestsOK, RequestOK, ReaderOK, Pages!Idle
<1>2. IsFiniteSet(ListedFounders) /\ Cardinality(ListedFounders) \in Nat
  BY FS_Subset, FS_CardinalityType, ConsoleAssumption
<1>3. /\ pages_joined \in [ListedUsers -> 0..Cardinality(ListedFounders)]
      /\ \A u \in ListedUsers : pages_joined[u] # 0 <=> u \in ListedFounders
      /\ Pages!IsInjective([u \in ListedFounders |-> pages_joined[u]])
  BY SameSize DEF Pages!Init
<1>4. \A u, v \in ListedFounders : pages_joined[u] = pages_joined[v] => u = v
  BY <1>3, ConsoleAssumption DEF Pages!IsInjective
<1> DEFINE Then == {pages_joined[u] : u \in ListedFounders}
           at == [u \in ListedFounders |-> pages_joined[u]]
<1>5. IsFiniteSet(Then) /\ Cardinality(Then) = Cardinality(ListedFounders)
  <2>1. at \in Bijection(ListedFounders, Then)
    BY <1>4, Fun_IsBij
  <2>2. ExistsBijection(ListedFounders, Then)
    BY <2>1 DEF ExistsBijection
  <2> QED BY <1>2, <2>2, FS_Bijection
<1>6. 0 \notin Then
  BY <1>3, ConsoleAssumption
<1>7. Times = Then \cup {0}
  BY <1>3, ConsoleAssumption DEF Times
<1>8. Cardinality(Times) = Cardinality(ListedFounders) + 1
  BY <1>5, <1>6, <1>7, FS_AddElement
<1>9. \A u \in ListedUsers : pages_joined[u] < Cardinality(Times)
  BY <1>2, <1>3, <1>8
<1>10. Pages!everyone = ListedFounders
  BY ConsoleAssumption DEF Pages!Init, Pages!everyone, Pages!known
<1>11. AccountsOK
  BY <1>2, <1>3, <1>4, <1>9, <1>10 DEF Pages!Init, AccountsOK
<1> QED BY <1>1, <1>11 DEF AInv

\* Accounts change, and are there.
LEMMA AccountsStay ==
    ASSUME AInv, pages_account' \in [ListedUsers -> {"none", "active", "suspended",
           "deactivated"}],
           \A u \in ListedUsers : pages_account'[u] = "none" <=> pages_account[u] = "none",
           UNCHANGED pages_joined, RequestsOK', UNCHANGED pages_reader
    PROVE  AInv'
<1>1. Pages!everyone' = Pages!everyone
  BY DEF Pages!everyone, Pages!known
<1>2. AccountsOK'
  BY <1>1 DEF AInv, AccountsOK, Times
<1>3. ReaderOK'
  BY <1>1 DEF AInv, ReaderOK, Newer
<1> QED BY <1>2, <1>3 DEF AInv

\* A handler begins or ends.
LEMMA RequestGoes ==
    ASSUME AInv, NEW r \in ListedRequests, NEW q, RequestOK(q, Pages!everyone'),
           pages_request' = [pages_request EXCEPT ![r] = q],
             Pages!everyone \subseteq Pages!everyone'
    PROVE  RequestsOK'
<1>1. pages_request' = [s \in ListedRequests |-> pages_request'[s]]
  BY DEF AInv, RequestsOK
<1>2. ASSUME NEW s \in ListedRequests PROVE RequestOK(pages_request'[s], Pages!everyone')
  <2>1. CASE s = r
    <3>1. pages_request'[s] = q
      BY <2>1 DEF AInv, RequestsOK
    <3> QED BY <3>1
  <2>2. CASE s # r
    <3>1. pages_request'[s] = pages_request[s]
      BY <2>2 DEF AInv, RequestsOK
    <3>2. RequestOK(pages_request[s], Pages!everyone)
      BY DEF AInv, RequestsOK
    <3> QED BY <3>1, <3>2 DEF RequestOK
  <2> QED BY <2>1, <2>2
<1> QED BY <1>1, <1>2 DEF RequestsOK

\* An account is made, at a time of its own: the list has one more row, before all others.
LEMMA AccountMade ==
    ASSUME AInv, NEW u \in ListedUsers, ~Pages!known(u),
           NEW t, t = Pages!now, pages_joined' = [pages_joined EXCEPT ![u] = t],
           pages_account' = [pages_account EXCEPT ![u] = "active"], UNCHANGED pages_reader
    PROVE  Pages!everyone \subseteq Pages!everyone' /\ AccountsOK' /\ ReaderOK'
<1>1. pages_joined[u] = 0 /\ u \notin Pages!everyone
  BY DEF AInv, AccountsOK, Pages!known, Pages!everyone
<1>2. Times = {pages_joined[v] : v \in ListedUsers}
  BY <1>1 DEF Times
<1>3. IsFiniteSet(Times)
  <2>1. [v \in ListedUsers |-> pages_joined[v]] \in Surjection(ListedUsers,
    {pages_joined[v] : v \in ListedUsers})
    BY Fun_IsSurj
  <2> QED BY <1>2, <2>1, FS_Surjection, ConsoleAssumption
<1>4. t = Cardinality(Times) /\ t \in Nat
  BY <1>2, <1>3, FS_CardinalityType, SameSize DEF Pages!now
<1>5. /\ pages_joined[u] < t
      /\ \A v \in ListedUsers : pages_joined[v] < t /\ pages_joined[v] \in Nat
  BY <1>4 DEF AInv, AccountsOK
<1>6. t > 0 /\ t \notin Times
  BY <1>1, <1>4, <1>5 DEF Times
<1>7. \A v \in ListedUsers : /\ pages_joined'[v] = IF v = u THEN t ELSE pages_joined[v]
                             /\ pages_account'[v] = IF v = u THEN "active" ELSE
                                  pages_account[v]
  BY DEF AInv, AccountsOK
<1>8. Pages!everyone' = Pages!everyone \cup {u}
  BY <1>7 DEF Pages!everyone, Pages!known
<1>9. Times' \subseteq Times \cup {t} /\ {0, t} \subseteq Times'
  BY <1>7 DEF Times
<1>10. \A v \in Pages!everyone : pages_joined[v] \in Times'
  BY <1>1, <1>7 DEF Times, Pages!everyone
<1>11. Times' = Times \cup {t}
  <2> SUFFICES ASSUME NEW n \in Times, n # 0 PROVE n \in Times'
    BY <1>9
  <2>1. PICK v \in ListedUsers : n = pages_joined[v]
    BY DEF Times
  <2>2. v # u
    BY <1>1, <2>1
  <2> QED BY <1>7, <2>1, <2>2 DEF Times
<1>12. Cardinality(Times') = t + 1
  BY <1>3, <1>4, <1>6, <1>11, FS_AddElement
<1>13. AccountsOK'
  <2>1. pages_account' \in [ListedUsers -> {"none", "active", "suspended", "deactivated"}]
    BY DEF AInv, AccountsOK
  <2>2. pages_joined' \in [ListedUsers -> Nat]
    BY <1>4 DEF AInv, AccountsOK
  <2>3. \A v \in ListedUsers : pages_joined'[v] = 0 <=> pages_account'[v] = "none"
    BY <1>6, <1>7 DEF AInv, AccountsOK
  <2>4. \A v, w \in Pages!everyone' : pages_joined'[v] = pages_joined'[w] => v = w
    <3> SUFFICES ASSUME NEW v \in Pages!everyone', NEW w \in Pages!everyone',
                        pages_joined'[v] = pages_joined'[w]
                 PROVE  v = w
      OBVIOUS
    <3>1. v \in ListedUsers /\ w \in ListedUsers
      BY <1>8 DEF Pages!everyone
    <3>2. CASE v # u /\ w # u
      BY <1>7, <1>8, <3>1, <3>2 DEF AInv, AccountsOK
    <3>3. CASE v = u \/ w = u
      BY <1>5, <1>7, <3>1, <3>3
    <3> QED BY <3>2, <3>3
  <2>5. \A v \in ListedUsers : pages_joined'[v] < t + 1
    BY <1>4, <1>5, <1>7
  <2> QED BY <1>12, <2>1, <2>2, <2>3, <2>4, <2>5 DEF AccountsOK
<1>14. ASSUME NEW v \in Pages!everyone
       PROVE  IsFiniteSet(Newer(v)') /\ Cardinality(Newer(v)') >= Cardinality(Newer(v))
              /\ Cardinality(Newer(v)') \in Nat /\ Cardinality(Newer(v)) \in Nat
  <2>1. Newer(v) \in SUBSET Newer(v)'
    BY <1>1, <1>7, <1>8 DEF Newer, Pages!everyone
  <2>2. Newer(v)' \in SUBSET ListedUsers
    BY DEF Newer, Pages!everyone
  <2>3. IsFiniteSet(Newer(v)')
    BY <2>2, FS_Subset, ConsoleAssumption
  <2>4. IsFiniteSet(Newer(v)) /\ Cardinality(Newer(v)) <= Cardinality(Newer(v)')
    BY <2>1, <2>3, FS_Subset
  <2> QED BY <2>3, <2>4, FS_CardinalityType
<1>15. ReaderOK'
  <2>1. CASE pages_reader = Pages!Idle
    BY <2>1 DEF ReaderOK
  <2>2. CASE pages_reader # Pages!Idle
    <3>1. pages_reader \in [op : {"reading", "read"}, skip : Nat, seen :
      SUBSET ListedUsers, there : SUBSET Pages!everyone]
      BY <2>2 DEF AInv, ReaderOK
    <3>2. pages_reader' \in [op : {"reading", "read"}, skip : Nat, seen :
      SUBSET ListedUsers, there : SUBSET Pages!everyone']
      BY <1>8, <3>1
    <3>3. ASSUME NEW v \in pages_reader.there \ pages_reader.seen
          PROVE  pages_reader.op = "reading" /\ Cardinality(Newer(v)') >= pages_reader.skip
      <4>1. v \in Pages!everyone /\ pages_reader.skip \in Nat
        BY <3>1
      <4>2. pages_reader.op = "reading" /\ Cardinality(Newer(v)) >= pages_reader.skip
        BY <2>2 DEF AInv, ReaderOK
      <4> QED BY <1>14, <4>1, <4>2
    <3> QED BY <3>2, <3>3 DEF ReaderOK
  <2> QED BY <2>1, <2>2
<1> QED BY <1>8, <1>13, <1>15

\* An order lists everyone once.
LEMMA OrdersAreLists ==
    ASSUME NEW s \in Pages!orders
    PROVE  /\ Len(s) \in Nat /\ Len(s) = Cardinality(Pages!everyone)
           /\ s \in [1..Len(s) -> Pages!everyone]
           /\ \A i, j \in 1..Len(s) : i # j => s[i] # s[j]
<1> DEFINE n == Cardinality(Pages!everyone)
<1>1. n \in Nat
  BY FS_Subset, FS_CardinalityType, ConsoleAssumption DEF Pages!everyone
<1>2. /\ s \in [1..n -> Pages!everyone]
      /\ \A i, j \in 1..n : i # j => s[i] # s[j]
  BY SameSize DEF Pages!orders, Pages!SetToSeqs
<1>3. Len(s) = n
  BY <1>1, <1>2
<1> QED BY <1>1, <1>2, <1>3

\* In any order that the database may give, a user comes after just those who are newer.
LEMMA PlaceInList ==
    ASSUME AInv, NEW s \in Pages!orders, NEW u \in Pages!everyone
    PROVE  \E i \in 1..Len(s) : s[i] = u /\ Cardinality(Newer(u)) = i - 1
<1> DEFINE n == Cardinality(Pages!everyone)
<1>1. IsFiniteSet(Pages!everyone) /\ n \in Nat
  BY FS_Subset, FS_CardinalityType, ConsoleAssumption DEF Pages!everyone
<1>2. Len(s) = n
  BY OrdersAreLists
<1>3. /\ s \in [1..n -> Pages!everyone]
      /\ \A i, j \in 1..n : i # j => s[i] # s[j]
  BY <1>2, OrdersAreLists
<1>4. \A i, j \in 1..n : i < j => pages_joined[s[i]] >= pages_joined[s[j]]
  BY <1>2 DEF Pages!orders
<1>5. s \in Injection(1..n, Pages!everyone)
  BY <1>3, Fun_IsInj
<1>6. Cardinality(1..n) = n
  BY <1>1, FS_Interval
<1>7. s \in Surjection(1..n, Pages!everyone)
  BY <1>1, <1>5, <1>6, FS_Injection
<1>8. \A v \in Pages!everyone : \E k \in 1..n : s[k] = v
  BY <1>7 DEF Surjection
<1>9. PICK i \in 1..n : s[i] = u
  BY <1>8
<1>10. ASSUME NEW k \in 1..n PROVE pages_joined[s[k]] > pages_joined[u] <=> k < i
  <2>1. s[k] \in Pages!everyone /\ pages_joined[s[k]] \in Nat /\ pages_joined[u] \in Nat
    BY <1>3 DEF AInv, AccountsOK, Pages!everyone
  <2>2. CASE k < i
    <3>1. pages_joined[s[k]] >= pages_joined[u] /\ s[k] # u
      BY <1>3, <1>4, <1>9, <2>2
    <3>2. pages_joined[s[k]] # pages_joined[u]
      BY <2>1, <3>1 DEF AInv, AccountsOK
    <3> QED BY <2>1, <2>2, <3>1, <3>2
  <2>3. CASE k >= i
    <3>1. k = i \/ i < k
      BY <2>3
    <3>2. pages_joined[u] >= pages_joined[s[k]]
      BY <1>4, <1>9, <2>1, <3>1
    <3> QED BY <2>1, <2>3, <3>2
  <2> QED BY <2>2, <2>3
<1> DEFINE g == [k \in 1..(i - 1) |-> s[k]]
<1>11. g \in Bijection(1..(i - 1), Newer(u))
  <2>1. g \in [1..(i - 1) -> Newer(u)]
    BY <1>1, <1>3, <1>10 DEF Newer
  <2>2. \A a, b \in 1..(i - 1) : g[a] = g[b] => a = b
    BY <1>1, <1>3
  <2>3. \A v \in Newer(u) : \E k \in 1..(i - 1) : g[k] = v
    <3> SUFFICES ASSUME NEW v \in Newer(u) PROVE \E k \in 1..(i - 1) : g[k] = v
      OBVIOUS
    <3>1. PICK k \in 1..n : s[k] = v
      BY <1>8 DEF Newer
    <3>2. k < i
      BY <1>10, <3>1 DEF Newer
    <3> QED BY <1>1, <3>1, <3>2
  <2> QED BY <2>1, <2>2, <2>3, Fun_IsBij
<1>12. IsFiniteSet(1..(i - 1)) /\ Cardinality(1..(i - 1)) = i - 1
  <2>1. 1 \in Int /\ i - 1 \in Int /\ i - 1 - 1 + 1 = i - 1 /\ ~(1 > i)
    BY <1>1
  <2>2. /\ IsFiniteSet(1..(i - 1))
        /\ Cardinality(1..(i - 1)) = IF 1 > i - 1 THEN 0 ELSE i - 1 - 1 + 1
    BY <2>1, FS_Interval
  <2> QED BY <2>1, <2>2
<1>13. Cardinality(Newer(u)) = i - 1
  BY <1>11, <1>12, FS_Bijection DEF ExistsBijection
<1> QED BY <1>2, <1>9, <1>13

\* A page is read: who is not on it is on a later one, and after an empty one nobody is left.
LEMMA PageRead ==
    ASSUME AInv, Pages!list_users
    PROVE  ReaderOK'
<1>1. pages_reader.op = "reading" /\ UNCHANGED <<pages_account, pages_joined>>
  BY DEF Pages!list_users, Pages!accountVars
<1>2. Pages!everyone' = Pages!everyone /\ \A u : Newer(u)' = Newer(u)
  BY <1>1 DEF Pages!everyone, Pages!known, Newer
<1>3. pages_reader \in [op : {"reading", "read"}, skip : Nat, seen : SUBSET ListedUsers,
  there : SUBSET Pages!everyone]
  BY <1>1 DEF AInv, ReaderOK, Pages!Idle
<1>4. \A u \in pages_reader.there \ pages_reader.seen :
  Cardinality(Newer(u)) >= pages_reader.skip
  BY <1>1 DEF AInv, ReaderOK, Pages!Idle
<1>5. PICK s \in Pages!orders :
        pages_reader' = [pages_reader EXCEPT !.skip = pages_reader.skip + ListedPage,
                                             !.seen = pages_reader.seen
                                               \cup Pages!rows(s, pages_reader.skip),
                                             !.op = IF Pages!rows(s, pages_reader.skip) =
                                               {} THEN "read" ELSE pages_reader.op]
  BY DEF Pages!list_users
<1>6. /\ pages_reader'.skip = pages_reader.skip + ListedPage
      /\ pages_reader'.seen = pages_reader.seen \cup Pages!rows(s, pages_reader.skip)
      /\ pages_reader'.there = pages_reader.there
      /\ pages_reader'.op = IF Pages!rows(s, pages_reader.skip) = {} THEN "read" ELSE
           "reading"
  BY <1>1, <1>3, <1>5
<1>7. Pages!rows(s, pages_reader.skip) \subseteq ListedUsers
  <2> SUFFICES ASSUME NEW i \in 1..Len(s) PROVE s[i] \in ListedUsers
    BY DEF Pages!rows
  <2>1. s[i] \in Pages!everyone
    BY OrdersAreLists
  <2> QED BY <2>1 DEF Pages!everyone
<1>8. pages_reader' \in [op : {"reading", "read"}, skip : Nat, seen : SUBSET ListedUsers,
  there : SUBSET Pages!everyone]
  <2>1. pages_reader' = [op |-> pages_reader'.op, skip |-> pages_reader'.skip,
    seen |-> pages_reader'.seen,
                         there |-> pages_reader'.there]
    BY <1>3, <1>5
  <2>2. pages_reader'.skip \in Nat /\ pages_reader'.seen \in SUBSET ListedUsers
    BY <1>3, <1>6, <1>7, ConsoleAssumption
  <2>3. pages_reader'.op \in {"reading", "read"}
    /\ pages_reader'.there \in SUBSET Pages!everyone
    BY <1>3, <1>6
  <2> QED BY <2>1, <2>2, <2>3
<1>9. ASSUME NEW u \in pages_reader.there \ pages_reader.seen,
             u \notin Pages!rows(s, pages_reader.skip)
      PROVE  Pages!rows(s, pages_reader.skip) # {}
             /\ Cardinality(Newer(u)) >= pages_reader.skip + ListedPage
  <2>1. u \in Pages!everyone /\ pages_reader.skip \in Nat /\ ListedPage \in Nat \ {0}
    BY <1>3, ConsoleAssumption
  <2>2. PICK i \in 1..Len(s) : s[i] = u /\ Cardinality(Newer(u)) = i - 1
    BY <2>1, PlaceInList
  <2>3. i \in Nat /\ Cardinality(Newer(u)) >= pages_reader.skip
    BY <1>4, <1>9
  <2>4. ~(pages_reader.skip < i /\ i <= pages_reader.skip + ListedPage)
    BY <1>9, <2>2 DEF Pages!rows
  <2>5. i > pages_reader.skip + ListedPage
    BY <2>1, <2>2, <2>3, <2>4
  <2>6. pages_reader.skip + 1 \in 1..Len(s)
    BY <2>1, <2>2, <2>5
  <2>7. s[pages_reader.skip + 1] \in Pages!rows(s, pages_reader.skip)
    BY <2>1, <2>6 DEF Pages!rows
  <2> QED BY <2>1, <2>2, <2>5, <2>7
<1> QED BY <1>2, <1>6, <1>8, <1>9 DEF ReaderOK

\* An account or a role is changed, or a request begins or ends.
LEMMA AccountsChange ==
    ASSUME AInv, NEW r \in ListedRequests,
           \/ Pages!begins(r) \/ Pages!roll_back(r) \/ Pages!update_user_status(r)
                \/ Pages!delete_user(r)
           \/ Pages!assign_roles(r) \/ Pages!admin_create_user(r)
    PROVE  AInv'
<1>1. RequestOK(pages_request[r], Pages!everyone)
  BY DEF AInv, RequestsOK
<1>2. RequestOK(Pages!Idle, Pages!everyone) /\ RequestOK(Pages!Idle, Pages!everyone')
  BY DEF RequestOK, Pages!Idle
<1>3. ASSUME UNCHANGED <<pages_account, pages_joined, pages_reader>>,
             NEW q, RequestOK(q, Pages!everyone),
               pages_request' = [pages_request EXCEPT ![r] = q]
      PROVE  AInv'
  <2>1. Pages!everyone' = Pages!everyone
    BY <1>3 DEF Pages!everyone, Pages!known
  <2>2. RequestsOK'
    BY <1>3, <2>1, RequestGoes
  <2> QED BY <1>3, <2>2, AccountsStay DEF AInv, AccountsOK
<1>4. ASSUME NEW by \in ListedUsers, NEW u \in ListedUsers,
             NEW st \in {"active", "suspended", "deactivated"},
               Pages!begin_status(r, by, u, st)
      PROVE  AInv'
  <2>1. RequestOK([by |-> by, op |-> "UPDATE_STATUS", of |-> u, status |-> st],
    Pages!everyone)
    BY <1>4 DEF Pages!begin_status, Pages!everyone, RequestOK
  <2> QED BY <1>3, <1>4, <2>1 DEF Pages!begin_status, Pages!begin, Pages!accountVars
<1>5. ASSUME NEW by \in ListedUsers, NEW u \in ListedUsers, Pages!begin_delete(r, by, u)
      PROVE AInv'
  <2>1. RequestOK([by |-> by, op |-> "DELETE_USER", of |-> u], Pages!everyone)
    BY <1>5 DEF Pages!begin_delete, Pages!everyone, RequestOK
  <2> QED BY <1>3, <1>5, <2>1 DEF Pages!begin_delete, Pages!begin, Pages!accountVars
<1>6. ASSUME NEW by \in ListedUsers, NEW u \in ListedUsers, NEW os,
             Pages!begin_assign(r, by, u, os) PROVE AInv'
  <2>1. RequestOK([by |-> by, op |-> "ASSIGN_ROLES", of |-> u, had |-> pages_roles[u],
    new |-> os],
                  Pages!everyone)
    BY DEF RequestOK
  <2> QED BY <1>3, <1>6, <2>1 DEF Pages!begin_assign, Pages!begin, Pages!accountVars
<1>7. ASSUME NEW by \in ListedUsers, NEW u \in ListedUsers, NEW os,
             Pages!begin_create(r, by, u, os) PROVE AInv'
  <2>1. RequestOK([by |-> by, op |-> "ADMIN_CREATE_USER", of |-> u, new |-> os],
    Pages!everyone)
    BY DEF RequestOK
  <2> QED BY <1>3, <1>7, <2>1 DEF Pages!begin_create, Pages!begin, Pages!accountVars
<1>8. ASSUME NEW by \in ListedUsers, NEW o, NEW p, NEW granted,
             Pages!begin_toggle(r, by, o, p, granted)
      PROVE  AInv'
  <2>1. RequestOK([by |-> by, op |-> "toggle", of |-> o, permission |-> p,
    granted |-> granted,
                   had |-> pages_permits[o]], Pages!everyone)
    BY DEF RequestOK
  <2> QED BY <1>3, <1>8, <2>1 DEF Pages!begin_toggle, Pages!begin, Pages!accountVars
<1>9. ASSUME NEW by \in ListedUsers, NEW values, Pages!begin_settings(r, by, values)
      PROVE AInv'
  <2>1. RequestOK([by |-> by, op |-> "UPDATE_PLATFORM_SETTINGS", of |-> DOMAIN values,
                   left |-> DOMAIN values, values |-> values], Pages!everyone)
    BY DEF RequestOK
  <2> QED BY <1>3, <1>9, <2>1 DEF Pages!begin_settings, Pages!begin, Pages!accountVars
<1>10. CASE Pages!begins(r)
  BY <1>4, <1>5, <1>6, <1>7, <1>8, <1>9, <1>10 DEF Pages!begins,
     Pages!override_election_vote_price
<1>11. CASE Pages!roll_back(r) \/ Pages!assign_roles(r)
  BY <1>2, <1>3, <1>11 DEF Pages!roll_back, Pages!assign_roles, Pages!commit_account,
     Pages!finish, Pages!accountVars
<1>12. ASSUME NEW st \in {"active", "suspended", "deactivated"},
              pages_request[r].of \in Pages!everyone,
              pages_account' = [pages_account EXCEPT ![pages_request[r].of] = st],
              UNCHANGED pages_joined, Pages!commit_account(r)
       PROVE  AInv'
  <2>1. /\ pages_account' \in [ListedUsers -> {"none", "active", "suspended",
             "deactivated"}]
        /\ \A u \in ListedUsers : pages_account'[u] = "none" <=> pages_account[u] = "none"
    BY <1>12 DEF AInv, AccountsOK, Pages!everyone, Pages!known
  <2>2. Pages!everyone' = Pages!everyone
    BY <2>1 DEF Pages!everyone, Pages!known
  <2>3. RequestsOK'
    BY <1>2, <1>12, <2>2, RequestGoes DEF Pages!commit_account, Pages!finish
  <2> QED BY <1>12, <2>1, <2>3, AccountsStay DEF Pages!commit_account
<1>13. CASE Pages!update_user_status(r)
  BY <1>1, <1>12, <1>13 DEF Pages!update_user_status, RequestOK
<1>14. CASE Pages!delete_user(r)
  BY <1>1, <1>12, <1>14 DEF Pages!delete_user, RequestOK
<1>15. CASE Pages!admin_create_user(r)
  <2>1. pages_request[r].of \in ListedUsers /\ ~Pages!known(pages_request[r].of)
    BY <1>1, <1>15 DEF Pages!admin_create_user, RequestOK
  <2>2. Pages!everyone \subseteq Pages!everyone' /\ AccountsOK' /\ ReaderOK'
    BY <1>15, <2>1, AccountMade DEF Pages!admin_create_user, Pages!commit_account
  <2>3. RequestsOK'
    BY <1>2, <1>15, <2>2, RequestGoes DEF Pages!admin_create_user, Pages!commit_account,
       Pages!finish
  <2> QED BY <2>2, <2>3 DEF AInv
<1> QED BY <1>10, <1>11, <1>13, <1>14, <1>15

\* An account is made for an e-mail on a list.
LEMMA Imported ==
    ASSUME OneByOne, AInv, Pages!import_accounts
    PROVE  AInv'
<1>1. PICK us \in SUBSET {u \in ListedUsers : ~Pages!known(u)} :
        /\ us # {} /\ Cardinality(us) <= 1
        /\ pages_account' = [u \in ListedUsers |-> IF u \in us THEN "active" ELSE
             pages_account[u]]
        /\ pages_joined' = [u \in ListedUsers |-> IF u \in us THEN Pages!now ELSE
             pages_joined[u]]
  BY SameSize DEF Pages!import_accounts, OneByOne
<1>2. UNCHANGED <<pages_request, pages_reader>>
  BY DEF Pages!import_accounts
<1>3. PICK u \in us : TRUE
  BY <1>1
<1>4. us = {u}
  <2>1. IsFiniteSet(us) /\ Cardinality(us) \in Nat
    BY FS_Subset, FS_CardinalityType, ConsoleAssumption
  <2>2. Cardinality(us) # 0
    BY <1>1, <2>1, FS_EmptySet
  <2>3. Cardinality(us) = 1
    BY <1>1, <2>1, <2>2
  <2>4. \E x : us = {x}
    BY <2>1, <2>3, FS_Singleton
  <2> QED BY <2>4
<1>5. /\ pages_account' = [pages_account EXCEPT ![u] = "active"]
      /\ pages_joined' = [pages_joined EXCEPT ![u] = Pages!now]
  BY <1>1, <1>4 DEF AInv, AccountsOK
<1>6. Pages!everyone \subseteq Pages!everyone' /\ AccountsOK' /\ ReaderOK'
  BY <1>2, <1>4, <1>5, AccountMade
<1>7. RequestsOK'
  BY <1>2, <1>6 DEF AInv, RequestsOK, RequestOK
<1> QED BY <1>6, <1>7 DEF AInv

\* Permissions and settings are changed, and the list is opened.
LEMMA OthersStay ==
    ASSUME AInv, Pages!settingStep \/ Pages!open_list \/ UNCHANGED Pages!adminVars
    PROVE  AInv'
<1>1. pages_account' = pages_account /\ pages_joined' = pages_joined
  /\ Pages!everyone' = Pages!everyone
  BY DEF Pages!settingStep, Pages!toggle_role_permission, Pages!set_platform_setting,
     Pages!update_platform_settings, Pages!open_list, Pages!adminVars, Pages!accountVars,
     Pages!everyone, Pages!known
<1>2. RequestsOK'
  <2>1. CASE UNCHANGED pages_request
    BY <1>1, <2>1 DEF AInv, RequestsOK
  <2>2. CASE \E r \in ListedRequests :
    pages_request' = [pages_request EXCEPT ![r] = Pages!Idle]
    BY <1>1, <2>2, RequestGoes DEF RequestOK, Pages!Idle
  <2>3. ASSUME NEW r \in ListedRequests, Pages!set_platform_setting(r) PROVE RequestsOK'
    <3>1. PICK k : pages_request' =
      [pages_request EXCEPT ![r].left = pages_request[r].left \ {k}]
      BY <2>3 DEF Pages!set_platform_setting
    <3>2. RequestOK(pages_request[r], Pages!everyone)
      /\ pages_request[r].op = "UPDATE_PLATFORM_SETTINGS"
      BY <2>3 DEF Pages!set_platform_setting, AInv, RequestsOK
    <3>3. PICK q : q = [pages_request[r] EXCEPT !.left = pages_request[r].left \ {k}]
      OBVIOUS
    <3>4. pages_request' = [pages_request EXCEPT ![r] = q]
      BY <3>1, <3>3 DEF AInv, RequestsOK
    <3>5. RequestOK(q, Pages!everyone)
      BY <3>2, <3>3 DEF RequestOK
    <3> QED BY <1>1, <3>4, <3>5, RequestGoes
  <2> QED BY <2>1, <2>2, <2>3 DEF Pages!settingStep, Pages!toggle_role_permission,
             Pages!update_platform_settings, Pages!finish, Pages!open_list, Pages!adminVars
<1>3. AccountsOK'
  BY <1>1 DEF AInv, AccountsOK, Times
<1>4. ReaderOK'
  <2>1. CASE UNCHANGED pages_reader
    BY <1>1, <2>1 DEF AInv, ReaderOK, Newer
  <2>2. CASE Pages!open_list
    <3>1. pages_reader' = [op |-> "reading", skip |-> 0, seen |-> {},
      there |-> Pages!everyone]
      BY <2>2 DEF Pages!open_list, Pages!export_users_excel
    <3>2. ASSUME NEW u \in Pages!everyone PROVE Cardinality(Newer(u)') >= 0
      <4>1. Newer(u)' \in SUBSET ListedUsers
        BY DEF Newer, Pages!everyone
      <4> QED BY <4>1, FS_Subset, FS_CardinalityType, ConsoleAssumption
    <3> QED BY <1>1, <3>1, <3>2 DEF ReaderOK
  <2> QED BY <2>1, <2>2 DEF Pages!settingStep, Pages!toggle_role_permission,
             Pages!set_platform_setting, Pages!update_platform_settings, Pages!adminVars
<1> QED BY <1>2, <1>3, <1>4 DEF AInv

\* Whoever reads the list of users to its end has seen everyone who was there when it was
\* opened, while accounts come and change between the pages, as long as no two are made in
\* one transaction (base.py, get_all).
THEOREM PagesAreComplete == OneByOne => (Pages!Spec => []PagesMissNoOne)
<1> SUFFICES ASSUME OneByOne PROVE Pages!Spec => []PagesMissNoOne
  OBVIOUS
<1>1. ASSUME AInv, Pages!list_users PROVE AInv'
  <2>1. UNCHANGED <<pages_account, pages_joined, pages_request>>
    BY <1>1 DEF Pages!list_users, Pages!accountVars
  <2>2. Pages!everyone' = Pages!everyone
    BY <2>1 DEF Pages!everyone, Pages!known
  <2>3. AccountsOK' /\ RequestsOK'
    BY <1>1, <2>1, <2>2 DEF AInv, AccountsOK, RequestsOK, Times
  <2> QED BY <1>1, <2>3, PageRead DEF AInv
<1>2. AInv /\ [Pages!Next]_(Pages!adminVars) => AInv'
  BY <1>1, AccountsChange, Imported, OthersStay DEF Pages!Next, Pages!accountStep,
     Pages!listStep
<1>3. AInv => PagesMissNoOne
  BY DEF AInv, ReaderOK, PagesMissNoOne, Pages!PagesMissNoOne, Pages!Idle
<1> QED BY <1>2, <1>3, InitAInv, PTL DEF Pages!Spec

===============================================================================
