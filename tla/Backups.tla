------------------------------- MODULE Backups -------------------------------
(***************************************************************************)
(* Database backups: the records an administrator sees, the dumps on disk, *)
(* the Celery tasks that make them, the reaper, and the restore.           *)
(*                                                                         *)
(* A task marks its record running, dumps into a file named after the      *)
(* second, marks it completed and prunes; the worker may be killed at any  *)
(* point (its hard limit of 300 s is shorter than the dump's 600 s).  A    *)
(* dump holds the database as it was when it began, the table of backup    *)
(* records included, and a restore puts all of it back.  The restore runs  *)
(* pg_restore inside the event loop of the API's one process.  Sizes and   *)
(* labels are left out; a checksum is the name of the content.             *)
(***************************************************************************)
EXTENDS Naturals, FiniteSets

CONSTANTS
    MaxBackups,     \* backups made (a bound), numbered in that order
    Keep,           \* KEEP_SCHEDULED and KEEP_MANUAL
    LastSecond,     \* seconds in which a dump may begin (a bound)
    MaxWrites       \* versions of the rest of the database (a bound)

Ids == 1..MaxBackups
Seconds == 1..LastSecond
Absent == [state |-> "none"]
NoTask == [phase |-> "none"]
NoFile == <<>>
Idle == [phase |-> "idle"]

VARIABLES
    record,     \* backup_records
    made,       \* how many were made
    aged,       \* those up to this one are older than 30 minutes
    disk,       \* the dump files, by the second they are named after: who wrote them
    dump,       \* what each task dumped: the records and the version of the rest
    task,       \* run_backup_task of each record
    now,        \* the second
    version,    \* the rest of the database
    reaping,    \* the records the reaper has read
    restore,    \* the restore in progress
    open        \* a transaction of another request of the API process is open

backupVars == <<record, made, aged, disk, dump, task, now, version, reaping, restore, open>>

exists(b) == record[b] # Absent
status(b) == IF exists(b) THEN record[b].status ELSE "none"
in_progress(b) == status(b) \in {"pending", "running"}
completed(b) == status(b) = "completed"

TypeOK ==
    /\ \A b \in Ids : exists(b) =>
        /\ record[b].status \in {"pending", "running", "completed", "failed"}
        /\ record[b].type \in {"manual", "scheduled"}
    /\ made \in 0..MaxBackups /\ aged \in 0..made
    /\ \A s \in Seconds : disk[s] \in {NoFile} \cup ((SUBSET Ids) \X BOOLEAN)
    /\ reaping \subseteq Ids /\ open \in BOOLEAN

Init ==
    /\ record = [b \in Ids |-> Absent]
    /\ made = 0 /\ aged = 0
    /\ disk = [s \in Seconds |-> NoFile]
    /\ dump = [b \in Ids |-> Absent]
    /\ task = [b \in Ids |-> NoTask]
    /\ now = 1 /\ version = 1
    /\ reaping = {}
    /\ restore = Idle
    /\ open = FALSE

new_record(type) == [state |-> "there", type |-> type, status |-> "pending", path |-> 0, checksum |-> {}]

\* pg_restore runs in the event loop, which serves nothing else meanwhile.
served == restore.phase # "restoring"

\* A row that is gone is left alone.
update_record(b, new) == record' = IF exists(b) THEN [record EXCEPT ![b] = new] ELSE record

-----------------------------------------------------------------------------
(* The API and the beat *)

trigger_backup ==
    /\ served /\ made < MaxBackups
    /\ made' = made + 1
    /\ record' = [record EXCEPT ![made'] = new_record("manual")]
    /\ task' = [task EXCEPT ![made'] = [phase |-> "queued"]]
    /\ UNCHANGED <<aged, disk, dump, now, version, reaping, restore, open>>

backup_database ==
    /\ made < MaxBackups
    /\ made' = made + 1
    /\ record' = [record EXCEPT ![made'] = new_record("scheduled")]
    /\ task' = [task EXCEPT ![made'] = [phase |-> "queued"]]
    /\ UNCHANGED <<aged, disk, dump, now, version, reaping, restore, open>>

delete_backup(b) ==
    /\ served /\ exists(b) /\ ~in_progress(b)
    /\ disk' = IF record[b].path # 0 THEN [disk EXCEPT ![record[b].path] = NoFile] ELSE disk
    /\ record' = [record EXCEPT ![b] = Absent]
    /\ UNCHANGED <<made, aged, dump, task, now, version, reaping, restore, open>>

-----------------------------------------------------------------------------
(* run_backup_task *)

untouched == UNCHANGED <<made, aged, now, version, reaping, restore, open>>

start(b) ==
    /\ task[b].phase = "queued"
    /\ update_record(b, [record[b] EXCEPT !.status = "running"])
    /\ task' = [task EXCEPT ![b] = [phase |-> "running"]]
    /\ UNCHANGED <<disk, dump>> /\ untouched

\* Truncates the file of this second; another dump may be writing it.
begin_dump(b) ==
    /\ task[b].phase = "running"
    /\ dump' = [dump EXCEPT ![b] = [records |-> record, version |-> version]]
    /\ disk' = [disk EXCEPT ![now] =
        <<{b} \cup {c \in Ids : task[c].phase = "dumping" /\ task[c].path = now}, FALSE>>]
    /\ task' = [task EXCEPT ![b] = [phase |-> "dumping", path |-> now]]
    /\ UNCHANGED record /\ untouched

complete(b) ==
    LET p == task[b].path IN
    /\ task[b].phase = "dumping" /\ disk[p] # NoFile
    /\ disk' = [disk EXCEPT ![p][2] = TRUE]
    /\ update_record(b, [record[b] EXCEPT
            !.status = "completed", !.path = p, !.checksum = disk[p][1]])
    /\ task' = [task EXCEPT ![b] = [phase |-> "completed"]]
    /\ UNCHANGED dump /\ untouched

\* pg_dump fails, or the file is gone when its size is asked for.
fail(b) ==
    /\ task[b].phase = "dumping"
    /\ disk' = [disk EXCEPT ![task[b].path] = NoFile]
    /\ update_record(b, [record[b] EXCEPT !.status = "failed"])
    /\ task' = [task EXCEPT ![b] = NoTask]
    /\ UNCHANGED dump /\ untouched

\* The worker dies, or the hard time limit kills the task.
kill(b) ==
    /\ task[b].phase \notin {"none", "queued"}
    /\ task' = [task EXCEPT ![b] = NoTask]
    /\ UNCHANGED <<record, disk, dump>> /\ untouched

kept(type) == {b \in Ids : completed(b) /\ record[b].type = type}
to_remove(type) == {b \in kept(type) : Cardinality({c \in kept(type) : c > b}) >= Keep}

\* A record that is gone counts as scheduled; any failure is swallowed.
prune_old_backups(b) ==
    LET gone == to_remove(IF exists(b) THEN record[b].type ELSE "scheduled") IN
    /\ task[b].phase = "completed"
    /\ disk' = [s \in Seconds |-> IF \E c \in gone : record[c].path = s THEN NoFile ELSE disk[s]]
    /\ record' = [c \in Ids |-> IF c \in gone THEN Absent ELSE record[c]]
    /\ task' = [task EXCEPT ![b] = NoTask]
    /\ UNCHANGED dump /\ untouched

-----------------------------------------------------------------------------
(* The reaper *)

\* MUTANT of list_stale: a task that never started is not stale.
list_running == {b \in 1..aged : status(b) = "running"}

list_stale == {b \in 1..aged : in_progress(b)}

begin_reap ==
    /\ reaping = {} /\ list_stale # {}
    /\ reaping' = list_stale
    /\ UNCHANGED <<record, made, aged, disk, dump, task, now, version, restore, open>>

\* The status is written over whatever it has become.
reap_stale_backups ==
    /\ reaping # {}
    /\ record' = [b \in Ids |-> IF b \in reaping /\ exists(b)
                                THEN [record[b] EXCEPT !.status = "failed"] ELSE record[b]]
    /\ reaping' = {}
    /\ UNCHANGED <<made, aged, disk, dump, task, now, version, restore, open>>

-----------------------------------------------------------------------------
(* The restore *)

\* The file is the one the record was completed with.
get_download_path(b) ==
    completed(b) /\ disk[record[b].path] = <<record[b].checksum, TRUE>>

\* The snapshot before the restore is queued, if it can be.
begin_restore(b) ==
    /\ served /\ get_download_path(b)
    /\ \/ /\ made < MaxBackups
          /\ made' = made + 1
          /\ record' = [record EXCEPT ![made'] = new_record("manual")]
          /\ task' = [task EXCEPT ![made'] = [phase |-> "queued"]]
          /\ restore' = [phase |-> "restoring", path |-> record[b].path, snapshot |-> made']
       \/ /\ restore' = [phase |-> "restoring", path |-> record[b].path, snapshot |-> 0]
          /\ UNCHANGED <<made, record, task>>
    /\ UNCHANGED <<aged, disk, dump, now, version, reaping, open>>

\* One transaction that takes every table for itself.  Two dumps in one
\* file are not an archive.
run_pg_restore ==
    /\ restore.phase = "restoring" /\ ~open
    /\ disk[restore.path] # NoFile
    /\ \E b \in Ids :
        /\ disk[restore.path][1] = {b}
        /\ record' = dump[b].records
        /\ version' = dump[b].version
        /\ restore' = [phase |-> "restored", snapshot |-> restore.snapshot, undone |-> version]
    /\ UNCHANGED <<made, aged, disk, dump, task, now, reaping, open>>

\* It fails, or 30 minutes have passed.
restore_fails ==
    /\ restore.phase = "restoring"
    /\ restore' = Idle
    /\ UNCHANGED <<record, made, aged, disk, dump, task, now, version, reaping, open>>

-----------------------------------------------------------------------------
(* The rest of the system *)

begin_request ==
    /\ served /\ ~open
    /\ open' = TRUE
    /\ UNCHANGED <<record, made, aged, disk, dump, task, now, version, reaping, restore>>

commit_request ==
    /\ served /\ open
    /\ open' = FALSE
    /\ version' = IF version < MaxWrites THEN version + 1 ELSE version
    /\ UNCHANGED <<record, made, aged, disk, dump, task, now, reaping, restore>>

tick ==
    /\ now < LastSecond
    /\ now' = now + 1
    /\ UNCHANGED <<record, made, aged, disk, dump, task, version, reaping, restore, open>>

grow_old ==
    /\ aged < made
    /\ aged' = aged + 1
    /\ UNCHANGED <<record, made, disk, dump, task, now, version, reaping, restore, open>>

Next ==
    \/ trigger_backup \/ backup_database
    \/ \E b \in Ids :
        \/ delete_backup(b) \/ begin_restore(b)
        \/ start(b) \/ begin_dump(b) \/ complete(b) \/ fail(b) \/ kill(b)
        \/ prune_old_backups(b)
    \/ begin_reap \/ reap_stale_backups
    \/ run_pg_restore \/ restore_fails
    \/ begin_request \/ commit_request
    \/ tick \/ grow_old

Spec == Init /\ [][Next]_backupVars

\* The beat starts the reaper every 15 minutes, and time passes.
FairSpec ==
    Spec /\ WF_backupVars(begin_reap) /\ WF_backupVars(reap_stale_backups) /\ WF_backupVars(grow_old)

-----------------------------------------------------------------------------
(* Properties *)

(* "Mark any backup stuck in pending/running for >30 min as failed. Covers *)
(* the case where the Celery worker died mid-task": no record stays in     *)
(* progress, also one that a restore brought back as it was.               *)
EveryBackupSettles == \A b \in Ids : in_progress(b) ~> ~in_progress(b)

(* "Pre-restore safety snapshot": after a restore its snapshot is among    *)
(* the records, so that the restore can be undone.                         *)
SnapshotIsAtHand ==
    restore.phase = "restored" /\ restore.snapshot # 0 => exists(restore.snapshot)

(* ... and holds the database as it was before the restore.                *)
SnapshotIsOfBefore ==
    restore.phase = "restored" /\ restore.snapshot # 0
        /\ dump[restore.snapshot] # Absent
    => dump[restore.snapshot].version = restore.undone

(* The restore does not wait for a transaction that its own process, busy  *)
(* with pg_restore, cannot end.                                            *)
RestoreIsFree == ~(restore.phase = "restoring" /\ open)

(* A completed backup has the file it was completed with.                  *)
CompletedHasItsFile == \A b \in Ids : completed(b) => get_download_path(b)

(* "Owns the full lifecycle: pending -> running -> completed/failed".      *)
LifecycleIsKept ==
    [][\A b \in Ids : status(b) \in {"completed", "failed"} =>
        status(b)' \in {status(b), "none"}]_backupVars
=============================================================================
