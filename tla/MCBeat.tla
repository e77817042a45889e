-------------------------------- MODULE MCBeat --------------------------------
(* What the periodic tasks of Celery beat bring to an end: valid tickets   *)
(* of past events (CheckIn), elections past their dates (Elections) and    *)
(* backups that hang (Backups), each with variables of its own. A          *)
(* behaviour is one of a single part, and the others stay as they began.   *)
EXTENDS CheckIn, TLC

CONSTANTS k1, d1, v1, m1, o1

VARIABLES
    part,  \* the part of the behaviour that takes place
    election_status, election_start_datetime, election_end_datetime,
    election_categories, election_candidates, election_wording,
    election_votes, election_receipts, election_request, election_casting,
    election_starting, election_ending, election_now,
    backup_record, backup_made, backup_aged, backup_disk, backup_dump,
    backup_task, backup_now, backup_version, backup_reaping, backup_restore,
    backup_open

\* Every operation an organizer has.
Every == {"publish", "schedule", "close", "unpublish", "delete_election", "reschedule", "extend",
          "reword", "add_category", "delete_category", "add_candidate", "remove_candidate"}

Election == INSTANCE Elections WITH
    Categories <- {k1}, Candidates <- {d1}, Voters <- {v1}, Members <- {},
    Sessions <- {m1}, Organizers <- {o1}, Operations <- Every, Beat <- TRUE,
    Salts <- {1}, LastTick <- 2, MaxEdits <- 0, status <- election_status,
    start_datetime <- election_start_datetime,
    end_datetime <- election_end_datetime,
    categories <- election_categories, candidates <- election_candidates,
    wording <- election_wording, votes <- election_votes,
    receipts <- election_receipts, request <- election_request,
    casting <- election_casting, starting <- election_starting,
    ending <- election_ending, now <- election_now
electionVars == <<
    election_status, election_start_datetime, election_end_datetime,
    election_categories, election_candidates, election_wording,
    election_votes, election_receipts, election_request, election_casting,
    election_starting, election_ending, election_now>>

Backup == INSTANCE Backups WITH
    MaxBackups <- 2, Keep <- 1, LastSecond <- 1, MaxWrites <- 1,
    record <- backup_record, made <- backup_made, aged <- backup_aged,
    disk <- backup_disk, dump <- backup_dump, task <- backup_task,
    now <- backup_now, version <- backup_version, reaping <- backup_reaping,
    restore <- backup_restore, open <- backup_open
backupVars == <<
    backup_record, backup_made, backup_aged, backup_disk, backup_dump,
    backup_task, backup_now, backup_version, backup_reaping, backup_restore,
    backup_open>>

partVars == <<part, vars, electionVars, backupVars>>

Parts == {"gate", "elections", "backups"}

MCInit ==
    /\ part \in Parts
    /\ Init
    /\ part # "gate" => event_date = 0
    /\ Election!Init
    /\ Backup!Init
    /\ part # "elections" => election_start_datetime = 1 /\ election_end_datetime = 2

MCNext ==
    \/ /\ part = "gate"
       /\ Next
       /\ UNCHANGED <<part, electionVars, backupVars>>
    \/ /\ part = "elections"
       /\ Election!Next
       /\ UNCHANGED <<part, vars, backupVars>>
    \/ /\ part = "backups"
       /\ Backup!Next
       \* The first is the scheduled one; another request is open at most beside it.
       /\ \A b \in 1..2 : Backup!exists(b)' => backup_record'[b].type = IF b = 1 THEN "scheduled" ELSE "manual"
       /\ backup_open' => backup_made' <= 1
       /\ UNCHANGED <<part, vars, electionVars>>

MCSpec == MCInit /\ [][MCNext]_partVars

\* Only the part at hand makes progress, under the fairness of its module.
in(p) == part = p
CheckInFairness ==
    /\ WF_vars(in("gate") /\ read_valid_tickets)
    /\ SF_vars(in("gate") /\ check_expired_tickets)
ElectionFairness ==
    /\ WF_electionVars(in("elections") /\ Election!read_expired)
    /\ SF_electionVars(in("elections") /\ Election!check_election_status)
    /\ WF_electionVars(in("elections") /\ Election!read_scheduled)
    /\ SF_electionVars(in("elections") /\ Election!activate_scheduled_elections)
BackupFairness ==
    /\ WF_backupVars(in("backups") /\ Backup!begin_reap)
    /\ WF_backupVars(in("backups") /\ Backup!reap_stale_backups)
    /\ WF_backupVars(in("backups") /\ Backup!grow_old)
MCFairSpec == MCSpec /\ CheckInFairness /\ ElectionFairness /\ BackupFairness


-----------------------------------------------------------------------------
(* "Without this, elections never expire on their own": past its end for   *)
(* good, an election does not stay open (check_election_status).           *)
ExpiredIsClosed ==
    Election!ExpiredIsClosed

(* An election that stays due to start does not stay scheduled             *)
(* (activate_scheduled_elections).                                         *)
StartsOnSchedule ==
    Election!StartsOnSchedule

(* No backup stays in progress, also when its worker dies or a restore     *)
(* brings it back as it was (reap_stale_backups).                          *)
EveryBackupSettles ==
    Backup!EveryBackupSettles

===============================================================================
