-------------------------------- MODULE Mailings --------------------------------
(***************************************************************************)
(* Messages to many: broadcasts to the ticket-holders of an event, the     *)
(* announcement to the waitlist, and notices to the members of an          *)
(* organization.                                                           *)
(*                                                                         *)
(* A broadcast is a row with counts and one task per chunk of recipients;  *)
(* each chunk adds what it sent to the row.  An announcement locks the     *)
(* subscribers nobody else has locked, queues their mail and marks them.   *)
(* A notice is written by a transaction that took the cooldown in Redis,   *)
(* and is in the bell of every member once that commits.  Tasks leave for  *)
(* the worker before the transaction that sends them commits.  Texts,      *)
(* preferences and ownership are left out.                                 *)
(***************************************************************************)
EXTENDS Naturals, FiniteSets, FiniteSetsExt

CONSTANTS
    Broadcasts, MaxRecipients, CHUNK_SIZE,
    Registered,     \* modules of tasks the worker includes
    WorkersDie,     \* whether workers may be killed
    Emails,         \* addresses that join the waitlist
    Admins,         \* announcements in progress, one each
    max_retries,
    MaxFailures,    \* bound: announcements that fail
    Members,        \* of the organization
    Sales,          \* transactions that notify it: a vote, a ticket
    MaxWindows      \* bound: cooldowns that run out

Absent == [status |-> "none"]
Idle == [op |-> "idle"]

VARIABLES
    broadcast,      \* event_broadcasts
    chunk,          \* tasks of broadcasts
    counted,        \* chunks whose counts reached the row
    subscriber,     \* waitlist_subscribers
    mail,           \* send_email_task of an announcement
    announcement,   \* announcements in progress
    failed_runs,    \* failed announcements that had queued mail for each address
    cooldown,       \* notif_cooldown key of the parent
    window,         \* cooldowns so far
    sale,           \* transactions that notify
    bell            \* notifications of each member

broadcastVars == <<broadcast, chunk, counted>>
waitlistVars == <<subscriber, mail, announcement, failed_runs>>
noticeVars == <<cooldown, window, sale, bell>>
mailVars == <<broadcastVars, waitlistVars, noticeVars>>

Chunks == 1..MaxRecipients
Tickets == 1..MaxRecipients

chunks(n) == {i \in Chunks : (i - 1) * CHUNK_SIZE < n}
size(n, i) == IF i * CHUNK_SIZE <= n THEN CHUNK_SIZE ELSE n - (i - 1) * CHUNK_SIZE

TypeOK ==
    /\ \A b \in Broadcasts : broadcast[b].status \in {"none", "unsaved", "sending", "completed"}
    /\ counted \subseteq Broadcasts \X Chunks
    /\ subscriber \in [Emails -> {"none", "pending", "notified"}]
    /\ failed_runs \in [Emails -> 0..MaxFailures]
    /\ window \in 0..MaxWindows /\ cooldown \in BOOLEAN
    /\ bell \in [Members -> [Sales -> {"none", "unread", "read"}]]

Init ==
    /\ broadcast = [b \in Broadcasts |-> Absent]
    /\ chunk = [b \in Broadcasts |-> [i \in Chunks |-> Absent]]
    /\ counted = {}
    /\ subscriber = [e \in Emails |-> "none"]
    /\ mail = [e \in Emails |-> [queued |-> 0, tries |-> 0, received |-> 0, in_doubt |-> 0]]
    /\ announcement = [a \in Admins |-> Idle]
    /\ failed_runs = [e \in Emails |-> 0]
    /\ cooldown = FALSE /\ window = 0
    /\ sale = [s \in Sales |-> Idle]
    /\ bell = [u \in Members |-> [s \in Sales |-> "none"]]

-----------------------------------------------------------------------------
(* Broadcasts *)

\* Every chunk is a task before the row is committed.
send(b, n) ==
    /\ broadcast[b] = Absent /\ n > 0
    /\ broadcast' = [broadcast EXCEPT ![b] =
        [status |-> "unsaved", recipient_count |-> n, sent_count |-> 0, failed_count |-> 0]]
    /\ chunk' = [chunk EXCEPT ![b] = [i \in Chunks |->
        IF i \in chunks(n) THEN [status |-> "queued", size |-> size(n, i)] ELSE Absent]]
    /\ UNCHANGED <<counted, waitlistVars, noticeVars>>

commit_broadcast(b) ==
    /\ broadcast[b].status = "unsaved"
    /\ broadcast' = [broadcast EXCEPT ![b].status = "sending"]
    /\ UNCHANGED <<chunk, counted, waitlistVars, noticeVars>>

begin_chunk(b, i, ok) ==
    /\ chunk[b][i].status = "queued" /\ "event_broadcast_tasks" \in Registered
    /\ ok <= chunk[b][i].size
    /\ chunk' = [chunk EXCEPT ![b][i] = [status |-> "mailed", sent |-> ok,
        failed |-> chunk[b][i].size - ok, seen |-> broadcast[b]]]
    /\ UNCHANGED <<broadcast, counted, waitlistVars, noticeVars>>

\* MUTANT of folded: the counts read before the mail was sent.
folded_from_read(row, c) == [row EXCEPT
    !.sent_count = c.seen.sent_count + c.sent, !.failed_count = c.seen.failed_count + c.failed,
    !.status = IF c.seen.sent_count + c.seen.failed_count + c.sent + c.failed >= row.recipient_count
               THEN "completed" ELSE @]

\* One UPDATE relative to the columns.
folded(row, c) == [row EXCEPT
    !.sent_count = @ + c.sent, !.failed_count = @ + c.failed,
    !.status = IF row.sent_count + row.failed_count + c.sent + c.failed >= row.recipient_count
               THEN "completed" ELSE @]

\* A row that is not committed yet is not found, and nothing is said of it.
send_broadcast_chunk(b, i) ==
    LET found == broadcast[b].status \in {"sending", "completed"} IN
    /\ chunk[b][i].status = "mailed"
    /\ broadcast' = IF found THEN [broadcast EXCEPT ![b] = folded(@, chunk[b][i])] ELSE broadcast
    /\ counted' = IF found THEN counted \cup {<<b, i>>} ELSE counted
    /\ chunk' = [chunk EXCEPT ![b][i] = [status |-> "done"]]
    /\ UNCHANGED <<waitlistVars, noticeVars>>

\* A worker that does not know the task, or that is killed over it, drops it.
lose_chunk(b, i) ==
    /\ \/ chunk[b][i].status = "queued" /\ "event_broadcast_tasks" \notin Registered
       \/ chunk[b][i].status = "mailed" /\ WorkersDie
    /\ chunk' = [chunk EXCEPT ![b][i] = [status |-> "done"]]
    /\ UNCHANGED <<broadcast, counted, waitlistVars, noticeVars>>

-----------------------------------------------------------------------------
(* The waitlist *)

\* Commits, and the unique address makes a second row impossible.
subscribe(e) ==
    /\ subscriber[e] = "none"
    /\ subscriber' = [subscriber EXCEPT ![e] = "pending"]
    /\ UNCHANGED <<mail, announcement, failed_runs, broadcastVars, noticeVars>>

locked == UNION {announcement[a].rows : a \in {x \in Admins : announcement[x] # Idle}}

\* MUTANT of unnotified: no lock is asked for.
unnotified_unlocked == {e \in Emails : subscriber[e] = "pending"}

\* FOR UPDATE SKIP LOCKED
unnotified == {e \in Emails : subscriber[e] = "pending"} \ locked

begin_announce(a) ==
    /\ announcement[a] = Idle
    /\ announcement' = [announcement EXCEPT ![a] = [op |-> "announce", rows |-> unnotified, queued |-> {}]]
    /\ UNCHANGED <<subscriber, mail, failed_runs, broadcastVars, noticeVars>>

queue_mail(a, e) ==
    /\ announcement[a] # Idle /\ e \in announcement[a].rows \ announcement[a].queued
    /\ announcement' = [announcement EXCEPT ![a].queued = @ \cup {e}]
    /\ mail' = [mail EXCEPT ![e].queued = @ + 1]
    /\ UNCHANGED <<subscriber, failed_runs, broadcastVars, noticeVars>>

announce(a) ==
    /\ announcement[a] # Idle /\ announcement[a].queued = announcement[a].rows
    /\ subscriber' = [e \in Emails |-> IF e \in announcement[a].rows THEN "notified" ELSE subscriber[e]]
    /\ announcement' = [announcement EXCEPT ![a] = Idle]
    /\ UNCHANGED <<mail, failed_runs, broadcastVars, noticeVars>>

\* The broker or the database fails: what was queued is not taken back.
announce_fails(a) ==
    /\ announcement[a] # Idle /\ announcement[a].queued # {}
    /\ \A e \in announcement[a].queued : failed_runs[e] < MaxFailures
    /\ failed_runs' = [e \in Emails |-> failed_runs[e] + (IF e \in announcement[a].queued THEN 1 ELSE 0)]
    /\ announcement' = [announcement EXCEPT ![a] = Idle]
    /\ UNCHANGED <<subscriber, mail, broadcastVars, noticeVars>>

\* One attempt; the last failure gives the message up.  An error after the
\* server took the message counts as a failure too.
send_email_task(e, outcome) ==
    /\ mail[e].queued > 0 /\ outcome \in {"sent", "refused", "unknown"}
    /\ LET over == outcome = "sent" \/ mail[e].tries = max_retries IN
       mail' = [mail EXCEPT ![e] = [
            queued |-> IF over THEN @.queued - 1 ELSE @.queued,
            tries |-> IF over THEN 0 ELSE @.tries + 1,
            received |-> IF outcome = "refused" THEN @.received ELSE @.received + 1,
            in_doubt |-> IF outcome = "unknown" THEN @.in_doubt + 1 ELSE @.in_doubt]]
    /\ UNCHANGED <<subscriber, announcement, failed_runs, broadcastVars, noticeVars>>

-----------------------------------------------------------------------------
(* Notices *)

\* MUTANT of acquire: the key is written whoever had it.
acquire_always == TRUE

\* SET NX
acquire == ~cooldown

\* The key is set at once, the notice waits for the commit.
notify(s) ==
    /\ sale[s] = Idle /\ window < MaxWindows
    /\ sale' = [sale EXCEPT ![s] =
        [op |-> "sale", window |-> window, notifies |-> IF acquire THEN Members ELSE {}]]
    /\ cooldown' = TRUE
    /\ UNCHANGED <<window, bell, broadcastVars, waitlistVars>>

commit_sale(s) ==
    /\ sale[s].op = "sale"
    /\ bell' = [u \in Members |-> IF u \in sale[s].notifies THEN [bell[u] EXCEPT ![s] = "unread"] ELSE bell[u]]
    /\ sale' = [sale EXCEPT ![s].op = "done"]
    /\ UNCHANGED <<cooldown, window, broadcastVars, waitlistVars>>

roll_back_sale(s) ==
    /\ sale[s].op = "sale"
    /\ sale' = [sale EXCEPT ![s].op = "failed"]
    /\ UNCHANGED <<cooldown, window, bell, broadcastVars, waitlistVars>>

cooldown_ends ==
    /\ cooldown /\ window < MaxWindows
    /\ cooldown' = FALSE /\ window' = window + 1
    /\ UNCHANGED <<sale, bell, broadcastVars, waitlistVars>>

mark_read(u, s) ==
    /\ bell[u][s] # "none"
    /\ bell' = [bell EXCEPT ![u][s] = "read"]
    /\ UNCHANGED <<cooldown, window, sale, broadcastVars, waitlistVars>>

mark_all_read(u) ==
    /\ bell' = [bell EXCEPT ![u] = [s \in Sales |-> IF @[s] = "unread" THEN "read" ELSE @[s]]]
    /\ UNCHANGED <<cooldown, window, sale, broadcastVars, waitlistVars>>

-----------------------------------------------------------------------------
work(b, i) == (\E ok \in 0..CHUNK_SIZE : begin_chunk(b, i, ok)) \/ send_broadcast_chunk(b, i)

Next ==
    \/ \E b \in Broadcasts :
        \/ \E n \in Tickets : send(b, n)
        \/ commit_broadcast(b)
        \/ \E i \in Chunks : work(b, i) \/ lose_chunk(b, i)
    \/ \E e \in Emails :
        \/ subscribe(e)
        \/ \E outcome \in {"sent", "refused", "unknown"} : send_email_task(e, outcome)
        \/ \E a \in Admins : queue_mail(a, e)
    \/ \E a \in Admins : begin_announce(a) \/ announce(a) \/ announce_fails(a)
    \/ \E s \in Sales : notify(s) \/ commit_sale(s) \/ roll_back_sale(s)
    \/ cooldown_ends
    \/ \E u \in Members : mark_all_read(u) \/ \E s \in Sales : mark_read(u, s)

Spec == Init /\ [][Next]_mailVars

\* Transactions end and the worker works its queue.
FairSpec ==
    /\ Spec
    /\ \A b \in Broadcasts : WF_mailVars(commit_broadcast(b))
        /\ \A i \in Chunks : WF_mailVars(work(b, i))

-----------------------------------------------------------------------------
(* Properties *)

\* The totals of the first numbers, up to i, and of all of them.
running(f) ==
    LET sum[i \in 0..MaxRecipients] == IF i = 0 THEN 0 ELSE sum[i - 1] + f[i]
    IN  sum
total(f) == running(f)[MaxRecipients]

\* The recipients of each chunk whose counts have reached the row.
reached(b) == [i \in Chunks |->
    IF <<b, i>> \in counted THEN size(broadcast[b].recipient_count, i) ELSE 0]

(* "Concurrent chunks finishing at the same time can't clobber each        *)
(* other": the counts are those of the chunks that found the row, and the  *)
(* broadcast is completed exactly when they are all the recipients.        *)
CountsAreExact ==
    \A b \in Broadcasts : broadcast[b].status \in {"sending", "completed"} =>
        LET row == broadcast[b]
            n == total(reached(b))
        IN /\ row.sent_count + row.failed_count = n
           /\ row.status = "completed" <=> n = row.recipient_count

(* A broadcast that was sent is completed, when no worker dies over it.    *)
BroadcastsComplete ==
    \A b \in Broadcasts : broadcast[b].status = "sending" ~> broadcast[b].status = "completed"

(* "Send the launch email to every subscriber not yet notified.            *)
(* Re-runnable": however announcements overlap, a subscriber receives one  *)
(* message, and one more for each run that failed after it was queued and  *)
(* each attempt of which nobody could tell whether it succeeded.           *)
AnnouncedOnce ==
    \A e \in Emails : mail[e].received + mail[e].queued <= 1 + failed_runs[e] + mail[e].in_doubt

(* "At most one notification per parent per window": whatever happens at   *)
(* the same time, two notices of one window are never both in the bell.    *)
OneNoticePerWindow ==
    \A u \in Members, s, t \in Sales :
        s # t /\ bell[u][s] # "none" /\ bell[u][t] # "none" => sale[s].window # sale[t].window

(* "Tells the organizer at most once per cooldown window", and not less:   *)
(* when a window is over in which a vote was counted, there was a notice.  *)
NoticedInItsWindow ==
    \A s \in Sales : sale[s].op = "done" /\ sale[s].window < window
        /\ (\A t \in Sales : sale[t].op # "sale")
        => \A u \in Members : \E t \in Sales : bell[u][t] # "none" /\ sale[t].window = sale[s].window
=============================================================================
