------------------------------ MODULE CheckIn ------------------------------
(***************************************************************************)
(* Check-in: what happens to an issued ticket of one event at the gate.    *)
(*                                                                         *)
(* Gate staff scan tickets, with a shared link or signed in; holders       *)
(* cancel theirs; an hourly Celery beat task expires what is left once the *)
(* event's date is past.  None of them locks a ticket: each reads its      *)
(* status in one statement and writes it in a later one, whatever it has   *)
(* become since.  A scan that finds the ticket used, cancelled or expired, *)
(* or check-in switched off, changes nothing and is left out.              *)
(***************************************************************************)
EXTENDS Integers, FiniteSets

CONSTANTS
    Tickets,    \* the tickets issued for the event
    Scanners,   \* slots for scans served concurrently
    Holders,    \* slots for cancellations served concurrently
    Sweeping,   \* does Celery beat run check_expired_tickets?
    Grace,      \* SCAN_LINK_GRACE_DAYS
    EventDates, \* dates the organizer may give the event
    LastDay     \* bound on the calendar

NoTicket == "no ticket"
Channels == {"scan", "manual_code"}

ASSUME ConstantsAssumption ==
    /\ NoTicket \notin Tickets
    /\ Sweeping \in BOOLEAN
    /\ Grace \in Nat /\ LastDay \in Nat
    /\ EventDates \subseteq Nat /\ EventDates # {}

VARIABLES
    status,        \* ticket_status of each ticket
    channel,       \* check_in_channel of each ticket
    admitted,      \* "Entry granted" answers given for each ticket
    scan_enabled,  \* events.scan_enabled
    event_date,    \* events.event_date
    link,          \* the event date the shared check-in link was made for
    today,         \* the UTC date
    scan,          \* the scans being served
    cancel,        \* the cancellations being served
    sweep          \* the tickets a running check_expired_tickets has read

vars == <<status, channel, admitted, scan_enabled, event_date, link, today,
          scan, cancel, sweep>>
clock == <<event_date, link, today>>
table == <<status, channel, admitted>>

NoScan == [ticket |-> NoTicket, channel |-> "scan"]

TypeOK ==
    /\ status \in [Tickets -> {"valid", "used", "cancelled", "expired"}]
    /\ channel \in [Tickets -> Channels \cup {"none"}]
    /\ admitted \in [Tickets -> Nat]
    /\ scan_enabled \in BOOLEAN
    /\ event_date \in EventDates
    /\ link \in EventDates
    /\ today \in Nat
    /\ scan \in [Scanners -> [ticket : Tickets \cup {NoTicket}, channel : Channels]]
    /\ cancel \in [Holders -> Tickets \cup {NoTicket}]
    /\ sweep \subseteq Tickets

Init ==
    /\ status = [t \in Tickets |-> "valid"]
    /\ channel = [t \in Tickets |-> "none"]
    /\ admitted = [t \in Tickets |-> 0]
    /\ scan_enabled = TRUE
    /\ event_date \in EventDates
    /\ link = event_date
    /\ today = 0
    /\ scan = [s \in Scanners |-> NoScan]
    /\ cancel = [h \in Holders |-> NoTicket]
    /\ sweep = {}

-----------------------------------------------------------------------------
(* The gate *)

\* A link works to the end of the last day of grace; staff may also sign in.
lets_in(how) == how = "scan" => today <= link + Grace

\* MUTANT of validate_ticket: only a cancelled ticket is turned away.
validate_uncancelled(s, t, how) ==
    /\ scan[s].ticket = NoTicket
    /\ lets_in(how)
    /\ scan_enabled
    /\ status[t] # "cancelled"
    /\ scan' = [scan EXCEPT ![s] = [ticket |-> t, channel |-> how]]
    /\ UNCHANGED <<table, scan_enabled, clock, cancel, sweep>>

\* The ticket is read and found good.
validate_ticket(s, t, how) ==
    /\ scan[s].ticket = NoTicket
    /\ lets_in(how)
    /\ scan_enabled
    /\ status[t] = "valid"
    /\ scan' = [scan EXCEPT ![s] = [ticket |-> t, channel |-> how]]
    /\ UNCHANGED <<table, scan_enabled, clock, cancel, sweep>>

\* MUTANT of mark_as_used: the guest is let in and nothing is written down.
wave_through(s) ==
    LET t == scan[s].ticket IN
    /\ t # NoTicket
    /\ admitted' = [admitted EXCEPT ![t] = @ + 1]
    /\ scan' = [scan EXCEPT ![s] = NoScan]
    /\ UNCHANGED <<status, channel, scan_enabled, clock, cancel, sweep>>

\* The second read sees the session's own copy, so the write follows the first.
mark_as_used(s) ==
    LET t == scan[s].ticket IN
    /\ t # NoTicket
    /\ status' = [status EXCEPT ![t] = "used"]
    /\ channel' = [channel EXCEPT ![t] = scan[s].channel]
    /\ admitted' = [admitted EXCEPT ![t] = @ + 1]
    /\ scan' = [scan EXCEPT ![s] = NoScan]
    /\ UNCHANGED <<scan_enabled, clock, cancel, sweep>>

-----------------------------------------------------------------------------
(* The holder *)

begin_cancel(h, t) ==
    /\ cancel[h] = NoTicket
    /\ status[t] = "valid"
    /\ cancel' = [cancel EXCEPT ![h] = t]
    /\ UNCHANGED <<table, scan_enabled, clock, scan, sweep>>

\* MUTANT of cancel_ticket: a status no reader knows.
cancel_misspelt(h) ==
    /\ cancel[h] # NoTicket
    /\ status' = [status EXCEPT ![cancel[h]] = "canceled"]
    /\ cancel' = [cancel EXCEPT ![h] = NoTicket]
    /\ UNCHANGED <<channel, admitted, scan_enabled, clock, scan, sweep>>

cancel_ticket(h) ==
    /\ cancel[h] # NoTicket
    /\ status' = [status EXCEPT ![cancel[h]] = "cancelled"]
    /\ cancel' = [cancel EXCEPT ![h] = NoTicket]
    /\ UNCHANGED <<channel, admitted, scan_enabled, clock, scan, sweep>>

-----------------------------------------------------------------------------
(* The hourly task *)

past == event_date < today

read_valid_tickets ==
    /\ Sweeping /\ past /\ sweep = {}
    /\ sweep' = {t \in Tickets : status[t] = "valid"}
    /\ sweep' # {}
    /\ UNCHANGED <<table, scan_enabled, clock, scan, cancel>>

\* MUTANT of check_expired_tickets: the session is closed without a commit.
expire_uncommitted ==
    /\ sweep # {}
    /\ sweep' = {}
    /\ UNCHANGED <<table, scan_enabled, clock, scan, cancel>>

check_expired_tickets ==
    /\ sweep # {}
    /\ status' = [t \in Tickets |-> IF t \in sweep THEN "expired" ELSE status[t]]
    /\ sweep' = {}
    /\ UNCHANGED <<channel, admitted, scan_enabled, clock, scan, cancel>>

\* A handler or the task dies before its commit.
roll_back ==
    /\ \/ /\ \E s \in Scanners : scan[s].ticket # NoTicket /\ scan' = [scan EXCEPT ![s] = NoScan]
          /\ UNCHANGED <<cancel, sweep>>
       \/ /\ \E h \in Holders : cancel[h] # NoTicket /\ cancel' = [cancel EXCEPT ![h] = NoTicket]
          /\ UNCHANGED <<scan, sweep>>
       \/ /\ sweep # {} /\ sweep' = {}
          /\ UNCHANGED <<scan, cancel>>
    /\ UNCHANGED <<table, scan_enabled, clock>>

-----------------------------------------------------------------------------
(* The organizer and the calendar *)

\* update_event and update_event_settings check nothing about the old values.
switch_check_in ==
    /\ scan_enabled' = ~scan_enabled
    /\ UNCHANGED <<table, clock, scan, cancel, sweep>>

update_event ==
    /\ \E d \in EventDates \ {event_date} : event_date' = d
    /\ UNCHANGED <<table, scan_enabled, link, today, scan, cancel, sweep>>

get_event_scan_token ==
    /\ link' = event_date
    /\ UNCHANGED <<table, scan_enabled, event_date, today, scan, cancel, sweep>>

midnight ==
    /\ today < LastDay
    /\ today' = today + 1
    /\ UNCHANGED <<table, scan_enabled, event_date, link, scan, cancel, sweep>>

Next ==
    \/ \E s \in Scanners, t \in Tickets, how \in Channels : validate_ticket(s, t, how)
    \/ \E s \in Scanners : mark_as_used(s)
    \/ \E h \in Holders, t \in Tickets : begin_cancel(h, t)
    \/ \E h \in Holders : cancel_ticket(h)
    \/ roll_back
    \/ read_valid_tickets
    \/ check_expired_tickets
    \/ switch_check_in
    \/ update_event
    \/ get_event_scan_token
    \/ midnight

Spec == Init /\ [][Next]_vars

\* Beat keeps running the task, and not every run of it dies.
Fairness == WF_vars(read_valid_tickets) /\ SF_vars(check_expired_tickets)
FairSpec == Spec /\ Fairness

-----------------------------------------------------------------------------
(* Properties *)

(* A ticket lets one guest in ("Ticket has already been used"), whatever   *)
(* holders, the hourly task and the organizer do between two scans.        *)
AdmittedOnce == \A t \in Tickets : admitted[t] <= 1

(* Entry is granted exactly for the tickets marked as used: no guest is    *)
(* inside on a ticket the register still has as valid, and none is on the  *)
(* register who was never let in.                                          *)
RegisterIsTrue == \A t \in Tickets : status[t] = "used" <=> admitted[t] > 0

(* The task expires "still-'valid' tickets": never one whose guest is in.  *)
ExpiredWasUnused == \A t \in Tickets : status[t] = "expired" => admitted[t] = 0

(* "Only valid tickets can be cancelled" (cancel_ticket): never one whose  *)
(* guest is in.                                                            *)
CancelledWasUnused == \A t \in Tickets : status[t] = "cancelled" => admitted[t] = 0

(* The grace of the check-in link is for "late check-ins" and an "event    *)
(* running past midnight" (events.py): while a link for the event's date   *)
(* still works, no ticket of it has expired.                               *)
GoodForTheGrace ==
    today <= event_date + Grace => \A t \in Tickets : status[t] # "expired"

(* Once the date is past for good no ticket stays valid, although scans    *)
(* and cancellations may still be writing what they read before.           *)
LeftoversExpire == <>[]past => <>[](\A t \in Tickets : status[t] # "valid")
=============================================================================
