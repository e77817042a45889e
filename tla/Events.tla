-------------------------------- MODULE Events --------------------------------
(***************************************************************************)
(* An event as its organizers run it: its status, the voting categories,   *)
(* the capacity and the ticket types, the front desk, and the guests who   *)
(* answer an invitation.                                                   *)
(*                                                                         *)
(* Every handler is one database transaction at READ COMMITTED: it reads   *)
(* what it checks, and later writes and commits, and in between the other  *)
(* handlers do the same.  A handler is therefore a slot of `request`, from *)
(* its read to its commit.  Where the write is one statement that checks   *)
(* what it changes (decrement_available), that check is made at the        *)
(* commit.  Sales through the checkout are modelled in Ticketing.  Names,  *)
(* dates, pictures, the activity log and the organization's permission     *)
(* checks (Organizations) are left out.                                    *)
(***************************************************************************)
EXTENDS Naturals, FiniteSets, FiniteSetsExt

CONSTANTS
    Types,          \* ticket types that may be created
    Categories,     \* voting categories that may be created
    Guests,         \* e-mail addresses
    Invitations,    \* invitations that may be sent
    Requests,       \* slots for handlers in progress
    Quantities,     \* quantities an organizer enters or a buyer asks for
    Capacities,     \* capacities an organizer enters
    FreeStock,      \* the quantity of the free registration type
    LowStock,       \* the threshold of the low-stock alert
    MaxSold,        \* tickets of one type (a bound)
    MaxNominees     \* candidates of one category (a bound)

Absent == [state |-> "none"]
Idle == [op |-> "idle"]
NoBallot == [nominees |-> 0, there |-> FALSE]

VARIABLES
    event,      \* events: status, capacity
    type,       \* ticket_types, with the number of tickets that refer to each
    ballot,     \* the categories, with the number of their candidates
    invitation, \* event_invitations
    seat,       \* tickets made for each invitation
    passed,     \* the invitations whose expiry has passed
    alerts,     \* low-stock alerts sent for each type
    request

eventVars == <<event, type, ballot, invitation, seat, passed, alerts, request>>

there(t) == type[t] # Absent
allocated(S) ==
    MapThenSumSet(LAMBDA t : type[t].available + type[t].sold, {t \in S : there(t)})
pending(i) == invitation[i] # Absent /\ invitation[i].status = "pending"

TypeOK ==
    /\ event.status \in {"draft", "published", "cancelled", "deleted"}
    /\ event.capacity \in Capacities
    /\ \A t \in Types : there(t) =>
        /\ type[t].available \in Nat /\ type[t].sold \in 0..MaxSold
        /\ type[t].tickets \in Nat /\ type[t].name \in {"tier", "free"}
    /\ \A i \in Invitations : invitation[i] = Absent \/
        invitation[i].status \in {"pending", "accepted", "declined", "expired"}

Init ==
    /\ \E c \in Capacities : event = [status |-> "draft", capacity |-> c]
    /\ type = [t \in Types |-> Absent]
    /\ ballot = [c \in Categories |-> NoBallot]
    /\ invitation = [i \in Invitations |-> Absent]
    /\ seat = [i \in Invitations |-> 0]
    /\ passed = {}
    /\ alerts = [t \in Types |-> 0]
    /\ request = [r \in Requests |-> Idle]

exists == event.status # "deleted"

\* A handler that has read and checked what it needs.
begin(r, op) ==
    /\ request[r] = Idle /\ exists
    /\ request' = [request EXCEPT ![r] = op]
    /\ UNCHANGED <<event, type, ballot, invitation, seat, passed, alerts>>

finish(r) == request' = [request EXCEPT ![r] = Idle]

\* An exception, a refused statement or a lost connection: rolled back.
roll_back(r) ==
    /\ request[r] # Idle
    /\ finish(r)
    /\ UNCHANGED <<event, type, ballot, invitation, seat, passed, alerts>>

-----------------------------------------------------------------------------
(* The event *)

update_event(c) ==
    /\ exists /\ c # event.capacity
    /\ event' = [event EXCEPT !.capacity = c]
    /\ UNCHANGED <<type, ballot, invitation, seat, passed, alerts, request>>

\* Any category that exists must have candidates.
begin_publish(r) ==
    /\ event.status \in {"draft", "cancelled"}
    /\ \A c \in Categories : ballot[c].there => ballot[c].nominees > 0
    /\ begin(r, [op |-> "status", status |-> "published"])

begin_unpublish(r) ==
    /\ event.status = "published"
    /\ begin(r, [op |-> "status", status |-> "draft"])

begin_cancel(r) == begin(r, [op |-> "status", status |-> "cancelled"])

update_status(r) ==
    /\ request[r].op = "status" /\ exists
    /\ event' = [event EXCEPT !.status = request[r].status]
    /\ finish(r)
    /\ UNCHANGED <<type, ballot, invitation, seat, passed, alerts>>

begin_delete_event(r) == event.status = "draft" /\ begin(r, [op |-> "delete"])

\* The foreign key of a ticket to its event has no ON DELETE; types,
\* categories and invitations go with the event.
delete_event(r) ==
    /\ request[r].op = "delete" /\ exists
    /\ \A t \in Types : there(t) => type[t].tickets = 0
    /\ event' = [event EXCEPT !.status = "deleted"]
    /\ type' = [t \in Types |-> Absent]
    /\ ballot' = [c \in Categories |-> NoBallot]
    /\ invitation' = [i \in Invitations |-> Absent]
    /\ finish(r)
    /\ UNCHANGED <<seat, passed, alerts>>

-----------------------------------------------------------------------------
(* The ballot: everything but the removal of a candidate asks for a draft *)

begin_edit(r, c, edit) ==
    /\ event.status = "draft" \/ edit = "remove_candidate"
    /\ CASE edit = "add_category" -> ~ballot[c].there
         [] edit = "remove_candidate" -> ballot[c].nominees > 0
         [] OTHER -> ballot[c].there
    /\ begin(r, [op |-> edit, category |-> c])

edit_ballot(r) ==
    LET c == request[r].category IN
    /\ exists
    /\ \/ /\ request[r].op = "add_category"
          /\ ballot' = [ballot EXCEPT ![c].there = TRUE]
       \/ /\ request[r].op = "delete_category"
          /\ ballot' = [ballot EXCEPT ![c] = NoBallot]
       \/ /\ request[r].op = "add_candidate"
          /\ ballot[c].there /\ ballot[c].nominees < MaxNominees
          /\ ballot' = [ballot EXCEPT ![c].nominees = @ + 1]
       \/ /\ request[r].op = "remove_candidate"
          /\ ballot[c].nominees > 0
          /\ ballot' = [ballot EXCEPT ![c].nominees = @ - 1]
    /\ finish(r)
    /\ UNCHANGED <<event, type, invitation, seat, passed, alerts>>

-----------------------------------------------------------------------------
(* Ticket types *)

tier(name, n) == [state |-> "there", name |-> name, available |-> n, sold |-> 0, tickets |-> 0]

begin_create_type(r, t, n) ==
    /\ ~there(t)
    /\ allocated(Types) + n <= event.capacity
    /\ begin(r, [op |-> "create_type", type |-> t, quantity |-> n])

create_ticket_type(r) ==
    LET q == request[r] IN
    /\ q.op = "create_type" /\ exists /\ ~there(q.type)
    /\ type' = [type EXCEPT ![q.type] = tier("tier", q.quantity)]
    /\ finish(r)
    /\ UNCHANGED <<event, ballot, invitation, seat, passed, alerts>>

\* MUTANT of saved: the whole row is written back as it was read.
saved_whole(t, read, n) == [read EXCEPT !.available = n, !.tickets = type[t].tickets]

\* The UPDATE names the columns that changed.
saved(t, read, n) == [type[t] EXCEPT !.available = n]

\* What the type has sold itself is not counted.
begin_update_type(r, t, n) ==
    /\ there(t)
    /\ allocated(Types \ {t}) + n <= event.capacity
    /\ begin(r, [op |-> "update_type", type |-> t, quantity |-> n, read |-> type[t]])

update_ticket_type(r) ==
    LET q == request[r] IN
    /\ q.op = "update_type" /\ there(q.type)
    /\ type' = [type EXCEPT ![q.type] = saved(q.type, q.read, q.quantity)]
    /\ finish(r)
    /\ UNCHANGED <<event, ballot, invitation, seat, passed, alerts>>

begin_delete_type(r, t) ==
    /\ there(t) /\ type[t].sold = 0
    /\ begin(r, [op |-> "delete_type", type |-> t])

\* MUTANT of deletable: the tickets go with their type.
cascades(t) == TRUE

\* The foreign key of a ticket to its type has no ON DELETE.
deletable(t) == type[t].tickets = 0

delete_ticket_type(r) ==
    LET t == request[r].type IN
    /\ request[r].op = "delete_type" /\ there(t) /\ deletable(t)
    /\ type' = [type EXCEPT ![t] = Absent]
    /\ finish(r)
    /\ UNCHANGED <<event, ballot, invitation, seat, passed, alerts>>

-----------------------------------------------------------------------------
(* The front desk *)

begin_sell(r, t, n) ==
    /\ there(t)
    /\ begin(r, [op |-> "sell", type |-> t, quantity |-> n, read |-> type[t].available])

\* The stock the alert looks at is that of the object in memory, which the
\* session has updated along with the statement: it counts the sale twice.
alert_due(read, n) ==
    LET pre_remaining == read - n IN
    read >= 2 * n /\ pre_remaining > LowStock /\ LowStock >= pre_remaining - n

\* decrement_available, and the tickets.
less_sold(row, n) ==
    [row EXCEPT !.available = @ - n, !.sold = @ + n, !.tickets = @ + n]

front_desk_sell(r) ==
    LET q == request[r] IN
    /\ q.op = "sell" /\ there(q.type)
    /\ type[q.type].available >= q.quantity
    /\ type[q.type].sold + q.quantity <= MaxSold
    /\ type' = [type EXCEPT ![q.type] = less_sold(type[q.type], q.quantity)]
    /\ alerts' = [alerts EXCEPT ![q.type] = @ + IF alert_due(q.read, q.quantity) THEN 1 ELSE 0]
    /\ finish(r)
    /\ UNCHANGED <<event, ballot, invitation, seat, passed>>

free_types == {t \in Types : there(t) /\ type[t].name = "free"}

\* get_or_create_free_registration_type: what it found, if anything.
registration(op, found) == [op |-> op, found |-> found]
findings == IF free_types # {} THEN {{t} : t \in free_types} ELSE {{}}

begin_register(r, found) ==
    /\ found \in findings
    /\ begin(r, registration("register", found))

one_more(row) == [row EXCEPT !.tickets = @ + 1]

\* A type is created if none was found, and the foreign key refuses one that
\* was deleted since.  The stock of the type is not touched.
registers(found, t) ==
    /\ exists
    /\ IF found = {} THEN ~there(t) ELSE t \in found /\ there(t) /\ type[t].tickets < MaxSold
    /\ type' = [type EXCEPT ![t] =
        one_more(IF found = {} THEN tier("free", FreeStock) ELSE type[t])]

front_desk_register(r, t) ==
    /\ request[r].op = "register"
    /\ registers(request[r].found, t)
    /\ finish(r)
    /\ UNCHANGED <<event, ballot, invitation, seat, passed, alerts>>

-----------------------------------------------------------------------------
(* Invitations *)

begin_invite(r, i, g) ==
    /\ invitation[i] = Absent
    /\ ~\E j \in Invitations : pending(j) /\ invitation[j].email = g
    /\ begin(r, [op |-> "invite", invitation |-> i, email |-> g])

invite(r) ==
    LET q == request[r] IN
    /\ q.op = "invite" /\ exists /\ invitation[q.invitation] = Absent
    /\ invitation' = [invitation EXCEPT ![q.invitation] =
        [state |-> "there", email |-> q.email, status |-> "pending"]]
    /\ finish(r)
    /\ UNCHANGED <<event, type, ballot, seat, passed, alerts>>

expire(i) ==
    /\ invitation[i] # Absent /\ i \notin passed
    /\ passed' = passed \cup {i}
    /\ UNCHANGED <<event, type, ballot, invitation, seat, alerts, request>>

begin_get_by_token(r, i) ==
    /\ pending(i) /\ i \in passed
    /\ begin(r, [op |-> "lapse", invitation |-> i])

\* The row is locked from the flush of its new status to the commit.
locked(i) ==
    \E r \in Requests : request[r].op = "answered" /\ request[r].invitation = i

get_by_token(r) ==
    LET i == request[r].invitation IN
    /\ request[r].op = "lapse" /\ invitation[i] # Absent /\ ~locked(i)
    /\ invitation' = [invitation EXCEPT ![i].status = "expired"]
    /\ finish(r)
    /\ UNCHANGED <<event, type, ballot, seat, passed, alerts>>

\* A late answer marks the invitation expired and raises, which rolls it back.
begin_rsvp(r, i, response) ==
    /\ pending(i) /\ i \notin passed
    /\ begin(r, [op |-> "rsvp", invitation |-> i, response |-> response])

\* The status is flushed, and the types are read.
set_status(r) ==
    LET q == request[r] IN
    /\ q.op = "rsvp" /\ invitation[q.invitation] # Absent /\ ~locked(q.invitation)
    /\ \E found \in findings :
        request' = [request EXCEPT ![r] =
            [op |-> "answered", invitation |-> q.invitation, response |-> q.response,
             found |-> found]]
    /\ UNCHANGED <<event, type, ballot, invitation, seat, passed, alerts>>

reserves(i, found, t) ==
    /\ registers(found, t)
    /\ seat' = [seat EXCEPT ![i] = @ + 1]

\* MUTANT of takes_effect: the answer is kept when the registration fails.
keeps_the_answer(i, response, found) ==
    \/ response = "accepted" /\ \E t \in Types : reserves(i, found, t)
    \/ UNCHANGED <<type, seat>>

\* What an answer does besides being recorded, in the same transaction.
takes_effect(i, response, found) ==
    \/ response = "accepted" /\ \E t \in Types : reserves(i, found, t)
    \/ response = "declined" /\ UNCHANGED <<type, seat>>

rsvp(r) ==
    LET q == request[r] IN
    /\ q.op = "answered" /\ invitation[q.invitation] # Absent
    /\ invitation' = [invitation EXCEPT ![q.invitation].status = q.response]
    /\ takes_effect(q.invitation, q.response, q.found)
    /\ finish(r)
    /\ UNCHANGED <<event, ballot, passed, alerts>>

Next ==
    \/ \E c \in Capacities : update_event(c)
    \/ \E i \in Invitations : expire(i)
    \/ \E r \in Requests :
        \/ begin_publish(r) \/ begin_unpublish(r) \/ begin_cancel(r) \/ begin_delete_event(r)
        \/ update_status(r) \/ delete_event(r)
        \/ \E c \in Categories :
            \E e \in {"add_category", "delete_category", "add_candidate", "remove_candidate"} :
                begin_edit(r, c, e)
        \/ edit_ballot(r)
        \/ \E t \in Types :
            \/ \E n \in Quantities :
                begin_create_type(r, t, n) \/ begin_update_type(r, t, n) \/ begin_sell(r, t, n)
            \/ begin_delete_type(r, t)
            \/ front_desk_register(r, t)
        \/ create_ticket_type(r) \/ update_ticket_type(r) \/ delete_ticket_type(r)
        \/ front_desk_sell(r)
        \/ \E found \in findings : begin_register(r, found)
        \/ \E i \in Invitations :
            \/ \E g \in Guests : begin_invite(r, i, g)
            \/ begin_get_by_token(r, i)
            \/ \E response \in {"accepted", "declined"} : begin_rsvp(r, i, response)
        \/ invite(r) \/ get_by_token(r) \/ set_status(r) \/ rsvp(r)
        \/ roll_back(r)

Spec == Init /\ [][Next]_eventVars

-----------------------------------------------------------------------------
(* Properties *)

(* Front-desk sales, edits of the quantity and deletions overlap: a type   *)
(* counts as sold what it has tickets for, a free registration counts as   *)
(* nothing, and a type with tickets is never deleted (the check of         *)
(* delete_ticket_type on quantity_sold is stale by then, and says nothing  *)
(* of registrations).                                                      *)
TypesAccountForTickets ==
    /\ \A t \in Types : there(t) =>
        IF type[t].name = "tier" THEN type[t].sold = type[t].tickets
        ELSE type[t].sold <= type[t].tickets
    /\ \A i \in Invitations : seat[i] > 0 => free_types # {}

(* "Accepting reserves a real spot": an invitation stands as accepted only *)
(* if a ticket was made for it, whatever failed or came between.           *)
AcceptedHasASeat ==
    \A i \in Invitations :
        invitation[i] # Absent /\ invitation[i].status = "accepted" => seat[i] > 0

(* "Ticket quantities would exceed the event capacity": no edit of the     *)
(* ticket types takes what is sold and on sale past the capacity.          *)
CapacityHolds ==
    [][allocated(Types)' > allocated(Types) /\ event' = event
        /\ Cardinality(free_types') = Cardinality(free_types)
        => allocated(Types)' <= event.capacity]_eventVars

(* "Fires exactly once, on the sale that pushes remaining stock at or      *)
(* below the low-stock threshold".                                         *)
LowStockSaidOnce ==
    [][\A t \in Types :
        there(t) /\ there(t)' /\ type'[t].sold > type[t].sold =>
            (alerts'[t] > alerts[t] <=>
                type[t].available > LowStock /\ LowStock >= type'[t].available)]_eventVars

(* "This invitation has already been responded to": an answer is final.    *)
AnsweredOnce ==
    [][\A i \in Invitations :
        invitation[i] # Absent /\ invitation[i].status \in {"accepted", "declined"} =>
            \/ invitation'[i] \in {Absent, invitation[i]}]_eventVars

(* One invitation, one ticket.                                             *)
OneSeatEach == \A i \in Invitations : seat[i] <= 1

(* "Delete a draft event (published events must be cancelled instead)".    *)
OnlyDraftsAreDeleted ==
    [][event'.status = "deleted" => event.status = "draft"]_eventVars

(* "Any category that does exist must have candidates before it can go     *)
(* live", also when the ballot is edited meanwhile.                        *)
LiveBallotHasCandidates ==
    event.status = "published" =>
        \A c \in Categories : ballot[c].there => ballot[c].nominees > 0
=============================================================================
