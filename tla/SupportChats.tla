---------------------------- MODULE SupportChats ----------------------------
(***************************************************************************)
(* Support tickets: the email tickets and the live chats that share their  *)
(* table, the agents' queue, and the streams that show a conversation or   *)
(* the queue as it changes.                                                *)
(*                                                                         *)
(* The chat endpoints commit and then publish to the topics concerned,     *)
(* one after the other.  The email endpoints take the id of a chat as      *)
(* well, and publish nothing.  A stream subscribes, sends what it reads,   *)
(* and reads again for every message in its inbox; since it reads the      *)
(* current rows, the inbox is kept as empty or not.  SSE and WebSocket     *)
(* streams differ only in how they end.  Texts, priorities (always the     *)
(* same) and attachments are left out.                                     *)
(***************************************************************************)
EXTENDS Naturals

CONSTANTS
    Tickets,
    Agents,
    Requests,       \* slots for requests in progress
    Watchers,       \* slots for open streams
    Retention,      \* SUPPORT_CHAT_RETENTION_DAYS
    LastDay,        \* days the model looks at (a bound)
    MaxMessages     \* messages of a conversation (a bound)

NoAgent == "nobody"
Queue == "queue"
Topics == Tickets \cup {Queue}
Absent == [state |-> "none"]
Idle == [op |-> "idle"]
Closed == [state |-> "closed"]
EmailStatuses == {"Open", "Replied", "Resolved"}
ChatStatuses == {"Waiting", "Active", "Closed"}

VARIABLES
    ticket,      \* support_tickets, with the number of their messages
    today,
    request,     \* requests between their read and write, or commit and publish
    watcher,     \* open streams: topic, what they show, whether the inbox holds a message
    unannounced  \* topics whose last change was never published

chatVars == <<ticket, today, request, watcher, unannounced>>

exists(t) == ticket[t].state = "there"
is_chat(t) == exists(t) /\ ticket[t].channel = "chat"
waiting_chats == {t \in Tickets : is_chat(t) /\ ticket[t].status = "Waiting"}

\* What a stream reads.
compute(topic) == IF topic = Queue THEN waiting_chats ELSE ticket[topic]

TypeOK ==
    /\ \A t \in Tickets : exists(t) =>
        /\ ticket[t].status \in EmailStatuses \cup ChatStatuses
        /\ ticket[t].agent \in Agents \cup {NoAgent}
        /\ ticket[t].messages \in 1..MaxMessages
        /\ ticket[t].channel = "email" => ticket[t].status \in EmailStatuses
    /\ today \in 1..LastDay
    /\ unannounced \subseteq Topics

Init ==
    /\ ticket = [t \in Tickets |-> Absent]
    /\ today = 1
    /\ request = [r \in Requests |-> Idle]
    /\ watcher = [w \in Watchers |-> Closed]
    /\ unannounced = {}

\* MUTANT of notify_after: published before the commit, when those who
\* watched read the rows as they were.
notify_before(r, topics) ==
    /\ request' = [request EXCEPT ![r] = Idle]
    /\ UNCHANGED unannounced

\* "Commit before notifying."
notify_after(r, topics) ==
    /\ request' = [request EXCEPT ![r] = [op |-> "notify", topics |-> topics]]
    /\ UNCHANGED unannounced

set_status(t, status) == [ticket[t] EXCEPT !.status = status, !.updated = today]
insert(t, channel, status) ==
    ticket' = [ticket EXCEPT ![t] =
        [state |-> "there", channel |-> channel, status |-> status, agent |-> NoAgent,
         messages |-> 1, updated |-> today]]

\* A message does not touch the row of its ticket.
add_message(t) ==
    /\ ticket[t].messages < MaxMessages
    /\ ticket' = [ticket EXCEPT ![t].messages = @ + 1]

-----------------------------------------------------------------------------
(* Chats *)

start_chat(r, t) ==
    /\ request[r] = Idle /\ ~exists(t)
    /\ insert(t, "chat", "Waiting")
    /\ notify_after(r, <<Queue>>)
    /\ UNCHANGED <<today, watcher>>

\* Of the customer, or of any agent, whatever the status.
send_message(r, t) ==
    /\ request[r] = Idle /\ is_chat(t)
    /\ add_message(t)
    /\ notify_after(r, <<t>>)
    /\ UNCHANGED <<today, watcher>>

\* MUTANT of claimable: the row is updated whatever its status.
is_a_ticket(t) == exists(t)

\* The WHERE of claim_chat.
claimable(t) == exists(t) /\ ticket[t].status = "Waiting"

claim(r, t, a) ==
    /\ request[r] = Idle /\ claimable(t)
    /\ ticket' = [ticket EXCEPT ![t] = [set_status(t, "Active") EXCEPT !.agent = a]]
    /\ notify_after(r, <<Queue, t>>)
    /\ UNCHANGED <<today, watcher>>

\* Reads the ticket; the row is written later, if its status is another.
begin_close(r, t) ==
    /\ request[r] = Idle /\ is_chat(t)
    /\ request' = [request EXCEPT ![r] =
        [op |-> "close", ticket |-> t, writes |-> ticket[t].status # "Closed"]]
    /\ UNCHANGED <<ticket, today, watcher, unannounced>>

close(r) ==
    LET q == request[r] IN
    /\ q.op = "close" /\ exists(q.ticket)
    /\ ticket' = IF q.writes
                 THEN [ticket EXCEPT ![q.ticket] = set_status(q.ticket, "Closed")]
                 ELSE ticket
    /\ notify_after(r, <<Queue, q.ticket>>)
    /\ UNCHANGED <<today, watcher>>

-----------------------------------------------------------------------------
(* The email endpoints, which do not look at the channel *)

create_ticket(t) ==
    /\ ~exists(t)
    /\ insert(t, "email", "Open")
    /\ UNCHANGED <<today, request, watcher, unannounced>>

change_silently(t) == unannounced' = unannounced \cup (IF is_chat(t) THEN {t, Queue} ELSE {})

\* The status is written if it is another.
replied(t, status) ==
    [(IF ticket[t].status = status THEN ticket[t] ELSE set_status(t, status))
        EXCEPT !.messages = @ + 1]

\* reply_as_customer: "Open"; reply_as_agent: "Replied".
reply(t, status) ==
    /\ exists(t) /\ status \in {"Open", "Replied"}
    /\ ticket[t].messages < MaxMessages
    /\ ticket' = [ticket EXCEPT ![t] = replied(t, status)]
    /\ change_silently(t)
    /\ UNCHANGED <<today, request, watcher>>

update_status(t, status) ==
    /\ exists(t) /\ ticket[t].status # status
    /\ ticket' = [ticket EXCEPT ![t] = set_status(t, status)]
    /\ change_silently(t)
    /\ UNCHANGED <<today, request, watcher>>

-----------------------------------------------------------------------------
(* Redis and the streams *)

wake(topic) ==
    watcher' = [w \in Watchers |->
        IF watcher[w] # Closed /\ watcher[w].topic = topic
        THEN [watcher[w] EXCEPT !.inbox = TRUE] ELSE watcher[w]]

\* notify_queue_changed and notify_new_message.
publish(r) ==
    LET q == request[r] IN
    /\ q.op = "notify"
    /\ wake(q.topics[1])
    /\ unannounced' = unannounced \ {q.topics[1]}
    /\ request' = [request EXCEPT ![r] =
        IF q.topics = <<q.topics[1]>> THEN Idle ELSE [q EXCEPT !.topics = <<q.topics[2]>>]]
    /\ UNCHANGED <<ticket, today>>

\* The process dies, or Redis does not answer: the rest is never published.
fail(r) ==
    LET q == request[r] IN
    /\ q # Idle
    /\ request' = [request EXCEPT ![r] = Idle]
    /\ unannounced' = unannounced \cup
        (IF q.op = "notify" THEN {topic \in Topics : \E i \in DOMAIN q.topics : q.topics[i] = topic}
         ELSE {})
    /\ UNCHANGED <<ticket, today, watcher>>

\* Subscribed before the first read, which is still to come.
subscribe(w, topic) ==
    /\ watcher[w] = Closed
    /\ topic # Queue => is_chat(topic)
    /\ watcher' = [watcher EXCEPT ![w] =
        [state |-> "open", topic |-> topic, inbox |-> TRUE, shown |-> Absent]]
    /\ UNCHANGED <<ticket, today, request, unannounced>>

listen(w) ==
    LET v == watcher[w] IN
    /\ v # Closed /\ v.inbox
    /\ watcher' = [watcher EXCEPT ![w] =
        IF v.topic # Queue /\ ~exists(v.topic) THEN Closed
        ELSE [v EXCEPT !.inbox = FALSE, !.shown = compute(v.topic)]]
    /\ UNCHANGED <<ticket, today, request, unannounced>>

disconnect(w) ==
    /\ watcher[w] # Closed
    /\ watcher' = [watcher EXCEPT ![w] = Closed]
    /\ UNCHANGED <<ticket, today, request, unannounced>>

-----------------------------------------------------------------------------
(* Retention *)

next_day ==
    /\ today < LastDay
    /\ today' = today + 1
    /\ UNCHANGED <<ticket, request, watcher, unannounced>>

due(t) == is_chat(t) /\ ticket[t].status = "Closed" /\ ticket[t].updated + Retention < today

\* One DELETE of the tickets that are due.  The foreign key of their
\* messages has no ON DELETE, and a statement fails as a whole.
purge_closed_chats ==
    /\ \E t \in Tickets : due(t)
    /\ ticket' = IF \E t \in Tickets : due(t) /\ ticket[t].messages > 0
                 THEN ticket
                 ELSE [t \in Tickets |-> IF due(t) THEN Absent ELSE ticket[t]]
    /\ UNCHANGED <<today, request, watcher, unannounced>>

Next ==
    \/ \E r \in Requests :
        \/ \E t \in Tickets :
            \/ start_chat(r, t)
            \/ send_message(r, t)
            \/ begin_close(r, t)
            \/ \E a \in Agents : claim(r, t, a)
        \/ close(r)
        \/ publish(r)
        \/ fail(r)
    \/ \E t \in Tickets :
        \/ create_ticket(t)
        \/ \E s \in EmailStatuses : reply(t, s) \/ update_status(t, s)
    \/ \E w \in Watchers :
        \/ \E topic \in Topics : subscribe(w, topic)
        \/ listen(w)
        \/ disconnect(w)
    \/ next_day
    \/ purge_closed_chats

Spec == Init /\ [][Next]_chatVars

\* The beat starts the purge every night, and days pass.
FairSpec == Spec /\ WF_chatVars(purge_closed_chats) /\ WF_chatVars(next_day)

-----------------------------------------------------------------------------
(* Properties *)

(* "Atomic first-to-claim: ... two agents opening the same queue entry at  *)
(* once can't both win it": the agent of a chat is never replaced, also    *)
(* when a close that read the queue is written after the claim.            *)
ClaimedOnce ==
    [][\A t \in Tickets :
        exists(t) /\ ticket[t].agent # NoAgent =>
            exists(t)' /\ ticket'[t].agent = ticket[t].agent]_chatVars

(* "Commit before notifying so WS/SSE handlers see the committed row": a   *)
(* stream with an empty inbox shows what is stored, unless a request has   *)
(* still to publish what it committed, or the change was never published.  *)
WatchersCatchUp ==
    \A w \in Watchers :
        LET v == watcher[w] IN
        v # Closed /\ ~v.inbox /\ v.topic \notin unannounced
            /\ (\A r \in Requests : request[r].op = "notify" =>
                    \A i \in DOMAIN request[r].topics : request[r].topics[i] # v.topic)
        => v.shown = compute(v.topic)

(* The purge "deletes chat-channel tickets (cascading to their encrypted   *)
(* messages) once they've been closed for SUPPORT_CHAT_RETENTION_DAYS".    *)
ClosedChatsArePurged == \A t \in Tickets : due(t) ~> ~due(t)
=============================================================================
