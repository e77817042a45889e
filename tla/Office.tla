-------------------------------- MODULE Office --------------------------------
(* An organizer's office: teams, money, support chats, events and mail.    *)
(* Each is an instance of its module with parameters and variables of its  *)
(* own, and what it promises is stated here.                               *)
EXTENDS Naturals

CONSTANTS
    TeamUsers, TeamRegistered, TeamOrgs, TeamInvitations, TeamRoles,
    TeamCustomizing, TeamManagers, TeamJoiners,
    SoldElections, SoldEvents, SoldUsers, SoldOrgs, SoldRefs, SoldPrices,
    SoldOverrides, SoldDiscounts, SoldQuantities, SoldLastHalfDay,
    ChatTickets, ChatAgents, ChatRequests, ChatWatchers, ChatRetention,
    ChatLastDay, ChatMaxMessages,
    EventTypes, EventCategories, EventGuests, EventInvitations,
    EventRequests, EventQuantities, EventCapacities, EventFreeStock,
    EventLowStock, EventMaxSold, EventMaxNominees,
    MailBroadcasts, MailMaxRecipients, MailChunkSize, MailRegistered,
    MailWorkersDie, MailEmails, MailAdmins, MailMaxRetries, MailMaxFailures,
    MailMembers, MailSales, MailMaxWindows

VARIABLES
    teams_accounts, teams_dashboard, teams_owner_id, teams_active,
    teams_members, teams_org_role, teams_invitation, teams_req,
    teams_admitted,
    money_listing, money_members, money_sales, money_clock,
    chats_ticket, chats_today, chats_request, chats_watcher,
    chats_unannounced,
    event_event, event_type, event_ballot, event_invitation, event_seat,
    event_passed, event_alerts, event_request,
    mail_broadcast, mail_chunk, mail_counted, mail_subscriber, mail_mail,
    mail_announcement, mail_failed_runs, mail_cooldown, mail_window,
    mail_sale, mail_bell

Teams == INSTANCE Organizations WITH
    Users <- TeamUsers, Registered <- TeamRegistered, Orgs <- TeamOrgs,
    Invitations <- TeamInvitations, Roles <- TeamRoles,
    Customizing <- TeamCustomizing, Managers <- TeamManagers,
    Joiners <- TeamJoiners, accounts <- teams_accounts,
    dashboard <- teams_dashboard, owner_id <- teams_owner_id,
    active <- teams_active, members <- teams_members,
    org_role <- teams_org_role, invitation <- teams_invitation,
    req <- teams_req, admitted <- teams_admitted
teamsVars == <<
    teams_accounts, teams_dashboard, teams_owner_id, teams_active,
    teams_members, teams_org_role, teams_invitation, teams_req,
    teams_admitted>>

Money == INSTANCE Financials WITH
    Elections <- SoldElections, Events <- SoldEvents, Users <- SoldUsers,
    Orgs <- SoldOrgs, Refs <- SoldRefs, Prices <- SoldPrices,
    Overrides <- SoldOverrides, Discounts <- SoldDiscounts,
    Quantities <- SoldQuantities, LastHalfDay <- SoldLastHalfDay,
    listing <- money_listing, members <- money_members,
    sales <- money_sales, clock <- money_clock
moneyVars == <<
    money_listing, money_members, money_sales, money_clock>>

Chats == INSTANCE SupportChats WITH
    Tickets <- ChatTickets, Agents <- ChatAgents, Requests <- ChatRequests,
    Watchers <- ChatWatchers, Retention <- ChatRetention,
    LastDay <- ChatLastDay, MaxMessages <- ChatMaxMessages,
    ticket <- chats_ticket, today <- chats_today, request <- chats_request,
    watcher <- chats_watcher, unannounced <- chats_unannounced
chatsVars == <<
    chats_ticket, chats_today, chats_request, chats_watcher,
    chats_unannounced>>

Event == INSTANCE Events WITH
    Types <- EventTypes, Categories <- EventCategories,
    Guests <- EventGuests, Invitations <- EventInvitations,
    Requests <- EventRequests, Quantities <- EventQuantities,
    Capacities <- EventCapacities, FreeStock <- EventFreeStock,
    LowStock <- EventLowStock, MaxSold <- EventMaxSold,
    MaxNominees <- EventMaxNominees, event <- event_event,
    type <- event_type, ballot <- event_ballot,
    invitation <- event_invitation, seat <- event_seat,
    passed <- event_passed, alerts <- event_alerts, request <- event_request
eventVars == <<
    event_event, event_type, event_ballot, event_invitation, event_seat,
    event_passed, event_alerts, event_request>>

Mail == INSTANCE Mailings WITH
    Broadcasts <- MailBroadcasts, MaxRecipients <- MailMaxRecipients,
    CHUNK_SIZE <- MailChunkSize, Registered <- MailRegistered,
    WorkersDie <- MailWorkersDie, Emails <- MailEmails,
    Admins <- MailAdmins, max_retries <- MailMaxRetries,
    MaxFailures <- MailMaxFailures, Members <- MailMembers,
    Sales <- MailSales, MaxWindows <- MailMaxWindows,
    broadcast <- mail_broadcast, chunk <- mail_chunk,
    counted <- mail_counted, subscriber <- mail_subscriber,
    mail <- mail_mail, announcement <- mail_announcement,
    failed_runs <- mail_failed_runs, cooldown <- mail_cooldown,
    window <- mail_window, sale <- mail_sale, bell <- mail_bell
mailVars == <<
    mail_broadcast, mail_chunk, mail_counted, mail_subscriber, mail_mail,
    mail_announcement, mail_failed_runs, mail_cooldown, mail_window,
    mail_sale, mail_bell>>

ASSUME OfficeAssumption ==
    \* The topic of the queue is no chat's.
    /\ Chats!Queue \notin ChatTickets
    /\ EventQuantities \subseteq Nat /\ EventFreeStock \in Nat
    \* A chunk has recipients.
    /\ MailMaxRecipients \in Nat /\ MailChunkSize \in Nat \ {0}

-----------------------------------------------------------------------------
(* "Someone on two teams must not lose access to the second by leaving the *)
(* first": of two organizations with common members (organizations.py,     *)
(* remove_member).                                                         *)
SecondTeamStays == Teams!LeavingOneTeam

(* What a report says of a sale stays, whatever prices, rates, fee payers  *)
(* and codes become (revenue_service.py and the analytics of admin.py).    *)
PastSalesKeepTheirReport == Money!PastSalesKeepTheirReport

(* Whoever watches a chat or the queue is shown its last announced change, *)
(* however subscribing, reading and publishing interleave                  *)
(* (support_chat.py).                                                      *)
WatchersCatchUp == Chats!WatchersCatchUp

(* A ticket type counts as sold what it has tickets for, through           *)
(* overlapping sales, edits, deletions and registrations (events.py).      *)
TypesAccountForTickets == Event!TypesAccountForTickets

(* An invitation stands as accepted only if a ticket was made for it       *)
(* (event_invitation_service.py, rsvp).                                    *)
AcceptedHasASeat == Event!AcceptedHasASeat

(* The counts of a broadcast are those of the chunks that were worked,     *)
(* whichever overlap, die or come twice (event_broadcast_tasks.py).        *)
CountsAreExact == Mail!CountsAreExact

===============================================================================
