------------------------------- MODULE MCOffice -------------------------------
(* Small instances of a team and of the parts of Office. A behaviour is    *)
(* one of a single part, and the others stay as they began, so that one    *)
(* run checks them all.                                                    *)
EXTENDS Organizations, Office, TLC

CONSTANTS l1, l2, u1, o1, c1, g1, i1, a1, a2, m1, m2

VARIABLES
    part,  \* the part of the behaviour that takes place
    ballot_event, ballot_type, ballot_ballot, ballot_invitation,
    ballot_seat, ballot_passed, ballot_alerts, ballot_request

\* None, a third off, and half a cedi off.
FewDiscounts == {<<"none", 0>>, <<"percentage", 33>>, <<"fixed_amount", 50>>}

Ballot == INSTANCE Events WITH
    Types <- {}, Categories <- {c1}, Guests <- {g1}, Invitations <- {i1},
    Requests <- {m1, m2}, Quantities <- {1}, Capacities <- {3, 4},
    FreeStock <- 9, LowStock <- 20, MaxSold <- 1, MaxNominees <- 1,
    event <- ballot_event, type <- ballot_type, ballot <- ballot_ballot,
    invitation <- ballot_invitation, seat <- ballot_seat,
    passed <- ballot_passed, alerts <- ballot_alerts,
    request <- ballot_request
ballotVars == <<
    ballot_event, ballot_type, ballot_ballot, ballot_invitation,
    ballot_seat, ballot_passed, ballot_alerts, ballot_request>>

partVars == <<part, vars, teamsVars, moneyVars, chatsVars, eventVars,
              mailVars, ballotVars>>

Parts == {"team", "teams", "money", "chats", "event", "ballot",
          "broadcasts", "waitlist", "notices"}

MCInit ==
    /\ part \in Parts
    /\ Init
    /\ Teams!Init
    /\ Money!Init
    /\ Chats!Init
    /\ Event!Init
    /\ Mail!Init
    /\ Ballot!Init
    /\ \A l \in {l1, l2} : money_listing[l].org = o1 /\ money_listing[l].price = money_listing[l1].price
    /\ money_listing[l1].plan = "launch"
    /\ part # "money" => money_listing[l2] = money_listing[l1] /\ money_listing[l1].price = 37
    /\ part = "ballot" \/ ballot_event.capacity = 3

MCNext ==
    \/ /\ part = "team"
       /\ Next
       /\ UNCHANGED <<part, teamsVars, moneyVars, chatsVars, eventVars,
                      mailVars, ballotVars>>
    \/ /\ part = "teams"
       /\ Teams!Next
       /\ UNCHANGED <<part, vars, moneyVars, chatsVars, eventVars, mailVars,
                      ballotVars>>
    \/ /\ part = "money"
       /\ Money!Next
       /\ UNCHANGED <<part, vars, teamsVars, chatsVars, eventVars, mailVars,
                      ballotVars>>
    \/ /\ part = "chats"
       /\ Chats!Next
       /\ UNCHANGED <<part, vars, teamsVars, moneyVars, eventVars, mailVars,
                      ballotVars>>
    \/ /\ part = "event"
       /\ Event!Next
       /\ UNCHANGED <<part, vars, teamsVars, moneyVars, chatsVars, mailVars,
                      ballotVars>>
    \/ /\ part = "ballot"
       /\ Ballot!Next
       /\ UNCHANGED <<part, vars, teamsVars, moneyVars, chatsVars,
                      eventVars, mailVars>>
    \/ /\ part = "broadcasts"
       /\ Mail!Next /\ UNCHANGED <<Mail!waitlistVars, Mail!noticeVars>>
       /\ UNCHANGED <<part, vars, teamsVars, moneyVars, chatsVars,
                      eventVars, ballotVars>>
    \/ /\ part = "waitlist"
       /\ Mail!Next /\ UNCHANGED <<Mail!broadcastVars, Mail!noticeVars>>
       /\ UNCHANGED <<part, vars, teamsVars, moneyVars, chatsVars,
                      eventVars, ballotVars>>
    \/ /\ part = "notices"
       /\ Mail!Next /\ UNCHANGED <<Mail!broadcastVars, Mail!waitlistVars>>
       /\ UNCHANGED <<part, vars, teamsVars, moneyVars, chatsVars,
                      eventVars, ballotVars>>

MCSpec == MCInit /\ [][MCNext]_partVars

Symmetric == Permutations({m1, m2}) \cup Permutations({a1, a2})
===============================================================================
