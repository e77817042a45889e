--------------------------- MODULE OfficeProofs ---------------------------
(***************************************************************************)
(* Theorems about a team (Organizations) and about the parts of an         *)
(* organizer's office: support chats, event administration, what a report  *)
(* says of a sale, who has the platform roles, and the counts of a         *)
(* broadcast.                                                              *)
(*                                                                         *)
(* Organizations: any number of users, organizations, invitations and      *)
(* requests that accept one, and any set of roles.  One request at a time  *)
(* manages teams: then the row it has loaded as the owner's is still the   *)
(* owner's when it writes, and one it has loaded as someone else's still   *)
(* is (StillLoaded).                                                       *)
(*                                                                         *)
(* Chats, Event, Money, Teams and Mail: any parameters, and any number of  *)
(* requests, agents, streams and tasks that overlap.                       *)
(***************************************************************************)
EXTENDS Organizations, Office, WellFoundedInduction, TLAPS

(***************************************************************************)
(* The inductive invariant                                                 *)
(***************************************************************************)

\* Requests that manage a team do not overlap.
OneManager == \A s, t \in Managers : s = t

\* What a request remembers.
Loads ==
    [op : {"delete"}, org : Orgs]
    \cup [op : {"transfer"}, caller : Members, target : Members]
    \cup [op : {"add", "invite_user", "invite"}, org : Orgs, user : Users, role : Roles]
    \cup [op : {"update"}, target : Members, role : Roles, custom : BOOLEAN]
    \cup [op : {"remove"}, target : Members, others : SUBSET Members]
    \cup [op : {"accept", "signup"}, invitation : Invitations]
    \cup {Idle}

Types ==
    /\ owner_id \in [Orgs -> Users \cup {NoOwner}]
    /\ members \subseteq Members
    /\ invitation \in [Invitations -> InvitationRows \cup {[status |-> "none"]}]
    /\ req \in [Slots -> Loads]

\* A request that accepts an invitation has found one.
InvitationsAreThere ==
    \A s \in Slots : req[s].op \in {"accept", "signup"} =>
        invitation[req[s].invitation].status # "none"

Rows == \A m, k \in members : same_row(m, k) => m = k

Unowned ==
    \A o \in Orgs : owner_id[o] = NoOwner =>
        \A m \in members : m.org = o => m.role # "owner"

\* What the request that manages a team has loaded is still so.
StillLoaded ==
    \A s \in Managers :
        /\ req[s].op = "transfer" =>
             /\ req[s].caller.org = req[s].target.org
             /\ ~same_row(req[s].caller, req[s].target)
             /\ \E m \in members : same_row(m, req[s].caller) /\ m.role = "owner"
        /\ req[s].op \in {"transfer", "update", "remove"} =>
             /\ req[s].target.role # "owner"
             /\ \E m \in members : same_row(m, req[s].target) /\ m.role # "owner"

Inv == Types /\ InvitationsAreThere /\ Rows /\ Unowned /\ OneOwner /\ StillLoaded

-----------------------------------------------------------------------------
(* Rows of members *)

\* A new member has a row of its own.
LEMMA Added ==
  ASSUME Types, Rows, NEW o \in Orgs, NEW u \in Users,
         NEW role \in Roles \cup {"owner", "admin"}, add_member(o, u, role)
  PROVE  \E k \in Members :
            /\ k.org = o /\ k.user = u /\ k.role = role
            /\ members' = members \cup {k}
            /\ \A m \in members : ~same_row(m, k)
<1>1. PICK c \in Copies :
        /\ \A m \in get_member(o, u) : m.copy # c
        /\ members' = members \cup
            {[org |-> o, user |-> u, copy |-> c, role |-> role, custom |-> FALSE]}
  BY DEF add_member
<1>2. [org |-> o, user |-> u, copy |-> c, role |-> role, custom |-> FALSE] \in Members
  BY DEF Members
<1>3. QED
  BY <1>1, <1>2 DEF get_member, memberships, same_row

\* Someone who joins as anything but the owner disturbs no owner.
LEMMA JoinedKeeps ==
  ASSUME Types, Rows, Unowned, OneOwner, NEW k \in Members, k.role # "owner",
         members' = members \cup {k}, \A m \in members : ~same_row(m, k), UNCHANGED owner_id
  PROVE  members' \subseteq Members /\ Rows' /\ Unowned' /\ OneOwner'
<1>1. members' \subseteq Members /\ Rows'
  BY DEF Types, Rows, same_row
<1>2. Unowned'
  BY DEF Unowned
<1>3. OneOwner'
  BY DEF OneOwner
<1>4. QED
  BY <1>1, <1>2, <1>3

\* Rows rewritten without a change of owner keep the owner.
LEMMA RewrittenKeeps ==
  ASSUME Types, Rows, Unowned, OneOwner, UNCHANGED owner_id,
         members' \subseteq Members, Rows',
         \A m \in members : m.role = "owner" =>
            \E k \in members' : same_row(k, m) /\ k.role = "owner",
         \A k \in members' : k.role = "owner" =>
            \E m \in members : same_row(k, m) /\ m.role = "owner"
  PROVE  Unowned' /\ OneOwner'
<1>1. Unowned'
  BY DEF Unowned, same_row
<1>2. OneOwner'
  <2> SUFFICES ASSUME NEW o \in Orgs, owner_id[o] # NoOwner
      PROVE \E k \in members' :
              /\ k.org = o /\ k.role = "owner" /\ k.user = owner_id[o]
              /\ \A j \in members' : j.org = o /\ j.role = "owner" => j = k
    BY DEF OneOwner
  <2>1. PICK m \in members : /\ m.org = o /\ m.role = "owner" /\ m.user = owner_id[o]
                             /\ \A j \in members : j.org = o /\ j.role = "owner" => j = m
    BY DEF OneOwner
  <2>2. PICK k \in members' : same_row(k, m) /\ k.role = "owner"
    BY <2>1
  <2>3. ASSUME NEW j \in members', j.org = o, j.role = "owner" PROVE j = k
    <3>1. PICK n \in members : same_row(j, n) /\ n.role = "owner"
      BY <2>3
    <3>2. n = m
      BY <2>1, <2>3, <3>1 DEF same_row
    <3>3. QED
      BY <2>2, <2>3, <3>1, <3>2 DEF Rows, same_row
  <2>4. QED
    BY <2>1, <2>2, <2>3 DEF same_row
<1>3. QED
  BY <1>1, <1>2

-----------------------------------------------------------------------------
(* Steps *)

\* What the first state is.
LEMMA InvInit == Init => Inv
<1> SUFFICES ASSUME Init PROVE Inv
  OBVIOUS
<1>1. Types
  BY DEF Init, Types, Loads
<1>2. InvitationsAreThere /\ StillLoaded
  BY DEF Init, InvitationsAreThere, StillLoaded, Idle, Slots
<1>3. Rows /\ Unowned /\ OneOwner
  BY DEF Init, Rows, Unowned, OneOwner
<1>4. QED
  BY <1>1, <1>2, <1>3 DEF Inv

\* What a request remembers follows from what it is for.
LEMMA Remembers ==
  ASSUME Types, NEW s \in Slots
  PROVE  /\ req[s].op \in {"add", "invite_user", "invite"} =>
              req[s].org \in Orgs /\ req[s].user \in Users /\ req[s].role \in Roles
         /\ req[s].op = "transfer" => req[s].caller \in Members /\ req[s].target \in Members
         /\ req[s].op = "update" =>
              /\ req[s].target \in Members /\ req[s].role \in Roles
              /\ req[s].custom \in BOOLEAN
         /\ req[s].op = "remove" => req[s].target \in Members
         /\ req[s].op \in {"accept", "signup"} => req[s].invitation \in Invitations
BY DEF Types, Loads, Idle

\* done leaves the slot idle and touches no other.
LEMMA Done ==
  ASSUME Types, NEW s \in Slots, done(s)
  PROVE  /\ req' \in [Slots -> Loads] /\ req'[s] = Idle
         /\ \A t \in Slots : t # s => req'[t] = req[t]
BY DEF Types, done, Loads

\* begin fills the slot and does nothing else.
LEMMA Began ==
  ASSUME Types, NEW s \in Slots, NEW r \in Loads, begin(s, r)
  PROVE  /\ req' \in [Slots -> Loads] /\ req'[s] = r
         /\ \A t \in Slots : t # s => req'[t] = req[t]
         /\ UNCHANGED <<owner_id, members, invitation>>
BY DEF Types, begin

\* What accepting an invitation does.
LEMMA Accepted ==
  ASSUME Inv, NEW s \in Joiners, req[s].op \in {"accept", "signup"}, accept(s)
  PROVE  /\ \E k \in Members : /\ k.role # "owner" /\ members' = members \cup {k}
                               /\ \A m \in members : ~same_row(m, k)
         /\ UNCHANGED owner_id
         /\ invitation' \in [Invitations -> InvitationRows \cup {[status |-> "none"]}]
         /\ \A i \in Invitations :
              invitation[i].status # "none" => invitation'[i].status # "none"
<1>1. Types /\ Rows /\ s \in Slots
  BY DEF Inv, Slots
<1> DEFINE i == req[s].invitation
<1>2. i \in Invitations /\ invitation[i] \in InvitationRows
  BY <1>1, Remembers DEF Inv, InvitationsAreThere, Types
<1>3. invitation[i].org \in Orgs /\ invitation[i].user \in Users /\ invitation[i].role \in Roles
  BY <1>2 DEF InvitationRows
<1>4. add_member(invitation[i].org, invitation[i].user, invitation[i].role)
  BY DEF accept
<1>5. \E k \in Members : /\ k.role = invitation[i].role /\ members' = members \cup {k}
                         /\ \A m \in members : ~same_row(m, k)
  BY <1>1, <1>3, <1>4, Added
<1>6. invitation[i].role # "owner"
  BY <1>3, ConstantsAssumption
<1>7. invitation' = [invitation EXCEPT ![i].status = "accepted"] /\ UNCHANGED owner_id
  BY DEF accept
<1>8. [invitation[i] EXCEPT !.status = "accepted"] \in InvitationRows
  BY <1>2 DEF InvitationRows
<1>9. invitation' \in [Invitations -> InvitationRows \cup {[status |-> "none"]}]
  BY <1>1, <1>2, <1>7, <1>8 DEF Types
<1>10. ASSUME NEW j \in Invitations, invitation[j].status # "none"
       PROVE  invitation'[j].status # "none"
  BY <1>1, <1>2, <1>7, <1>10 DEF Types, InvitationRows
<1>11. QED
  BY <1>5, <1>6, <1>7, <1>9, <1>10

\* The requests that manage a team and wait keep what they are for.
LEMMA ManagerBegins ==
  ASSUME Inv, NEW s \in Managers,
         \/ \E o \in Orgs :
             \/ begin_delete_organization(s, o)
             \/ \E u \in Users, role \in Roles :
                 begin_add_member(s, o, u, role) \/ begin_invite(s, o, u, role)
         \/ \E m \in members :
             \/ \E k \in members : begin_transfer_ownership(s, k, m)
             \/ \E role \in Roles, c \in BOOLEAN : begin_update_member_role(s, m, role, c)
             \/ begin_remove_member(s, m)
  PROVE  /\ \E r \in Loads : begin(s, r) /\ r.op \notin {"accept", "signup"}
         /\ req'[s].op = "transfer" =>
              /\ req'[s].caller.org = req'[s].target.org
              /\ req'[s].caller \in members /\ req'[s].caller.role = "owner"
              /\ req'[s].target \in members /\ req'[s].target # req'[s].caller
         /\ req'[s].op \in {"update", "remove"} =>
              req'[s].target \in members /\ req'[s].target.role # "owner"
<1>1. Types /\ s \in Slots /\ members \subseteq Members
  BY DEF Inv, Slots, Types
<1>2. ASSUME NEW o \in Orgs, begin_delete_organization(s, o)
      PROVE  \E r \in [op : {"delete"}, org : Orgs] : begin(s, r)
  BY <1>2 DEF begin_delete_organization
<1>3. ASSUME NEW o \in Orgs, NEW u \in Users, NEW role \in Roles,
             begin_add_member(s, o, u, role) \/ begin_invite(s, o, u, role)
      PROVE  \E r \in [op : {"add", "invite_user", "invite"}, org : Orgs, user : Users,
                       role : Roles] : begin(s, r)
  BY <1>3 DEF begin_add_member, begin_invite
<1>4. ASSUME NEW m \in members, NEW k \in members, begin_transfer_ownership(s, k, m)
      PROVE  \E r \in [op : {"transfer"}, caller : Members, target : Members] :
                /\ begin(s, r) /\ r.caller = k /\ r.target = m
                /\ k.org = m.org /\ k.role = "owner" /\ m # k
  BY <1>1, <1>4 DEF begin_transfer_ownership
<1>5. ASSUME NEW m \in members, NEW role \in Roles, NEW c \in BOOLEAN,
             begin_update_member_role(s, m, role, c)
      PROVE  \E r \in [op : {"update"}, target : Members, role : Roles, custom : BOOLEAN] :
                begin(s, r) /\ r.target = m /\ m.role # "owner"
  BY <1>1, <1>5 DEF begin_update_member_role
<1>6. ASSUME NEW m \in members, begin_remove_member(s, m)
      PROVE  \E r \in [op : {"remove"}, target : Members, others : SUBSET Members] :
                begin(s, r) /\ r.target = m /\ m.role # "owner"
  BY <1>1, <1>6 DEF begin_remove_member, memberships
<1>7. ASSUME NEW r \in Loads, begin(s, r) PROVE req'[s] = r
  BY <1>1, <1>7, Began
<1>8. CASE \E o \in Orgs : begin_delete_organization(s, o)
  BY <1>2, <1>7, <1>8 DEF Loads
<1>9. CASE \E o \in Orgs, u \in Users, role \in Roles :
              begin_add_member(s, o, u, role) \/ begin_invite(s, o, u, role)
  BY <1>3, <1>7, <1>9 DEF Loads
<1>10. CASE \E m \in members, k \in members : begin_transfer_ownership(s, k, m)
  BY <1>4, <1>7, <1>10 DEF Loads
<1>11. CASE \E m \in members, role \in Roles, c \in BOOLEAN :
               begin_update_member_role(s, m, role, c)
  BY <1>5, <1>7, <1>11 DEF Loads
<1>12. CASE \E m \in members : begin_remove_member(s, m)
  BY <1>6, <1>7, <1>12 DEF Loads
<1>13. QED
  BY <1>8, <1>9, <1>10, <1>11, <1>12

-----------------------------------------------------------------------------
(* Owners *)

Owners ==
    /\ owner_id \in [Orgs -> Users \cup {NoOwner}]
    /\ members \subseteq Members
    /\ Rows /\ Unowned /\ OneOwner

\* Where rows and owners rest, owners are kept.
LEMMA OwnersRest == ASSUME Inv, UNCHANGED <<owner_id, members>> PROVE Owners'
BY DEF Inv, Types, Owners, Rows, Unowned, OneOwner

\* A new row of someone who is not an owner keeps them, too.
LEMMA OwnersJoined ==
  ASSUME Inv, NEW k \in Members, k.role # "owner", members' = members \cup {k},
         \A m \in members : ~same_row(m, k), UNCHANGED owner_id
  PROVE  Owners'
<1>1. members' \subseteq Members /\ Rows' /\ Unowned' /\ OneOwner'
  BY JoinedKeeps DEF Inv
<1>2. owner_id' \in [Orgs -> Users \cup {NoOwner}]
  BY DEF Inv, Types
<1>3. QED
  BY <1>1, <1>2 DEF Owners

\* So does a rewriting of rows that makes nobody an owner and leaves them so.
LEMMA OwnersRewritten ==
  ASSUME Inv, UNCHANGED owner_id, members' \subseteq Members, Rows',
         \A m \in members : m.role = "owner" =>
            \E k \in members' : same_row(k, m) /\ k.role = "owner",
         \A k \in members' : k.role = "owner" =>
            \E m \in members : same_row(k, m) /\ m.role = "owner"
  PROVE  Owners'
<1>1. Unowned' /\ OneOwner'
  BY RewrittenKeeps DEF Inv
<1>2. owner_id' \in [Orgs -> Users \cup {NoOwner}]
  BY DEF Inv, Types
<1>3. QED
  BY <1>1, <1>2 DEF Owners

\* A new organization has its first member for an owner.
LEMMA CreateOwned ==
  ASSUME Inv, NEW o \in Orgs, NEW u \in Users, create_organization(o, u)
  PROVE  Owners'
<1>1. Types /\ Rows /\ Unowned /\ OneOwner
  BY DEF Inv
<1>2. owner_id[o] = NoOwner /\ owner_id' = [owner_id EXCEPT ![o] = u] /\ u # NoOwner
  BY ConstantsAssumption DEF create_organization
<1>3. PICK k \in Members : /\ k.org = o /\ k.user = u /\ k.role = "owner"
                           /\ members' = members \cup {k}
                           /\ \A m \in members : ~same_row(m, k)
  BY <1>1, Added DEF create_organization
<1>4. owner_id' \in [Orgs -> Users \cup {NoOwner}] /\ members' \subseteq Members /\ Rows'
  BY <1>1, <1>2, <1>3 DEF Types, Rows, same_row
<1>5. \A m \in members : m.org = o => m.role # "owner"
  BY <1>1, <1>2 DEF Unowned
<1>6. \A p \in Orgs : p # o => owner_id'[p] = owner_id[p]
  BY <1>1, <1>2 DEF Types
<1>7. owner_id'[o] = u
  BY <1>1, <1>2 DEF Types
<1>8. Unowned'
  BY <1>1, <1>2, <1>3, <1>6, <1>7 DEF Unowned
<1>9. ASSUME NEW p \in Orgs, owner_id'[p] # NoOwner
      PROVE  \E m \in members' :
                /\ m.org = p /\ m.role = "owner" /\ m.user = owner_id'[p]
                /\ \A j \in members' : j.org = p /\ j.role = "owner" => j = m
  <2>1. CASE p = o
    BY <1>3, <1>5, <1>7, <2>1
  <2>2. CASE p # o
    BY <1>1, <1>3, <1>6, <1>9, <2>2 DEF OneOwner
  <2>3. QED
    BY <2>1, <2>2
<1>10. OneOwner'
  BY <1>9 DEF OneOwner
<1>11. QED
  BY <1>4, <1>8, <1>10 DEF Owners

\* A transfer takes the ownership from the one who has it.
LEMMA TransferOwned ==
  ASSUME Inv, NEW s \in Managers, transfer_ownership(s)
  PROVE  Owners'
<1> DEFINE r == req[s]
           o == req[s].target.org
           new(m) == CASE same_row(m, r.target) ->
                            [m EXCEPT !.role = set_column(@, r.target.role, "owner")]
                       [] same_row(m, r.caller) -> [m EXCEPT !.role = "admin"]
                       [] OTHER -> m
<1>1. Types /\ Rows /\ Unowned /\ OneOwner /\ s \in Slots
  BY DEF Inv, Slots
<1>2. r.caller \in Members /\ r.target \in Members
  BY <1>1, Remembers DEF transfer_ownership
<1>3. o \in Orgs /\ r.target.user \in Users /\ r.target.user # NoOwner
  BY <1>2, ConstantsAssumption DEF Members
<1>4. /\ r.caller.org = o /\ ~same_row(r.caller, r.target) /\ r.target.role # "owner"
      /\ \E m \in members : same_row(m, r.caller) /\ m.role = "owner"
  BY DEF Inv, StillLoaded, transfer_ownership
<1>5. PICK old \in members : same_row(old, r.caller) /\ old.role = "owner"
  BY <1>4
<1>6. \E m \in members : same_row(m, r.target)
  BY DEF transfer_ownership, stored
<1>7. PICK tgt \in members : same_row(tgt, r.target)
  BY <1>6
<1>8. old.org = o /\ tgt.org = o /\ tgt # old /\ tgt.user = r.target.user
  BY <1>4, <1>5, <1>7 DEF same_row
<1>9. owner_id[o] # NoOwner
  BY <1>1, <1>3, <1>5, <1>8 DEF Unowned
<1>10. /\ \A j \in members : j.org = o /\ j.role = "owner" => j = old
  BY <1>1, <1>3, <1>5, <1>8, <1>9 DEF OneOwner
<1>11. tgt.role # "owner"
  BY <1>8, <1>10
<1>12. members' = {new(m) : m \in members}
  BY DEF transfer_ownership
<1>13. ASSUME NEW m \in members
       PROVE  /\ same_row(m, r.target) =>
                   new(m) = [m EXCEPT !.role = set_column(m.role, r.target.role, "owner")]
              /\ ~same_row(m, r.target) /\ same_row(m, r.caller) =>
                   new(m) = [m EXCEPT !.role = "admin"]
              /\ ~same_row(m, r.target) /\ ~same_row(m, r.caller) => new(m) = m
  <2>1. CASE same_row(m, r.target)
    <3>1. ~same_row(m, r.caller)
      BY <1>4, <2>1 DEF same_row
    <3>2. QED
      BY <2>1, <3>1
  <2>2. CASE ~same_row(m, r.target) /\ same_row(m, r.caller)
    BY <2>2
  <2>3. CASE ~same_row(m, r.target) /\ ~same_row(m, r.caller)
    BY <2>3
  <2>4. QED
    BY <2>1, <2>2, <2>3
<1> HIDE DEF new
<1>14. ASSUME NEW m \in members
       PROVE  /\ new(m) \in Members /\ same_row(new(m), m)
              /\ m.org # o => new(m) = m
              /\ new(m).role = "owner" => m.org # o \/ m = tgt
  <2>1. m \in Members
    BY <1>1 DEF Types
  <2>2. CASE same_row(m, r.target)
    <3>1. m = tgt /\ m.org = o
      BY <1>1, <1>7, <1>8, <2>2 DEF Rows, same_row
    <3>2. new(m) = [m EXCEPT !.role = set_column(m.role, r.target.role, "owner")]
      BY <1>13, <2>2
    <3>3. QED
      BY <2>1, <3>1, <3>2 DEF set_column, Members, same_row
  <2>3. CASE ~same_row(m, r.target) /\ same_row(m, r.caller)
    <3>1. m = old /\ m.org = o
      BY <1>1, <1>5, <1>8, <2>3 DEF Rows, same_row
    <3>2. new(m) = [m EXCEPT !.role = "admin"]
      BY <1>13, <2>3
    <3>3. QED
      BY <2>1, <3>1, <3>2 DEF Members, same_row
  <2>4. CASE ~same_row(m, r.target) /\ ~same_row(m, r.caller)
    <3>1. new(m) = m /\ m # old
      BY <1>5, <1>13, <2>4 DEF same_row
    <3>2. QED
      BY <1>10, <2>1, <3>1 DEF same_row
  <2>5. QED
    BY <2>2, <2>3, <2>4
<1>15. members' \subseteq Members
  BY <1>12, <1>14
<1>16. Rows'
  <2> SUFFICES ASSUME NEW j \in members', NEW k \in members', same_row(j, k) PROVE j = k
    BY DEF Rows, same_row
  <2>1. PICK m \in members : j = new(m)
    BY <1>12
  <2>2. PICK n \in members : k = new(n)
    BY <1>12
  <2>3. m = n
    <3>1. same_row(j, m) /\ same_row(k, n)
      BY <1>14, <2>1, <2>2
    <3>2. same_row(m, n)
      BY <3>1 DEF same_row
    <3>3. QED
      BY <1>1, <3>2 DEF Rows
  <2>4. QED
    BY <2>1, <2>2, <2>3
<1>17. new(tgt) \in members' /\ new(tgt).org = o /\ new(tgt).user = tgt.user
  BY <1>8, <1>12, <1>14 DEF same_row
<1>18. new(tgt).role = "owner"
  <2>1. /\ tgt \in Members
        /\ new(tgt) = [tgt EXCEPT !.role = set_column(tgt.role, r.target.role, "owner")]
    BY <1>1, <1>7, <1>13 DEF Types
  <2>2. set_column(tgt.role, r.target.role, "owner") = "owner"
    BY <1>4 DEF set_column
  <2>3. QED
    BY <2>1, <2>2 DEF Members
<1>19. owner_id' = [owner_id EXCEPT ![o] = r.target.user]
  BY DEF transfer_ownership
<1>20. /\ owner_id' \in [Orgs -> Users \cup {NoOwner}] /\ owner_id'[o] = r.target.user
       /\ \A p \in Orgs : p # o => owner_id'[p] = owner_id[p]
  BY <1>1, <1>3, <1>19 DEF Types
<1>21. \A k \in members' : k.org = o /\ k.role = "owner" => k = new(tgt)
  <2> SUFFICES ASSUME NEW k \in members', k.org = o, k.role = "owner" PROVE k = new(tgt)
    OBVIOUS
  <2>1. PICK m \in members : k = new(m)
    BY <1>12
  <2>2. m.org = o /\ m = tgt
    BY <1>14, <2>1 DEF same_row
  <2>3. QED
    BY <2>1, <2>2
<1>22. \A p \in Orgs : p # o =>
          \A m : (m \in members' /\ m.org = p) <=> (m \in members /\ m.org = p)
  <2> SUFFICES ASSUME NEW p \in Orgs, p # o, NEW m
      PROVE (m \in members' /\ m.org = p) <=> (m \in members /\ m.org = p)
    OBVIOUS
  <2>1. ASSUME m \in members', m.org = p PROVE m \in members
    <3>1. PICK n \in members : m = new(n)
      BY <1>12, <2>1
    <3>2. n.org = p
      BY <1>14, <2>1, <3>1 DEF same_row
    <3>3. m = n
      BY <1>14, <3>1, <3>2
    <3>4. QED
      BY <3>3
  <2>2. ASSUME m \in members, m.org = p PROVE m \in members'
    <3>1. new(m) = m
      BY <1>14, <2>2
    <3>2. new(m) \in members'
      BY <1>12, <2>2
    <3>3. QED
      BY <3>1, <3>2
  <2>3. QED
    BY <2>1, <2>2
<1>23. Unowned'
  <2> SUFFICES ASSUME NEW p \in Orgs, owner_id'[p] = NoOwner, NEW m \in members', m.org = p
      PROVE m.role # "owner"
    BY DEF Unowned
  <2>1. p # o /\ owner_id[p] = NoOwner
    BY <1>3, <1>20
  <2>2. m \in members
    BY <1>22, <2>1
  <2>3. QED
    BY <1>1, <2>1, <2>2 DEF Unowned
<1>24. OneOwner'
  <2> SUFFICES ASSUME NEW p \in Orgs, owner_id'[p] # NoOwner
      PROVE \E m \in members' :
              /\ m.org = p /\ m.role = "owner" /\ m.user = owner_id'[p]
              /\ \A j \in members' : j.org = p /\ j.role = "owner" => j = m
    BY DEF OneOwner
  <2>1. CASE p = o
    BY <1>8, <1>17, <1>18, <1>20, <1>21, <2>1
  <2>2. CASE p # o
    <3>1. PICK m \in members :
            /\ m.org = p /\ m.role = "owner" /\ m.user = owner_id[p]
            /\ \A j \in members : j.org = p /\ j.role = "owner" => j = m
      BY <1>1, <1>20, <2>2 DEF OneOwner
    <3>2. QED
      BY <1>20, <1>22, <2>2, <3>1
  <2>3. QED
    BY <2>1, <2>2
<1>25. QED
  BY <1>15, <1>16, <1>20, <1>23, <1>24 DEF Owners

\* A change of role is not one from or to the owner's.
LEMMA UpdateOwned ==
  ASSUME Inv, NEW s \in Managers, update_member_role(s)
  PROVE  Owners'
<1> DEFINE r == req[s]
           new(m) == IF same_row(m, r.target)
                     THEN [m EXCEPT !.role = set_column(@, r.target.role, r.role),
                                    !.custom = set_column(@, r.target.custom, r.custom)]
                     ELSE m
<1>1. Types /\ Rows /\ s \in Slots /\ UNCHANGED owner_id
  BY DEF Inv, Slots, update_member_role
<1>2. r.target \in Members /\ r.role \in Roles /\ r.custom \in BOOLEAN /\ r.role # "owner"
  BY <1>1, Remembers, ConstantsAssumption DEF update_member_role
<1>3. PICK tgt \in members : same_row(tgt, r.target) /\ tgt.role # "owner"
  BY DEF Inv, StillLoaded, update_member_role
<1>4. members' = {new(m) : m \in members}
  BY DEF update_member_role
<1>5. ASSUME NEW m \in members
      PROVE  /\ new(m) \in Members /\ same_row(new(m), m)
             /\ new(m).role = "owner" <=> m.role = "owner"
  <2>1. m \in Members
    BY <1>1 DEF Types
  <2>2. CASE same_row(m, r.target)
    <3>1. m = tgt /\ m.role # "owner"
      BY <1>1, <1>3, <2>2 DEF Rows, same_row
    <3>2. new(m) = [m EXCEPT !.role = set_column(m.role, r.target.role, r.role),
                             !.custom = set_column(m.custom, r.target.custom, r.custom)]
      BY <2>1, <2>2 DEF Members
    <3>3. /\ set_column(m.role, r.target.role, r.role) \in Roles \cup {"admin"}
          /\ set_column(m.role, r.target.role, r.role) # "owner"
          /\ set_column(m.custom, r.target.custom, r.custom) \in BOOLEAN
      BY <1>2, <2>1, <3>1 DEF set_column, Members
    <3>4. QED
      BY <2>1, <3>1, <3>2, <3>3 DEF Members, same_row
  <2>3. CASE ~same_row(m, r.target)
    BY <2>1, <2>3 DEF same_row
  <2>4. QED
    BY <2>2, <2>3
<1> HIDE DEF new
<1>6. members' \subseteq Members
  BY <1>4, <1>5
<1>7. ASSUME NEW j \in members', NEW k \in members', same_row(j, k) PROVE j = k
  <2>1. PICK m \in members : j = new(m)
    BY <1>4
  <2>2. PICK n \in members : k = new(n)
    BY <1>4
  <2>3. same_row(m, n)
    BY <1>5, <1>7, <2>1, <2>2 DEF same_row
  <2>4. QED
    BY <1>1, <2>1, <2>2, <2>3 DEF Rows
<1>8. Rows'
  BY <1>7 DEF Rows, same_row
<1>9. \A m \in members : new(m) \in members'
  BY <1>4
<1>10. \A k \in members' : \E m \in members : k = new(m)
  BY <1>4
<1>11. QED
  BY <1>1, <1>5, <1>6, <1>8, <1>9, <1>10, OwnersRewritten

\* Deleting a custom role leaves owners alone.
LEMMA DeleteRoleOwned ==
  ASSUME Inv, NEW o \in Orgs, delete_org_role(o)
  PROVE  Owners'
<1> DEFINE new(m) == IF m.org = o THEN [m EXCEPT !.custom = FALSE] ELSE m
<1>1. Types /\ Rows /\ UNCHANGED owner_id
  BY DEF Inv, delete_org_role
<1>2. members' = {new(m) : m \in members}
  BY DEF delete_org_role
<1>3. ASSUME NEW m \in members
      PROVE  /\ new(m) \in Members /\ same_row(new(m), m) /\ new(m).role = m.role
  BY <1>1 DEF Types, Members, same_row
<1> HIDE DEF new
<1>4. members' \subseteq Members
  BY <1>2, <1>3
<1>5. ASSUME NEW j \in members', NEW k \in members', same_row(j, k) PROVE j = k
  <2>1. PICK m \in members : j = new(m)
    BY <1>2
  <2>2. PICK n \in members : k = new(n)
    BY <1>2
  <2>3. same_row(m, n)
    BY <1>3, <1>5, <2>1, <2>2 DEF same_row
  <2>4. QED
    BY <1>1, <2>1, <2>2, <2>3 DEF Rows
<1>6. Rows'
  BY <1>5 DEF Rows, same_row
<1>7. \A m \in members : new(m) \in members'
  BY <1>2
<1>8. \A k \in members' : \E m \in members : k = new(m)
  BY <1>2
<1>9. QED
  BY <1>1, <1>3, <1>4, <1>6, <1>7, <1>8, OwnersRewritten

\* Whoever is removed is not the owner.
LEMMA RemoveOwned ==
  ASSUME Inv, NEW s \in Managers, remove_member(s)
  PROVE  Owners'
<1>1. Types /\ Rows /\ UNCHANGED owner_id
  BY DEF Inv, remove_member
<1>2. PICK tgt \in members : same_row(tgt, req[s].target) /\ tgt.role # "owner"
  BY DEF Inv, StillLoaded, remove_member
<1>3. members' = members \ stored(req[s].target)
  BY DEF remove_member
<1>4. stored(req[s].target) = {tgt}
  BY <1>1, <1>2 DEF stored, Rows, same_row
<1>5. members' \subseteq members /\ \A m \in members : m.role = "owner" => m \in members'
  BY <1>2, <1>3, <1>4
<1>6. members' \subseteq Members /\ Rows'
  BY <1>1, <1>5 DEF Types, Rows, same_row
<1>7. \A m : same_row(m, m)
  BY DEF same_row
<1>8. QED
  BY <1>1, <1>5, <1>6, <1>7, OwnersRewritten

\* Whoever a manager adds is not an owner.
LEMMA AddOwned ==
  ASSUME Inv, NEW s \in Managers, add_member_request(s) \/ invite_existing_user(s)
  PROVE  Owners'
<1>1. Types /\ Rows /\ s \in Slots /\ UNCHANGED owner_id
  BY DEF Inv, Slots, add_member_request, invite_existing_user
<1>2. /\ req[s].org \in Orgs /\ req[s].user \in Users /\ req[s].role \in Roles
      /\ req[s].role # "owner"
  BY <1>1, Remembers, ConstantsAssumption DEF add_member_request, invite_existing_user
<1>3. add_member(req[s].org, req[s].user, req[s].role)
  BY DEF add_member_request, invite_existing_user
<1>4. \E k \in Members : /\ k.role = req[s].role /\ members' = members \cup {k}
                         /\ \A m \in members : ~same_row(m, k)
  BY <1>1, <1>2, <1>3, Added
<1>5. QED
  BY <1>1, <1>2, <1>4, OwnersJoined

\* Every step keeps one owner for each organization that has been created.
LEMMA OwnersNext == Inv /\ [Next]_vars => Owners'
<1> SUFFICES ASSUME Inv, [Next]_vars PROVE Owners'
  OBVIOUS
<1>1. ASSUME NEW o \in Orgs, NEW u \in Users, create_organization(o, u) PROVE Owners'
  BY <1>1, CreateOwned
<1>2. ASSUME NEW u \in Users, register(u) PROVE Owners'
  BY <1>2, OwnersRest DEF register
<1>3. ASSUME NEW o \in Customizing, create_org_role(o) PROVE Owners'
  BY <1>3, OwnersRest DEF create_org_role
<1>4. ASSUME NEW o \in Customizing, delete_org_role(o) PROVE Owners'
  BY <1>4, DeleteRoleOwned, ConstantsAssumption
<1>5. ASSUME NEW i \in Invitations, revoke_invitation(i) \/ expire(i) PROVE Owners'
  BY <1>5, OwnersRest DEF revoke_invitation, expire
<1>6. CASE backfill_member_platform_roles
  BY <1>6, OwnersRest DEF backfill_member_platform_roles
<1>7. ASSUME NEW s \in Managers, manage(s) PROVE Owners'
  <2>1. CASE transfer_ownership(s)
    BY <2>1, TransferOwned
  <2>2. CASE update_member_role(s)
    BY <2>2, UpdateOwned
  <2>3. CASE remove_member(s)
    BY <2>3, RemoveOwned
  <2>4. CASE add_member_request(s) \/ invite_existing_user(s)
    BY <2>4, AddOwned
  <2>5. CASE delete_organization(s) \/ invite_member_by_email(s)
    BY <2>5, OwnersRest DEF delete_organization, invite_member_by_email
  <2>6. CASE ~(\/ transfer_ownership(s) \/ update_member_role(s) \/ remove_member(s)
               \/ add_member_request(s) \/ invite_existing_user(s)
               \/ delete_organization(s) \/ invite_member_by_email(s))
    <3>1. \E r \in Loads : begin(s, r)
      BY <1>7, <2>6, ManagerBegins DEF manage
    <3>2. UNCHANGED <<owner_id, members>>
      BY <3>1 DEF begin
    <3>3. QED
      BY <3>2, OwnersRest
  <2>7. QED
    BY <2>1, <2>2, <2>3, <2>4, <2>5, <2>6
<1>8. ASSUME NEW s \in Joiners, join(s) PROVE Owners'
  <2>1. CASE \E i \in Invitations : begin_accept(s, i)
    BY <2>1, OwnersRest DEF begin_accept, begin
  <2>2. CASE accept_invitation(s) \/ accept_invitation_with_signup(s)
    <3>1. req[s].op \in {"accept", "signup"} /\ accept(s)
      BY <2>2 DEF accept_invitation, accept_invitation_with_signup
    <3>2. QED
      BY <3>1, Accepted, OwnersJoined
  <2>3. QED
    BY <1>8, <2>1, <2>2 DEF join
<1>9. ASSUME NEW s \in Slots, roll_back(s) PROVE Owners'
  BY <1>9, OwnersRest DEF roll_back
<1>10. CASE UNCHANGED vars
  BY <1>10, OwnersRest DEF vars
<1>11. QED
  BY <1>1, <1>2, <1>3, <1>4, <1>5, <1>6, <1>7, <1>8, <1>9, <1>10 DEF Next

-----------------------------------------------------------------------------
(* Requests *)

InvitationTypes == invitation \in [Invitations -> InvitationRows \cup {[status |-> "none"]}]

InvitationsGoOn ==
    \A i \in Invitations : invitation[i].status # "none" => invitation'[i].status # "none"

\* Invitations keep their types, and one that was sent is never unsent.
LEMMA InvitationsNext == Inv /\ [Next]_vars => InvitationTypes' /\ InvitationsGoOn
<1> DEFINE Goal == InvitationTypes' /\ InvitationsGoOn
<1> SUFFICES ASSUME Inv, [Next]_vars PROVE Goal
  OBVIOUS
<1>1. Types
  BY DEF Inv
<1>2. ASSUME UNCHANGED invitation PROVE Goal
  BY <1>1, <1>2 DEF Types, InvitationTypes, InvitationsGoOn
<1>3. ASSUME NEW i \in Invitations, NEW row \in InvitationRows, row.status # "none",
             invitation' = [invitation EXCEPT ![i] = row]
      PROVE  Goal
  BY <1>1, <1>3 DEF Types, InvitationTypes, InvitationsGoOn
<1>4. ASSUME NEW i \in Invitations, revoke_invitation(i) PROVE Goal
  <2>1. invitation[i] \in InvitationRows
    BY <1>1, <1>4 DEF revoke_invitation, Types
  <2>2. invitation' = [invitation EXCEPT ![i] = [invitation[i] EXCEPT !.status = "deleted"]]
    BY <1>1, <1>4 DEF revoke_invitation, Types
  <2>3. [invitation[i] EXCEPT !.status = "deleted"] \in InvitationRows
    BY <2>1 DEF InvitationRows
  <2>4. [invitation[i] EXCEPT !.status = "deleted"].status # "none"
    BY <2>1 DEF InvitationRows
  <2>5. QED
    BY <1>3, <2>2, <2>3, <2>4
<1>5. ASSUME NEW i \in Invitations, expire(i) PROVE Goal
  <2>1. invitation[i] \in InvitationRows /\ invitation[i].status = "pending"
    BY <1>1, <1>5 DEF expire, get_invitation, Types
  <2>2. invitation' = [invitation EXCEPT ![i] = [invitation[i] EXCEPT !.expired = TRUE]]
    BY <1>1, <1>5 DEF expire, Types
  <2>3. [invitation[i] EXCEPT !.expired = TRUE] \in InvitationRows
    BY <2>1 DEF InvitationRows
  <2>4. [invitation[i] EXCEPT !.expired = TRUE].status # "none"
    BY <2>1 DEF InvitationRows
  <2>5. QED
    BY <1>3, <2>2, <2>3, <2>4
<1>6. ASSUME NEW s \in Managers, invite_member_by_email(s) PROVE Goal
  <2>1. req[s].org \in Orgs /\ req[s].user \in Users /\ req[s].role \in Roles
    BY <1>1, <1>6, Remembers DEF invite_member_by_email, Slots
  <2>2. PICK i \in Invitations : invitation' = [invitation EXCEPT ![i] =
            [status |-> "pending", org |-> req[s].org, user |-> req[s].user,
             role |-> req[s].role, expired |-> FALSE]]
    BY <1>6 DEF invite_member_by_email
  <2>3. [status |-> "pending", org |-> req[s].org, user |-> req[s].user,
         role |-> req[s].role, expired |-> FALSE] \in InvitationRows
    BY <2>1 DEF InvitationRows
  <2>4. QED
    BY <1>3, <2>2, <2>3
<1>7. ASSUME NEW s \in Joiners, accept_invitation(s) \/ accept_invitation_with_signup(s)
      PROVE  Goal
  <2>1. req[s].op \in {"accept", "signup"} /\ accept(s)
    BY <1>7 DEF accept_invitation, accept_invitation_with_signup
  <2>2. QED
    BY <2>1, Accepted DEF InvitationTypes, InvitationsGoOn
<1>8. ASSUME NEW s \in Managers, manage(s), ~invite_member_by_email(s)
      PROVE  UNCHANGED invitation
  <2>1. CASE \/ transfer_ownership(s) \/ update_member_role(s) \/ remove_member(s)
             \/ add_member_request(s) \/ invite_existing_user(s) \/ delete_organization(s)
    BY <2>1 DEF transfer_ownership, update_member_role, remove_member, add_member_request,
       invite_existing_user, delete_organization
  <2>2. CASE ~(\/ transfer_ownership(s) \/ update_member_role(s) \/ remove_member(s)
               \/ add_member_request(s) \/ invite_existing_user(s) \/ delete_organization(s))
    <3>1. \E r \in Loads : begin(s, r)
      BY <1>8, <2>2, ManagerBegins DEF manage
    <3>2. QED
      BY <3>1 DEF begin
  <2>3. QED
    BY <2>1, <2>2
<1>9. ASSUME NEW s \in Joiners, NEW i \in Invitations, begin_accept(s, i)
      PROVE  UNCHANGED invitation
  BY <1>9 DEF begin_accept, begin
<1>10. ASSUME \/ \E u \in Users : register(u)
              \/ \E o \in Orgs, u \in Users : create_organization(o, u)
              \/ \E o \in Customizing : create_org_role(o) \/ delete_org_role(o)
              \/ backfill_member_platform_roles
              \/ \E s \in Slots : roll_back(s)
              \/ UNCHANGED vars
       PROVE  UNCHANGED invitation
  BY <1>10 DEF register, create_organization, create_org_role, delete_org_role,
     backfill_member_platform_roles, roll_back, vars
<1> HIDE DEF Goal
<1>11. QED
  BY <1>2, <1>4, <1>5, <1>6, <1>7, <1>8, <1>9, <1>10 DEF Next, join

\* A slot rests, is done, or is begun with what its request has found.
Moves(t) ==
    \/ req'[t] = req[t]
    \/ req'[t] = Idle
    \/ /\ UNCHANGED <<members, invitation>>
       /\ req'[t].op \in {"accept", "signup"}
       /\ invitation[req'[t].invitation].status # "none"
    \/ /\ UNCHANGED <<members, invitation>>
       /\ req'[t].op \notin {"accept", "signup"}
       /\ req'[t].op = "transfer" =>
            /\ req'[t].caller.org = req'[t].target.org
            /\ req'[t].caller \in members /\ req'[t].caller.role = "owner"
            /\ req'[t].target \in members /\ req'[t].target # req'[t].caller
       /\ req'[t].op \in {"update", "remove"} =>
            req'[t].target \in members /\ req'[t].target.role # "owner"

\* The write of a manager's request.
Writes(s) ==
    \/ transfer_ownership(s) \/ update_member_role(s) \/ remove_member(s)
    \/ add_member_request(s) \/ invite_existing_user(s)
    \/ delete_organization(s) \/ invite_member_by_email(s)

\* Every step moves slots so.
LEMMA RequestsNext ==
  Inv /\ [Next]_vars => req' \in [Slots -> Loads] /\ \A t \in Slots : Moves(t)
<1> DEFINE Goal == req' \in [Slots -> Loads] /\ \A t \in Slots : Moves(t)
<1> SUFFICES ASSUME Inv, [Next]_vars PROVE Goal
  OBVIOUS
<1>1. Types
  BY DEF Inv
<1>2. ASSUME UNCHANGED req PROVE Goal
  BY <1>1, <1>2 DEF Types, Moves
<1>3. ASSUME NEW s \in Slots, done(s) PROVE Goal
  BY <1>1, <1>3, Done DEF Moves
<1>4. ASSUME NEW s \in Managers, manage(s) PROVE Goal
  <2>1. s \in Slots
    BY DEF Slots
  <2>2. CASE Writes(s)
    <3>1. done(s)
      BY <2>2 DEF Writes, transfer_ownership, update_member_role, remove_member,
         add_member_request, invite_existing_user, delete_organization,
         invite_member_by_email
    <3>2. QED
      BY <1>3, <2>1, <3>1
  <2>3. CASE ~Writes(s)
    <3>1. /\ \E r \in Loads : begin(s, r) /\ r.op \notin {"accept", "signup"}
          /\ req'[s].op = "transfer" =>
               /\ req'[s].caller.org = req'[s].target.org
               /\ req'[s].caller \in members /\ req'[s].caller.role = "owner"
               /\ req'[s].target \in members /\ req'[s].target # req'[s].caller
          /\ req'[s].op \in {"update", "remove"} =>
               req'[s].target \in members /\ req'[s].target.role # "owner"
      BY <1>4, <2>3, ManagerBegins DEF manage, Writes
    <3>2. QED
      BY <1>1, <2>1, <3>1, Began DEF Moves
  <2>4. QED
    BY <2>2, <2>3
<1>5. ASSUME NEW s \in Joiners, join(s) PROVE Goal
  <2>1. s \in Slots
    BY DEF Slots
  <2>2. ASSUME NEW i \in Invitations, begin_accept(s, i) PROVE Goal
    <3>1. PICK r \in Loads : /\ begin(s, r) /\ r.op \in {"accept", "signup"}
                             /\ r.invitation = i
      BY <2>2 DEF begin_accept, Loads
    <3>2. invitation[i].status # "none"
      BY <2>2 DEF begin_accept, get_invitation
    <3>3. QED
      BY <1>1, <2>1, <3>1, <3>2, Began DEF Moves
  <2>3. CASE accept_invitation(s) \/ accept_invitation_with_signup(s)
    <3>1. done(s)
      BY <2>3 DEF accept_invitation, accept_invitation_with_signup, accept
    <3>2. QED
      BY <1>3, <2>1, <3>1
  <2>4. QED
    BY <1>5, <2>2, <2>3 DEF join
<1>6. ASSUME NEW s \in Slots, roll_back(s) PROVE Goal
  BY <1>3, <1>6 DEF roll_back
<1>7. ASSUME \/ \E u \in Users : register(u)
             \/ \E o \in Orgs, u \in Users : create_organization(o, u)
             \/ \E o \in Customizing : create_org_role(o) \/ delete_org_role(o)
             \/ \E i \in Invitations : revoke_invitation(i) \/ expire(i)
             \/ backfill_member_platform_roles
             \/ UNCHANGED vars
      PROVE  UNCHANGED req
  BY <1>7 DEF register, create_organization, create_org_role, delete_org_role,
     revoke_invitation, expire, backfill_member_platform_roles, vars
<1> HIDE DEF Goal
<1>8. QED
  BY <1>2, <1>4, <1>5, <1>6, <1>7 DEF Next

\* Members' rows go on, owners as owners and others as others.
RowsGoOn ==
    \A m \in members : \E k \in members' :
        same_row(k, m) /\ (k.role = "owner" <=> m.role = "owner")

\* They do while the one manager's request has loaded and has not written.
LEMMA RowsNext ==
  ASSUME Inv, OneManager, [Next]_vars, NEW s \in Managers, req[s] # Idle, req'[s] = req[s]
  PROVE  RowsGoOn
<1>1. Types /\ Rows /\ s \in Slots
  BY DEF Inv, Slots
<1>2. ASSUME members \subseteq members' PROVE RowsGoOn
  BY <1>2 DEF RowsGoOn, same_row
<1>3. ASSUME NEW o \in Orgs, NEW u \in Users, create_organization(o, u) PROVE RowsGoOn
  BY <1>1, <1>2, <1>3, Added DEF create_organization
<1>4. ASSUME NEW o \in Customizing, delete_org_role(o) PROVE RowsGoOn
  <2>1. ASSUME NEW m \in members
        PROVE  \E k \in members' : same_row(k, m) /\ (k.role = "owner" <=> m.role = "owner")
    <3>1. m \in Members
      BY <1>1 DEF Types
    <3>2. (IF m.org = o THEN [m EXCEPT !.custom = FALSE] ELSE m) \in members'
      BY <1>4 DEF delete_org_role
    <3>3. QED
      BY <3>1, <3>2 DEF Members, same_row
  <2>2. QED
    BY <2>1 DEF RowsGoOn
<1>5. ASSUME NEW t \in Managers, manage(t) PROVE FALSE
  <2>1. t = s
    BY DEF OneManager
  <2>2. CASE Writes(s)
    <3>1. done(s)
      BY <2>2 DEF Writes, transfer_ownership, update_member_role, remove_member,
         add_member_request, invite_existing_user, delete_organization,
         invite_member_by_email
    <3>2. QED
      BY <1>1, <3>1, Done
  <2>3. CASE ~Writes(s)
    <3>1. \E r \in Loads : begin(s, r)
      BY <1>5, <2>1, <2>3, ManagerBegins DEF manage, Writes
    <3>2. QED
      BY <3>1 DEF begin
  <2>4. QED
    BY <2>2, <2>3
<1>6. ASSUME NEW t \in Joiners, join(t) PROVE RowsGoOn
  <2>1. ASSUME NEW i \in Invitations, begin_accept(t, i) PROVE RowsGoOn
    BY <1>2, <2>1 DEF begin_accept, begin
  <2>2. CASE accept_invitation(t) \/ accept_invitation_with_signup(t)
    <3>1. req[t].op \in {"accept", "signup"} /\ accept(t)
      BY <2>2 DEF accept_invitation, accept_invitation_with_signup
    <3>2. QED
      BY <1>2, <3>1, Accepted
  <2>3. QED
    BY <1>6, <2>1, <2>2 DEF join
<1>7. ASSUME \/ \E u \in Users : register(u)
             \/ \E o \in Customizing : create_org_role(o)
             \/ \E i \in Invitations : revoke_invitation(i) \/ expire(i)
             \/ backfill_member_platform_roles
             \/ \E t \in Slots : roll_back(t)
             \/ UNCHANGED vars
      PROVE  UNCHANGED members
  BY <1>7 DEF register, create_org_role, revoke_invitation, expire,
     backfill_member_platform_roles, roll_back, vars
<1>8. QED
  BY <1>2, <1>3, <1>4, <1>5, <1>6, <1>7 DEF Next

\* So what it has loaded is still so.
LEMMA LoadedNext == Inv /\ OneManager /\ [Next]_vars => StillLoaded'
<1> SUFFICES ASSUME Inv, OneManager, [Next]_vars, NEW s \in Managers
    PROVE /\ req'[s].op = "transfer" =>
               /\ req'[s].caller.org = req'[s].target.org
               /\ ~same_row(req'[s].caller, req'[s].target)
               /\ \E m \in members' : same_row(m, req'[s].caller) /\ m.role = "owner"
          /\ req'[s].op \in {"transfer", "update", "remove"} =>
               /\ req'[s].target.role # "owner"
               /\ \E m \in members' : same_row(m, req'[s].target) /\ m.role # "owner"
  BY DEF StillLoaded, same_row
<1>1. Moves(s) /\ Types /\ Rows /\ Unowned /\ OneOwner
  BY RequestsNext DEF Inv, Slots
<1>2. CASE req'[s] = Idle
  BY <1>2 DEF Idle
<1>3. CASE req'[s] = req[s] /\ req[s] # Idle
  <2>1. RowsGoOn
    BY <1>3, RowsNext
  <2>2. QED
    BY <1>3, <2>1 DEF Inv, StillLoaded, RowsGoOn, same_row
<1>4. CASE /\ UNCHANGED <<members, invitation>>
           /\ req'[s].op \in {"accept", "signup"}
  BY <1>4
<1>5. CASE /\ UNCHANGED <<members, invitation>>
           /\ req'[s].op = "transfer" =>
                /\ req'[s].caller.org = req'[s].target.org
                /\ req'[s].caller \in members /\ req'[s].caller.role = "owner"
                /\ req'[s].target \in members /\ req'[s].target # req'[s].caller
           /\ req'[s].op \in {"update", "remove"} =>
                req'[s].target \in members /\ req'[s].target.role # "owner"
  <2>1. CASE req'[s].op = "transfer"
    <3>1. req'[s].caller \in Members /\ req'[s].caller.org \in Orgs
      BY <1>1, <1>5, <2>1 DEF Types, Members
    <3>2. owner_id[req'[s].caller.org] # NoOwner
      BY <1>1, <1>5, <2>1, <3>1 DEF Unowned
    <3>3. req'[s].target.role # "owner"
      BY <1>1, <1>5, <2>1, <3>1, <3>2 DEF OneOwner
    <3>4. ~same_row(req'[s].caller, req'[s].target)
      BY <1>1, <1>5, <2>1 DEF Rows
    <3>5. QED
      BY <1>5, <2>1, <3>3, <3>4 DEF same_row
  <2>2. CASE req'[s].op # "transfer"
    BY <1>5, <2>2 DEF same_row
  <2>3. QED
    BY <2>1, <2>2
<1>6. QED
  BY <1>1, <1>2, <1>3, <1>4, <1>5 DEF Moves

\* Every step keeps what requests to accept have found.
LEMMA FoundNext == Inv /\ [Next]_vars => InvitationsAreThere'
<1> SUFFICES ASSUME Inv, [Next]_vars, NEW s \in Slots, req'[s].op \in {"accept", "signup"}
    PROVE invitation'[req'[s].invitation].status # "none"
  BY DEF InvitationsAreThere
<1>1. Moves(s) /\ InvitationsGoOn /\ Types
  BY RequestsNext, InvitationsNext DEF Inv
<1>2. CASE req'[s] = req[s]
  BY <1>1, <1>2, Remembers DEF Inv, InvitationsAreThere, InvitationsGoOn
<1>3. QED
  BY <1>1, <1>2 DEF Moves, Idle

-----------------------------------------------------------------------------
(* Theorems *)

\* While one request at a time manages teams, the invariant holds.
LEMMA Invariance == ASSUME OneManager PROVE Spec => []Inv
<1>1. Inv /\ [Next]_vars => Inv'
  <2>1. Inv /\ [Next]_vars => Types'
    BY OwnersNext, InvitationsNext, RequestsNext DEF Owners, InvitationTypes, Types
  <2>2. QED
    BY <2>1, OwnersNext, FoundNext, LoadedNext DEF Owners, Inv
<1>2. QED
  BY <1>1, InvInit, PTL DEF Spec

\* An organization has one owner among its members, and owner_id is that member,
\* while requests that manage a team do not overlap; any number of people may accept
\* invitations meanwhile (api/v1/endpoints/organizations.py, transfer_ownership).
THEOREM OwnershipIsSingle ==
    ASSUME OneManager
    PROVE  Spec => []OneOwner
<1>1. Inv => OneOwner
  BY DEF Inv
<1>2. QED
  BY <1>1, Invariance, PTL

-----------------------------------------------------------------------------
(* Support chats: streams catch up, and a claimed chat keeps its agent. *)

\* The topic of the queue is no ticket's.
OwnTopic == Chats!Queue \notin ChatTickets

ChatRows == [state : {"there"}, channel : {"chat", "email"}, status :
  Chats!EmailStatuses \cup Chats!ChatStatuses,
             agent : ChatAgents \cup {Chats!NoAgent}, messages : Nat \ {0}, updated : Nat]
Announcements == {<<Chats!Queue>>} \cup {<<t>> : t \in ChatTickets}
  \cup {<<Chats!Queue, t>> : t \in ChatTickets}
Announcing(q) == q = [op |-> "notify", topics |-> q.topics] /\ q.topics \in Announcements
Streams == [state : {"open"}, topic : Chats!Topics, inbox : BOOLEAN,
            shown : (SUBSET ChatTickets) \cup ChatRows \cup {Chats!Absent}]

\* A chat that waits has no agent yet; every ticket has a message.
TicketsOK ==
    /\ chats_ticket \in [ChatTickets -> ChatRows \cup {Chats!Absent}]
    /\ chats_today \in Nat
    /\ \A t \in ChatTickets : Chats!exists(t) /\ chats_ticket[t].status = "Waiting"
         => chats_ticket[t].agent = Chats!NoAgent
RequestsOK ==
    /\ chats_request = [r \in ChatRequests |-> chats_request[r]]
    /\ \A r \in ChatRequests :
        /\ chats_request[r].op = "close" => chats_request[r].ticket \in ChatTickets
        /\ chats_request[r].op = "notify" => Announcing(chats_request[r])
\* Nobody watches a ticket that is no chat.
StreamsOK ==
    /\ chats_watcher = [w \in ChatWatchers |-> chats_watcher[w]]
    /\ \A w \in ChatWatchers : chats_watcher[w] # Chats!Closed =>
        /\ chats_watcher[w] \in Streams
        /\ chats_watcher[w].topic # Chats!Queue => Chats!is_chat(chats_watcher[w].topic)

\* A change of the topic that its streams have not been told of.
Owed(topic) ==
    \/ topic \in chats_unannounced
    \/ \E r \in ChatRequests : /\ chats_request[r].op = "notify"
                               /\ \E i \in DOMAIN chats_request[r].topics :
                                    chats_request[r].topics[i] = topic
CaughtUp ==
    \A w \in ChatWatchers :
        chats_watcher[w] # Chats!Closed /\ ~chats_watcher[w].inbox
          /\ ~Owed(chats_watcher[w].topic)
                  => chats_watcher[w].shown = Chats!compute(chats_watcher[w].topic)

CInv == TicketsOK /\ RequestsOK /\ StreamsOK /\ CaughtUp

\* Nobody chats and nobody watches.
LEMMA InitCInv == Chats!Init => CInv
  BY DEF Chats!Init, CInv, TicketsOK, RequestsOK, StreamsOK, CaughtUp, Chats!exists,
     Chats!Absent, Chats!Idle, Chats!Closed

\* The row of a ticket that is there.
LEMMA RowIs ==
    ASSUME TicketsOK, NEW t \in ChatTickets
    PROVE  /\ Chats!exists(t) <=> chats_ticket[t] \in ChatRows
           /\ ~Chats!exists(t) <=> chats_ticket[t] = Chats!Absent
  BY DEF TicketsOK, Chats!exists, ChatRows, Chats!Absent

\* What a request goes on with.
LEMMA ChatGoes ==
    ASSUME RequestsOK, NEW r \in ChatRequests, NEW q,
           chats_request' = [chats_request EXCEPT ![r] = q],
           q.op = "close" => q.ticket \in ChatTickets,
           q.op = "notify" => Announcing(q)
    PROVE  /\ RequestsOK'
           /\ \A u \in ChatRequests :
                chats_request'[u] = IF u = r THEN q ELSE chats_request[u]
<1>1. \A u \in ChatRequests : chats_request'[u] = IF u = r THEN q ELSE chats_request[u]
  BY DEF RequestsOK
<1> QED BY <1>1 DEF RequestsOK

\* What is announced of a chat: the queue, the chat, or both.
LEMMA AnnouncementHas ==
    ASSUME NEW t
    PROVE  /\ \A topic : (\E i \in DOMAIN <<t>> : <<t>>[i] = topic) <=> topic = t
           /\ \A topic : (\E i \in DOMAIN <<Chats!Queue, t>> :
                <<Chats!Queue, t>>[i] = topic)
                            <=> topic \in {Chats!Queue, t}
  OBVIOUS

(* A step of a request or of an email endpoint: it keeps the streams, and  *)
(* owes them what it changes.                                              *)
LEMMA Changes ==
    ASSUME CInv, TicketsOK', RequestsOK', chats_watcher' = chats_watcher,
           \A t \in ChatTickets : Chats!is_chat(t) => Chats!is_chat(t)',
           \A topic \in Chats!Topics : Owed(topic) => Owed(topic)',
           \A topic \in Chats!Topics :
               Owed(topic)' \/ Chats!compute(topic)' = Chats!compute(topic)
                            \/ (topic # Chats!Queue /\ ~Chats!is_chat(topic))
    PROVE  CInv'
<1>1. \A w \in ChatWatchers : chats_watcher[w] # Chats!Closed
  => chats_watcher[w].topic \in Chats!Topics
  BY DEF CInv, StreamsOK, Streams
<1>2. StreamsOK'
  BY <1>1 DEF CInv, StreamsOK, Chats!Topics, Streams
<1>3. ASSUME NEW w \in ChatWatchers, chats_watcher[w] # Chats!Closed,
             ~chats_watcher[w].inbox,
             NEW topic \in Chats!Topics, topic = chats_watcher[w].topic, ~Owed(topic)'
      PROVE  chats_watcher[w].shown = Chats!compute(topic)'
  BY <1>3 DEF CInv, CaughtUp, StreamsOK
<1>4. CaughtUp'
  <2> SUFFICES ASSUME NEW w \in ChatWatchers, chats_watcher'[w] # Chats!Closed,
                      ~chats_watcher'[w].inbox,
                      ~Owed(chats_watcher[w].topic)'
               PROVE  chats_watcher'[w].shown = Chats!compute(chats_watcher[w].topic)'
    BY DEF CaughtUp
  <2>1. PICK topic \in Chats!Topics : topic = chats_watcher[w].topic
    BY <1>1
  <2>2. ~Owed(topic)'
    BY <2>1 DEF Owed
  <2>3. chats_watcher[w].shown = Chats!compute(topic)'
    BY <1>3, <2>1, <2>2
  <2> QED BY <2>1, <2>3 DEF Chats!compute
<1> QED BY <1>2, <1>4 DEF CInv

(* One row is written, and the request owes what topics it will publish.   *)
LEMMA OneTicket ==
    ASSUME TicketsOK, NEW t \in ChatTickets, NEW row \in ChatRows,
           chats_ticket' = [chats_ticket EXCEPT ![t] = row],
           chats_today' = chats_today,
           row.status = "Waiting" => row.agent = Chats!NoAgent,
           Chats!is_chat(t) => row.channel = "chat"
    PROVE  /\ TicketsOK'
           /\ \A u \in ChatTickets : Chats!is_chat(u) => Chats!is_chat(u)'
           /\ \A u \in ChatTickets \ {t} : chats_ticket'[u] = chats_ticket[u]
           /\ chats_ticket'[t] = row
<1>1. \A u \in ChatTickets : chats_ticket'[u] = IF u = t THEN row ELSE chats_ticket[u]
  BY DEF TicketsOK
<1>2. row.state = "there"
  BY DEF ChatRows
<1>3. TicketsOK'
  BY <1>1 DEF TicketsOK, Chats!exists
<1>4. \A u \in ChatTickets : Chats!is_chat(u) => Chats!is_chat(u)'
  BY <1>1, <1>2 DEF Chats!is_chat, Chats!exists
<1> QED BY <1>1, <1>3, <1>4

\* The queue shows the chats that wait.
LEMMA SameQueue ==
    ASSUME TicketsOK, NEW t \in ChatTickets,
           \A u \in ChatTickets \ {t} : chats_ticket'[u] = chats_ticket[u],
           (Chats!is_chat(t) /\ chats_ticket[t].status = "Waiting") <=>
                     (Chats!is_chat(t)' /\ chats_ticket'[t].status = "Waiting")
    PROVE  Chats!waiting_chats' = Chats!waiting_chats
<1>1. \A u \in ChatTickets \ {t} : Chats!is_chat(u)' <=> Chats!is_chat(u)
  BY DEF Chats!is_chat, Chats!exists
<1> QED BY <1>1 DEF Chats!waiting_chats

\* A request commits, and owes its topics to their streams.
LEMMA Notifies ==
    ASSUME CInv, NEW r \in ChatRequests, chats_request[r].op # "notify",
           NEW topics \in Announcements, Chats!notify_after(r, topics)
    PROVE  /\ RequestsOK'
           /\ \A topic \in Chats!Topics : Owed(topic) => Owed(topic)'
           /\ \A i \in DOMAIN topics : Owed(topics[i])'
<1> DEFINE q == [op |-> "notify", topics |-> topics]
<1>1. chats_request' = [chats_request EXCEPT ![r] = q]
  /\ chats_unannounced' = chats_unannounced
  BY DEF Chats!notify_after
<1>2. q.op = "notify" /\ q.topics = topics /\ q.op # "close" /\ Announcing(q)
  BY DEF Announcing
<1> HIDE DEF q
<1>6. RequestsOK
  BY DEF CInv
<1>3. RequestsOK' /\ \A u \in ChatRequests :
  chats_request'[u] = IF u = r THEN q ELSE chats_request[u]
  BY <1>1, <1>2, <1>6, ChatGoes
<1>4. \A topic \in Chats!Topics : Owed(topic) => Owed(topic)'
  BY <1>1, <1>3 DEF Owed
<1>5. \A i \in DOMAIN topics : Owed(topics[i])'
  BY <1>2, <1>3 DEF Owed
<1> QED BY <1>3, <1>4, <1>5

\* A chat starts and the queue is told.
LEMMA StartChat ==
    ASSUME CInv, OwnTopic, NEW r \in ChatRequests, NEW t \in ChatTickets,
           Chats!start_chat(r, t)
    PROVE  CInv'
<1> DEFINE row == [state |-> "there", channel |-> "chat", status |-> "Waiting",
                   agent |-> Chats!NoAgent, messages |-> 1, updated |-> chats_today]
<1>1. /\ chats_request[r] = Chats!Idle /\ ~Chats!exists(t)
      /\ chats_ticket' = [chats_ticket EXCEPT ![t] = row]
      /\ Chats!notify_after(r, <<Chats!Queue>>) /\ chats_today' = chats_today
      /\ chats_watcher' = chats_watcher
  BY DEF Chats!start_chat, Chats!insert
<1>2. row \in ChatRows /\ row.agent = Chats!NoAgent /\ row.channel = "chat"
  BY DEF ChatRows, CInv, TicketsOK, Chats!ChatStatuses
<1> HIDE DEF row
<1>3. /\ TicketsOK' /\ \A u \in ChatTickets : Chats!is_chat(u) => Chats!is_chat(u)'
      /\ \A u \in ChatTickets \ {t} : chats_ticket'[u] = chats_ticket[u]
  BY <1>1, <1>2, OneTicket DEF CInv
<1>4. <<Chats!Queue>> \in Announcements /\ chats_request[r].op # "notify"
  BY <1>1 DEF Announcements, Chats!Idle
<1>5. RequestsOK' /\ (\A topic \in Chats!Topics : Owed(topic) => Owed(topic)')
  /\ Owed(Chats!Queue)'
  <2>1. /\ RequestsOK' /\ (\A topic \in Chats!Topics : Owed(topic) => Owed(topic)')
        /\ \A i \in DOMAIN <<Chats!Queue>> : Owed(<<Chats!Queue>>[i])'
    BY <1>1, <1>4, Notifies
  <2>2. Owed(Chats!Queue)'
    BY <2>1 DEF Owed
  <2> QED BY <2>1, <2>2
<1>6. ASSUME NEW topic \in Chats!Topics
      PROVE  Owed(topic)' \/ Chats!compute(topic)' = Chats!compute(topic)
                          \/ (topic # Chats!Queue /\ ~Chats!is_chat(topic))
  <2>1. CASE topic = Chats!Queue
    BY <1>5, <2>1
  <2>2. CASE topic = t
    BY <1>1, <2>2 DEF Chats!is_chat, OwnTopic
  <2>3. CASE topic \in ChatTickets \ {t}
    BY <1>3, <2>3 DEF Chats!compute, OwnTopic
  <2> QED BY <2>1, <2>2, <2>3 DEF Chats!Topics
<1> QED BY <1>1, <1>3, <1>5, <1>6, Changes

\* A message is written; the first of an open chat tells the queue too.
LEMMA SendMessage ==
    ASSUME CInv, OwnTopic, NEW r \in ChatRequests, NEW t \in ChatTickets,
           Chats!send_message(r, t)
    PROVE  CInv'
<1> DEFINE row == [chats_ticket[t] EXCEPT !.messages = @ + 1]
<1>1. /\ chats_request[r] = Chats!Idle /\ Chats!is_chat(t)
      /\ chats_ticket' = [chats_ticket EXCEPT ![t] = row]
      /\ Chats!notify_after(r, <<t>>) /\ chats_today' = chats_today
      /\ chats_watcher' = chats_watcher
  BY DEF Chats!send_message, Chats!add_message, CInv, TicketsOK
<1>2. /\ row \in ChatRows /\ row.agent = chats_ticket[t].agent
      /\ row.channel = chats_ticket[t].channel
      /\ row.status = chats_ticket[t].status /\ row.state = "there"
  <2>1. chats_ticket[t] \in ChatRows
    BY <1>1, RowIs DEF CInv, Chats!is_chat
  <2> QED BY <2>1 DEF ChatRows
<1> HIDE DEF row
<1>3. row.status = "Waiting" => row.agent = Chats!NoAgent
  BY <1>1, <1>2 DEF CInv, TicketsOK, Chats!is_chat
<1>4. /\ TicketsOK' /\ \A u \in ChatTickets : Chats!is_chat(u) => Chats!is_chat(u)'
      /\ \A u \in ChatTickets \ {t} : chats_ticket'[u] = chats_ticket[u]
      /\ chats_ticket'[t] = row
  <2>1. TicketsOK /\ row.channel = "chat"
    BY <1>1, <1>2 DEF CInv, Chats!is_chat
  <2> QED BY <1>1, <1>2, <1>3, <2>1, OneTicket
<1>5. <<t>> \in Announcements /\ chats_request[r].op # "notify"
  BY <1>1 DEF Announcements, Chats!Idle
<1>6. RequestsOK' /\ (\A topic \in Chats!Topics : Owed(topic) => Owed(topic)') /\ Owed(t)'
  <2>1. /\ RequestsOK' /\ (\A topic \in Chats!Topics : Owed(topic) => Owed(topic)')
        /\ \A i \in DOMAIN <<t>> : Owed(<<t>>[i])'
    BY <1>1, <1>5, Notifies
  <2>2. Owed(t)'
    BY <2>1 DEF Owed
  <2> QED BY <2>1, <2>2
<1>7. Chats!waiting_chats' = Chats!waiting_chats
  BY <1>1, <1>2, <1>4, SameQueue DEF CInv, Chats!is_chat, Chats!exists
<1>8. ASSUME NEW topic \in Chats!Topics
      PROVE  Owed(topic)' \/ Chats!compute(topic)' = Chats!compute(topic)
                          \/ (topic # Chats!Queue /\ ~Chats!is_chat(topic))
  BY <1>4, <1>6, <1>7 DEF Chats!compute, OwnTopic, Chats!Topics
<1> QED BY <1>1, <1>4, <1>6, <1>8, Changes

\* A request announces a ticket and the queue.
LEMMA NotifiesBoth ==
    ASSUME CInv, OwnTopic, NEW r \in ChatRequests, chats_request[r].op # "notify",
           NEW t \in ChatTickets,
           Chats!notify_after(r, <<Chats!Queue, t>>), chats_watcher' = chats_watcher,
           TicketsOK', \A u \in ChatTickets : Chats!is_chat(u) => Chats!is_chat(u)',
           \A u \in ChatTickets \ {t} : chats_ticket'[u] = chats_ticket[u]
    PROVE  CInv'
<1>1. <<Chats!Queue, t>> \in Announcements
  BY DEF Announcements
<1>2. /\ RequestsOK' /\ (\A topic \in Chats!Topics : Owed(topic) => Owed(topic)')
      /\ \A i \in DOMAIN <<Chats!Queue, t>> : Owed(<<Chats!Queue, t>>[i])'
  BY <1>1, Notifies
<1>3. Owed(Chats!Queue)' /\ Owed(t)'
  <2>1. 1 \in DOMAIN <<Chats!Queue, t>> /\ 2 \in DOMAIN <<Chats!Queue, t>>
    OBVIOUS
  <2> QED BY <1>2, <2>1 DEF Owed
<1>4. ASSUME NEW topic \in Chats!Topics
      PROVE  Owed(topic)' \/ Chats!compute(topic)' = Chats!compute(topic)
                          \/ (topic # Chats!Queue /\ ~Chats!is_chat(topic))
  BY <1>3 DEF Chats!compute, OwnTopic, Chats!Topics
<1> QED BY <1>2, <1>4, Changes

\* A new status, which is not that of a chat that waits.
LEMMA NewStatus ==
    ASSUME TicketsOK, NEW t \in ChatTickets, Chats!exists(t),
           NEW s \in Chats!EmailStatuses \cup {"Active", "Closed"}
    PROVE  /\ Chats!set_status(t, s) \in ChatRows
           /\ Chats!set_status(t, s).channel = chats_ticket[t].channel
           /\ Chats!set_status(t, s).status = s /\ s # "Waiting"
           /\ Chats!set_status(t, s).agent = chats_ticket[t].agent
  BY RowIs DEF Chats!set_status, ChatRows, Chats!EmailStatuses, Chats!ChatStatuses,
     TicketsOK

\* An agent takes a chat: a conditional UPDATE, so that one of two wins.
LEMMA Claims ==
    ASSUME CInv, OwnTopic, NEW r \in ChatRequests, NEW t \in ChatTickets,
           NEW a \in ChatAgents, Chats!claim(r, t, a)
    PROVE  CInv'
<1> DEFINE row == [Chats!set_status(t, "Active") EXCEPT !.agent = a]
<1>1. /\ chats_request[r] = Chats!Idle /\ Chats!exists(t)
      /\ chats_ticket' = [chats_ticket EXCEPT ![t] = row]
      /\ Chats!notify_after(r, <<Chats!Queue, t>>) /\ chats_today' = chats_today
      /\ chats_watcher' = chats_watcher
  BY DEF Chats!claim, Chats!claimable
<1>2. TicketsOK
  BY DEF CInv
<1>3. /\ Chats!set_status(t, "Active") \in ChatRows
      /\ Chats!set_status(t, "Active").channel = chats_ticket[t].channel
      /\ Chats!set_status(t, "Active").status = "Active"
  BY <1>1, <1>2, NewStatus
<1>4. row \in ChatRows /\ row.channel = chats_ticket[t].channel /\ row.status = "Active"
  BY <1>3 DEF ChatRows
<1> HIDE DEF row
<1>5. /\ TicketsOK' /\ \A u \in ChatTickets : Chats!is_chat(u) => Chats!is_chat(u)'
      /\ \A u \in ChatTickets \ {t} : chats_ticket'[u] = chats_ticket[u]
  BY <1>1, <1>2, <1>4, OneTicket DEF Chats!is_chat
<1> QED BY <1>1, <1>5, NotifiesBoth DEF Chats!Idle

\* A chat is closed, and the queue and the chat are told.
LEMMA Closes ==
    ASSUME CInv, OwnTopic, NEW r \in ChatRequests, Chats!close(r)
    PROVE  CInv'
<1> DEFINE t == chats_request[r].ticket
           row == Chats!set_status(t, "Closed")
<1>1. /\ chats_request[r].op = "close" /\ Chats!exists(t)
      /\ Chats!notify_after(r, <<Chats!Queue, t>>)
      /\ chats_ticket' = [chats_ticket EXCEPT ![t] = row] \/ chats_ticket' = chats_ticket
      /\ chats_today' = chats_today /\ chats_watcher' = chats_watcher
  BY DEF Chats!close
<1>2. t \in ChatTickets /\ TicketsOK
  BY <1>1 DEF CInv, RequestsOK
<1>3. row \in ChatRows /\ row.channel = chats_ticket[t].channel /\ row.status = "Closed"
  BY <1>1, <1>2, NewStatus
<1> HIDE DEF t, row
<1>4. /\ TicketsOK' /\ \A u \in ChatTickets : Chats!is_chat(u) => Chats!is_chat(u)'
      /\ \A u \in ChatTickets \ {t} : chats_ticket'[u] = chats_ticket[u]
  <2>1. CASE chats_ticket' = chats_ticket
    BY <1>1, <1>2, <2>1 DEF TicketsOK, Chats!is_chat, Chats!exists
  <2>2. CASE chats_ticket' = [chats_ticket EXCEPT ![t] = row]
    BY <1>1, <1>2, <1>3, <2>2, OneTicket DEF Chats!is_chat
  <2> QED BY <1>1, <2>1, <2>2
<1> QED BY <1>1, <1>2, <1>4, NotifiesBoth

\* The close reads the row first.
LEMMA BeginClose ==
    ASSUME CInv, OwnTopic, NEW r \in ChatRequests, NEW t \in ChatTickets,
           Chats!begin_close(r, t)
    PROVE  CInv'
<1> DEFINE q == [op |-> "close", ticket |-> t, writes |-> chats_ticket[t].status # "Closed"]
<1>1. /\ chats_request[r] = Chats!Idle /\ chats_request' = [chats_request EXCEPT ![r] = q]
      /\ UNCHANGED <<chats_ticket, chats_today, chats_watcher, chats_unannounced>>
  BY DEF Chats!begin_close
<1>2. q.op = "close" /\ q.ticket = t
  OBVIOUS
<1> HIDE DEF q
<1>3. RequestsOK' /\ \A u \in ChatRequests :
  chats_request'[u] = IF u = r THEN q ELSE chats_request[u]
  BY <1>1, <1>2, ChatGoes DEF CInv
<1>4. \A topic \in Chats!Topics : Owed(topic) => Owed(topic)'
  BY <1>1, <1>3 DEF Owed, Chats!Idle
<1>5. TicketsOK' /\ \A u \in ChatTickets : Chats!is_chat(u) => Chats!is_chat(u)'
  BY <1>1 DEF CInv, TicketsOK, Chats!is_chat, Chats!exists
<1>6. \A topic \in Chats!Topics : Chats!compute(topic)' = Chats!compute(topic)
  BY <1>1 DEF Chats!compute, Chats!waiting_chats, Chats!is_chat, Chats!exists
<1> QED BY <1>1, <1>3, <1>4, <1>5, <1>6, Changes

\* The email endpoints publish nothing; the change of a chat is owed for good.
LEMMA EmailSteps ==
    ASSUME CInv, OwnTopic, NEW t \in ChatTickets,
           Chats!create_ticket(t) \/ \E s \in Chats!EmailStatuses : Chats!reply(t, s)
             \/ Chats!update_status(t, s)
    PROVE  CInv'
<1>1. TicketsOK /\ RequestsOK
  BY DEF CInv
<1>2. /\ chats_today' = chats_today /\ chats_request' = chats_request
      /\ chats_watcher' = chats_watcher
  BY DEF Chats!create_ticket, Chats!reply, Chats!update_status
<1>3. RequestsOK'
  BY <1>1, <1>2 DEF RequestsOK
<1>4. CASE Chats!create_ticket(t)
  <2> DEFINE row == [state |-> "there", channel |-> "email", status |-> "Open",
                     agent |-> Chats!NoAgent, messages |-> 1, updated |-> chats_today]
  <2>1. ~Chats!exists(t) /\ chats_ticket' = [chats_ticket EXCEPT ![t] = row]
    /\ chats_unannounced' = chats_unannounced
    BY <1>4 DEF Chats!create_ticket, Chats!insert
  <2>2. row \in ChatRows /\ row.channel = "email" /\ row.status = "Open"
    BY <1>1 DEF ChatRows, TicketsOK, Chats!EmailStatuses
  <2> HIDE DEF row
  <2>3. /\ TicketsOK' /\ \A u \in ChatTickets : Chats!is_chat(u) => Chats!is_chat(u)'
        /\ \A u \in ChatTickets \ {t} : chats_ticket'[u] = chats_ticket[u]
        /\ chats_ticket'[t] = row
    BY <1>1, <1>2, <2>1, <2>2, OneTicket DEF Chats!is_chat
  <2>4. Chats!waiting_chats' = Chats!waiting_chats
    BY <1>1, <2>1, <2>2, <2>3, SameQueue DEF Chats!is_chat
  <2>5. \A topic \in Chats!Topics : Owed(topic) => Owed(topic)'
    BY <1>2, <2>1 DEF Owed
  <2>6. ASSUME NEW topic \in Chats!Topics
        PROVE  Chats!compute(topic)' = Chats!compute(topic)
               \/ (topic # Chats!Queue /\ ~Chats!is_chat(topic))
    BY <2>1, <2>3, <2>4 DEF Chats!compute, OwnTopic, Chats!Topics, Chats!is_chat
  <2> QED BY <1>2, <1>3, <2>3, <2>5, <2>6, Changes
<1>5. ASSUME NEW row \in ChatRows, chats_ticket' = [chats_ticket EXCEPT ![t] = row],
             Chats!exists(t),
             row.channel = chats_ticket[t].channel,
             row.status = "Waiting" => row.agent = Chats!NoAgent,
             chats_unannounced' = chats_unannounced
               \cup (IF Chats!is_chat(t) THEN {t, Chats!Queue} ELSE {})
      PROVE  CInv'
  <2>1. /\ TicketsOK' /\ \A u \in ChatTickets : Chats!is_chat(u) => Chats!is_chat(u)'
        /\ \A u \in ChatTickets \ {t} : chats_ticket'[u] = chats_ticket[u]
        /\ chats_ticket'[t] = row
    BY <1>1, <1>2, <1>5, OneTicket DEF Chats!is_chat
  <2>2. \A topic \in Chats!Topics : Owed(topic) => Owed(topic)'
    BY <1>2, <1>5 DEF Owed
  <2>3. Chats!is_chat(t) => Owed(t)' /\ Owed(Chats!Queue)'
    BY <1>5 DEF Owed
  <2>4. ~Chats!is_chat(t) => Chats!waiting_chats' = Chats!waiting_chats
    BY <1>1, <1>5, <2>1, SameQueue DEF Chats!is_chat
  <2>5. ASSUME NEW topic \in Chats!Topics
        PROVE  Owed(topic)' \/ Chats!compute(topic)' = Chats!compute(topic)
                            \/ (topic # Chats!Queue /\ ~Chats!is_chat(topic))
    <3>1. CASE topic = Chats!Queue
      BY <2>3, <2>4, <3>1 DEF Chats!compute
    <3>2. CASE topic = t
      BY <2>3, <3>2 DEF OwnTopic
    <3>3. CASE topic \in ChatTickets \ {t}
      BY <2>1, <3>3 DEF Chats!compute, OwnTopic
    <3> QED BY <3>1, <3>2, <3>3 DEF Chats!Topics
  <2> QED BY <1>2, <1>3, <2>1, <2>2, <2>5, Changes
<1>6. ASSUME NEW s \in Chats!EmailStatuses, Chats!update_status(t, s) PROVE CInv'
  <2>1. /\ Chats!exists(t) /\ chats_ticket' =
             [chats_ticket EXCEPT ![t] = Chats!set_status(t, s)]
        /\ chats_unannounced' = chats_unannounced
             \cup (IF Chats!is_chat(t) THEN {t, Chats!Queue} ELSE {})
    BY <1>6 DEF Chats!update_status, Chats!change_silently
  <2>2. /\ Chats!set_status(t, s) \in ChatRows
        /\ Chats!set_status(t, s).channel = chats_ticket[t].channel
        /\ Chats!set_status(t, s).status # "Waiting"
    BY <1>1, <2>1, NewStatus
  <2> QED BY <1>5, <2>1, <2>2
<1>7. ASSUME NEW s \in Chats!EmailStatuses, Chats!reply(t, s) PROVE CInv'
  <2> DEFINE base == IF chats_ticket[t].status = s THEN chats_ticket[t] ELSE
    Chats!set_status(t, s)
             row == [base EXCEPT !.messages = @ + 1]
  <2>1. /\ Chats!exists(t) /\ chats_ticket' = [chats_ticket EXCEPT ![t] = row]
        /\ chats_unannounced' = chats_unannounced
             \cup (IF Chats!is_chat(t) THEN {t, Chats!Queue} ELSE {})
    BY <1>7 DEF Chats!reply, Chats!change_silently, Chats!replied
  <2>2. /\ base \in ChatRows /\ base.channel = chats_ticket[t].channel
        /\ base.status = "Waiting" => base.agent = Chats!NoAgent
    <3>1. CASE chats_ticket[t].status = s
      BY <1>1, <2>1, <3>1, RowIs DEF TicketsOK
    <3>2. CASE chats_ticket[t].status # s
      BY <1>1, <2>1, <3>2, NewStatus
    <3> QED BY <3>1, <3>2
  <2> HIDE DEF base
  <2>3. /\ row \in ChatRows /\ row.channel = base.channel /\ row.status = base.status
        /\ row.agent = base.agent
    BY <2>2 DEF ChatRows
  <2> HIDE DEF row
  <2> QED BY <1>5, <2>1, <2>2, <2>3
<1> QED BY <1>4, <1>6, <1>7

\* An announcement is of the queue and then of a ticket, or of one of them.
Remaining(q) == IF q.topics = <<q.topics[1]>> THEN Chats!Idle
                ELSE [q EXCEPT !.topics = <<q.topics[2]>>]
Announced(q, topic) == q.op = "notify" /\ \E i \in DOMAIN q.topics : q.topics[i] = topic

\* What is left to announce after one topic.
LEMMA StillOwed ==
    ASSUME OwnTopic, NEW q, q.op = "notify", Announcing(q)
    PROVE  /\ q.topics[1] \in Chats!Topics
           /\ Remaining(q).op # "close"
           /\ Remaining(q).op = "notify" => Announcing(Remaining(q))
           /\ \A topic : Announced(q, topic) =>
                  topic = q.topics[1] \/ Announced(Remaining(q), topic)
<1> DEFINE rest == Remaining(q)
<1>0. rest = IF q.topics = <<q.topics[1]>> THEN Chats!Idle ELSE
  [q EXCEPT !.topics = <<q.topics[2]>>]
  BY DEF Remaining
<1> HIDE DEF rest
<1>1. ASSUME NEW x \in Chats!Topics, q.topics = <<x>>
      PROVE  rest = Chats!Idle /\ q.topics[1] = x
             /\ \A i \in DOMAIN q.topics : q.topics[i] = x
  BY <1>0, <1>1
<1>2. ASSUME NEW t \in ChatTickets, q.topics = <<Chats!Queue, t>>
      PROVE  /\ rest.op = "notify" /\ rest.topics = <<t>>
             /\ rest = [op |-> "notify", topics |-> <<t>>]
             /\ q.topics[1] = Chats!Queue
             /\ \A i \in DOMAIN q.topics : q.topics[i] \in {Chats!Queue, t}
  <2>1. q.topics # <<q.topics[1]>> /\ q.topics[2] = t
    BY <1>2
  <2>2. rest = [op |-> "notify", topics |-> <<t>>]
    BY <1>0, <2>1 DEF Announcing
  <2>3. rest.op = "notify" /\ rest.topics = <<t>>
    BY <2>2
  <2>4. q.topics[1] = Chats!Queue
    /\ \A i \in DOMAIN q.topics : q.topics[i] \in {Chats!Queue, t}
    BY <1>2
  <2> QED BY <2>2, <2>3, <2>4
<1>3. \/ \E x \in Chats!Topics : q.topics = <<x>>
      \/ \E t \in ChatTickets : q.topics = <<Chats!Queue, t>>
  BY DEF Announcing, Announcements, Chats!Topics
<1>4. CASE \E x \in Chats!Topics : q.topics = <<x>>
  <2>1. PICK x \in Chats!Topics : q.topics = <<x>>
    BY <1>4
  <2>2. rest = Chats!Idle /\ q.topics[1] = x /\ \A i \in DOMAIN q.topics : q.topics[i] = x
    BY <1>1, <2>1
  <2> QED BY <2>2 DEF Chats!Idle, Announced, rest
<1>5. CASE \E t \in ChatTickets : q.topics = <<Chats!Queue, t>>
  <2>1. PICK t \in ChatTickets : q.topics = <<Chats!Queue, t>>
    BY <1>5
  <2>2. /\ rest.op = "notify" /\ rest.topics = <<t>>
        /\ rest = [op |-> "notify", topics |-> <<t>>]
        /\ q.topics[1] = Chats!Queue
        /\ \A i \in DOMAIN q.topics : q.topics[i] \in {Chats!Queue, t}
    BY <1>2, <2>1
  <2>3. Announcing(rest)
    BY <2>2 DEF Announcing, Announcements
  <2>4. \E i \in DOMAIN rest.topics : rest.topics[i] = t
    BY <2>2
  <2>5. rest.op # "close" /\ q.topics[1] \in Chats!Topics
    BY <2>2 DEF Chats!Topics
  <2> QED BY <2>2, <2>3, <2>4, <2>5 DEF Announced, rest
<1> QED BY <1>3, <1>4, <1>5

\* A stream with a message in its inbox.
LEMMA Told ==
    ASSUME NEW v \in Streams
    PROVE  /\ [v EXCEPT !.inbox = TRUE] # Chats!Closed
           /\ [v EXCEPT !.inbox = TRUE] \in Streams
           /\ [v EXCEPT !.inbox = TRUE].topic = v.topic
           /\ [v EXCEPT !.inbox = TRUE].inbox = TRUE
<1> DEFINE u == [v EXCEPT !.inbox = TRUE]
<1>1. u \in Streams /\ u.topic = v.topic /\ u.inbox = TRUE
  BY DEF Streams
<1> HIDE DEF u
<1>2. u.state = "open"
  BY <1>1 DEF Streams
<1>3. u # Chats!Closed
  BY <1>2 DEF Chats!Closed
<1> QED BY <1>1, <1>3 DEF u

\* Only a stream on the first topic is told.
LEMMA Publishes ==
    ASSUME CInv, OwnTopic, NEW r \in ChatRequests, Chats!publish(r)
    PROVE  CInv'
<1> DEFINE q == chats_request[r]
           first == q.topics[1]
<1>1. /\ q.op = "notify" /\ Chats!wake(first)
      /\ chats_unannounced' = chats_unannounced \ {first}
      /\ chats_request' = [chats_request EXCEPT ![r] = Remaining(q)]
      /\ chats_ticket' = chats_ticket /\ chats_today' = chats_today
  BY DEF Chats!publish, Remaining
<1>2. TicketsOK /\ RequestsOK /\ StreamsOK /\ CaughtUp /\ Announcing(q)
  BY <1>1 DEF CInv, RequestsOK
<1>3. /\ first \in Chats!Topics
      /\ Remaining(q).op # "close"
           /\ (Remaining(q).op = "notify" => Announcing(Remaining(q)))
      /\ \A topic : Announced(q, topic) => topic = first \/ Announced(Remaining(q), topic)
  BY <1>1, <1>2, StillOwed
<1>4. RequestsOK' /\ \A u \in ChatRequests :
          chats_request'[u] = IF u = r THEN Remaining(q) ELSE chats_request[u]
  BY <1>1, <1>2, <1>3, ChatGoes
<1> HIDE DEF first
<1>5. \A topic : Owed(topic) => Owed(topic)' \/ topic = first
  <2> SUFFICES ASSUME NEW topic, Owed(topic), ~(topic = first) PROVE Owed(topic)'
    BY DEF Owed
  <2>1. CASE topic \in chats_unannounced
    BY <1>1, <2>1 DEF Owed
  <2>2. ASSUME NEW u \in ChatRequests, Announced(chats_request[u], topic)
        PROVE  Owed(topic)'
    <3>1. CASE u = r
      <4>1. Announced(chats_request'[r], topic)
        BY <1>3, <1>4, <2>2, <3>1
      <4> QED BY <4>1 DEF Owed, Announced
    <3>2. CASE u # r
      BY <1>4, <2>2, <3>2 DEF Owed, Announced
    <3> QED BY <3>1, <3>2
  <2> QED BY <2>1, <2>2 DEF Owed, Announced
<1> HIDE DEF q
<1>6. TicketsOK'
  BY <1>1, <1>2 DEF TicketsOK, Chats!exists
<1>7. \A t \in ChatTickets : Chats!is_chat(t)' <=> Chats!is_chat(t)
  BY <1>1 DEF Chats!is_chat, Chats!exists
<1>8. \A topic \in Chats!Topics : Chats!compute(topic)' = Chats!compute(topic)
  BY <1>1 DEF Chats!compute, Chats!waiting_chats, Chats!is_chat, Chats!exists
<1>9. ASSUME NEW w \in ChatWatchers
      PROVE  \/ chats_watcher'[w] = chats_watcher[w]
                  /\ ~(chats_watcher[w] # Chats!Closed /\ chats_watcher[w].topic = first)
             \/ /\ chats_watcher[w] # Chats!Closed /\ chats_watcher'[w] # Chats!Closed
                /\ chats_watcher'[w] \in Streams
                /\ chats_watcher'[w].topic = chats_watcher[w].topic
                /\ chats_watcher'[w].inbox = TRUE
  <2>1. CASE chats_watcher[w] # Chats!Closed /\ chats_watcher[w].topic = first
    <3>1. chats_watcher'[w] = [chats_watcher[w] EXCEPT !.inbox = TRUE]
      /\ chats_watcher[w] \in Streams
      BY <1>1, <1>2, <2>1 DEF Chats!wake, StreamsOK
    <3> QED BY <2>1, <3>1, Told
  <2>2. CASE ~(chats_watcher[w] # Chats!Closed /\ chats_watcher[w].topic = first)
    BY <1>1, <2>2 DEF Chats!wake
  <2> QED BY <2>1, <2>2
<1>10. StreamsOK'
  <2>1. chats_watcher' = [w \in ChatWatchers |-> chats_watcher'[w]]
    BY <1>1 DEF Chats!wake
  <2>2. ASSUME NEW w \in ChatWatchers, chats_watcher'[w] # Chats!Closed
        PROVE  chats_watcher'[w] \in Streams
               /\ (chats_watcher'[w].topic # Chats!Queue
                    => Chats!is_chat(chats_watcher'[w].topic))
    BY <1>2, <1>9, <2>2 DEF StreamsOK
  <2>3. ASSUME NEW w \in ChatWatchers, chats_watcher'[w] # Chats!Closed,
               chats_watcher'[w].topic # Chats!Queue
        PROVE  Chats!is_chat(chats_watcher[w].topic)'
               /\ chats_watcher'[w].topic = chats_watcher[w].topic
    <3>1. PICK t \in ChatTickets : t = chats_watcher'[w].topic
      BY <2>2, <2>3 DEF Streams, Chats!Topics
    <3> QED BY <1>7, <1>9, <2>2, <2>3, <3>1 DEF Chats!is_chat, Chats!exists
  <2> QED BY <2>1, <2>2, <1>1 DEF StreamsOK, Streams, Chats!is_chat, Chats!exists
<1>11. CaughtUp'
  <2> SUFFICES ASSUME NEW w \in ChatWatchers, chats_watcher'[w] # Chats!Closed,
                      ~chats_watcher'[w].inbox,
                      ~Owed(chats_watcher[w].topic)', chats_watcher'[w] = chats_watcher[w],
                      chats_watcher[w].topic # first
               PROVE  chats_watcher[w].shown = Chats!compute(chats_watcher[w].topic)'
    BY <1>9, <1>1 DEF CaughtUp, Chats!compute, Chats!waiting_chats, Chats!is_chat,
       Chats!exists, Owed
  <2>1. PICK topic \in Chats!Topics : topic = chats_watcher[w].topic
    BY <1>2 DEF StreamsOK, Streams
  <2>2. ~Owed(topic)'
    BY <2>1 DEF Owed
  <2>3. ~Owed(topic)
    BY <1>5, <2>1, <2>2
  <2>4. chats_watcher[w].shown = Chats!compute(topic)
    BY <1>2, <2>1, <2>3 DEF CaughtUp
  <2> QED BY <1>1, <2>1, <2>4 DEF Chats!compute, Chats!waiting_chats, Chats!is_chat,
             Chats!exists
<1> QED BY <1>4, <1>6, <1>10, <1>11 DEF CInv

\* What a request that fails has not published is owed for good.
LEMMA Fails ==
    ASSUME CInv, OwnTopic, NEW r \in ChatRequests, Chats!fail(r)
    PROVE  CInv'
<1> DEFINE lost == IF chats_request[r].op = "notify"
                   THEN {topic \in Chats!Topics : \E i \in DOMAIN chats_request[r].topics :
                                                      chats_request[r].topics[i] = topic}
                   ELSE {}
<1>1. /\ chats_request' = [chats_request EXCEPT ![r] = Chats!Idle]
      /\ chats_unannounced' = chats_unannounced \cup lost
      /\ chats_ticket' = chats_ticket /\ chats_today' = chats_today
      /\ chats_watcher' = chats_watcher
  BY DEF Chats!fail
<1>2. RequestsOK' /\ \A u \in ChatRequests :
  chats_request'[u] = IF u = r THEN Chats!Idle ELSE chats_request[u]
  BY <1>1, ChatGoes DEF CInv, Chats!Idle
<1>3. ASSUME NEW topic \in Chats!Topics, Owed(topic) PROVE Owed(topic)'
  <2>1. CASE topic \in chats_unannounced
    BY <1>1, <2>1 DEF Owed
  <2>2. ASSUME NEW u \in ChatRequests, chats_request[u].op = "notify",
               \E i \in DOMAIN chats_request[u].topics : chats_request[u].topics[i] = topic
        PROVE  Owed(topic)'
    <3>1. CASE u = r
      BY <1>1, <2>2, <3>1 DEF Owed
    <3>2. CASE u # r
      BY <1>2, <2>2, <3>2 DEF Owed
    <3> QED BY <3>1, <3>2
  <2> QED BY <1>3, <2>1, <2>2 DEF Owed
<1>4. TicketsOK' /\ \A u \in ChatTickets : Chats!is_chat(u) => Chats!is_chat(u)'
  BY <1>1 DEF CInv, TicketsOK, Chats!is_chat, Chats!exists
<1>5. \A topic \in Chats!Topics : Chats!compute(topic)' = Chats!compute(topic)
  BY <1>1 DEF Chats!compute, Chats!waiting_chats, Chats!is_chat, Chats!exists
<1> QED BY <1>1, <1>2, <1>3, <1>4, <1>5, Changes

(* One stream changes and nothing else: what it shows is what it has just  *)
(* read, or it has still to read.                                          *)
LEMMA OneStream ==
    ASSUME CInv, NEW w \in ChatWatchers, NEW v,
           chats_watcher' = [chats_watcher EXCEPT ![w] = v],
           UNCHANGED <<chats_ticket, chats_today, chats_request, chats_unannounced>>,
           v # Chats!Closed => /\ v \in Streams
                               /\ v.topic # Chats!Queue => Chats!is_chat(v.topic)
                               /\ v.inbox = TRUE \/ v.shown = Chats!compute(v.topic)
    PROVE  CInv'
<1>1. TicketsOK /\ RequestsOK /\ StreamsOK /\ CaughtUp
  BY DEF CInv
<1>2. TicketsOK' /\ RequestsOK'
  BY <1>1 DEF TicketsOK, RequestsOK, Chats!exists, Announcing
<1>3. \A u \in ChatWatchers : chats_watcher'[u] = IF u = w THEN v ELSE chats_watcher[u]
  BY <1>1 DEF StreamsOK
<1>4. chats_watcher' = [u \in ChatWatchers |-> chats_watcher'[u]]
  BY <1>1 DEF StreamsOK
<1>5. StreamsOK'
  BY <1>1, <1>3, <1>4 DEF StreamsOK, Streams, Chats!is_chat, Chats!exists
<1>6. CaughtUp'
  <2> SUFFICES ASSUME NEW u \in ChatWatchers, chats_watcher'[u] # Chats!Closed,
                      ~chats_watcher'[u].inbox,
                      ~Owed(chats_watcher'[u].topic)
               PROVE  chats_watcher'[u].shown = Chats!compute(chats_watcher'[u].topic)
    BY DEF CaughtUp, Chats!compute, Chats!waiting_chats, Chats!is_chat, Chats!exists, Owed
  <2> QED BY <1>1, <1>3 DEF CaughtUp
<1> QED BY <1>2, <1>5, <1>6 DEF CInv

\* A stream listens, subscribes or goes: what it shows when it looks is the present state.
LEMMA Listens ==
    ASSUME CInv, OwnTopic, NEW w \in ChatWatchers,
           Chats!listen(w) \/ Chats!disconnect(w)
             \/ \E topic \in Chats!Topics : Chats!subscribe(w, topic)
    PROVE  CInv'
<1>1. CASE Chats!disconnect(w)
  BY <1>1, OneStream DEF Chats!disconnect
<1>2. ASSUME NEW topic \in Chats!Topics, Chats!subscribe(w, topic) PROVE CInv'
  <2> DEFINE v == [state |-> "open", topic |-> topic, inbox |-> TRUE,
    shown |-> Chats!Absent]
  <2>1. /\ chats_watcher' = [chats_watcher EXCEPT ![w] = v]
             /\ (topic # Chats!Queue => Chats!is_chat(topic))
        /\ UNCHANGED <<chats_ticket, chats_today, chats_request, chats_unannounced>>
    BY <1>2 DEF Chats!subscribe
  <2>2. v \in Streams /\ v.topic = topic /\ v.inbox = TRUE
    BY DEF Streams
  <2> HIDE DEF v
  <2> QED BY <2>1, <2>2, OneStream
<1>3. CASE Chats!listen(w)
  <2>1. PICK old, x, new, v :
            /\ old = chats_watcher[w] /\ x = Chats!compute(old.topic)
            /\ new = [old EXCEPT !.inbox = FALSE, !.shown = x]
            /\ v = IF old.topic # Chats!Queue
                 /\ ~Chats!exists(old.topic) THEN Chats!Closed ELSE new
    OBVIOUS
  <2>2. /\ chats_watcher' = [chats_watcher EXCEPT ![w] = v] /\ old # Chats!Closed
        /\ UNCHANGED <<chats_ticket, chats_today, chats_request, chats_unannounced>>
    BY <1>3, <2>1 DEF Chats!listen
  <2>3. old \in Streams /\ (old.topic # Chats!Queue => Chats!is_chat(old.topic))
    BY <2>1, <2>2 DEF CInv, StreamsOK
  <2>4. x \in (SUBSET ChatTickets) \cup ChatRows \cup {Chats!Absent}
    <3>1. Chats!waiting_chats \in SUBSET ChatTickets
      BY DEF Chats!waiting_chats
    <3>2. old.topic = Chats!Queue \/ old.topic \in ChatTickets
      BY <2>3 DEF Streams, Chats!Topics
    <3> QED BY <2>1, <3>1, <3>2 DEF Chats!compute, CInv, TicketsOK
  <2>5. new \in Streams /\ new.topic = old.topic /\ new.shown = x
    BY <2>1, <2>3, <2>4 DEF Streams
  <2>7. CASE v = Chats!Closed
    BY <2>2, <2>7, OneStream
  <2>8. CASE v # Chats!Closed
    <3>1. v \in Streams /\ (v.topic # Chats!Queue => Chats!is_chat(v.topic))
      /\ v.shown = Chats!compute(v.topic)
      BY <2>1, <2>3, <2>5, <2>8
    <3> QED BY <2>2, <3>1, OneStream
  <2> QED BY <2>7, <2>8
<1> QED BY <1>1, <1>2, <1>3

\* A day passes, or the purge fails: every ticket has a message.
LEMMA NothingIsPurged ==
    ASSUME TicketsOK, Chats!purge_closed_chats
    PROVE  chats_ticket' = chats_ticket
<1>1. ASSUME NEW t \in ChatTickets, Chats!due(t) PROVE chats_ticket[t].messages > 0
  <2>1. chats_ticket[t] \in ChatRows
    BY <1>1, RowIs DEF Chats!due, Chats!is_chat
  <2> QED BY <2>1 DEF ChatRows
<1> QED BY <1>1 DEF Chats!purge_closed_chats

\* Neither a day nor the purge changes what is there to see.
LEMMA DaysPass ==
    ASSUME CInv, OwnTopic, Chats!next_day \/ Chats!purge_closed_chats
    PROVE  CInv'
<1>1. chats_ticket' = chats_ticket
  BY NothingIsPurged DEF Chats!next_day, CInv
<1>2. chats_ticket' = chats_ticket /\ chats_today' \in Nat
  /\ UNCHANGED <<chats_request, chats_watcher, chats_unannounced>>
  BY <1>1 DEF Chats!next_day, Chats!purge_closed_chats, CInv, TicketsOK
<1>3. TicketsOK' /\ RequestsOK'
  BY <1>2 DEF CInv, TicketsOK, RequestsOK, Chats!exists, Announcing
<1>4. StreamsOK'
  BY <1>2 DEF CInv, StreamsOK, Chats!is_chat, Chats!exists
<1>5. CaughtUp'
  BY <1>2 DEF CInv, CaughtUp, Owed, Chats!compute, Chats!waiting_chats, Chats!is_chat,
     Chats!exists
<1> QED BY <1>3, <1>4, <1>5 DEF CInv

\* Every step keeps the invariant.
LEMMA CInvStep == CInv /\ OwnTopic /\ [Chats!Next]_(Chats!chatVars) => CInv'
<1> SUFFICES ASSUME CInv, OwnTopic, [Chats!Next]_(Chats!chatVars) PROVE CInv'
  OBVIOUS
<1>1. CASE UNCHANGED Chats!chatVars
  <2>1. UNCHANGED <<chats_ticket, chats_today, chats_request, chats_watcher,
    chats_unannounced>>
    BY <1>1 DEF Chats!chatVars
  <2>2. TicketsOK' /\ RequestsOK'
    BY <2>1 DEF CInv, TicketsOK, RequestsOK, Chats!exists, Announcing
  <2>3. StreamsOK' /\ CaughtUp'
    <3>1. StreamsOK'
      BY <2>1 DEF CInv, StreamsOK, Chats!is_chat, Chats!exists
    <3>2. CaughtUp'
      BY <2>1 DEF CInv, CaughtUp, Owed, Chats!compute, Chats!waiting_chats, Chats!is_chat,
         Chats!exists
    <3> QED BY <3>1, <3>2
  <2> QED BY <2>2, <2>3 DEF CInv
<1>2. ASSUME NEW r \in ChatRequests, NEW t \in ChatTickets,
             \/ Chats!start_chat(r, t) \/ Chats!send_message(r, t)
                  \/ Chats!begin_close(r, t)
             \/ \E a \in ChatAgents : Chats!claim(r, t, a)
      PROVE  CInv'
  BY <1>2, StartChat, SendMessage, BeginClose, Claims
<1>3. ASSUME NEW r \in ChatRequests, Chats!close(r) \/ Chats!publish(r) \/ Chats!fail(r)
      PROVE CInv'
  BY <1>3, Closes, Publishes, Fails
<1>4. ASSUME NEW t \in ChatTickets,
             Chats!create_ticket(t) \/ \E s \in Chats!EmailStatuses : Chats!reply(t, s)
               \/ Chats!update_status(t, s)
      PROVE  CInv'
  BY <1>4, EmailSteps
<1>5. ASSUME NEW w \in ChatWatchers,
             Chats!listen(w) \/ Chats!disconnect(w)
               \/ \E topic \in Chats!Topics : Chats!subscribe(w, topic)
      PROVE  CInv'
  BY <1>5, Listens
<1>6. CASE Chats!next_day \/ Chats!purge_closed_chats
  BY <1>6, DaysPass
<1> QED BY <1>1, <1>2, <1>3, <1>4, <1>5, <1>6 DEF Chats!Next

\* The invariant holds throughout.
LEMMA ChatsHold == Chats!Spec => []CInv
<1>1. CInv /\ [Chats!Next]_(Chats!chatVars) => CInv'
  BY CInvStep, OfficeAssumption DEF OwnTopic
<1> QED BY <1>1, InitCInv, PTL DEF Chats!Spec

\* Whoever watches a chat or the queue is shown its last announced change, however subscribing,
\* reading and publishing interleave (support_chat.py).
THEOREM StreamsCatchUp == Chats!Spec => []WatchersCatchUp
<1>1. CInv => WatchersCatchUp
  BY DEF CInv, CaughtUp, Owed, WatchersCatchUp, Chats!WatchersCatchUp
<1> QED BY <1>1, ChatsHold, PTL

\* The agent of a chat is never replaced, also when a close that read the queue is written after
\* the claim ("two agents opening the same queue entry at once can't both win it",
\* support_ticket_repository.py, claim_chat).
THEOREM AgentStays == Chats!Spec => Chats!ClaimedOnce
<1> DEFINE Stays == \A t \in ChatTickets :
               Chats!exists(t) /\ chats_ticket[t].agent # Chats!NoAgent =>
                         Chats!exists(t)' /\ chats_ticket'[t].agent = chats_ticket[t].agent
<1>1. ASSUME CInv, [Chats!Next]_(Chats!chatVars) PROVE Stays
  <2>1. TicketsOK
    BY <1>1 DEF CInv
  <2>2. CASE chats_ticket' = chats_ticket
    BY <2>2 DEF Chats!exists
  <2>3. ASSUME NEW u \in ChatTickets, NEW row,
               chats_ticket' = [chats_ticket EXCEPT ![u] = row],
               Chats!exists(u) /\ chats_ticket[u].agent # Chats!NoAgent =>
                         row.state = "there" /\ row.agent = chats_ticket[u].agent
        PROVE  Stays
    BY <2>1, <2>3 DEF TicketsOK, Chats!exists
  <2> HIDE DEF Stays
  <2>4. ASSUME NEW r \in ChatRequests, NEW u \in ChatTickets, Chats!start_chat(r, u)
        PROVE Stays
    BY <2>3, <2>4 DEF Chats!start_chat, Chats!insert
  <2>5. ASSUME NEW u \in ChatTickets, Chats!create_ticket(u) PROVE Stays
    BY <2>3, <2>5 DEF Chats!create_ticket, Chats!insert
  <2>6. ASSUME NEW r \in ChatRequests, NEW u \in ChatTickets, Chats!send_message(r, u)
        PROVE Stays
    <3> DEFINE row == [chats_ticket[u] EXCEPT !.messages = @ + 1]
    <3>1. chats_ticket' = [chats_ticket EXCEPT ![u] = row] /\ Chats!exists(u)
      BY <2>1, <2>6 DEF Chats!send_message, Chats!add_message, Chats!is_chat, TicketsOK
    <3>2. row.state = "there" /\ row.agent = chats_ticket[u].agent
      BY <2>1, <3>1, RowIs DEF ChatRows
    <3> HIDE DEF row
    <3> QED BY <2>3, <3>1, <3>2
  <2>7. ASSUME NEW u \in ChatTickets,
               NEW s \in Chats!EmailStatuses \cup {"Active", "Closed"}, Chats!exists(u)
        PROVE  Chats!set_status(u, s).state = "there"
               /\ Chats!set_status(u, s).agent = chats_ticket[u].agent
    <3>1. Chats!set_status(u, s) \in ChatRows
      /\ Chats!set_status(u, s).agent = chats_ticket[u].agent
      BY <2>1, <2>7, NewStatus
    <3> QED BY <3>1 DEF ChatRows
  <2>8. ASSUME NEW r \in ChatRequests, NEW u \in ChatTickets, NEW a \in ChatAgents,
               Chats!claim(r, u, a)
        PROVE  Stays
    <3>1. Chats!exists(u) /\ chats_ticket[u].agent = Chats!NoAgent
      BY <2>1, <2>8 DEF Chats!claim, Chats!claimable, TicketsOK
    <3> QED BY <2>3, <2>8, <3>1 DEF Chats!claim
  <2>9. ASSUME NEW r \in ChatRequests, Chats!close(r) PROVE Stays
    <3>1. chats_request[r].ticket \in ChatTickets /\ Chats!exists(chats_request[r].ticket)
      BY <1>1, <2>9 DEF Chats!close, CInv, RequestsOK
    <3> QED BY <2>2, <2>3, <2>7, <2>9, <3>1 DEF Chats!close
  <2>10. ASSUME NEW u \in ChatTickets, NEW s \in Chats!EmailStatuses,
                Chats!update_status(u, s) PROVE Stays
    BY <2>3, <2>7, <2>10 DEF Chats!update_status
  <2>11. ASSUME NEW u \in ChatTickets, NEW s \in Chats!EmailStatuses, Chats!reply(u, s)
         PROVE Stays
    <3> DEFINE base == IF chats_ticket[u].status = s THEN chats_ticket[u] ELSE
      Chats!set_status(u, s)
               row == [base EXCEPT !.messages = @ + 1]
    <3>1. chats_ticket' = [chats_ticket EXCEPT ![u] = row] /\ Chats!exists(u)
      BY <2>11 DEF Chats!reply, Chats!replied
    <3>2. base \in ChatRows /\ base.agent = chats_ticket[u].agent
      BY <2>1, <3>1, RowIs, NewStatus
    <3> HIDE DEF base
    <3>3. row.state = "there" /\ row.agent = chats_ticket[u].agent
      BY <3>2 DEF ChatRows
    <3> HIDE DEF row
    <3> QED BY <2>3, <3>1, <3>3
  <2>12. ASSUME Chats!purge_closed_chats PROVE chats_ticket' = chats_ticket
    BY <2>1, <2>12, NothingIsPurged
  <2>13. CASE UNCHANGED Chats!chatVars
    BY <2>2, <2>13 DEF Chats!chatVars
  <2>14. ASSUME NEW r \in ChatRequests, Chats!publish(r) \/ Chats!fail(r) PROVE Stays
    BY <2>2, <2>14 DEF Chats!publish, Chats!fail
  <2>15. ASSUME NEW r \in ChatRequests, NEW u \in ChatTickets, Chats!begin_close(r, u)
         PROVE Stays
    BY <2>2, <2>15 DEF Chats!begin_close
  <2>16. ASSUME NEW w \in ChatWatchers,
                Chats!listen(w) \/ Chats!disconnect(w)
                  \/ \E topic \in Chats!Topics : Chats!subscribe(w, topic)
         PROVE  Stays
    BY <2>2, <2>16 DEF Chats!listen, Chats!disconnect, Chats!subscribe
  <2>17. CASE Chats!next_day \/ Chats!purge_closed_chats
    BY <2>2, <2>12, <2>17 DEF Chats!next_day
  <2> QED BY <1>1, <2>4, <2>5, <2>6, <2>8, <2>9, <2>10, <2>11, <2>13, <2>14, <2>15, <2>16,
             <2>17 DEF Chats!Next
<1>2. Chats!Spec => []CInv
  BY ChatsHold
<1> QED BY <1>1, <1>2, PTL DEF Chats!Spec, Chats!ClaimedOnce

-----------------------------------------------------------------------------
(* Event administration: types account for their tickets, and who accepted has a seat. *)

\* Quantities are counted.
Counts == EventQuantities \subseteq Nat /\ EventFreeStock \in Nat

TypeRows == [state : {"there"}, name : {"tier", "free"}, available : Nat, sold : Nat,
  tickets : Nat]
GuestRows == [state : {"there"}, email : EventGuests,
              status : {"pending", "accepted", "declined", "expired"}]

EventTables ==
    /\ event_type \in [EventTypes -> TypeRows \cup {Event!Absent}]
    /\ event_invitation \in [EventInvitations -> GuestRows \cup {Event!Absent}]
    /\ event_seat \in [EventInvitations -> Nat]

\* A free registration type was made with its first ticket, and keeps it.
FreeTypesAreTaken == \A t \in Event!free_types : event_type[t].tickets > 0

\* What a handler has read or been asked.
RequestOK(q) ==
    /\ q.op \in {"create_type", "update_type", "sell"}
         => q.type \in EventTypes /\ q.quantity \in EventQuantities
    /\ q.op = "delete_type" => q.type \in EventTypes
    /\ q.op \in {"invite", "lapse", "rsvp", "answered"} => q.invitation \in EventInvitations
    /\ q.op = "invite" => q.email \in EventGuests
    /\ q.op \in {"rsvp", "answered"} => q.response \in {"accepted", "declined"}
    /\ q.op \in {"register", "answered"} => q.found \subseteq Event!free_types
Handlers ==
    /\ event_request = [r \in EventRequests |-> event_request[r]]
    /\ \A r \in EventRequests : RequestOK(event_request[r])

Books == EventTables /\ FreeTypesAreTaken /\ Event!TypesAccountForTickets
  /\ Event!AcceptedHasASeat
EInv == Books /\ Handlers

\* A handler at rest has read nothing.
LEMMA IdleOK == RequestOK(Event!Idle)
  BY DEF RequestOK, Event!Idle

\* Nothing is for sale and nobody is invited.
LEMMA InitEInv == Event!Init => EInv
  BY IdleOK DEF Event!Init, EInv, Books, EventTables, FreeTypesAreTaken,
     Event!TypesAccountForTickets, Event!AcceptedHasASeat, Handlers, Event!there,
     Event!free_types

(* What a handler goes on with after a step that ends or begins no other.  *)
LEMMA EventGoes ==
    ASSUME Handlers, NEW r \in EventRequests, NEW q,
           event_request' = [event_request EXCEPT ![r] = q],
           RequestOK(q)', Event!free_types \subseteq Event!free_types'
    PROVE  Handlers'
<1>1. \A u \in EventRequests : event_request'[u] = IF u = r THEN q ELSE event_request[u]
  BY DEF Handlers
<1>2. event_request' = [u \in EventRequests |-> event_request'[u]]
  BY DEF Handlers
<1>3. ASSUME NEW u \in EventRequests PROVE RequestOK(event_request[u])'
  BY <1>1 DEF Handlers, RequestOK
<1> QED BY <1>2, <1>3 DEF Handlers

(* A handler that reads and checks, and writes later.                      *)
LEMMA Begins ==
    ASSUME EInv, NEW r \in EventRequests, NEW q, Event!begin(r, q), RequestOK(q)
    PROVE  EInv'
<1>1. UNCHANGED <<event_type, event_invitation, event_seat>>
  /\ event_request' = [event_request EXCEPT ![r] = q]
  BY DEF Event!begin
<1>2. Event!free_types' = Event!free_types
  BY <1>1 DEF Event!free_types, Event!there
<1>3. RequestOK(q)'
  BY <1>2 DEF RequestOK
<1>4. Handlers'
  BY <1>1, <1>2, <1>3, EventGoes DEF EInv
<1>5. Books'
  BY <1>1, <1>2 DEF EInv, Books, EventTables, FreeTypesAreTaken,
     Event!TypesAccountForTickets, Event!AcceptedHasASeat, Event!there
<1> QED BY <1>4, <1>5 DEF EInv

(* A handler that commits.                                                 *)
LEMMA Commits ==
    ASSUME EInv, NEW r \in EventRequests, Event!finish(r), Books',
           Event!free_types \subseteq Event!free_types'
    PROVE  EInv'
<1>1. RequestOK(Event!Idle)'
  BY DEF RequestOK, Event!Idle
<1> QED BY <1>1, EventGoes DEF EInv, Event!finish

\* Publishing, unpublishing, cancelling and deleting an event read its status.
LEMMA BeginSteps ==
    ASSUME EInv, NEW r \in EventRequests,
           \/ Event!begin_publish(r) \/ Event!begin_unpublish(r) \/ Event!begin_cancel(r)
                \/ Event!begin_delete_event(r)
    PROVE  EInv'
<1>1. ASSUME NEW s, Event!begin(r, [op |-> "status", status |-> s]) PROVE EInv'
  <2>1. RequestOK([op |-> "status", status |-> s])
    BY DEF RequestOK
  <2> QED BY <1>1, <2>1, Begins
<1>2. CASE Event!begin_delete_event(r)
  <2>1. RequestOK([op |-> "delete"])
    BY DEF RequestOK
  <2> QED BY <1>2, <2>1, Begins DEF Event!begin_delete_event
<1> QED BY <1>1, <1>2 DEF Event!begin_publish, Event!begin_unpublish, Event!begin_cancel

\* Edits of the ballot read a category.
LEMMA BeginEdit ==
    ASSUME EInv, NEW r \in EventRequests, NEW c \in EventCategories,
           NEW e \in {"add_category", "delete_category", "add_candidate",
             "remove_candidate"},
           Event!begin_edit(r, c, e)
    PROVE  EInv'
<1> DEFINE q == [op |-> e, category |-> c]
<1>1. RequestOK(q)
  BY DEF RequestOK
<1> QED BY <1>1, Begins DEF Event!begin_edit

\* An edit or a sale of a ticket type, with what it has read of the row.
LEMMA BeginType ==
    ASSUME EInv, NEW r \in EventRequests, NEW t \in EventTypes, NEW n \in EventQuantities,
           Event!begin_create_type(r, t, n) \/ Event!begin_update_type(r, t, n)
             \/ Event!begin_sell(r, t, n)
    PROVE  EInv'
<1>1. CASE Event!begin_create_type(r, t, n)
  <2> DEFINE q == [op |-> "create_type", type |-> t, quantity |-> n]
  <2>1. RequestOK(q)
    BY DEF RequestOK
  <2> QED BY <1>1, <2>1, Begins DEF Event!begin_create_type
<1>2. CASE Event!begin_update_type(r, t, n)
  <2> DEFINE q == [op |-> "update_type", type |-> t, quantity |-> n, read |-> event_type[t]]
  <2>1. RequestOK(q)
    BY DEF RequestOK
  <2> QED BY <1>2, <2>1, Begins DEF Event!begin_update_type
<1>3. CASE Event!begin_sell(r, t, n)
  <2> DEFINE q == [op |-> "sell", type |-> t, quantity |-> n,
    read |-> event_type[t].available]
  <2>1. RequestOK(q)
    BY DEF RequestOK
  <2> QED BY <1>3, <2>1, Begins DEF Event!begin_sell
<1> QED BY <1>1, <1>2, <1>3

\* Deleting a ticket type.
LEMMA BeginDelete ==
    ASSUME EInv, NEW r \in EventRequests, NEW t \in EventTypes,
           Event!begin_delete_type(r, t)
    PROVE  EInv'
<1> DEFINE q == [op |-> "delete_type", type |-> t]
<1>1. RequestOK(q)
  BY DEF RequestOK
<1> QED BY <1>1, Begins DEF Event!begin_delete_type

\* What an open registration looks for are free types.
LEMMA FindingsAreFree == \A found \in Event!findings : found \subseteq Event!free_types
  BY DEF Event!findings

\* A registration at the front desk.
LEMMA BeginRegister ==
    ASSUME EInv, NEW r \in EventRequests, NEW found \in Event!findings,
           Event!begin_register(r, found)
    PROVE  EInv'
<1> DEFINE q == Event!registration("register", found)
<1>1. q.op = "register" /\ q.found = found
  BY DEF Event!registration
<1>2. RequestOK(q)
  BY <1>1, FindingsAreFree DEF RequestOK
<1> QED BY <1>2, Begins DEF Event!begin_register

\* Inviting, opening the page of an invitation and answering it.
LEMMA BeginInvitation ==
    ASSUME EInv, NEW r \in EventRequests, NEW i \in EventInvitations,
           \/ \E g \in EventGuests : Event!begin_invite(r, i, g)
           \/ Event!begin_get_by_token(r, i)
           \/ \E a \in {"accepted", "declined"} : Event!begin_rsvp(r, i, a)
    PROVE  EInv'
<1>1. ASSUME NEW g \in EventGuests, Event!begin_invite(r, i, g) PROVE EInv'
  <2> DEFINE q == [op |-> "invite", invitation |-> i, email |-> g]
  <2>1. RequestOK(q)
    BY DEF RequestOK
  <2> QED BY <1>1, <2>1, Begins DEF Event!begin_invite
<1>2. CASE Event!begin_get_by_token(r, i)
  <2> DEFINE q == [op |-> "lapse", invitation |-> i]
  <2>1. RequestOK(q)
    BY DEF RequestOK
  <2> QED BY <1>2, <2>1, Begins DEF Event!begin_get_by_token
<1>3. ASSUME NEW a \in {"accepted", "declined"}, Event!begin_rsvp(r, i, a) PROVE EInv'
  <2> DEFINE q == [op |-> "rsvp", invitation |-> i, response |-> a]
  <2>1. RequestOK(q)
    BY DEF RequestOK
  <2> QED BY <1>3, <2>1, Begins DEF Event!begin_rsvp
<1> QED BY <1>1, <1>2, <1>3

(* Steps that write none of the tables a type or an answer is accounted in. *)
LEMMA SameBooks ==
    ASSUME EInv, UNCHANGED <<event_type, event_invitation, event_seat>>
    PROVE  Books' /\ Event!free_types' = Event!free_types
<1>1. Event!free_types' = Event!free_types
  BY DEF Event!free_types, Event!there
<1> QED BY <1>1 DEF EInv, Books, EventTables, FreeTypesAreTaken,
           Event!TypesAccountForTickets, Event!AcceptedHasASeat, Event!there

(* One row of a type is written: it stays in balance, and a free type stays *)
(* free.                                                                   *)
LEMMA TypeWritten ==
    ASSUME EInv, NEW t \in EventTypes, NEW row \in TypeRows,
           event_type' = [event_type EXCEPT ![t] = row],
           row.name = "tier" => row.sold = row.tickets,
           row.name = "free" => row.sold <= row.tickets /\ row.tickets > 0,
           t \in Event!free_types => row.name = "free"
    PROVE  /\ Event!free_types \subseteq Event!free_types'
           /\ event_type' \in [EventTypes -> TypeRows \cup {Event!Absent}]
           /\ FreeTypesAreTaken'
           /\ \A u \in EventTypes : Event!there(u)' =>
                IF event_type'[u].name = "tier" THEN event_type'[u].sold =
                  event_type'[u].tickets
                ELSE event_type'[u].sold <= event_type'[u].tickets
<1>1. \A u \in EventTypes : event_type'[u] = IF u = t THEN row ELSE event_type[u]
  BY DEF EInv, Books, EventTables
<1>2. row # Event!Absent /\ row.name \in {"tier", "free"}
  BY DEF TypeRows, Event!Absent
<1>3. Event!free_types \subseteq Event!free_types'
  BY <1>1, <1>2 DEF Event!free_types, Event!there
<1>4. event_type' \in [EventTypes -> TypeRows \cup {Event!Absent}]
  BY DEF EInv, Books, EventTables
<1>5. FreeTypesAreTaken'
  BY <1>1, <1>2 DEF EInv, Books, FreeTypesAreTaken, Event!free_types, Event!there
<1>6. ASSUME NEW u \in EventTypes, Event!there(u)'
      PROVE  IF event_type'[u].name = "tier" THEN event_type'[u].sold =
             event_type'[u].tickets
             ELSE event_type'[u].sold <= event_type'[u].tickets
  BY <1>1, <1>2, <1>6 DEF EInv, Books, Event!TypesAccountForTickets, Event!there
<1> QED BY <1>3, <1>4, <1>5, <1>6

\* ... in a step that makes no seat and answers no invitation.
LEMMA TypeWrittenAlone ==
    ASSUME EInv, NEW t \in EventTypes, NEW row \in TypeRows,
           event_type' = [event_type EXCEPT ![t] = row],
             UNCHANGED <<event_invitation, event_seat>>,
           row.name = "tier" => row.sold = row.tickets,
           row.name = "free" => row.sold <= row.tickets /\ row.tickets > 0,
           t \in Event!free_types => row.name = "free"
    PROVE  Books' /\ Event!free_types \subseteq Event!free_types'
<1>1. /\ Event!free_types \subseteq Event!free_types'
      /\ event_type' \in [EventTypes -> TypeRows \cup {Event!Absent}]
      /\ FreeTypesAreTaken'
      /\ \A u \in EventTypes : Event!there(u)' =>
            IF event_type'[u].name = "tier" THEN event_type'[u].sold =
              event_type'[u].tickets
            ELSE event_type'[u].sold <= event_type'[u].tickets
  BY TypeWritten
<1>2. EventTables' /\ Event!AcceptedHasASeat'
  BY <1>1 DEF EInv, Books, EventTables, Event!AcceptedHasASeat
<1>3. Event!TypesAccountForTickets'
  BY <1>1 DEF EInv, Books, Event!TypesAccountForTickets
<1> QED BY <1>1, <1>2, <1>3 DEF Books

\* Status changes and edits of the ballot write no type and no invitation.
LEMMA EventStays ==
    ASSUME Counts, EInv, NEW r \in EventRequests,
           Event!update_status(r) \/ Event!edit_ballot(r) \/ Event!roll_back(r)
    PROVE  EInv'
<1>1. UNCHANGED <<event_type, event_invitation, event_seat>> /\ Event!finish(r)
  BY DEF Event!update_status, Event!edit_ballot, Event!roll_back
<1> QED BY <1>1, SameBooks, Commits

\* No ticket refers to the event, so that no seat was made for it.
LEMMA DeleteEvent ==
    ASSUME Counts, EInv, NEW r \in EventRequests, Event!delete_event(r)
    PROVE  EInv'
<1>1. /\ Event!finish(r) /\ \A t \in EventTypes : Event!there(t)
           => event_type[t].tickets = 0
      /\ event_type' = [t \in EventTypes |-> Event!Absent]
      /\ event_invitation' = [i \in EventInvitations |-> Event!Absent]
      /\ event_seat' = event_seat
  BY DEF Event!delete_event
<1>2. Event!free_types = {}
  <2> SUFFICES ASSUME NEW t \in Event!free_types PROVE FALSE
    OBVIOUS
  <2>1. t \in EventTypes /\ Event!there(t) /\ event_type[t].tickets > 0
    BY DEF Event!free_types, EInv, Books, FreeTypesAreTaken
  <2> QED BY <1>1, <2>1
<1>3. Books'
  BY <1>1, <1>2 DEF EInv, Books, EventTables, FreeTypesAreTaken,
     Event!TypesAccountForTickets, Event!AcceptedHasASeat, Event!free_types, Event!there
<1> QED BY <1>1, <1>2, <1>3, Commits

\* A new type has sold nothing.
LEMMA CreateType ==
    ASSUME Counts, EInv, NEW r \in EventRequests, Event!create_ticket_type(r)
    PROVE  EInv'
<1> DEFINE t == event_request[r].type
           row == Event!tier("tier", event_request[r].quantity)
<1>1. /\ Event!finish(r) /\ ~Event!there(t) /\ event_type' = [event_type EXCEPT ![t] = row]
      /\ UNCHANGED <<event_invitation, event_seat>>
  BY DEF Event!create_ticket_type
<1>2. t \in EventTypes /\ event_request[r].quantity \in Nat
  BY DEF Event!create_ticket_type, EInv, Handlers, RequestOK, Counts
<1>3. row \in TypeRows /\ row.name = "tier" /\ row.sold = row.tickets
  BY <1>2 DEF Event!tier, TypeRows
<1>4. t \notin Event!free_types
  BY <1>1 DEF Event!free_types
<1> HIDE DEF t, row
<1>5. Books' /\ Event!free_types \subseteq Event!free_types'
  BY <1>1, <1>2, <1>3, <1>4, TypeWrittenAlone
<1> QED BY <1>1, <1>5, Commits

\* The row of a type that is there.
LEMMA RowOf ==
    ASSUME EInv, NEW t \in EventTypes, Event!there(t)
    PROVE  /\ event_type[t] \in TypeRows
           /\ event_type[t].name = "tier" => event_type[t].sold = event_type[t].tickets
           /\ event_type[t].name = "free"
                => event_type[t].sold <= event_type[t].tickets /\ event_type[t].tickets > 0
           /\ t \in Event!free_types <=> event_type[t].name = "free"
<1>1. event_type[t] \in TypeRows
  BY DEF EInv, Books, EventTables, Event!there
<1> QED BY <1>1 DEF EInv, Books, FreeTypesAreTaken, Event!TypesAccountForTickets,
           Event!free_types, TypeRows

\* An edit writes the quantities and keeps what was sold.
LEMMA UpdateType ==
    ASSUME Counts, EInv, NEW r \in EventRequests, Event!update_ticket_type(r)
    PROVE  EInv'
<1> DEFINE t == event_request[r].type
           n == event_request[r].quantity
           row == [event_type[t] EXCEPT !.available = n]
<1>1. /\ Event!finish(r) /\ Event!there(t) /\ event_type' = [event_type EXCEPT ![t] = row]
      /\ UNCHANGED <<event_invitation, event_seat>>
  BY DEF Event!update_ticket_type, Event!saved
<1>2. t \in EventTypes /\ n \in Nat
  BY DEF Event!update_ticket_type, EInv, Handlers, RequestOK, Counts
<1> HIDE DEF t, n
<1>3. /\ row \in TypeRows /\ row.name = event_type[t].name
      /\ row.sold = event_type[t].sold /\ row.tickets = event_type[t].tickets
  BY <1>1, <1>2, RowOf DEF TypeRows
<1> HIDE DEF row
<1>4. Books' /\ Event!free_types \subseteq Event!free_types'
  BY <1>1, <1>2, <1>3, RowOf, TypeWrittenAlone
<1> QED BY <1>1, <1>4, Commits

\* Only a type without tickets is deleted, so no free registration type.
LEMMA DeleteType ==
    ASSUME Counts, EInv, NEW r \in EventRequests, Event!delete_ticket_type(r)
    PROVE  EInv'
<1> DEFINE t == event_request[r].type
<1>1. /\ Event!finish(r) /\ Event!there(t) /\ event_type[t].tickets = 0
      /\ event_type' = [event_type EXCEPT ![t] = Event!Absent]
      /\ UNCHANGED <<event_invitation, event_seat>>
  BY DEF Event!delete_ticket_type, Event!deletable
<1>2. t \in EventTypes
  BY DEF Event!delete_ticket_type, EInv, Handlers, RequestOK
<1> HIDE DEF t
<1>3. t \notin Event!free_types
  BY <1>1, <1>2 DEF EInv, Books, FreeTypesAreTaken
<1>4. \A u \in EventTypes : event_type'[u] = IF u = t THEN Event!Absent ELSE event_type[u]
  BY <1>1 DEF EInv, Books, EventTables
<1>5. Event!free_types' = Event!free_types
  BY <1>3, <1>4 DEF Event!free_types, Event!there
<1>6. EventTables' /\ Event!AcceptedHasASeat'
  BY <1>1, <1>2 DEF EInv, Books, EventTables, Event!AcceptedHasASeat
<1>7. FreeTypesAreTaken'
  <2>1. Event!free_types \subseteq EventTypes
    BY DEF Event!free_types
  <2> QED BY <1>3, <1>4, <1>5, <2>1 DEF EInv, Books, FreeTypesAreTaken
<1>8. Event!TypesAccountForTickets'
  BY <1>1, <1>4, <1>5 DEF EInv, Books, Event!TypesAccountForTickets, Event!there
<1> QED BY <1>1, <1>5, <1>6, <1>7, <1>8, Commits DEF Books

\* A sale takes from stock and counts as sold what it makes tickets for.
LEMMA LessSold ==
    ASSUME NEW q \in TypeRows, NEW n \in Nat, q.available >= n
    PROVE  /\ Event!less_sold(q, n) \in TypeRows /\ Event!less_sold(q, n).name = q.name
           /\ Event!less_sold(q, n).sold = q.sold + n
           /\ Event!less_sold(q, n).tickets = q.tickets + n
<1>1. q.available - n \in Nat /\ q.sold + n \in Nat /\ q.tickets + n \in Nat
  BY DEF TypeRows
<1>2. Event!less_sold(q, n) = [q EXCEPT !.available = q.available - n, !.sold = q.sold + n,
                                        !.tickets = q.tickets + n]
  BY DEF Event!less_sold
<1> QED BY <1>1, <1>2 DEF TypeRows

\* A registration adds a ticket and counts none as sold.
LEMMA OneMore ==
    ASSUME NEW q \in TypeRows
    PROVE  /\ Event!one_more(q) \in TypeRows /\ Event!one_more(q).name = q.name
           /\ Event!one_more(q).sold = q.sold /\ Event!one_more(q).tickets = q.tickets + 1
  BY DEF TypeRows, Event!one_more

\* A sale at the front desk.
LEMMA Sell ==
    ASSUME Counts, EInv, NEW r \in EventRequests, Event!front_desk_sell(r)
    PROVE  EInv'
<1> DEFINE t == event_request[r].type
           n == event_request[r].quantity
           row == Event!less_sold(event_type[t], n)
<1>1. /\ Event!finish(r) /\ Event!there(t) /\ event_type[t].available >= n
      /\ event_type' = [event_type EXCEPT ![t] = row]
      /\ UNCHANGED <<event_invitation, event_seat>>
  BY DEF Event!front_desk_sell
<1>2. t \in EventTypes /\ n \in Nat
  BY DEF Event!front_desk_sell, EInv, Handlers, RequestOK, Counts
<1> HIDE DEF t, n
<1>3. /\ row \in TypeRows /\ row.name = event_type[t].name
      /\ row.sold = event_type[t].sold + n /\ row.tickets = event_type[t].tickets + n
  BY <1>1, <1>2, RowOf, LessSold
<1> HIDE DEF row
<1>4. /\ row.name = "tier" => row.sold = row.tickets
      /\ row.name = "free" => row.sold <= row.tickets /\ row.tickets > 0
  BY <1>1, <1>2, <1>3, RowOf DEF TypeRows
<1>5. Books' /\ Event!free_types \subseteq Event!free_types'
  BY <1>1, <1>2, <1>3, <1>4, RowOf, TypeWrittenAlone
<1> QED BY <1>1, <1>5, Commits

\* A registration adds a ticket to a free type, which may be new.
LEMMA RegisteredOne ==
    ASSUME Counts, EInv, NEW found, found \subseteq Event!free_types, NEW t \in EventTypes,
           Event!registers(found, t)
    PROVE  \E row \in TypeRows :
               /\ event_type' = [event_type EXCEPT ![t] = row]
               /\ row.name = "free" /\ row.sold <= row.tickets /\ row.tickets > 0
<1>1. CASE found = {}
  <2> DEFINE row == Event!one_more(Event!tier("free", EventFreeStock))
  <2>1. event_type' = [event_type EXCEPT ![t] = row]
    BY <1>1 DEF Event!registers
  <2>2. /\ Event!tier("free", EventFreeStock) \in TypeRows
        /\ Event!tier("free", EventFreeStock).name = "free"
        /\ Event!tier("free", EventFreeStock).sold = 0
        /\ Event!tier("free", EventFreeStock).tickets = 0
    BY DEF Event!tier, TypeRows, Counts
  <2>3. row \in TypeRows /\ row.name = "free" /\ row.sold = 0 /\ row.tickets = 1
    BY <2>2, OneMore
  <2> HIDE DEF row
  <2>4. row.sold <= row.tickets /\ row.tickets > 0
    BY <2>3
  <2> QED BY <2>1, <2>3, <2>4
<1>2. CASE found # {}
  <2> DEFINE row == Event!one_more(event_type[t])
  <2>1. event_type' = [event_type EXCEPT ![t] = row] /\ Event!there(t)
    /\ t \in Event!free_types
    BY <1>2 DEF Event!registers
  <2>2. /\ row \in TypeRows /\ row.name = "free"
        /\ row.sold = event_type[t].sold /\ row.tickets = event_type[t].tickets + 1
    BY <2>1, RowOf, OneMore
  <2> HIDE DEF row
  <2>3. row.sold <= row.tickets /\ row.tickets > 0
    BY <2>1, <2>2, RowOf DEF TypeRows
  <2> QED BY <2>1, <2>2, <2>3
<1> QED BY <1>1, <1>2

\* The registration is written.
LEMMA Register ==
    ASSUME Counts, EInv, NEW r \in EventRequests, NEW t \in EventTypes,
           Event!front_desk_register(r, t)
    PROVE  EInv'
<1>1. /\ event_request[r].found \subseteq Event!free_types
      /\ Event!registers(event_request[r].found, t) /\ Event!finish(r)
      /\ UNCHANGED <<event_invitation, event_seat>>
  BY DEF Event!front_desk_register, EInv, Handlers, RequestOK
<1>2. PICK row \in TypeRows :
        /\ event_type' = [event_type EXCEPT ![t] = row]
        /\ row.name = "free" /\ row.sold <= row.tickets /\ row.tickets > 0
  BY <1>1, RegisteredOne
<1>3. Books' /\ Event!free_types \subseteq Event!free_types'
  BY <1>1, <1>2, TypeWrittenAlone
<1> QED BY <1>1, <1>3, Commits

\* An invitation is written that is not accepted.
LEMMA InvitationWritten ==
    ASSUME EInv, NEW i \in EventInvitations, NEW row \in GuestRows,
           event_invitation' = [event_invitation EXCEPT ![i] = row],
             UNCHANGED <<event_type, event_seat>>,
           row.status # "accepted"
    PROVE  Books' /\ Event!free_types' = Event!free_types
<1>1. Event!free_types' = Event!free_types
  BY DEF Event!free_types, Event!there
<1>2. EventTables' /\ Event!AcceptedHasASeat'
  BY DEF EInv, Books, EventTables, Event!AcceptedHasASeat
<1>3. FreeTypesAreTaken' /\ Event!TypesAccountForTickets'
  BY <1>1 DEF EInv, Books, FreeTypesAreTaken, Event!TypesAccountForTickets, Event!there
<1> QED BY <1>1, <1>2, <1>3 DEF Books

\* A new status of an invitation.
LEMMA InvitationRow ==
    ASSUME EInv, NEW i \in EventInvitations, event_invitation[i] # Event!Absent,
           NEW s \in {"pending", "accepted", "declined", "expired"}
    PROVE  /\ [event_invitation[i] EXCEPT !.status = s] \in GuestRows
           /\ [event_invitation[i] EXCEPT !.status = s].status = s
<1>1. event_invitation[i] \in GuestRows
  BY DEF EInv, Books, EventTables
<1> QED BY <1>1 DEF GuestRows

\* An invitation is sent, or found to have lapsed; neither accepts it.
LEMMA Invites ==
    ASSUME EInv, NEW r \in EventRequests, Event!invite(r) \/ Event!get_by_token(r)
    PROVE  EInv'
<1> DEFINE i == event_request[r].invitation
<1>1. Event!finish(r) /\ UNCHANGED <<event_type, event_seat>> /\ i \in EventInvitations
  BY DEF Event!invite, Event!get_by_token, EInv, Handlers, RequestOK
<1>2. \E row \in GuestRows :
        event_invitation' = [event_invitation EXCEPT ![i] = row] /\ row.status # "accepted"
  <2>1. CASE Event!invite(r)
    <3> DEFINE row == [state |-> "there", email |-> event_request[r].email,
      status |-> "pending"]
    <3>1. event_request[r].email \in EventGuests
      BY <2>1 DEF Event!invite, EInv, Handlers, RequestOK
    <3>2. row \in GuestRows /\ row.status # "accepted"
      BY <3>1 DEF GuestRows
    <3>3. event_invitation' = [event_invitation EXCEPT ![i] = row]
      BY <2>1 DEF Event!invite
    <3> HIDE DEF row
    <3> QED BY <3>2, <3>3
  <2>2. CASE Event!get_by_token(r)
    <3> DEFINE row == [event_invitation[i] EXCEPT !.status = "expired"]
    <3>1. event_invitation[i] # Event!Absent
      /\ event_invitation' = [event_invitation EXCEPT ![i] = row]
      BY <2>2 DEF Event!get_by_token
    <3>2. row \in GuestRows /\ row.status = "expired"
      BY <1>1, <3>1, InvitationRow
    <3> HIDE DEF row
    <3> QED BY <3>1, <3>2
  <2> QED BY <2>1, <2>2
<1> HIDE DEF i
<1>3. Books' /\ Event!free_types' = Event!free_types
  BY <1>1, <1>2, InvitationWritten
<1> QED BY <1>1, <1>3, Commits

\* An answer looks for the free type it will register with.
LEMMA SetStatus ==
    ASSUME EInv, NEW r \in EventRequests, Event!set_status(r)
    PROVE  EInv'
<1> DEFINE q == event_request[r]
<1>1. q.op = "rsvp" /\ UNCHANGED <<event_type, event_invitation, event_seat>>
  BY DEF Event!set_status
<1>2. PICK found \in Event!findings :
        event_request' = [event_request EXCEPT ![r] =
                  [op |-> "answered", invitation |-> q.invitation, response |-> q.response,
                   found |-> found]]
  BY DEF Event!set_status
<1>3. q.invitation \in EventInvitations /\ q.response \in {"accepted", "declined"}
  BY <1>1 DEF EInv, Handlers, RequestOK
<1> DEFINE p == [op |-> "answered", invitation |-> q.invitation, response |-> q.response,
                 found |-> found]
<1>4. /\ p.op = "answered" /\ p.invitation \in EventInvitations
      /\ p.response \in {"accepted", "declined"} /\ p.found \subseteq Event!free_types
  BY <1>3, FindingsAreFree
<1>5. Books' /\ Event!free_types' = Event!free_types
  BY <1>1, SameBooks
<1>6. event_request' = [event_request EXCEPT ![r] = p]
  BY <1>2
<1> HIDE DEF p
<1>7. \A u \in EventRequests : event_request'[u] = IF u = r THEN p ELSE event_request[u]
  BY <1>6 DEF EInv, Handlers
<1>8. event_request' = [u \in EventRequests |-> event_request'[u]]
  BY <1>6 DEF EInv, Handlers
<1>9. ASSUME NEW u \in EventRequests PROVE RequestOK(event_request[u])'
  <2>1. CASE u = r
    BY <1>4, <1>5, <1>7, <2>1 DEF RequestOK
  <2>2. CASE u # r
    BY <1>5, <1>7, <2>2 DEF EInv, Handlers, RequestOK
  <2> QED BY <2>1, <2>2
<1>10. Handlers'
  BY <1>8, <1>9 DEF Handlers
<1> QED BY <1>5, <1>10 DEF EInv

\* The answer and the ticket are one transaction.
LEMMA Rsvp ==
    ASSUME Counts, EInv, NEW r \in EventRequests, Event!rsvp(r)
    PROVE  EInv'
<1> DEFINE i == event_request[r].invitation
           row == [event_invitation[i] EXCEPT !.status = event_request[r].response]
<1>1. /\ Event!finish(r) /\ event_invitation' = [event_invitation EXCEPT ![i] = row]
      /\ event_invitation[i] # Event!Absent
  BY DEF Event!rsvp
<1>2. /\ i \in EventInvitations /\ event_request[r].response \in {"accepted", "declined"}
      /\ event_request[r].found \subseteq Event!free_types
  BY DEF Event!rsvp, EInv, Handlers, RequestOK
<1>3. row \in GuestRows /\ row.status = event_request[r].response
  BY <1>1, <1>2, InvitationRow
<1>4. CASE event_request[r].response = "declined" /\ UNCHANGED <<event_type, event_seat>>
  <2>1. Books' /\ Event!free_types' = Event!free_types
    BY <1>1, <1>2, <1>3, <1>4, InvitationWritten
  <2> QED BY <1>1, <2>1, Commits
<1>5. ASSUME NEW t \in EventTypes, Event!registers(event_request[r].found, t),
             event_seat' = [event_seat EXCEPT ![i] = @ + 1]
      PROVE  EInv'
  <2>1. PICK row1 \in TypeRows :
          /\ event_type' = [event_type EXCEPT ![t] = row1]
          /\ row1.name = "free" /\ row1.sold <= row1.tickets /\ row1.tickets > 0
    BY <1>2, <1>5, RegisteredOne
  <2>2. /\ Event!free_types \subseteq Event!free_types'
        /\ event_type' \in [EventTypes -> TypeRows \cup {Event!Absent}]
        /\ FreeTypesAreTaken'
        /\ \A u \in EventTypes : Event!there(u)' =>
             IF event_type'[u].name = "tier" THEN event_type'[u].sold =
               event_type'[u].tickets
             ELSE event_type'[u].sold <= event_type'[u].tickets
    BY <2>1, TypeWritten
  <2>3. t \in Event!free_types'
    <3>1. event_type'[t] = row1 /\ row1 # Event!Absent
      BY <2>1 DEF EInv, Books, EventTables, TypeRows, Event!Absent
    <3> QED BY <2>1, <3>1 DEF Event!free_types, Event!there
  <2> HIDE DEF row, i
  <2>4. /\ event_seat' \in [EventInvitations -> Nat] /\ event_seat'[i] > 0
        /\ \A j \in EventInvitations \ {i} : event_seat'[j] = event_seat[j]
    BY <1>2, <1>5 DEF EInv, Books, EventTables
  <2>5. /\ event_invitation' \in [EventInvitations -> GuestRows \cup {Event!Absent}]
        /\ \A j \in EventInvitations \ {i} : event_invitation'[j] = event_invitation[j]
    BY <1>1, <1>2, <1>3 DEF EInv, Books, EventTables
  <2>6. EventTables'
    BY <2>2, <2>4, <2>5 DEF EventTables
  <2>7. Event!AcceptedHasASeat'
    BY <2>4, <2>5 DEF EInv, Books, Event!AcceptedHasASeat
  <2>8. Event!TypesAccountForTickets'
    BY <2>2, <2>3 DEF Event!TypesAccountForTickets
  <2>9. Books'
    BY <2>2, <2>6, <2>7, <2>8 DEF Books
  <2> QED BY <1>1, <2>2, <2>9, Commits
<1> QED BY <1>4, <1>5 DEF Event!rsvp, Event!takes_effect, Event!reserves

\* Every step keeps the invariant.
LEMMA EInvStep == Counts /\ EInv /\ [Event!Next]_(Event!eventVars) => EInv'
<1> SUFFICES ASSUME Counts, EInv, [Event!Next]_(Event!eventVars) PROVE EInv'
  OBVIOUS
<1>1. ASSUME UNCHANGED <<event_type, event_invitation, event_seat, event_request>>
      PROVE EInv'
  BY <1>1, SameBooks DEF EInv, Handlers, RequestOK
<1>2. ASSUME NEW c \in EventCapacities, Event!update_event(c) PROVE EInv'
  BY <1>1, <1>2 DEF Event!update_event
<1>3. ASSUME NEW i \in EventInvitations, Event!expire(i) PROVE EInv'
  BY <1>1, <1>3 DEF Event!expire
<1>4. CASE UNCHANGED Event!eventVars
  BY <1>1, <1>4 DEF Event!eventVars
<1>5. ASSUME NEW r \in EventRequests,
             \/ Event!begin_publish(r) \/ Event!begin_unpublish(r) \/ Event!begin_cancel(r)
                  \/ Event!begin_delete_event(r)
             \/ Event!update_status(r) \/ Event!delete_event(r) \/ Event!edit_ballot(r)
                  \/ Event!roll_back(r)
             \/ Event!create_ticket_type(r) \/ Event!update_ticket_type(r)
                  \/ Event!delete_ticket_type(r)
             \/ Event!front_desk_sell(r) \/ Event!invite(r) \/ Event!get_by_token(r)
                  \/ Event!set_status(r) \/ Event!rsvp(r)
      PROVE  EInv'
  BY <1>5, BeginSteps, EventStays, DeleteEvent, CreateType, UpdateType, DeleteType, Sell,
     Invites, SetStatus, Rsvp
<1>6. ASSUME NEW r \in EventRequests, NEW c \in EventCategories,
             NEW e \in {"add_category", "delete_category", "add_candidate",
               "remove_candidate"},
             Event!begin_edit(r, c, e)
      PROVE  EInv'
  BY <1>6, BeginEdit
<1>7. ASSUME NEW r \in EventRequests, NEW t \in EventTypes,
             \/ \E n \in EventQuantities :
                Event!begin_create_type(r, t, n) \/ Event!begin_update_type(r, t, n)
                  \/ Event!begin_sell(r, t, n)
             \/ Event!begin_delete_type(r, t)
             \/ Event!front_desk_register(r, t)
      PROVE  EInv'
  BY <1>7, BeginType, BeginDelete, Register
<1>8. ASSUME NEW r \in EventRequests, NEW found \in Event!findings,
             Event!begin_register(r, found) PROVE EInv'
  BY <1>8, BeginRegister
<1>9. ASSUME NEW r \in EventRequests, NEW i \in EventInvitations,
             \/ \E g \in EventGuests : Event!begin_invite(r, i, g)
             \/ Event!begin_get_by_token(r, i)
             \/ \E a \in {"accepted", "declined"} : Event!begin_rsvp(r, i, a)
      PROVE  EInv'
  BY <1>9, BeginInvitation
<1> QED BY <1>2, <1>3, <1>4, <1>5, <1>6, <1>7, <1>8, <1>9 DEF Event!Next

\* A ticket type counts as sold what it has tickets for, through overlapping sales, edits,
\* deletions and registrations (events.py).
THEOREM TypesAreAccounted == Event!Spec => []TypesAccountForTickets
<1>1. EInv /\ [Event!Next]_(Event!eventVars) => EInv'
  BY EInvStep, OfficeAssumption DEF Counts
<1>2. EInv => TypesAccountForTickets
  BY DEF EInv, Books, TypesAccountForTickets
<1> QED BY <1>1, <1>2, InitEInv, PTL DEF Event!Spec

\* An invitation stands as accepted only if a ticket was made for it: the answer and the ticket
\* are one transaction (event_invitation_service.py, rsvp).
THEOREM AcceptedIsSeated == Event!Spec => []AcceptedHasASeat
<1>1. EInv /\ [Event!Next]_(Event!eventVars) => EInv'
  BY EInvStep, OfficeAssumption DEF Counts
<1>2. EInv => AcceptedHasASeat
  BY DEF EInv, Books, AcceptedHasASeat
<1> QED BY <1>1, <1>2, InitEInv, PTL DEF Event!Spec

-----------------------------------------------------------------------------
(* Fees and reports: what a report says of a past sale stays. *)

\* A row of a sale has a listing, and one of a listing a plan.
SaleRow(s) == s.listing \in Money!Listings /\ "listing" \in DOMAIN s
ListingRow(l) == "plan" \in DOMAIN l

\* Tables that are looked up by their keys.
SaleTables ==
    /\ money_listing = [l \in Money!Listings |-> money_listing[l]]
    /\ \A l \in Money!Listings : ListingRow(money_listing[l])
    /\ money_sales = [r \in SoldRefs |-> money_sales[r]]
    /\ \A r \in SoldRefs : money_sales[r].status # "none" => SaleRow(money_sales[r])

\* The sales page starts with such tables.
LEMMA InitTables == Money!Init => SaleTables
<1> SUFFICES ASSUME Money!Init PROVE SaleTables
  OBVIOUS
<1>1. \A r \in SoldRefs : money_sales[r].status = "none"
  BY DEF Money!Init, Money!NoSale
<1>2. \A l \in Money!Listings : ListingRow(money_listing[l])
  BY DEF Money!Init, ListingRow
<1> QED BY <1>1, <1>2 DEF Money!Init, SaleTables

\* What a step leaves as it was: the plan of a listing, and a sale that has succeeded.
LEMMA SaleSettled ==
    ASSUME SaleTables, [Money!Next]_(Money!financeVars)
    PROVE  /\ SaleTables'
           /\ \A l \in Money!Listings : money_listing'[l].plan = money_listing[l].plan
           /\ \A r \in Money!success : money_sales'[r] = money_sales[r]
<1>1. ASSUME NEW r \in SoldRefs, NEW new, money_sales' = [money_sales EXCEPT ![r] = new],
             money_listing' = money_listing,
             money_sales[r].status # "success", new.status # "none" => SaleRow(new)
      PROVE  /\ SaleTables'
             /\ \A l \in Money!Listings : money_listing'[l].plan = money_listing[l].plan
             /\ \A k \in Money!success : money_sales'[k] = money_sales[k]
  <2>1. money_sales' = [k \in SoldRefs |-> IF k = r THEN new ELSE money_sales[k]]
    BY <1>1 DEF SaleTables
  <2> QED BY <1>1, <2>1 DEF SaleTables, Money!success
<1>2. ASSUME NEW r \in SoldRefs, NEW l \in Money!Listings, NEW n \in SoldQuantities,
             NEW promo \in SoldDiscounts,
             NEW k \in {"vote", "ticket"}, Money!initiate_payment(r, l, k, n, promo)
      PROVE  /\ SaleTables'
             /\ \A m \in Money!Listings : money_listing'[m].plan = money_listing[m].plan
             /\ \A m \in Money!success : money_sales'[m] = money_sales[m]
  <2>1. PICK new : money_sales' = [money_sales EXCEPT ![r] = new] /\ SaleRow(new)
    <3>1. PICK amount, unit, bps :
            money_sales' = [money_sales EXCEPT ![r] =
              [status |-> "pending", listing |-> l, kind |-> k, count |-> n,
               at |-> money_clock, amount |-> amount,
               fee_payer |-> money_listing[l].fee_payer, fees |-> Money!NULL,
               unit |-> unit, bps |-> bps]]
      BY <1>2 DEF Money!initiate_payment
    <3> DEFINE new ==
              [status |-> "pending", listing |-> l, kind |-> k, count |-> n,
               at |-> money_clock, amount |-> amount,
               fee_payer |-> money_listing[l].fee_payer, fees |-> Money!NULL,
               unit |-> unit, bps |-> bps]
    <3>2. SaleRow(new)
      BY DEF SaleRow
    <3> QED BY <3>1, <3>2
  <2>2. money_listing' = money_listing /\ money_sales[r].status = "none"
    BY <1>2 DEF Money!initiate_payment, Money!NoSale
  <2> QED BY <1>1, <2>1, <2>2
<1>3. ASSUME NEW r \in SoldRefs, NEW status \in {"success", "failed"}, NEW f,
             Money!settle(r, status, f)
      PROVE  /\ SaleTables'
             /\ \A m \in Money!Listings : money_listing'[m].plan = money_listing[m].plan
             /\ \A m \in Money!success : money_sales'[m] = money_sales[m]
  <2> DEFINE s == money_sales[r]
             new == [s EXCEPT !.status = status, !.fees = f]
  <2>1. SaleRow(s) /\ s.status = "pending" /\ money_listing' = money_listing
    BY <1>3 DEF Money!settle, SaleTables
  <2>3. SaleRow(new)
    BY <2>1 DEF SaleRow
  <2>4. money_sales' = [money_sales EXCEPT ![r] = new]
    BY <1>3 DEF Money!settle
  <2> QED BY <1>1, <2>1, <2>3, <2>4
<1>4. ASSUME NEW l \in Money!Listings, NEW new,
             money_listing' = [money_listing EXCEPT ![l] = new],
             ListingRow(new), new.plan = money_listing[l].plan, money_sales' = money_sales
      PROVE  /\ SaleTables'
             /\ \A m \in Money!Listings : money_listing'[m].plan = money_listing[m].plan
             /\ \A m \in Money!success : money_sales'[m] = money_sales[m]
  <2>1. money_listing' = [k \in Money!Listings |-> IF k = l THEN new ELSE money_listing[k]]
    BY <1>4 DEF SaleTables
  <2> QED BY <1>4, <2>1 DEF SaleTables
<1>5. ASSUME NEW l \in Money!Listings, NEW x,
             Money!set_fee_payer(l, x) \/ Money!set_price(l, x)
               \/ Money!override_event_commission_rate(l, x)
      PROVE  /\ SaleTables'
             /\ \A m \in Money!Listings : money_listing'[m].plan = money_listing[m].plan
             /\ \A m \in Money!success : money_sales'[m] = money_sales[m]
  <2>1. ListingRow(money_listing[l]) /\ money_sales' = money_sales
    BY <1>5 DEF SaleTables, Money!set_fee_payer, Money!set_price,
       Money!override_event_commission_rate
  <2>2. CASE Money!set_fee_payer(l, x)
    <3> DEFINE new == [money_listing[l] EXCEPT !.fee_payer = x]
    <3>1. money_listing' = [money_listing EXCEPT ![l] = new]
      BY <2>2 DEF Money!set_fee_payer
    <3>2. ListingRow(new) /\ new.plan = money_listing[l].plan
      BY <2>1 DEF ListingRow
    <3> QED BY <1>4, <2>1, <3>1, <3>2
  <2>3. CASE Money!set_price(l, x)
    <3> DEFINE new == [money_listing[l] EXCEPT !.price = x]
    <3>1. money_listing' = [money_listing EXCEPT ![l] = new]
      BY <2>3 DEF Money!set_price
    <3>2. ListingRow(new) /\ new.plan = money_listing[l].plan
      BY <2>1 DEF ListingRow
    <3> QED BY <1>4, <2>1, <3>1, <3>2
  <2>4. CASE Money!override_event_commission_rate(l, x)
    <3> DEFINE new == [money_listing[l] EXCEPT !.override = x]
    <3>1. money_listing' = [money_listing EXCEPT ![l] = new]
      BY <2>4 DEF Money!override_event_commission_rate
    <3>2. ListingRow(new) /\ new.plan = money_listing[l].plan
      BY <2>1 DEF ListingRow
    <3> QED BY <1>4, <2>1, <3>1, <3>2
  <2> QED BY <1>5, <2>2, <2>3, <2>4
<1>6. ASSUME UNCHANGED <<money_listing, money_sales>>
      PROVE  /\ SaleTables'
             /\ \A m \in Money!Listings : money_listing'[m].plan = money_listing[m].plan
             /\ \A m \in Money!success : money_sales'[m] = money_sales[m]
  BY <1>6 DEF SaleTables
<1> QED BY <1>2, <1>3, <1>5, <1>6 DEF Money!Next, Money!join, Money!leave, Money!tick,
           Money!financeVars, Money!Listings

\* What a report says of a sale stays, whatever prices, fee payers and codes become:
\* only an administrator's override of a rate changes it.
THEOREM ReportsStand == Money!Spec => PastSalesKeepTheirReport
<1>1. ASSUME SaleTables, [Money!Next]_(Money!financeVars), NEW r \in Money!success,
             \A l \in Money!Listings :
               money_listing'[l].override = money_listing[l].override
      PROVE  Money!net_of(r)' = Money!net_of(r)
  <2>1. money_sales'[r] = money_sales[r] /\ money_sales[r].listing \in Money!Listings
    BY <1>1, SaleSettled DEF Money!success, SaleTables, SaleRow
  <2> DEFINE l == money_sales[r].listing
  <2>2. /\ money_listing'[l].plan = money_listing[l].plan
        /\ money_listing'[l].override = money_listing[l].override
    BY <1>1, <2>1, SaleSettled
  <2> QED BY <2>1, <2>2 DEF Money!net_of, Money!net, Money!platform_fee, Money!payer_of,
             Money!commission_rate_bps
<1>2. SaleTables /\ [Money!Next]_(Money!financeVars) => SaleTables'
  BY SaleSettled
<1>3. SaleTables /\ [Money!Next]_(Money!financeVars) =>
        [\A r \in Money!success :
           (\A l \in Money!Listings :
             money_listing'[l].override = money_listing[l].override) =>
             Money!net_of(r)' = Money!net_of(r)]_(Money!financeVars)
  BY <1>1
<1> QED BY <1>2, <1>3, InitTables, PTL DEF Money!Spec, PastSalesKeepTheirReport,
           Money!PastSalesKeepTheirReport

-----------------------------------------------------------------------------
(* The platform roles of who leaves a team. *)

\* Who loses the platform roles is removed by a request that saw no other membership.
LEMMA LosesRoles ==
    ASSUME [Teams!Next]_(Teams!vars), NEW u \in teams_dashboard, u \notin teams_dashboard'
    PROVE  \E s \in Teams!Slots : teams_req[s].op = "remove" /\ teams_req[s].others = {}
<1>1. ASSUME NEW s \in TeamManagers, Teams!manage(s)
      PROVE  \/ teams_dashboard \subseteq teams_dashboard'
             \/ teams_req[s].op = "remove" /\ teams_req[s].others = {}
  BY <1>1 DEF Teams!manage, Teams!begin, Teams!begin_delete_organization,
     Teams!begin_add_member, Teams!begin_invite, Teams!begin_transfer_ownership,
     Teams!begin_update_member_role, Teams!begin_remove_member, Teams!delete_organization,
     Teams!transfer_ownership, Teams!add_member_request, Teams!invite_existing_user,
     Teams!invite_member_by_email, Teams!update_member_role, Teams!remove_member,
     Teams!grant_roles_by_name
<1>2. ASSUME NEW s \in TeamJoiners, Teams!join(s)
      PROVE teams_dashboard \subseteq teams_dashboard'
  BY <1>2 DEF Teams!join, Teams!begin, Teams!begin_accept, Teams!accept_invitation,
     Teams!accept_invitation_with_signup, Teams!accept, Teams!grant_roles_by_name
<1>3. ASSUME \/ \E v \in TeamUsers : Teams!register(v)
             \/ \E o \in TeamOrgs, v \in TeamUsers : Teams!create_organization(o, v)
             \/ \E o \in TeamCustomizing : Teams!create_org_role(o)
                  \/ Teams!delete_org_role(o)
             \/ \E i \in TeamInvitations : Teams!revoke_invitation(i) \/ Teams!expire(i)
             \/ Teams!backfill_member_platform_roles
             \/ \E s \in Teams!Slots : Teams!roll_back(s)
             \/ UNCHANGED Teams!vars
      PROVE  teams_dashboard \subseteq teams_dashboard'
  BY <1>3 DEF Teams!register, Teams!create_organization, Teams!create_org_role,
     Teams!delete_org_role, Teams!revoke_invitation, Teams!expire,
     Teams!backfill_member_platform_roles, Teams!roll_back, Teams!vars,
     Teams!grant_roles_by_name
<1> QED BY <1>1, <1>2, <1>3 DEF Teams!Next, Teams!Slots

\* Who loses the platform roles is being removed from a team by a request that saw no
\* other membership of theirs: no membership left is one that the request saw.
THEOREM StaysOnTheSecondTeam == Teams!Spec => SecondTeamStays
<1>1. ASSUME [Teams!Next]_(Teams!vars)
      PROVE  \A u \in teams_dashboard \ teams_dashboard' : \E s \in Teams!Slots :
               /\ teams_req[s].op = "remove"
               /\ \A m \in teams_members' : m.user = u
                    => ~\E k \in teams_req[s].others : Teams!same_row(m, k)
  BY <1>1, LosesRoles
<1> QED BY <1>1, PTL DEF Teams!Spec, SecondTeamStays, Teams!LeavingOneTeam

-----------------------------------------------------------------------------
(* Broadcasts: the counts of a row are those of its chunks. *)

\* A chunk has recipients.
LEMMA Chunked == MailMaxRecipients \in Nat /\ MailChunkSize \in Nat \ {0}
BY OfficeAssumption

\* What holds of 0, and of the next number whenever it holds of one, holds up to M.
LEMMA UpTo ==
    ASSUME NEW M \in Nat, NEW S, 0 \in S, \A m \in 0..M : m \in S /\ m < M => m + 1 \in S
    PROVE  \A m \in 0..M : m \in S
<1> DEFINE Before == {mn \in Nat \X Nat : mn[1] < mn[2]}
           Rest == {m \in 0..M : m \notin S}
<1>1. IsWellFoundedOn(Before, Nat)
  BY NatLessThanWellFounded DEF OpToRel
<1>2. SUFFICES ASSUME Rest # {} PROVE FALSE
  OBVIOUS
<1>3. Rest \subseteq Nat
  OBVIOUS
<1>4. PICK n \in Rest : \A m \in Rest : ~(<<m, n>> \in Before)
  <2> HIDE DEF Rest, Before
  <2> QED BY <1>1, <1>2, <1>3, WFMin
<1>5. n \in 0..M /\ n \notin S /\ n # 0
  BY <1>4
<1>6. n - 1 \in 0..M /\ n - 1 < n /\ n - 1 < M /\ (n - 1) + 1 = n /\ n \in Nat
  /\ n - 1 \in Nat
  BY <1>5
<1>7. n - 1 \notin Rest
  <2>1. <<n - 1, n>> \in Before
    BY <1>6
  <2> HIDE DEF Rest, Before
  <2> QED BY <1>4, <2>1
<1> QED BY <1>5, <1>6, <1>7

\* Numbers in a row have running totals.
LEMMA RunningTotals ==
    ASSUME NEW M \in Nat, NEW f \in [1..M -> Nat]
    PROVE  \E u \in [0..M -> Nat] : u[0] = 0 /\ \A i \in 1..M : u[i] = u[i - 1] + f[i]
<1> DEFINE Totals(m, u) == /\ u \in [0..m -> Nat] /\ u[0] = 0
                           /\ \A i \in 1..m : u[i] = u[i - 1] + f[i]
           Have == {m \in 0..M : \E u : Totals(m, u)}
<1>1. 0 \in Have
  <2>1. 0..0 = {0} /\ 1..0 = {}
    OBVIOUS
  <2>2. Totals(0, [i \in {0} |-> 0])
    BY <2>1
  <2>3. 0 \in 0..M /\ \E u : Totals(0, u)
    <3> HIDE DEF Totals
    <3> QED BY <2>2
  <2> QED BY <2>3
<1>2. ASSUME NEW m \in 0..M, m \in Have, m < M PROVE m + 1 \in Have
  <2>1. PICK u : Totals(m, u)
    BY <1>2
  <2> DEFINE v == [i \in 0..(m + 1) |-> IF i = m + 1 THEN u[m] + f[m + 1] ELSE u[i]]
  <2>2. m \in 0..m /\ m + 1 \in 1..M /\ m + 1 \in 0..M /\ f[m + 1] \in Nat
    BY <1>2
  <2>3. \A i \in 0..(m + 1) : i # m + 1 => i \in 0..m
    BY <2>2
  <2>4. v \in [0..(m + 1) -> Nat] /\ v[0] = 0
    BY <2>1, <2>2, <2>3
  <2>5. \A i \in 1..(m + 1) : v[i] = v[i - 1] + f[i]
    <3> SUFFICES ASSUME NEW i \in 1..(m + 1) PROVE v[i] = v[i - 1] + f[i]
      OBVIOUS
    <3>1. i \in 0..(m + 1) /\ i - 1 \in 0..(m + 1) /\ i - 1 # m + 1
      BY <2>2
    <3>2. CASE i = m + 1
      BY <2>2, <3>1, <3>2
    <3>3. CASE i # m + 1
      BY <2>1, <2>2, <3>1, <3>3
    <3> QED BY <3>2, <3>3
  <2>6. Totals(m + 1, v)
    BY <2>4, <2>5
  <2> QED BY <2>2, <2>6
<1>3. M \in Have
  <2>1. \A m \in 0..M : m \in Have
    <3> HIDE DEF Have
    <3> QED BY <1>1, <1>2, UpTo
  <2>2. M \in 0..M
    OBVIOUS
  <2> HIDE DEF Have
  <2> QED BY <2>1, <2>2
<1>4. PICK u : Totals(M, u)
  BY <1>3
<1> QED BY <1>4

\* The totals are what their definition says.
LEMMA Running ==
    ASSUME NEW f \in [Mail!Chunks -> Nat]
    PROVE  /\ Mail!running(f) \in [0..MailMaxRecipients -> Nat]
           /\ Mail!running(f)[0] = 0
           /\ \A i \in Mail!Chunks : Mail!running(f)[i] = Mail!running(f)[i - 1] + f[i]
<1> DEFINE M == MailMaxRecipients
           step(g) == [i \in 0..M |-> IF i = 0 THEN 0 ELSE g[i - 1] + f[i]]
           sum == CHOOSE g : g = step(g)
<1>1. M \in Nat /\ f \in [1..M -> Nat]
  BY Chunked DEF Mail!Chunks
<1>2. PICK u \in [0..M -> Nat] : u[0] = 0 /\ \A i \in 1..M : u[i] = u[i - 1] + f[i]
  BY <1>1, RunningTotals
<1>3. u = step(u)
  <2>1. \A i \in 0..M : u[i] = IF i = 0 THEN 0 ELSE u[i - 1] + f[i]
    BY <1>1, <1>2
  <2> QED BY <1>2, <2>1
<1>4. sum = step(sum)
  BY <1>3
<1>5. Mail!running(f) = sum
  BY DEF Mail!running
<1> HIDE DEF sum
<1>6. \A i \in 0..M : sum[i] = IF i = 0 THEN 0 ELSE sum[i - 1] + f[i]
  BY <1>4
<1>7. \A i \in 0..M : i \in {k \in 0..M : sum[k] \in Nat}
  <2> DEFINE Good == {k \in 0..M : sum[k] \in Nat}
  <2>1. 0 \in Good
    BY <1>1, <1>6
  <2>2. ASSUME NEW k \in 0..M, k \in Good, k < M PROVE k + 1 \in Good
    <3>1. k + 1 \in 0..M /\ k + 1 # 0 /\ (k + 1) - 1 = k /\ k + 1 \in 1..M
      BY <1>1, <2>2
    <3>2. sum[k + 1] = sum[(k + 1) - 1] + f[k + 1]
      BY <1>6, <3>1
    <3> QED BY <1>1, <2>2, <3>1, <3>2
  <2> HIDE DEF Good
  <2>3. \A i \in 0..M : i \in Good
    BY <1>1, <2>1, <2>2, UpTo
  <2> QED BY <2>3 DEF Good
<1>8. sum \in [0..M -> Nat]
  BY <1>4, <1>7
<1>9. \A i \in 1..M : sum[i] = sum[i - 1] + f[i]
  BY <1>1, <1>6
<1>10. sum[0] = 0
  BY <1>1, <1>6
<1> QED BY <1>5, <1>8, <1>9, <1>10 DEF Mail!Chunks

\* A total is at most that of larger numbers.
LEMMA SmallerTotal ==
    ASSUME NEW f \in [Mail!Chunks -> Nat], NEW g \in [Mail!Chunks -> Nat],
           \A i \in Mail!Chunks : f[i] <= g[i]
    PROVE  Mail!total(f) \in Nat /\ Mail!total(f) <= Mail!total(g)
<1> DEFINE M == MailMaxRecipients
           Good == {m \in 0..M : Mail!running(f)[m] <= Mail!running(g)[m]}
<1>1. /\ Mail!running(f) \in [0..M -> Nat] /\ Mail!running(f)[0] = 0
      /\ \A i \in Mail!Chunks : Mail!running(f)[i] = Mail!running(f)[i - 1] + f[i]
      /\ Mail!running(g) \in [0..M -> Nat] /\ Mail!running(g)[0] = 0
      /\ \A i \in Mail!Chunks : Mail!running(g)[i] = Mail!running(g)[i - 1] + g[i]
  BY Running
<1>2. 0 \in Good
  BY <1>1, Chunked
<1>3. ASSUME NEW m \in 0..M, m \in Good, m < M PROVE m + 1 \in Good
  <2>1. m + 1 \in Mail!Chunks /\ m + 1 \in 0..M /\ (m + 1) - 1 = m
    BY <1>3, Chunked DEF Mail!Chunks
  <2>2. Mail!running(f)[m + 1] = Mail!running(f)[m] + f[m + 1]
    /\ Mail!running(g)[m + 1] = Mail!running(g)[m] + g[m + 1]
    BY <1>1, <2>1
  <2>3. Mail!running(f)[m] \in Nat /\ Mail!running(g)[m] \in Nat /\ f[m + 1] \in Nat
    /\ g[m + 1] \in Nat
        /\ Mail!running(f)[m] <= Mail!running(g)[m] /\ f[m + 1] <= g[m + 1]
    BY <1>1, <1>3, <2>1
  <2> QED BY <2>1, <2>2, <2>3
<1>4. M \in Good
  <2>1. M \in Nat /\ M \in 0..M
    BY Chunked
  <2> HIDE DEF Good
  <2> QED BY <1>2, <1>3, <2>1, UpTo
<1> QED BY <1>1, <1>4 DEF Mail!total

\* One number more adds to the total what it is.
LEMMA TotalWith ==
    ASSUME NEW f \in [Mail!Chunks -> Nat], NEW i \in Mail!Chunks, NEW d \in Nat
    PROVE  Mail!total([f EXCEPT ![i] = f[i] + d]) = Mail!total(f) + d
<1> DEFINE M == MailMaxRecipients
           g == [f EXCEPT ![i] = f[i] + d]
           Good == {m \in 0..M :
             Mail!running(g)[m] = Mail!running(f)[m] + (IF i <= m THEN d ELSE 0)}
<1>0. g \in [Mail!Chunks -> Nat]
  OBVIOUS
<1>1. /\ Mail!running(f) \in [0..M -> Nat] /\ Mail!running(f)[0] = 0
      /\ \A k \in Mail!Chunks : Mail!running(f)[k] = Mail!running(f)[k - 1] + f[k]
  BY Running
<1>2. /\ Mail!running(g) \in [0..M -> Nat] /\ Mail!running(g)[0] = 0
      /\ \A k \in Mail!Chunks : Mail!running(g)[k] = Mail!running(g)[k - 1] + g[k]
  <2> HIDE DEF g
  <2> QED BY <1>0, Running
<1>3. 0 \in Good
  <2>1. i \in Nat /\ ~(i <= 0) /\ 0 \in 0..M
    BY Chunked DEF Mail!Chunks
  <2> HIDE DEF g
  <2> QED BY <1>1, <1>2, <2>1
<1>4. ASSUME NEW m \in 0..M, m \in Good, m < M PROVE m + 1 \in Good
  <2>1. m + 1 \in Mail!Chunks /\ m + 1 \in 0..M /\ (m + 1) - 1 = m /\ m \in Nat /\ i \in Nat
    BY <1>4, Chunked DEF Mail!Chunks
  <2>2. g[m + 1] = f[m + 1] + (IF i = m + 1 THEN d ELSE 0)
    BY <2>1
  <2> HIDE DEF g
  <2>3. Mail!running(f)[m + 1] = Mail!running(f)[m] + f[m + 1]
    /\ Mail!running(g)[m + 1] = Mail!running(g)[m] + g[m + 1]
    BY <1>1, <1>2, <2>1
  <2>4. Mail!running(f)[m] \in Nat /\ Mail!running(g)[m] \in Nat /\ f[m + 1] \in Nat
    BY <1>1, <1>2, <2>1
  <2>5. Mail!running(g)[m] = Mail!running(f)[m] + (IF i <= m THEN d ELSE 0)
    BY <1>4
  <2>6. (IF i <= m + 1 THEN d ELSE 0) =
    (IF i <= m THEN d ELSE 0) + (IF i = m + 1 THEN d ELSE 0)
    BY <2>1
  <2>7. (IF i <= m THEN d ELSE 0) \in Nat /\ (IF i = m + 1 THEN d ELSE 0) \in Nat
    OBVIOUS
  <2>8. Mail!running(g)[m + 1] = Mail!running(f)[m + 1] + (IF i <= m + 1 THEN d ELSE 0)
    BY <2>2, <2>3, <2>4, <2>5, <2>6, <2>7
  <2> QED BY <2>1, <2>8
<1>5. M \in Good
  <2>1. M \in Nat /\ M \in 0..M
    BY Chunked
  <2> HIDE DEF Good
  <2> QED BY <1>3, <1>4, <2>1, UpTo
<1>6. i <= M
  BY Chunked DEF Mail!Chunks
<1> QED BY <1>5, <1>6 DEF Mail!total

\* The chunks of a broadcast are all its recipients.
LEMMA AllRecipients ==
    ASSUME NEW n \in Mail!Tickets
    PROVE  Mail!total([i \in Mail!Chunks |-> IF i \in Mail!chunks(n) THEN Mail!size(n,
           i) ELSE 0]) = n
<1> DEFINE M == MailMaxRecipients
           f == [i \in Mail!Chunks |-> IF i \in Mail!chunks(n) THEN Mail!size(n, i) ELSE 0]
           upto(m) == IF m * MailChunkSize <= n THEN m * MailChunkSize ELSE n
           Good == {m \in 0..M : Mail!running(f)[m] = upto(m)}
<1>0. M \in Nat /\ n \in Nat /\ n <= M /\ MailChunkSize \in Nat /\ MailChunkSize >= 1
  /\ Mail!Chunks = 1..M
  BY Chunked DEF Mail!Chunks, Mail!Tickets
<1>1. ASSUME NEW i \in Mail!Chunks
      PROVE  /\ i * MailChunkSize = (i - 1) * MailChunkSize + MailChunkSize
             /\ i * MailChunkSize \in Nat /\ (i - 1) * MailChunkSize \in Nat
  <2>1. i \in Nat /\ i - 1 \in Nat
    BY <1>0
  <2> QED BY <1>0, <2>1
<1>2. ASSUME NEW i \in Mail!Chunks
      PROVE  f[i] \in Nat /\ upto(i) = upto(i - 1) + f[i]
  BY <1>0, <1>1 DEF Mail!chunks, Mail!size
<1>3. f \in [Mail!Chunks -> Nat]
  BY <1>2
<1> HIDE DEF f
<1>4. /\ Mail!running(f) \in [0..M -> Nat] /\ Mail!running(f)[0] = 0
      /\ \A k \in Mail!Chunks : Mail!running(f)[k] = Mail!running(f)[k - 1] + f[k]
  BY <1>3, Running
<1>5. 0 \in Good
  BY <1>0, <1>4
<1>6. ASSUME NEW m \in 0..M, m \in Good, m < M PROVE m + 1 \in Good
  <2>1. m + 1 \in Mail!Chunks /\ m + 1 \in 0..M /\ (m + 1) - 1 = m
    BY <1>0, <1>6
  <2>2. Mail!running(f)[m] = upto(m)
    BY <1>6
  <2>3. upto(m + 1) = upto((m + 1) - 1) + f[m + 1]
    BY <1>2, <2>1
  <2>4. Mail!running(f)[m + 1] = Mail!running(f)[(m + 1) - 1] + f[m + 1]
    BY <1>4, <2>1
  <2>5. Mail!running(f)[m + 1] = upto(m + 1)
    <3> HIDE DEF upto
    <3> QED BY <2>1, <2>2, <2>3, <2>4
  <2> QED BY <2>1, <2>5
<1>7. M \in Good
  <2>1. M \in 0..M
    BY <1>0
  <2> HIDE DEF Good
  <2> QED BY <1>0, <1>5, <1>6, <2>1, UpTo
<1>8. upto(M) = n
  <2>1. M <= M * MailChunkSize
    BY <1>0
  <2> QED BY <1>0, <2>1
<1> QED BY <1>7, <1>8 DEF Mail!total, f

\* Nothing adds up to nothing.
LEMMA NoTotal ==
    ASSUME NEW f \in [Mail!Chunks -> Nat], \A i \in Mail!Chunks : f[i] = 0
    PROVE  Mail!total(f) = 0
<1> DEFINE M == MailMaxRecipients
           Good == {m \in 0..M : Mail!running(f)[m] = 0}
<1>1. /\ Mail!running(f)[0] = 0
      /\ \A i \in Mail!Chunks : Mail!running(f)[i] = Mail!running(f)[i - 1] + f[i]
  BY Running
<1>2. 0 \in Good
  BY <1>1, Chunked
<1>3. ASSUME NEW m \in 0..M, m \in Good, m < M PROVE m + 1 \in Good
  <2>1. m + 1 \in Mail!Chunks /\ m + 1 \in 0..M /\ (m + 1) - 1 = m
    BY <1>3, Chunked DEF Mail!Chunks
  <2>2. Mail!running(f)[m + 1] = Mail!running(f)[(m + 1) - 1] + f[m + 1] /\ f[m + 1] = 0
    BY <1>1, <2>1
  <2>3. Mail!running(f)[m] = 0
    BY <1>3
  <2> QED BY <2>1, <2>2, <2>3
<1>4. M \in Good
  <2>1. M \in Nat /\ M \in 0..M
    BY Chunked
  <2> HIDE DEF Good
  <2> QED BY <1>2, <1>3, <2>1, UpTo
<1> QED BY <1>4 DEF Mail!total

\* Each chunk of a broadcast has recipients.
LEMMA SomeInEach ==
    ASSUME NEW n \in Mail!Tickets, NEW i \in Mail!chunks(n)
    PROVE  i \in Mail!Chunks /\ Mail!size(n, i) \in Nat \ {0}
<1>1. i \in Mail!Chunks /\ i \in Nat /\ i - 1 \in Nat /\ n \in Nat
  /\ MailChunkSize \in Nat \ {0}
  BY Chunked DEF Mail!chunks, Mail!Chunks, Mail!Tickets
<1>2. /\ i * MailChunkSize = (i - 1) * MailChunkSize + MailChunkSize
      /\ i * MailChunkSize \in Nat /\ (i - 1) * MailChunkSize \in Nat
      /\ (i - 1) * MailChunkSize < n
  BY <1>1 DEF Mail!chunks
<1> QED BY <1>1, <1>2 DEF Mail!size

\* The counts of a broadcast that was sent.
CountedRows ==
    [status : {"unsaved", "sending", "completed"}, recipient_count : Mail!Tickets,
     sent_count : Nat, failed_count : Nat]
Found(b) == mail_broadcast[b].status \in {"sending", "completed"}
Started(b) == mail_broadcast[b].status # "none"
Recipients(b) == mail_broadcast[b].recipient_count

\* A task has recipients of its broadcast, and counts them once.
ChunkStands(b, i) ==
    /\ mail_chunk[b][i].status = "queued" =>
               /\ Started(b) /\ i \in Mail!chunks(Recipients(b))
               /\ <<b, i>> \notin mail_counted
               /\ mail_chunk[b][i].size = Mail!size(Recipients(b), i)
    /\ mail_chunk[b][i].status = "mailed" =>
               /\ Started(b) /\ i \in Mail!chunks(Recipients(b))
               /\ <<b, i>> \notin mail_counted
               /\ mail_chunk[b][i].sent \in Nat /\ mail_chunk[b][i].failed \in Nat
               /\ mail_chunk[b][i].sent + mail_chunk[b][i].failed =
                    Mail!size(Recipients(b), i)
    /\ <<b, i>> \in mail_counted => Found(b) /\ i \in Mail!chunks(Recipients(b))

RowStands(b) ==
    Started(b) =>
      /\ mail_broadcast[b].sent_count + mail_broadcast[b].failed_count =
           Mail!total(Mail!reached(b))
      /\ mail_broadcast[b].status = "completed"
           <=> Mail!total(Mail!reached(b)) = Recipients(b)

MailInv ==
    /\ mail_broadcast \in [MailBroadcasts -> CountedRows \cup {Mail!Absent}]
    /\ mail_chunk = [b \in MailBroadcasts |-> [i \in Mail!Chunks |-> mail_chunk[b][i]]]
    /\ \A b \in MailBroadcasts : RowStands(b) /\ \A i \in Mail!Chunks : ChunkStands(b, i)

\* A row that was sent has its columns.
LEMMA SentRow ==
    ASSUME MailInv, NEW b \in MailBroadcasts, Started(b)
    PROVE  mail_broadcast[b] \in CountedRows /\ Recipients(b) \in Mail!Tickets
BY DEF MailInv, Started, CountedRows, Mail!Absent, Recipients

\* What has reached a row is some of its recipients.
LEMMA ReachedSome ==
    ASSUME NEW b \in MailBroadcasts, Recipients(b) \in Mail!Tickets,
           \A i \in Mail!Chunks : <<b, i>> \in mail_counted
             => i \in Mail!chunks(Recipients(b))
    PROVE  /\ Mail!reached(b) \in [Mail!Chunks -> Nat]
           /\ Mail!total(Mail!reached(b)) \in Nat
           /\ Mail!total(Mail!reached(b)) <= Recipients(b)
<1> DEFINE all(n) == [i \in Mail!Chunks |-> IF i \in Mail!chunks(n) THEN Mail!size(n,
  i) ELSE 0]
<1>1. PICK n \in Mail!Tickets : n = Recipients(b)
  OBVIOUS
<1>2. all(n) \in [Mail!Chunks -> Nat]
  BY SomeInEach
<1>3. \A i \in Mail!Chunks : Mail!reached(b)[i] \in Nat /\ Mail!reached(b)[i] <= all(n)[i]
  BY <1>1, SomeInEach DEF Mail!reached, Recipients
<1>4. Mail!reached(b) \in [Mail!Chunks -> Nat]
  BY <1>3 DEF Mail!reached
<1>5. Mail!total(Mail!reached(b)) \in Nat
  /\ Mail!total(Mail!reached(b)) <= Mail!total(all(n))
  <2>1. PICK f \in [Mail!Chunks -> Nat] : f = Mail!reached(b)
    BY <1>4
  <2>2. PICK g \in [Mail!Chunks -> Nat] : g = all(n)
    BY <1>2
  <2>3. Mail!total(f) \in Nat /\ Mail!total(f) <= Mail!total(g)
    BY <1>3, <2>1, <2>2, SmallerTotal
  <2> QED BY <2>1, <2>2, <2>3
<1>6. Mail!total(all(n)) = n
  BY AllRecipients
<1> QED BY <1>1, <1>4, <1>5, <1>6

\* Nothing has been sent at first.
LEMMA MailInit == Mail!Init => MailInv
<1> SUFFICES ASSUME Mail!Init PROVE MailInv
  OBVIOUS
<1>1. \A b \in MailBroadcasts : mail_broadcast[b].status = "none"
  /\ \A i \in Mail!Chunks : mail_chunk[b][i].status = "none"
  BY DEF Mail!Init, Mail!Absent
<1>2. mail_counted = {}
  BY DEF Mail!Init
<1>3. /\ mail_broadcast \in [MailBroadcasts -> CountedRows \cup {Mail!Absent}]
      /\ mail_chunk = [b \in MailBroadcasts |-> [i \in Mail!Chunks |-> mail_chunk[b][i]]]
  BY DEF Mail!Init
<1> QED BY <1>1, <1>2, <1>3 DEF MailInv, RowStands, ChunkStands, Started, Found

\* A broadcast whose rows and tasks are left alone stands as it did.
LEMMA MailAlone ==
    ASSUME NEW b \in MailBroadcasts, RowStands(b), \A i \in Mail!Chunks : ChunkStands(b, i),
           mail_broadcast'[b] = mail_broadcast[b], mail_chunk'[b] = mail_chunk[b],
           \A i \in Mail!Chunks : <<b, i>> \in mail_counted' <=> <<b, i>> \in mail_counted
    PROVE  RowStands(b)' /\ \A i \in Mail!Chunks : ChunkStands(b, i)'
<1>1. Mail!reached(b)' = Mail!reached(b)
  BY DEF Mail!reached
<1> QED BY <1>1 DEF RowStands, ChunkStands, Started, Found, Recipients

\* A chunk adds its counts to those of the row.
LEMMA Folds ==
    ASSUME MailInv, NEW b \in MailBroadcasts, NEW i \in Mail!Chunks,
           mail_chunk[b][i].status = "mailed",
           Found(b), mail_broadcast' =
             [mail_broadcast EXCEPT ![b] =
               Mail!folded(mail_broadcast[b], mail_chunk[b][i])],
           mail_counted' = mail_counted \cup {<<b, i>>}
    PROVE  /\ mail_broadcast' \in [MailBroadcasts -> CountedRows \cup {Mail!Absent}]
           /\ Recipients(b)' = Recipients(b) /\ Found(b)' /\ RowStands(b)'
<1>1. Started(b) /\ mail_broadcast[b] \in CountedRows /\ Recipients(b) \in Mail!Tickets
  BY SentRow DEF Found, Started
<1>2. /\ i \in Mail!chunks(Recipients(b)) /\ <<b, i>> \notin mail_counted
      /\ mail_chunk[b][i].sent \in Nat /\ mail_chunk[b][i].failed \in Nat
      /\ mail_chunk[b][i].sent + mail_chunk[b][i].failed = Mail!size(Recipients(b), i)
  BY DEF MailInv, ChunkStands
<1>3. PICK c : c = mail_chunk[b][i]
  OBVIOUS
<1>4. PICK n \in Mail!Tickets : n = Recipients(b)
  BY <1>1
<1>5. PICK row \in CountedRows : row = mail_broadcast[b]
  BY <1>1
<1>6. PICK d \in Nat \ {0} : d = Mail!size(n, i)
  BY <1>2, <1>4, SomeInEach
<1>7. c.sent \in Nat /\ c.failed \in Nat /\ c.sent + c.failed = d
  BY <1>2, <1>3, <1>4, <1>6
<1>8. /\ row.recipient_count = n /\ row.sent_count \in Nat /\ row.failed_count \in Nat
      /\ row.status \in {"sending", "completed"} /\ n \in Nat
  BY <1>4, <1>5 DEF CountedRows, Recipients, Found, Mail!Tickets
<1>9. PICK new : new = Mail!folded(row, c)
  OBVIOUS
<1>10. /\ new \in CountedRows /\ new.recipient_count = n
       /\ new.sent_count = row.sent_count + c.sent
       /\ new.failed_count = row.failed_count + c.failed
       /\ new.status = IF row.sent_count + row.failed_count + c.sent + c.failed >= n
                       THEN "completed" ELSE row.status
  <2>1. /\ new.recipient_count = n
        /\ new.sent_count = row.sent_count + c.sent
        /\ new.failed_count = row.failed_count + c.failed
        /\ new.status = IF row.sent_count + row.failed_count + c.sent + c.failed >= n
                        THEN "completed" ELSE row.status
    BY <1>8, <1>9 DEF Mail!folded, CountedRows
  <2>2. /\ row.sent_count + c.sent \in Nat /\ row.failed_count + c.failed \in Nat
        /\ new.status \in {"sending", "completed"}
    BY <1>7, <1>8, <2>1
  <2>3. new = [status |-> new.status, recipient_count |-> n,
               sent_count |-> row.sent_count + c.sent,
               failed_count |-> row.failed_count + c.failed]
    BY <1>8, <1>9 DEF Mail!folded, CountedRows
  <2>4. new \in CountedRows
    BY <2>2, <2>3 DEF CountedRows
  <2> QED BY <2>1, <2>4
<1>11. mail_broadcast'[b] = new /\ \A x \in MailBroadcasts : x # b
  => mail_broadcast'[x] = mail_broadcast[x]
  BY <1>3, <1>5, <1>9 DEF MailInv
<1>12. mail_broadcast' \in [MailBroadcasts -> CountedRows \cup {Mail!Absent}]
  BY <1>3, <1>5, <1>9, <1>10 DEF MailInv
<1>13. \A k \in Mail!Chunks : <<b, k>> \in mail_counted => k \in Mail!chunks(Recipients(b))
  BY DEF MailInv, ChunkStands
<1>14. PICK f \in [Mail!Chunks -> Nat] : f = Mail!reached(b)
  BY <1>1, <1>13, ReachedSome
<1>15. Mail!total(f) \in Nat /\ Mail!total(f) <= n
  /\ Mail!total(f) = row.sent_count + row.failed_count
       /\ (row.status = "completed" <=> Mail!total(f) = n)
  BY <1>1, <1>4, <1>5, <1>13, <1>14, ReachedSome DEF MailInv, RowStands, Recipients
<1>16. Recipients(b)' = n
  BY <1>10, <1>11 DEF Recipients
<1>17. Mail!reached(b)' = [f EXCEPT ![i] = f[i] + d]
  <2>1. f[i] = 0
    BY <1>2, <1>14 DEF Mail!reached
  <2>2. \A k \in Mail!Chunks : Mail!reached(b)'[k] = [f EXCEPT ![i] = f[i] + d][k]
    BY <1>4, <1>6, <1>14, <1>16, <2>1 DEF Mail!reached, Recipients
  <2> QED BY <1>14, <2>2 DEF Mail!reached
<1>18. Mail!total(Mail!reached(b)') = Mail!total(f) + d
  <2>1. d \in Nat
    OBVIOUS
  <2>2. Mail!total([f EXCEPT ![i] = f[i] + d]) = Mail!total(f) + d
    BY <2>1, TotalWith
  <2> QED BY <1>17, <2>2
<1>19. Mail!total(f) + d <= n
  <2>1. \A k \in Mail!Chunks : <<b, k>> \in mail_counted' => k \in Mail!chunks(n)
    BY <1>2, <1>4, <1>13
  <2>2. PICK g \in [Mail!Chunks -> Nat] : g = Mail!reached(b)'
    BY <1>17
  <2> DEFINE all == [k \in Mail!Chunks |-> IF k \in Mail!chunks(n) THEN Mail!size(n,
    k) ELSE 0]
  <2>3. PICK h \in [Mail!Chunks -> Nat] : h = all
    <3>1. all \in [Mail!Chunks -> Nat]
      BY SomeInEach
    <3> QED BY <3>1
  <2>4. \A k \in Mail!Chunks : g[k] <= h[k]
    <3>1. \A k \in Mail!chunks(n) : Mail!size(n, k) \in Nat
      BY SomeInEach
    <3>2. \A k \in Mail!Chunks :
      g[k] = IF <<b, k>> \in mail_counted' THEN Mail!size(n, k) ELSE 0
      BY <1>16, <2>2 DEF Mail!reached, Recipients
    <3>3. \A k \in Mail!Chunks : h[k] = IF k \in Mail!chunks(n) THEN Mail!size(n, k) ELSE 0
      BY <2>3
    <3>4. \A k \in Mail!Chunks : g[k] \in Nat /\ h[k] \in Nat
      BY <2>2, <2>3
    <3>5. ASSUME NEW k \in Mail!Chunks PROVE g[k] <= h[k]
      <4>1. CASE k \in Mail!chunks(n)
        <5>1. h[k] = Mail!size(n, k) /\ Mail!size(n, k) \in Nat
          /\ g[k] \in {0, Mail!size(n, k)}
          BY <3>1, <3>2, <3>3, <4>1
        <5> QED BY <5>1
      <4>2. CASE k \notin Mail!chunks(n)
        <5>1. g[k] = 0 /\ h[k] = 0
          BY <2>1, <3>2, <3>3, <4>2
        <5> QED BY <5>1
      <4> QED BY <4>1, <4>2
    <3> QED BY <3>5
  <2>5. Mail!total(g) <= Mail!total(h)
    BY <2>4, SmallerTotal
  <2>6. Mail!total(h) = n
    BY <2>3, AllRecipients
  <2> QED BY <1>18, <2>2, <2>5, <2>6
<1>20. row.status # "completed"
  BY <1>6, <1>8, <1>15, <1>19
<1>21. /\ new.sent_count + new.failed_count = Mail!total(f) + d
       /\ (new.status = "completed" <=> Mail!total(f) + d = n)
  BY <1>6, <1>7, <1>8, <1>10, <1>15, <1>19, <1>20
<1>22. RowStands(b)'
  BY <1>11, <1>16, <1>18, <1>21 DEF RowStands
<1> QED BY <1>4, <1>8, <1>10, <1>11, <1>12, <1>16, <1>22 DEF Found

\* Every step keeps the counts exact.
LEMMA MailNext == MailInv /\ [Mail!Next]_(Mail!mailVars) => MailInv'
<1> SUFFICES ASSUME MailInv, [Mail!Next]_(Mail!mailVars) PROVE MailInv'
  OBVIOUS
<1>0. /\ mail_broadcast \in [MailBroadcasts -> CountedRows \cup {Mail!Absent}]
      /\ \A b \in MailBroadcasts : RowStands(b) /\ \A i \in Mail!Chunks : ChunkStands(b, i)
      /\ DOMAIN mail_chunk = MailBroadcasts
      /\ \A b \in MailBroadcasts : DOMAIN mail_chunk[b] = Mail!Chunks
  BY DEF MailInv
<1>1. CASE UNCHANGED Mail!broadcastVars
  BY <1>1, MailAlone DEF MailInv, Mail!broadcastVars
<1>2. ASSUME NEW b \in MailBroadcasts, NEW n \in Mail!Tickets, Mail!send(b, n)
      PROVE MailInv'
  <2> DEFINE new == [status |-> "unsaved", recipient_count |-> n, sent_count |-> 0,
                     failed_count |-> 0]
             tasks == [i \in Mail!Chunks |-> IF i \in Mail!chunks(n)
                                            THEN [status |-> "queued",
                                              size |-> Mail!size(n, i)] ELSE Mail!Absent]
  <2>1. /\ mail_broadcast' = [mail_broadcast EXCEPT ![b] = new] /\ new \in CountedRows
        /\ mail_chunk' = [mail_chunk EXCEPT ![b] = tasks] /\ mail_counted' = mail_counted
        /\ mail_broadcast[b].status = "none"
    BY <1>2 DEF Mail!send, CountedRows, Mail!Absent
  <2>2. ASSUME NEW x \in MailBroadcasts, x # b
        PROVE  RowStands(x)' /\ \A i \in Mail!Chunks : ChunkStands(x, i)'
    BY <1>0, <2>1, <2>2, MailAlone
  <2>3. mail_broadcast'[b] = new /\ mail_chunk'[b] = tasks
    BY <1>0, <2>1
  <2>4. \A i \in Mail!Chunks : <<b, i>> \notin mail_counted
    BY <1>0, <2>1 DEF ChunkStands, Found
  <2>5. ASSUME NEW i \in Mail!Chunks PROVE ChunkStands(b, i)'
    BY <2>1, <2>3, <2>4 DEF ChunkStands, Started, Recipients, Mail!Absent
  <2>6. RowStands(b)'
    <3>1. PICK f \in [Mail!Chunks -> Nat] : f = Mail!reached(b)'
      /\ \A i \in Mail!Chunks : f[i] = 0
      <4>1. Mail!reached(b)' = [i \in Mail!Chunks |-> 0]
        BY <2>1, <2>4 DEF Mail!reached
      <4> QED BY <4>1
    <3>2. Mail!total(f) = 0 /\ n # 0
      BY <3>1, NoTotal DEF Mail!Tickets
    <3> QED BY <2>3, <3>1, <3>2 DEF RowStands, Recipients
  <2>7. mail_broadcast' \in [MailBroadcasts -> CountedRows \cup {Mail!Absent}]
    <3> HIDE DEF new
    <3> QED BY <1>0, <2>1
  <2>8. mail_chunk' = [x \in MailBroadcasts |-> [i \in Mail!Chunks |-> mail_chunk'[x][i]]]
    BY <2>1 DEF MailInv
  <2> QED BY <2>2, <2>5, <2>6, <2>7, <2>8 DEF MailInv
<1>3. ASSUME NEW b \in MailBroadcasts, Mail!commit_broadcast(b) PROVE MailInv'
  <2>1. PICK row \in CountedRows : row = mail_broadcast[b] /\ row.status = "unsaved"
    BY <1>3, SentRow DEF Mail!commit_broadcast, Started
  <2>2. PICK new : new = [row EXCEPT !.status = "sending"]
    OBVIOUS
  <2>3. /\ new \in CountedRows /\ new.status = "sending"
        /\ new.recipient_count = row.recipient_count
        /\ new.sent_count = row.sent_count /\ new.failed_count = row.failed_count
    BY <2>2 DEF CountedRows
  <2>4. mail_broadcast' = [mail_broadcast EXCEPT ![b] = new]
    /\ UNCHANGED <<mail_chunk, mail_counted>>
    BY <1>3, <2>1, <2>2 DEF Mail!commit_broadcast
  <2>5. ASSUME NEW x \in MailBroadcasts, x # b
        PROVE  RowStands(x)' /\ \A i \in Mail!Chunks : ChunkStands(x, i)'
    BY <1>0, <2>4, <2>5, MailAlone
  <2>6. mail_broadcast'[b] = new
    BY <1>0, <2>4
  <2>7. Recipients(b)' = Recipients(b) /\ Mail!reached(b)' = Mail!reached(b)
    BY <2>1, <2>3, <2>4, <2>6 DEF Recipients, Mail!reached
  <2>8. RowStands(b)'
    BY <1>0, <2>1, <2>3, <2>6, <2>7 DEF RowStands, Started
  <2>9. ASSUME NEW i \in Mail!Chunks PROVE ChunkStands(b, i)'
    BY <1>0, <2>1, <2>3, <2>4, <2>6, <2>7 DEF ChunkStands, Started, Found
  <2>10. mail_broadcast' \in [MailBroadcasts -> CountedRows \cup {Mail!Absent}]
    BY <1>0, <2>3, <2>4
  <2> QED BY <2>4, <2>5, <2>8, <2>9, <2>10 DEF MailInv
<1>4. ASSUME NEW b \in MailBroadcasts, NEW i \in Mail!Chunks, NEW new,
             mail_chunk' = [mail_chunk EXCEPT ![b][i] = new],
               UNCHANGED <<mail_broadcast, mail_counted>>,
             \/ new.status = "done"
             \/ /\ new.status = "mailed" /\ mail_chunk[b][i].status = "queued"
                /\ new.sent \in Nat /\ new.failed \in Nat
                /\ new.sent + new.failed = mail_chunk[b][i].size
      PROVE  MailInv'
  <2>1. ASSUME NEW x \in MailBroadcasts, x # b
        PROVE  RowStands(x)' /\ \A k \in Mail!Chunks : ChunkStands(x, k)'
    <3>1. mail_chunk'[x] = mail_chunk[x]
      BY <1>0, <1>4, <2>1
    <3> QED BY <1>0, <1>4, <3>1, MailAlone
  <2>2. mail_chunk'[b][i] = new /\ \A k \in Mail!Chunks : k # i
    => mail_chunk'[b][k] = mail_chunk[b][k]
    BY <1>0, <1>4
  <2>3. RowStands(b)'
    <3>1. Mail!reached(b)' = Mail!reached(b)
      BY <1>4 DEF Mail!reached
    <3> QED BY <1>0, <1>4, <3>1 DEF RowStands, Started, Recipients
  <2>4. ASSUME NEW k \in Mail!Chunks PROVE ChunkStands(b, k)'
    <3>1. CASE k # i
      BY <1>0, <1>4, <2>2, <3>1 DEF ChunkStands, Started, Found, Recipients
    <3>2. CASE k = i
      BY <1>0, <1>4, <2>2, <3>2 DEF ChunkStands, Started, Found, Recipients
    <3> QED BY <3>1, <3>2
  <2>5. mail_chunk' = [x \in MailBroadcasts |-> [k \in Mail!Chunks |-> mail_chunk'[x][k]]]
    BY <1>4 DEF MailInv
  <2> QED BY <1>0, <1>4, <2>1, <2>3, <2>4, <2>5 DEF MailInv
<1>5. ASSUME NEW b \in MailBroadcasts, NEW i \in Mail!Chunks, NEW ok \in 0..MailChunkSize,
             Mail!begin_chunk(b, i, ok)
      PROVE  MailInv'
  <2> DEFINE new == [status |-> "mailed", sent |-> ok,
    failed |-> mail_chunk[b][i].size - ok,
                     seen |-> mail_broadcast[b]]
  <2>1. mail_chunk[b][i].size \in Nat /\ ok \in Nat /\ ok <= mail_chunk[b][i].size
    <3>1. mail_chunk[b][i].status = "queued"
      BY <1>5 DEF Mail!begin_chunk
    <3>2. Started(b) /\ i \in Mail!chunks(Recipients(b))
      /\ mail_chunk[b][i].size = Mail!size(Recipients(b), i)
      BY <1>0, <3>1 DEF ChunkStands
    <3> QED BY <1>5, <3>2, SentRow, SomeInEach, Chunked DEF Mail!begin_chunk
  <2>2. /\ new.status = "mailed" /\ new.sent \in Nat /\ new.failed \in Nat
        /\ new.sent + new.failed = mail_chunk[b][i].size
    BY <2>1
  <2>3. /\ mail_chunk' = [mail_chunk EXCEPT ![b][i] = new]
        /\ UNCHANGED <<mail_broadcast, mail_counted>>
        /\ mail_chunk[b][i].status = "queued"
    BY <1>5 DEF Mail!begin_chunk
  <2> QED BY <1>4, <2>2, <2>3
<1>6. ASSUME NEW b \in MailBroadcasts, NEW i \in Mail!Chunks, Mail!lose_chunk(b, i)
      PROVE MailInv'
  <2>1. mail_chunk' = [mail_chunk EXCEPT ![b][i] = [status |-> "done"]]
    /\ UNCHANGED <<mail_broadcast, mail_counted>>
    BY <1>6 DEF Mail!lose_chunk
  <2>2. [status |-> "done"].status = "done"
    OBVIOUS
  <2> QED BY <1>4, <2>1, <2>2
<1>7. ASSUME NEW b \in MailBroadcasts, NEW i \in Mail!Chunks,
             Mail!send_broadcast_chunk(b, i) PROVE MailInv'
  <2>1. /\ mail_chunk' = [mail_chunk EXCEPT ![b][i] = [status |-> "done"]]
        /\ mail_chunk[b][i].status = "mailed"
    BY <1>7 DEF Mail!send_broadcast_chunk
  <2>2. [status |-> "done"].status = "done"
    OBVIOUS
  <2>3. CASE ~Found(b)
    <3>1. UNCHANGED <<mail_broadcast, mail_counted>>
      BY <1>7, <2>3 DEF Mail!send_broadcast_chunk, Found
    <3> QED BY <1>4, <2>1, <2>2, <3>1
  <2>4. CASE Found(b)
    <3>1. /\ mail_broadcast' = [mail_broadcast EXCEPT ![b] =
               Mail!folded(mail_broadcast[b], mail_chunk[b][i])]
          /\ mail_counted' = mail_counted \cup {<<b, i>>}
      BY <1>7, <2>4 DEF Mail!send_broadcast_chunk, Found
    <3>2. /\ mail_broadcast' \in [MailBroadcasts -> CountedRows \cup {Mail!Absent}]
          /\ Recipients(b)' = Recipients(b) /\ Found(b)' /\ RowStands(b)'
      BY <2>1, <2>4, <3>1, Folds
    <3>3. ASSUME NEW x \in MailBroadcasts, x # b
          PROVE  RowStands(x)' /\ \A k \in Mail!Chunks : ChunkStands(x, k)'
      <4>1. mail_chunk'[x] = mail_chunk[x] /\ mail_broadcast'[x] = mail_broadcast[x]
        BY <1>0, <2>1, <3>1, <3>3
      <4>2. \A k \in Mail!Chunks : <<x, k>> \in mail_counted' <=> <<x, k>> \in mail_counted
        BY <3>1, <3>3
      <4> QED BY <1>0, <4>1, <4>2, MailAlone
    <3>4. mail_chunk'[b][i].status = "done" /\ \A k \in Mail!Chunks : k # i
      => mail_chunk'[b][k] = mail_chunk[b][k]
      BY <1>0, <2>1
    <3>5. ASSUME NEW k \in Mail!Chunks PROVE ChunkStands(b, k)'
      <4>1. Started(b)'
        BY <3>2 DEF Started, Found
      <4>2. CASE k # i
        <5>1. <<b, k>> \in mail_counted' <=> <<b, k>> \in mail_counted
          BY <3>1, <4>2
        <5> QED BY <1>0, <3>2, <3>4, <4>1, <4>2, <5>1 DEF ChunkStands
      <4>3. CASE k = i
        <5>1. i \in Mail!chunks(Recipients(b))
          BY <1>0, <2>1 DEF ChunkStands
        <5> QED BY <3>2, <3>4, <4>1, <4>3, <5>1 DEF ChunkStands
      <4> QED BY <4>2, <4>3
    <3>6. mail_chunk' = [x \in MailBroadcasts |-> [k \in Mail!Chunks |-> mail_chunk'[x][k]]]
      BY <2>1 DEF MailInv
    <3> QED BY <3>2, <3>3, <3>5, <3>6 DEF MailInv
  <2> QED BY <2>3, <2>4
<1>8. ASSUME \/ \E e \in MailEmails :
                 \/ Mail!subscribe(e)
                 \/ \E outcome \in {"sent", "refused", "unknown"} :
                      Mail!send_email_task(e, outcome)
                 \/ \E a \in MailAdmins : Mail!queue_mail(a, e)
             \/ \E a \in MailAdmins : Mail!begin_announce(a) \/ Mail!announce(a)
                  \/ Mail!announce_fails(a)
             \/ \E s \in MailSales : Mail!notify(s) \/ Mail!commit_sale(s)
                  \/ Mail!roll_back_sale(s)
             \/ Mail!cooldown_ends
             \/ \E u \in MailMembers : Mail!mark_all_read(u)
                  \/ \E s \in MailSales : Mail!mark_read(u, s)
             \/ UNCHANGED Mail!mailVars
      PROVE  UNCHANGED Mail!broadcastVars
  BY <1>8 DEF Mail!subscribe, Mail!send_email_task, Mail!queue_mail, Mail!begin_announce,
     Mail!announce, Mail!announce_fails, Mail!notify, Mail!commit_sale, Mail!roll_back_sale,
     Mail!cooldown_ends, Mail!mark_all_read, Mail!mark_read, Mail!mailVars
<1> QED BY <1>1, <1>2, <1>3, <1>5, <1>6, <1>7, <1>8 DEF Mail!Next, Mail!work

\* The counts of a broadcast are those of the chunks that found its row, however chunks
\* overlap, and it is completed exactly when they are all its recipients.
THEOREM CountsExact == Mail!Spec => []CountsAreExact
<1>1. MailInv => CountsAreExact
  BY DEF MailInv, CountsAreExact, Mail!CountsAreExact, RowStands, Started, Recipients
<1> QED BY <1>1, MailInit, MailNext, PTL DEF Mail!Spec

(***************************************************************************)
(* The waitlist                                                            *)
(***************************************************************************)

Counters == [queued : Nat, tries : Nat, received : Nat, in_doubt : Nat]
WaitlistRuns == [op : {"announce"}, rows : SUBSET MailEmails, queued : SUBSET MailEmails]

\* A subscriber who was announced to, or is being.
Taken(e) ==
    \/ mail_subscriber[e] = "notified"
    \/ \E a \in MailAdmins : mail_announcement[a] # Mail!Idle /\ e \in mail_announcement[a].queued

WaitlistTypes ==
    /\ mail_subscriber \in [MailEmails -> {"none", "pending", "notified"}]
    /\ mail_mail \in [MailEmails -> Counters]
    /\ mail_failed_runs \in [MailEmails -> Nat]
    /\ mail_announcement \in [MailAdmins -> WaitlistRuns \cup {Mail!Idle}]

\* The rows an announcement has locked are its own and not yet marked.
RowsAreItsOwn ==
    \A a \in MailAdmins : mail_announcement[a] # Mail!Idle =>
        /\ mail_announcement[a].queued \subseteq mail_announcement[a].rows
        /\ \A e \in mail_announcement[a].rows : mail_subscriber[e] = "pending"
        /\ \A b \in MailAdmins : b # a /\ mail_announcement[b] # Mail!Idle =>
             mail_announcement[a].rows \cap mail_announcement[b].rows = {}

\* Messages to an address are accounted for.
MessagesOf(e) ==
    mail_mail[e].received + mail_mail[e].queued
        <= mail_failed_runs[e] + mail_mail[e].in_doubt + (IF Taken(e) THEN 1 ELSE 0)

WaitlistInv == WaitlistTypes /\ RowsAreItsOwn /\ \A e \in MailEmails : MessagesOf(e)

\* Nobody has been written to.
LEMMA InitWaitlist == Mail!Init => WaitlistInv
<1> SUFFICES ASSUME Mail!Init PROVE WaitlistInv
  OBVIOUS
<1>1. WaitlistTypes
  BY DEF Mail!Init, WaitlistTypes, Counters, WaitlistRuns
<1>2. RowsAreItsOwn
  BY DEF Mail!Init, RowsAreItsOwn
<1>3. ASSUME NEW e \in MailEmails PROVE MessagesOf(e)
  <2>1. /\ mail_mail[e] = [queued |-> 0, tries |-> 0, received |-> 0, in_doubt |-> 0]
        /\ mail_failed_runs[e] = 0
    BY DEF Mail!Init
  <2> QED BY <2>1 DEF MessagesOf
<1> QED BY <1>1, <1>2, <1>3 DEF WaitlistInv

\* An account no longer than the one before it is still in order.
LEMMA MessagesRest ==
  ASSUME WaitlistTypes, NEW e \in MailEmails, MessagesOf(e), Taken(e) => Taken(e)',
         mail_mail'[e] = mail_mail[e], mail_failed_runs'[e] = mail_failed_runs[e]
  PROVE  MessagesOf(e)'
<1>1. mail_mail[e] \in Counters /\ mail_failed_runs[e] \in Nat
  BY DEF WaitlistTypes
<1> QED BY <1>1 DEF MessagesOf, Counters

\* An announcement queues mail for a row nobody else has, once; marks what it has
\* queued; or fails, which failed_runs counts.
LEMMA WaitlistNext == WaitlistInv /\ [Mail!Next]_(Mail!mailVars) => WaitlistInv'
<1> SUFFICES ASSUME WaitlistInv, [Mail!Next]_(Mail!mailVars) PROVE WaitlistInv'
  OBVIOUS
<1>0. WaitlistTypes /\ RowsAreItsOwn /\ \A e \in MailEmails : MessagesOf(e)
  BY DEF WaitlistInv
<1>1. CASE UNCHANGED Mail!waitlistVars
  BY <1>0, <1>1 DEF Mail!waitlistVars, WaitlistInv, WaitlistTypes, RowsAreItsOwn, MessagesOf,
     Taken
<1>2. ASSUME NEW x \in MailEmails, Mail!subscribe(x) PROVE WaitlistInv'
  <2>1. /\ mail_subscriber[x] = "none"
        /\ mail_subscriber' = [mail_subscriber EXCEPT ![x] = "pending"]
        /\ UNCHANGED <<mail_mail, mail_announcement, mail_failed_runs>>
    BY <1>2 DEF Mail!subscribe
  <2>2. WaitlistTypes'
    BY <1>0, <2>1 DEF WaitlistTypes
  <2>3. RowsAreItsOwn'
    BY <1>0, <2>1 DEF RowsAreItsOwn, WaitlistTypes
  <2>4. ASSUME NEW e \in MailEmails PROVE MessagesOf(e)'
    <3>1. Taken(e) => Taken(e)'
      BY <1>0, <2>1 DEF Taken, WaitlistTypes
    <3> QED BY <1>0, <2>1, <3>1, MessagesRest
  <2> QED BY <2>2, <2>3, <2>4 DEF WaitlistInv
<1>3. ASSUME NEW a \in MailAdmins, Mail!begin_announce(a) PROVE WaitlistInv'
  <2> DEFINE new == [op |-> "announce", rows |-> Mail!unnotified, queued |-> {}]
  <2>1. /\ mail_announcement[a] = Mail!Idle
        /\ mail_announcement' = [mail_announcement EXCEPT ![a] = new]
        /\ UNCHANGED <<mail_subscriber, mail_mail, mail_failed_runs>>
    BY <1>3 DEF Mail!begin_announce
  <2>2. /\ new \in WaitlistRuns
        /\ \A e \in new.rows : mail_subscriber[e] = "pending"
        /\ \A b \in MailAdmins : mail_announcement[b] # Mail!Idle =>
             new.rows \cap mail_announcement[b].rows = {}
    BY DEF Mail!unnotified, Mail!locked, WaitlistRuns
  <2>3. new.queued = {}
    OBVIOUS
  <2> HIDE DEF new
  <2>4. WaitlistTypes'
    BY <1>0, <2>1, <2>2 DEF WaitlistTypes
  <2>5. mail_announcement'[a] = new /\ \A b \in MailAdmins \ {a} :
          mail_announcement'[b] = mail_announcement[b]
    BY <1>0, <2>1 DEF WaitlistTypes
  <2>6. RowsAreItsOwn'
    BY <1>0, <2>1, <2>2, <2>3, <2>5 DEF RowsAreItsOwn
  <2>7. ASSUME NEW e \in MailEmails PROVE MessagesOf(e)'
    <3>1. Taken(e) => Taken(e)'
      BY <2>1, <2>5 DEF Taken
    <3> QED BY <1>0, <2>1, <3>1, MessagesRest
  <2> QED BY <2>4, <2>6, <2>7 DEF WaitlistInv
<1>4. ASSUME NEW a \in MailAdmins, NEW x \in MailEmails, Mail!queue_mail(a, x)
      PROVE WaitlistInv'
  <2>1. /\ mail_announcement[a] # Mail!Idle
        /\ x \in mail_announcement[a].rows /\ x \notin mail_announcement[a].queued
        /\ mail_announcement' = [mail_announcement EXCEPT ![a].queued = @ \cup {x}]
        /\ mail_mail' = [mail_mail EXCEPT ![x].queued = @ + 1]
        /\ UNCHANGED <<mail_subscriber, mail_failed_runs>>
    BY <1>4 DEF Mail!queue_mail
  <2>2. mail_announcement[a] \in WaitlistRuns
    BY <1>0, <2>1 DEF WaitlistTypes
  <2>3. /\ mail_announcement'[a] # Mail!Idle /\ mail_announcement'[a] \in WaitlistRuns
        /\ mail_announcement'[a].rows = mail_announcement[a].rows
        /\ mail_announcement'[a].queued = mail_announcement[a].queued \cup {x}
    BY <1>0, <2>1, <2>2 DEF WaitlistTypes, WaitlistRuns, Mail!Idle
  <2>4. \A b \in MailAdmins \ {a} : mail_announcement'[b] = mail_announcement[b]
    BY <1>0, <2>1 DEF WaitlistTypes
  <2>5. mail_mail[x] \in Counters /\ mail_failed_runs[x] \in Nat
    BY <1>0 DEF WaitlistTypes
  <2>6. /\ mail_mail'[x] \in Counters /\ mail_mail'[x].queued = mail_mail[x].queued + 1
        /\ mail_mail'[x].received = mail_mail[x].received
        /\ mail_mail'[x].in_doubt = mail_mail[x].in_doubt
    BY <1>0, <2>1, <2>5 DEF WaitlistTypes, Counters
  <2>7. \A e \in MailEmails \ {x} : mail_mail'[e] = mail_mail[e]
    BY <1>0, <2>1 DEF WaitlistTypes
  <2>8. WaitlistTypes'
    <3>1. mail_mail' \in [MailEmails -> Counters]
      BY <1>0, <2>1, <2>6 DEF WaitlistTypes
    <3>2. mail_announcement' \in [MailAdmins -> WaitlistRuns \cup {Mail!Idle}]
      BY <1>0, <2>1, <2>3 DEF WaitlistTypes
    <3> QED BY <1>0, <2>1, <3>1, <3>2 DEF WaitlistTypes
  <2>9. RowsAreItsOwn'
    BY <1>0, <2>1, <2>3, <2>4 DEF RowsAreItsOwn
  <2>10. ~Taken(x)
    BY <1>0, <2>1 DEF Taken, RowsAreItsOwn
  <2>11. ASSUME NEW e \in MailEmails PROVE MessagesOf(e)'
    <3>1. CASE e = x
      <4>1. Taken(x)'
        BY <2>3 DEF Taken
      <4> QED BY <1>0, <2>1, <2>5, <2>6, <2>10, <3>1, <4>1 DEF MessagesOf, Counters
    <3>2. CASE e # x
      <4>1. Taken(e) => Taken(e)'
        BY <2>1, <2>3, <2>4 DEF Taken
      <4> QED BY <1>0, <2>1, <2>7, <3>2, <4>1, MessagesRest
    <3> QED BY <3>1, <3>2
  <2> QED BY <2>8, <2>9, <2>11 DEF WaitlistInv
<1>5. ASSUME NEW a \in MailAdmins, mail_announcement[a] # Mail!Idle,
             mail_announcement' = [mail_announcement EXCEPT ![a] = Mail!Idle]
      PROVE  /\ mail_announcement' \in [MailAdmins -> WaitlistRuns \cup {Mail!Idle}]
             /\ mail_announcement'[a] = Mail!Idle
             /\ \A b \in MailAdmins \ {a} : mail_announcement'[b] = mail_announcement[b]
             /\ mail_announcement[a] \in WaitlistRuns
  BY <1>0, <1>5 DEF WaitlistTypes
<1>6. ASSUME NEW a \in MailAdmins, Mail!announce(a) PROVE WaitlistInv'
  <2> DEFINE rows == mail_announcement[a].rows
  <2>1. /\ mail_announcement[a] # Mail!Idle /\ mail_announcement[a].queued = rows
        /\ mail_subscriber' = [e \in MailEmails |->
             IF e \in rows THEN "notified" ELSE mail_subscriber[e]]
        /\ mail_announcement' = [mail_announcement EXCEPT ![a] = Mail!Idle]
        /\ UNCHANGED <<mail_mail, mail_failed_runs>>
    BY <1>6 DEF Mail!announce
  <2>2. WaitlistTypes'
    BY <1>0, <1>5, <2>1 DEF WaitlistTypes
  <2>3. RowsAreItsOwn'
    <3> SUFFICES ASSUME NEW b \in MailAdmins, mail_announcement'[b] # Mail!Idle
                 PROVE  /\ mail_announcement'[b].queued \subseteq mail_announcement'[b].rows
                        /\ \A e \in mail_announcement'[b].rows : mail_subscriber'[e] = "pending"
                        /\ \A c \in MailAdmins : c # b /\ mail_announcement'[c] # Mail!Idle =>
                             mail_announcement'[b].rows \cap mail_announcement'[c].rows = {}
      BY DEF RowsAreItsOwn
    <3>1. b # a /\ mail_announcement'[b] = mail_announcement[b]
      BY <1>5, <2>1
    <3>2. mail_announcement[b] \in WaitlistRuns
      BY <1>0, <3>1 DEF WaitlistTypes
    <3>3. ASSUME NEW e \in mail_announcement[b].rows PROVE mail_subscriber'[e] = "pending"
      <4>1. e \notin rows /\ e \in MailEmails /\ mail_subscriber[e] = "pending"
        BY <1>0, <2>1, <3>1, <3>2 DEF RowsAreItsOwn, WaitlistRuns
      <4> QED BY <2>1, <4>1
    <3>4. ASSUME NEW c \in MailAdmins, c # b, mail_announcement'[c] # Mail!Idle
          PROVE  mail_announcement'[c] = mail_announcement[c]
      BY <1>5, <2>1, <3>4
    <3> QED BY <1>0, <3>1, <3>3, <3>4 DEF RowsAreItsOwn
  <2>4. ASSUME NEW e \in MailEmails PROVE MessagesOf(e)'
    <3>1. Taken(e) => Taken(e)'
      <4>1. CASE e \in rows
        BY <2>1, <4>1 DEF Taken
      <4>2. CASE e \notin rows
        BY <1>5, <2>1, <4>2 DEF Taken
      <4> QED BY <4>1, <4>2
    <3> QED BY <1>0, <2>1, <3>1, MessagesRest
  <2> QED BY <2>2, <2>3, <2>4 DEF WaitlistInv
<1>7. ASSUME NEW a \in MailAdmins, Mail!announce_fails(a) PROVE WaitlistInv'
  <2> DEFINE queued == mail_announcement[a].queued
  <2>1. /\ mail_announcement[a] # Mail!Idle
        /\ mail_failed_runs' = [e \in MailEmails |->
             mail_failed_runs[e] + (IF e \in queued THEN 1 ELSE 0)]
        /\ mail_announcement' = [mail_announcement EXCEPT ![a] = Mail!Idle]
        /\ UNCHANGED <<mail_mail, mail_subscriber>>
    BY <1>7 DEF Mail!announce_fails
  <2>2. \A e \in MailEmails : mail_failed_runs[e] \in Nat
    BY <1>0 DEF WaitlistTypes
  <2>3. WaitlistTypes'
    <3>1. mail_failed_runs' \in [MailEmails -> Nat]
      BY <2>1, <2>2
    <3> QED BY <1>0, <1>5, <2>1, <3>1 DEF WaitlistTypes
  <2>4. RowsAreItsOwn'
    BY <1>0, <1>5, <2>1 DEF RowsAreItsOwn
  <2>5. ASSUME NEW e \in MailEmails PROVE MessagesOf(e)'
    <3>1. CASE e \in queued
      <4>1. mail_failed_runs'[e] = mail_failed_runs[e] + 1
        BY <2>1, <3>1
      <4>2. mail_mail[e] \in Counters /\ mail_mail'[e] = mail_mail[e]
        BY <1>0, <2>1 DEF WaitlistTypes
      <4> QED BY <1>0, <2>2, <4>1, <4>2 DEF MessagesOf, Counters
    <3>2. CASE e \notin queued
      <4>1. Taken(e) => Taken(e)'
        BY <1>5, <2>1, <3>2 DEF Taken
      <4>2. mail_failed_runs'[e] = mail_failed_runs[e]
        BY <2>1, <2>2, <3>2
      <4> QED BY <1>0, <2>1, <4>1, <4>2, MessagesRest
    <3> QED BY <3>1, <3>2
  <2> QED BY <2>3, <2>4, <2>5 DEF WaitlistInv
<1>8. ASSUME NEW x \in MailEmails, NEW outcome \in {"sent", "refused", "unknown"},
             Mail!send_email_task(x, outcome)
      PROVE  WaitlistInv'
  <2> DEFINE old == mail_mail[x]
             over == outcome = "sent" \/ old.tries = MailMaxRetries
             new == [queued |-> IF over THEN old.queued - 1 ELSE old.queued,
                     tries |-> IF over THEN 0 ELSE old.tries + 1,
                     received |-> IF outcome = "refused" THEN old.received ELSE old.received + 1,
                     in_doubt |-> IF outcome = "unknown" THEN old.in_doubt + 1
                                                          ELSE old.in_doubt]
  <2>1. old.queued > 0 /\ mail_mail' = [mail_mail EXCEPT ![x] = new]
    BY <1>8 DEF Mail!send_email_task
  <2>2. UNCHANGED <<mail_subscriber, mail_announcement, mail_failed_runs>>
    BY <1>8 DEF Mail!send_email_task
  <2>3. old \in Counters
    BY <1>0 DEF WaitlistTypes
  <2>4. /\ new \in Counters
        /\ new.received + new.queued - new.in_doubt
             <= old.received + old.queued - old.in_doubt
    <3>1. new \in Counters
      BY <2>1, <2>3 DEF Counters
    <3>2. CASE outcome = "sent"
      BY <2>1, <2>3, <3>2 DEF Counters
    <3>3. CASE outcome = "refused"
      BY <2>1, <2>3, <3>3 DEF Counters
    <3>4. CASE outcome = "unknown"
      BY <2>1, <2>3, <3>4 DEF Counters
    <3> QED BY <3>1, <3>2, <3>3, <3>4
  <2> HIDE DEF new
  <2>5. WaitlistTypes'
    BY <1>0, <2>1, <2>2, <2>4 DEF WaitlistTypes
  <2>6. RowsAreItsOwn'
    BY <1>0, <2>2 DEF RowsAreItsOwn
  <2>7. ASSUME NEW e \in MailEmails PROVE MessagesOf(e)'
    <3>1. Taken(e)' <=> Taken(e)
      BY <2>2 DEF Taken
    <3>2. CASE e = x
      <4>1. mail_mail'[x] = new
        BY <1>0, <2>1 DEF WaitlistTypes
      <4>2. mail_failed_runs'[x] = mail_failed_runs[x] /\ mail_failed_runs[x] \in Nat
        BY <1>0, <2>2 DEF WaitlistTypes
      <4>3. MessagesOf(x)
        BY <1>0
      <4>4. /\ old.received \in Nat /\ old.queued \in Nat /\ old.in_doubt \in Nat
            /\ new.received \in Nat /\ new.queued \in Nat /\ new.in_doubt \in Nat
        BY <2>3, <2>4 DEF Counters
      <4>5. new.received + new.queued - new.in_doubt
              <= mail_failed_runs[x] + (IF Taken(x) THEN 1 ELSE 0)
        BY <2>4, <4>2, <4>3, <4>4 DEF MessagesOf
      <4> QED BY <3>1, <3>2, <4>1, <4>2, <4>4, <4>5 DEF MessagesOf
    <3>3. CASE e # x
      <4>1. mail_mail'[e] = mail_mail[e] /\ mail_failed_runs'[e] = mail_failed_runs[e]
        BY <1>0, <2>1, <2>2, <3>3 DEF WaitlistTypes
      <4> QED BY <1>0, <3>1, <4>1, MessagesRest
    <3> QED BY <3>2, <3>3
  <2> QED BY <2>5, <2>6, <2>7 DEF WaitlistInv
<1>9. ASSUME NEW b \in MailBroadcasts,
             \/ \E n \in Mail!Tickets : Mail!send(b, n)
             \/ Mail!commit_broadcast(b)
             \/ \E i \in Mail!Chunks : Mail!work(b, i) \/ Mail!lose_chunk(b, i)
      PROVE  UNCHANGED Mail!waitlistVars
  BY <1>9 DEF Mail!send, Mail!commit_broadcast, Mail!work, Mail!begin_chunk,
     Mail!send_broadcast_chunk, Mail!lose_chunk
<1>10. ASSUME \/ \E s \in MailSales : Mail!notify(s) \/ Mail!commit_sale(s)
                   \/ Mail!roll_back_sale(s)
              \/ Mail!cooldown_ends
              \/ \E u \in MailMembers : Mail!mark_all_read(u)
                   \/ \E s \in MailSales : Mail!mark_read(u, s)
              \/ UNCHANGED Mail!mailVars
       PROVE  UNCHANGED Mail!waitlistVars
  BY <1>10 DEF Mail!notify, Mail!commit_sale, Mail!roll_back_sale, Mail!cooldown_ends,
     Mail!mark_all_read, Mail!mark_read, Mail!mailVars
<1>11. CASE \E e \in MailEmails :
              \/ Mail!subscribe(e)
              \/ \E outcome \in {"sent", "refused", "unknown"} : Mail!send_email_task(e, outcome)
              \/ \E a \in MailAdmins : Mail!queue_mail(a, e)
  BY <1>11, <1>2, <1>4, <1>8
<1>12. CASE \E a \in MailAdmins : Mail!begin_announce(a) \/ Mail!announce(a)
              \/ Mail!announce_fails(a)
  BY <1>12, <1>3, <1>6, <1>7
<1> QED BY <1>1, <1>9, <1>10, <1>11, <1>12 DEF Mail!Next

\* However announcements overlap, a subscriber is sent one message, and one more for each
\* failed run that had queued it and each attempt nobody knows the end of (waitlist.py).
THEOREM AnnouncedToOnce == Mail!Spec => []Mail!AnnouncedOnce
<1>1. WaitlistInv => Mail!AnnouncedOnce
  <2> SUFFICES ASSUME WaitlistInv, NEW e \in MailEmails
               PROVE  mail_mail[e].received + mail_mail[e].queued
                        <= 1 + mail_failed_runs[e] + mail_mail[e].in_doubt
    BY DEF Mail!AnnouncedOnce
  <2>1. MessagesOf(e) /\ mail_mail[e] \in Counters /\ mail_failed_runs[e] \in Nat
    BY DEF WaitlistInv, WaitlistTypes
  <2> QED BY <2>1 DEF MessagesOf, Counters
<1> QED BY <1>1, InitWaitlist, WaitlistNext, PTL DEF Mail!Spec

(***************************************************************************)
(* Notices                                                                 *)
(***************************************************************************)

Notified == [op : {"sale", "done", "failed"}, window : Nat, notifies : SUBSET MailMembers]

NoticeTypes ==
    /\ mail_window \in Nat /\ mail_cooldown \in BOOLEAN
    /\ mail_sale \in [MailSales -> Notified \cup {Mail!Idle}]
    /\ mail_bell \in [MailMembers -> [MailSales -> {"none", "unread", "read"}]]

WillRing(s) == mail_sale[s] # Mail!Idle /\ mail_sale[s].notifies # {}

\* While a sale that notifies is of the present window the cooldown is on, and no two
\* of them are of one window.
WindowsAreTaken ==
    \A s \in MailSales : mail_sale[s] # Mail!Idle =>
        /\ mail_sale[s].window <= mail_window
        /\ WillRing(s) /\ mail_sale[s].window = mail_window => mail_cooldown
        /\ \A t \in MailSales : s # t /\ WillRing(s) /\ WillRing(t) =>
             mail_sale[s].window # mail_sale[t].window

\* What is in the bell was committed by a sale that notifies.
BellsAreRung ==
    \A u \in MailMembers, s \in MailSales : mail_bell[u][s] # "none" => WillRing(s)

NoticesInv == NoticeTypes /\ WindowsAreTaken /\ BellsAreRung

\* Nobody has been notified.
LEMMA InitNotices == Mail!Init => NoticesInv
<1> SUFFICES ASSUME Mail!Init PROVE NoticesInv
  OBVIOUS
<1>1. /\ mail_window = 0 /\ mail_cooldown = FALSE
      /\ mail_sale = [s \in MailSales |-> Mail!Idle]
      /\ mail_bell = [u \in MailMembers |-> [s \in MailSales |-> "none"]]
  BY DEF Mail!Init
<1>2. NoticeTypes
  BY <1>1 DEF NoticeTypes
<1>3. WindowsAreTaken /\ BellsAreRung
  BY <1>1 DEF WindowsAreTaken, BellsAreRung
<1> QED BY <1>2, <1>3 DEF NoticesInv

\* The end of a sale changes neither its window nor whom it notifies.
LEMMA SaleEnds ==
  ASSUME NoticesInv, NEW s \in MailSales, NEW over \in {"done", "failed"},
         mail_sale[s].op = "sale", mail_sale' = [mail_sale EXCEPT ![s].op = over],
         UNCHANGED <<mail_cooldown, mail_window>>
  PROVE  /\ mail_sale' \in [MailSales -> Notified \cup {Mail!Idle}]
         /\ WindowsAreTaken' /\ \A t \in MailSales : WillRing(t)' <=> WillRing(t)
<1>1. mail_sale[s] \in Notified
  BY DEF NoticesInv, NoticeTypes, Mail!Idle
<1>2. mail_sale[s] # Mail!Idle
  BY DEF Mail!Idle
<1>3. /\ mail_sale'[s] \in Notified /\ mail_sale'[s] # Mail!Idle
      /\ mail_sale'[s].window = mail_sale[s].window
      /\ mail_sale'[s].notifies = mail_sale[s].notifies
  BY <1>1 DEF NoticesInv, NoticeTypes, Notified, Mail!Idle
<1>4. \A t \in MailSales \ {s} : mail_sale'[t] = mail_sale[t]
  BY DEF NoticesInv, NoticeTypes
<1>5. mail_sale' \in [MailSales -> Notified \cup {Mail!Idle}]
  BY <1>3, <1>4 DEF NoticesInv, NoticeTypes
<1>6. \A t \in MailSales : WillRing(t)' <=> WillRing(t)
  BY <1>2, <1>3, <1>4 DEF WillRing
<1>7. \A t \in MailSales : mail_sale'[t] # Mail!Idle =>
        mail_sale[t] # Mail!Idle /\ mail_sale'[t].window = mail_sale[t].window
  BY <1>2, <1>3, <1>4
<1>8. \A t \in MailSales : WillRing(t) => mail_sale'[t].window = mail_sale[t].window
  BY <1>3, <1>4
<1> QED BY <1>5, <1>6, <1>7, <1>8 DEF NoticesInv, WindowsAreTaken

\* A notice is taken where the cooldown is off, which turns it on.
LEMMA NoticesNext == NoticesInv /\ [Mail!Next]_(Mail!mailVars) => NoticesInv'
<1> SUFFICES ASSUME NoticesInv, [Mail!Next]_(Mail!mailVars) PROVE NoticesInv'
  OBVIOUS
<1>0. NoticeTypes /\ WindowsAreTaken /\ BellsAreRung
  BY DEF NoticesInv
<1>1. CASE UNCHANGED Mail!noticeVars
  BY <1>0, <1>1 DEF Mail!noticeVars, NoticesInv, NoticeTypes, WindowsAreTaken, BellsAreRung,
     WillRing
<1>2. ASSUME NEW s \in MailSales, Mail!notify(s) PROVE NoticesInv'
  <2> DEFINE new == [op |-> "sale", window |-> mail_window,
                     notifies |-> IF Mail!acquire THEN MailMembers ELSE {}]
  <2>1. /\ mail_sale[s] = Mail!Idle /\ mail_sale' = [mail_sale EXCEPT ![s] = new]
        /\ mail_cooldown' = TRUE /\ UNCHANGED <<mail_window, mail_bell>>
    BY <1>2 DEF Mail!notify
  <2>2. /\ new \in Notified /\ new # Mail!Idle /\ new.window = mail_window
        /\ new.notifies # {} => ~mail_cooldown
    BY <1>0 DEF Notified, NoticeTypes, Mail!Idle, Mail!acquire
  <2> HIDE DEF new
  <2>3. /\ mail_sale'[s] = new
        /\ \A t \in MailSales \ {s} : mail_sale'[t] = mail_sale[t]
    BY <1>0, <2>1 DEF NoticeTypes
  <2>4. NoticeTypes'
    BY <1>0, <2>1, <2>2 DEF NoticeTypes
  <2>5. BellsAreRung'
    BY <1>0, <2>1, <2>3 DEF BellsAreRung, WillRing
  <2>6. WindowsAreTaken'
    BY <1>0, <2>1, <2>2, <2>3 DEF WindowsAreTaken, WillRing, NoticeTypes
  <2> QED BY <2>4, <2>5, <2>6 DEF NoticesInv
<1>3. ASSUME NEW s \in MailSales, Mail!commit_sale(s) PROVE NoticesInv'
  <2>1. /\ mail_sale[s].op = "sale" /\ mail_sale' = [mail_sale EXCEPT ![s].op = "done"]
        /\ UNCHANGED <<mail_cooldown, mail_window>>
        /\ mail_bell' = [u \in MailMembers |-> IF u \in mail_sale[s].notifies
             THEN [mail_bell[u] EXCEPT ![s] = "unread"] ELSE mail_bell[u]]
    BY <1>3 DEF Mail!commit_sale
  <2>2. /\ mail_sale' \in [MailSales -> Notified \cup {Mail!Idle}]
        /\ WindowsAreTaken' /\ \A t \in MailSales : WillRing(t)' <=> WillRing(t)
    BY <2>1, SaleEnds
  <2>3. NoticeTypes'
    BY <1>0, <2>1, <2>2 DEF NoticeTypes
  <2>4. BellsAreRung'
    <3> SUFFICES ASSUME NEW u \in MailMembers, NEW t \in MailSales, mail_bell'[u][t] # "none"
                 PROVE  WillRing(t)
      BY <2>2 DEF BellsAreRung
    <3>1. CASE mail_bell[u][t] # "none"
      BY <1>0, <3>1 DEF BellsAreRung
    <3>2. CASE mail_bell[u][t] = "none"
      <4>1. u \in mail_sale[s].notifies /\ t = s
        BY <1>0, <2>1, <3>2 DEF NoticeTypes
      <4> QED BY <2>1, <4>1 DEF WillRing, Mail!Idle
    <3> QED BY <3>1, <3>2
  <2> QED BY <2>2, <2>3, <2>4 DEF NoticesInv
<1>4. ASSUME NEW s \in MailSales, Mail!roll_back_sale(s) PROVE NoticesInv'
  <2>1. /\ mail_sale[s].op = "sale" /\ mail_sale' = [mail_sale EXCEPT ![s].op = "failed"]
        /\ UNCHANGED <<mail_cooldown, mail_window, mail_bell>>
    BY <1>4 DEF Mail!roll_back_sale
  <2>2. /\ mail_sale' \in [MailSales -> Notified \cup {Mail!Idle}]
        /\ WindowsAreTaken' /\ \A t \in MailSales : WillRing(t)' <=> WillRing(t)
    BY <2>1, SaleEnds
  <2> QED BY <1>0, <2>1, <2>2 DEF NoticesInv, NoticeTypes, BellsAreRung
<1>5. CASE Mail!cooldown_ends
  <2>1. /\ mail_window' = mail_window + 1 /\ mail_cooldown' = FALSE
        /\ UNCHANGED <<mail_sale, mail_bell>>
    BY <1>5 DEF Mail!cooldown_ends
  <2>2. \A s \in MailSales : mail_sale[s] # Mail!Idle => mail_sale[s].window \in Nat
    BY <1>0 DEF NoticeTypes, Notified
  <2>3. WindowsAreTaken'
    BY <1>0, <2>1, <2>2 DEF WindowsAreTaken, NoticeTypes, WillRing
  <2>4. NoticeTypes'
    <3>1. mail_window \in Nat
      BY <1>0 DEF NoticeTypes
    <3>2. mail_window' = mail_window + 1
      BY <2>1
    <3>3. mail_window' \in Nat
      BY <3>1, <3>2
    <3>4. mail_cooldown' \in BOOLEAN
      BY <2>1
    <3> QED BY <1>0, <2>1, <3>3, <3>4 DEF NoticeTypes
  <2>5. BellsAreRung'
    BY <1>0, <2>1 DEF BellsAreRung, WillRing
  <2> QED BY <2>3, <2>4, <2>5 DEF NoticesInv
<1>6. ASSUME UNCHANGED <<mail_cooldown, mail_window, mail_sale>>,
             mail_bell' \in [MailMembers -> [MailSales -> {"none", "unread", "read"}]],
             \A u \in MailMembers, s \in MailSales :
               mail_bell'[u][s] # "none" => mail_bell[u][s] # "none"
      PROVE  NoticesInv'
  BY <1>0, <1>6 DEF NoticesInv, NoticeTypes, WindowsAreTaken, BellsAreRung, WillRing
<1>7. ASSUME NEW u \in MailMembers, NEW s \in MailSales, Mail!mark_read(u, s) PROVE NoticesInv'
  <2>1. /\ mail_bell[u][s] # "none" /\ mail_bell' = [mail_bell EXCEPT ![u][s] = "read"]
        /\ UNCHANGED <<mail_cooldown, mail_window, mail_sale>>
    BY <1>7 DEF Mail!mark_read
  <2>2. mail_bell' \in [MailMembers -> [MailSales -> {"none", "unread", "read"}]]
    BY <1>0, <2>1 DEF NoticeTypes
  <2>3. \A x \in MailMembers, t \in MailSales :
          mail_bell'[x][t] # "none" => mail_bell[x][t] # "none"
    BY <1>0, <2>1 DEF NoticeTypes
  <2> QED BY <1>6, <2>1, <2>2, <2>3
<1>8. ASSUME NEW u \in MailMembers, Mail!mark_all_read(u) PROVE NoticesInv'
  <2> DEFINE new == [s \in MailSales |->
                IF mail_bell[u][s] = "unread" THEN "read" ELSE mail_bell[u][s]]
  <2>1. /\ mail_bell' = [mail_bell EXCEPT ![u] = new]
        /\ UNCHANGED <<mail_cooldown, mail_window, mail_sale>>
    BY <1>8 DEF Mail!mark_all_read
  <2>2. /\ new \in [MailSales -> {"none", "unread", "read"}]
        /\ \A s \in MailSales : new[s] # "none" => mail_bell[u][s] # "none"
    BY <1>0 DEF NoticeTypes
  <2> HIDE DEF new
  <2>3. mail_bell' \in [MailMembers -> [MailSales -> {"none", "unread", "read"}]]
    BY <1>0, <2>1, <2>2 DEF NoticeTypes
  <2>4. \A x \in MailMembers, t \in MailSales :
          mail_bell'[x][t] # "none" => mail_bell[x][t] # "none"
    BY <1>0, <2>1, <2>2 DEF NoticeTypes
  <2> QED BY <1>6, <2>1, <2>3, <2>4
<1>9. ASSUME NEW b \in MailBroadcasts,
             \/ \E n \in Mail!Tickets : Mail!send(b, n)
             \/ Mail!commit_broadcast(b)
             \/ \E i \in Mail!Chunks : Mail!work(b, i) \/ Mail!lose_chunk(b, i)
      PROVE  UNCHANGED Mail!noticeVars
  BY <1>9 DEF Mail!send, Mail!commit_broadcast, Mail!work, Mail!begin_chunk,
     Mail!send_broadcast_chunk, Mail!lose_chunk
<1>10. ASSUME \/ \E e \in MailEmails :
                   \/ Mail!subscribe(e)
                   \/ \E outcome \in {"sent", "refused", "unknown"} :
                        Mail!send_email_task(e, outcome)
                   \/ \E a \in MailAdmins : Mail!queue_mail(a, e)
              \/ \E a \in MailAdmins : Mail!begin_announce(a) \/ Mail!announce(a)
                   \/ Mail!announce_fails(a)
              \/ UNCHANGED Mail!mailVars
       PROVE  UNCHANGED Mail!noticeVars
  BY <1>10 DEF Mail!subscribe, Mail!send_email_task, Mail!queue_mail, Mail!begin_announce,
     Mail!announce, Mail!announce_fails, Mail!mailVars
<1>11. CASE \E s \in MailSales : Mail!notify(s) \/ Mail!commit_sale(s) \/ Mail!roll_back_sale(s)
  BY <1>11, <1>2, <1>3, <1>4
<1>12. CASE \E u \in MailMembers : Mail!mark_all_read(u)
              \/ \E s \in MailSales : Mail!mark_read(u, s)
  BY <1>12, <1>7, <1>8
<1> QED BY <1>1, <1>5, <1>9, <1>10, <1>11, <1>12 DEF Mail!Next

\* Two notices of one window are never both in the bell, whatever sales overlap with the
\* end of a cooldown (org_notification_service.py).
THEOREM NoticesKeepApart == Mail!Spec => []Mail!OneNoticePerWindow
<1>1. NoticesInv => Mail!OneNoticePerWindow
  BY DEF NoticesInv, BellsAreRung, WindowsAreTaken, WillRing, Mail!OneNoticePerWindow
<1> QED BY <1>1, InitNotices, NoticesNext, PTL DEF Mail!Spec

===============================================================================
