--------------------------- MODULE Organizations ---------------------------
(***************************************************************************)
(* Organizations, their members and the invitations that bring them in.    *)
(*                                                                         *)
(* A handler loads the organization with its members, decides, and writes  *)
(* later from those copies, with no lock; (org_id, user_id) is not unique. *)
(* An UPDATE leaves alone a column set to the value it was loaded with,    *)
(* and fails the request if its row is gone.  Every member is meant to     *)
(* hold the platform roles that open the organizer dashboard.  An e-mail   *)
(* address is its user; profiles, KYC documents, activity logs, mails and  *)
(* notifications are left out.                                             *)
(***************************************************************************)
EXTENDS Integers, FiniteSets

CONSTANTS
    Users,        \* people, with an account or without
    Registered,   \* ... those that have one from the start
    Orgs,
    Invitations,  \* rows of organization_invitations
    Roles,        \* roles a member is given, of admin, editor and member
    Customizing,  \* organizations that define a custom role
    Managers,     \* slots for requests that manage a team
    Joiners       \* slots for requests that accept an invitation

NoOwner == "no owner"

ASSUME ConstantsAssumption ==
    /\ NoOwner \notin Users
    /\ Registered \subseteq Users
    /\ Roles \subseteq {"admin", "editor", "member"}
    /\ Customizing \subseteq Orgs
    /\ Managers \cap Joiners = {}

VARIABLES
    accounts,    \* users
    dashboard,   \* ... that hold ORG_MEMBER_SYSTEM_ROLES
    owner_id,    \* organizations.owner_id, or NoOwner before there is one
    active,      \* organizations.is_active
    members,     \* organization_members
    org_role,    \* organizations with a custom role, one that may manage the team
    invitation,  \* organization_invitations
    req,         \* the requests being served
    admitted     \* how many members each invitation has brought in

vars == <<accounts, dashboard, owner_id, active, members, org_role, invitation,
          req, admitted>>
Slots == Managers \cup Joiners

Copies == 1..2   \* a user may become a member twice, by overlapping requests
Members == [org : Orgs, user : Users, copy : Copies,
            role : Roles \cup {"owner", "admin"}, custom : BOOLEAN]
InvitationRows == [status : {"none", "pending", "accepted", "deleted"}, org : Orgs,
                   user : Users, role : Roles, expired : BOOLEAN]
Idle == [op |-> "idle"]

TypeOK ==
    /\ accounts \subseteq Users
    /\ dashboard \subseteq accounts
    /\ owner_id \in [Orgs -> Users \cup {NoOwner}]
    /\ active \in [Orgs -> BOOLEAN]
    /\ members \subseteq Members
    /\ org_role \subseteq Customizing
    /\ \A i \in Invitations : invitation[i].status # "none" => invitation[i] \in InvitationRows
    /\ admitted \in [Invitations -> Nat]

Init ==
    /\ accounts = Registered
    /\ dashboard = {}
    /\ owner_id = [o \in Orgs |-> NoOwner]
    /\ active = [o \in Orgs |-> TRUE]
    /\ members = {}
    /\ org_role = {}
    /\ invitation = [i \in Invitations |-> [status |-> "none"]]
    /\ req = [s \in Slots |-> Idle]
    /\ admitted = [i \in Invitations |-> 0]

-----------------------------------------------------------------------------
(* Rows and permissions *)

memberships(u) == {m \in members : m.user = u}
get_member(o, u) == {m \in memberships(u) : m.org = o}

member_has_permission(m) ==
    m.role \in {"owner", "admin"} \/ (m.custom /\ m.org \in org_role)

\* The caller may manage the team of o.
may_manage(o) == \E m \in members : m.org = o /\ member_has_permission(m)

same_row(m, k) == m.org = k.org /\ m.user = k.user /\ m.copy = k.copy
stored(k) == {m \in members : same_row(m, k)}

add_member(o, u, role) ==
    \E c \in Copies :
        /\ \A m \in get_member(o, u) : m.copy # c
        /\ c = 2 => get_member(o, u) # {}
        /\ members' = members \cup
            {[org |-> o, user |-> u, copy |-> c, role |-> role, custom |-> FALSE]}

\* A column changes unless it is set to the value it was loaded with.
set_column(old, loaded, new) == IF loaded = new THEN old ELSE new

grant_roles_by_name(u) == dashboard' = dashboard \cup {u}

begin(s, r) ==
    /\ req[s] = Idle
    /\ req' = [req EXCEPT ![s] = r]
    /\ UNCHANGED <<accounts, dashboard, owner_id, active, members, org_role,
                   invitation, admitted>>

done(s) == req' = [req EXCEPT ![s] = Idle]

-----------------------------------------------------------------------------
(* Accounts and organizations *)

register(u) ==
    /\ u \notin accounts
    /\ accounts' = accounts \cup {u}
    /\ UNCHANGED <<dashboard, owner_id, active, members, org_role, invitation, req, admitted>>

create_organization(o, u) ==
    /\ owner_id[o] = NoOwner /\ u \in accounts
    /\ owner_id' = [owner_id EXCEPT ![o] = u]
    /\ add_member(o, u, "owner")
    /\ grant_roles_by_name(u)
    /\ UNCHANGED <<accounts, active, org_role, invitation, req, admitted>>

\* Loaded, checked to be the owner's wish, and nothing live or owed.
begin_delete_organization(s, o) ==
    /\ active[o] /\ \E m \in members : m.org = o /\ m.role = "owner"
    /\ begin(s, [op |-> "delete", org |-> o])

delete_organization(s) ==
    /\ req[s].op = "delete"
    /\ done(s)
    /\ active' = [active EXCEPT ![req[s].org] = FALSE]
    /\ UNCHANGED <<accounts, dashboard, owner_id, members, org_role, invitation, admitted>>

begin_transfer_ownership(s, caller, target) ==
    /\ caller.org = target.org /\ active[caller.org]
    /\ caller.role = "owner" /\ target # caller
    /\ begin(s, [op |-> "transfer", caller |-> caller, target |-> target])

\* MUTANT of transfer_ownership: the old owner stays one.
two_owners(s) ==
    LET r == req[s] IN
    /\ r.op = "transfer"
    /\ done(s)
    /\ stored(r.caller) # {} /\ stored(r.target) # {}
    /\ owner_id' = [owner_id EXCEPT ![r.target.org] = r.target.user]
    /\ members' = {IF same_row(m, r.target)
                   THEN [m EXCEPT !.role = set_column(@, r.target.role, "owner")]
                   ELSE m : m \in members}
    /\ UNCHANGED <<accounts, dashboard, active, org_role, invitation, admitted>>

transfer_ownership(s) ==
    LET r == req[s] IN
    /\ r.op = "transfer"
    /\ done(s)
    /\ stored(r.caller) # {} /\ stored(r.target) # {}
    /\ owner_id' = [owner_id EXCEPT ![r.target.org] = r.target.user]
    /\ members' = {CASE same_row(m, r.target) ->
                          [m EXCEPT !.role = set_column(@, r.target.role, "owner")]
                     [] same_row(m, r.caller) -> [m EXCEPT !.role = "admin"]
                     [] OTHER -> m : m \in members}
    /\ UNCHANGED <<accounts, dashboard, active, org_role, invitation, admitted>>

-----------------------------------------------------------------------------
(* The team *)

begin_add_member(s, o, u, role) ==
    /\ may_manage(o) /\ u \in accounts /\ get_member(o, u) = {}
    /\ begin(s, [op |-> "add", org |-> o, user |-> u, role |-> role])

add_member_request(s) ==
    LET r == req[s] IN
    /\ r.op = "add"
    /\ done(s)
    /\ add_member(r.org, r.user, r.role)
    /\ grant_roles_by_name(r.user)
    /\ UNCHANGED <<accounts, owner_id, active, org_role, invitation, admitted>>

\* An expired invitation is still pending here, and stands in the way.
get_pending_invitation(o, u) ==
    {i \in Invitations : invitation[i].status = "pending"
                         /\ invitation[i].org = o /\ invitation[i].user = u}

begin_invite(s, o, u, role) ==
    /\ may_manage(o)
    /\ \/ /\ u \in accounts /\ get_member(o, u) = {}
          /\ begin(s, [op |-> "invite_user", org |-> o, user |-> u, role |-> role])
       \/ /\ u \notin accounts /\ get_pending_invitation(o, u) = {}
          /\ begin(s, [op |-> "invite", org |-> o, user |-> u, role |-> role])

\* Someone with an account is added on the spot; only an admin is granted.
invite_existing_user(s) ==
    LET r == req[s] IN
    /\ r.op = "invite_user"
    /\ done(s)
    /\ add_member(r.org, r.user, r.role)
    /\ IF r.role = "admin" THEN grant_roles_by_name(r.user) ELSE UNCHANGED dashboard
    /\ UNCHANGED <<accounts, owner_id, active, org_role, invitation, admitted>>

invite_member_by_email(s) ==
    LET r == req[s] IN
    /\ r.op = "invite"
    /\ done(s)
    /\ \E i \in Invitations :
        /\ invitation[i].status = "none"
        /\ invitation' = [invitation EXCEPT ![i] =
            [status |-> "pending", org |-> r.org, user |-> r.user, role |-> r.role,
             expired |-> FALSE]]
    /\ UNCHANGED <<accounts, dashboard, owner_id, active, members, org_role, admitted>>

\* Any invitation of the organization, also one that was accepted.
revoke_invitation(i) ==
    /\ invitation[i].status \in {"pending", "accepted"} /\ may_manage(invitation[i].org)
    /\ invitation' = [invitation EXCEPT ![i].status = "deleted"]
    /\ UNCHANGED <<accounts, dashboard, owner_id, active, members, org_role, req, admitted>>

begin_update_member_role(s, target, role, custom) ==
    /\ may_manage(target.org) /\ target.role # "owner"
    /\ custom => target.org \in org_role
    /\ begin(s, [op |-> "update", target |-> target, role |-> role, custom |-> custom])

\* Assigning a custom role that has been deleted fails on its foreign key.
update_member_role(s) ==
    LET r == req[s] IN
    /\ r.op = "update"
    /\ done(s)
    /\ stored(r.target) # {}
    /\ r.custom => r.target.org \in org_role
    /\ members' = {IF same_row(m, r.target)
                   THEN [m EXCEPT !.role = set_column(@, r.target.role, r.role),
                                  !.custom = set_column(@, r.target.custom, r.custom)]
                   ELSE m : m \in members}
    /\ grant_roles_by_name(r.target.user)
    /\ UNCHANGED <<accounts, owner_id, active, org_role, invitation, admitted>>

\* The other memberships are read after the row is deleted and before the commit.
begin_remove_member(s, target) ==
    /\ may_manage(target.org) /\ target.role # "owner"
    /\ begin(s, [op |-> "remove", target |-> target,
                 others |-> memberships(target.user) \ {target}])

\* MUTANT of remove_member: the platform roles go with any membership.
revoke_always(s) ==
    LET r == req[s] IN
    /\ r.op = "remove"
    /\ done(s)
    /\ members' = members \ stored(r.target)
    /\ dashboard' = dashboard \ {r.target.user}
    /\ UNCHANGED <<accounts, owner_id, active, org_role, invitation, admitted>>

remove_member(s) ==
    LET r == req[s] IN
    /\ r.op = "remove"
    /\ done(s)
    /\ members' = members \ stored(r.target)
    /\ dashboard' = IF r.others = {} THEN dashboard \ {r.target.user} ELSE dashboard
    /\ UNCHANGED <<accounts, owner_id, active, org_role, invitation, admitted>>

\* The script that repairs members added before they were granted the roles.
backfill_member_platform_roles ==
    /\ dashboard' = dashboard \cup {m.user : m \in members}
    /\ UNCHANGED <<accounts, owner_id, active, members, org_role, invitation, req, admitted>>

-----------------------------------------------------------------------------
(* Custom roles *)

create_org_role(o) ==
    /\ may_manage(o) /\ o \notin org_role
    /\ org_role' = org_role \cup {o}
    /\ UNCHANGED <<accounts, dashboard, owner_id, active, members, invitation, req, admitted>>

\* ON DELETE SET NULL.
delete_org_role(o) ==
    /\ may_manage(o) /\ o \in org_role
    /\ org_role' = org_role \ {o}
    /\ members' = {IF m.org = o THEN [m EXCEPT !.custom = FALSE] ELSE m : m \in members}
    /\ UNCHANGED <<accounts, dashboard, owner_id, active, invitation, req, admitted>>

-----------------------------------------------------------------------------
(* Accepting an invitation *)

get_invitation(i) == invitation[i].status = "pending" /\ ~invitation[i].expired

begin_accept(s, i) ==
    LET inv == invitation[i] IN
    /\ get_invitation(i)
    /\ \/ /\ inv.user \in accounts /\ get_member(inv.org, inv.user) = {}
          /\ begin(s, [op |-> "accept", invitation |-> i])
       \/ /\ inv.user \notin accounts
          /\ begin(s, [op |-> "signup", invitation |-> i])

\* MUTANT of accept: the invitation is left pending.
accept_unmarked(s) ==
    LET i == req[s].invitation IN
    /\ done(s)
    /\ invitation[i].status # "deleted"
    /\ add_member(invitation[i].org, invitation[i].user, invitation[i].role)
    /\ grant_roles_by_name(invitation[i].user)
    /\ UNCHANGED invitation
    /\ admitted' = [admitted EXCEPT ![i] = @ + 1]
    /\ UNCHANGED <<owner_id, active, org_role>>

\* Marking it accepted fails if it has been revoked in between.
accept(s) ==
    LET i == req[s].invitation IN
    /\ done(s)
    /\ invitation[i].status # "deleted"
    /\ add_member(invitation[i].org, invitation[i].user, invitation[i].role)
    /\ grant_roles_by_name(invitation[i].user)
    /\ invitation' = [invitation EXCEPT ![i].status = "accepted"]
    /\ admitted' = [admitted EXCEPT ![i] = @ + 1]
    /\ UNCHANGED <<owner_id, active, org_role>>

accept_invitation(s) ==
    /\ req[s].op = "accept"
    /\ accept(s)
    /\ UNCHANGED accounts

\* users.email is unique.
accept_invitation_with_signup(s) ==
    /\ req[s].op = "signup"
    /\ invitation[req[s].invitation].user \notin accounts
    /\ accounts' = accounts \cup {invitation[req[s].invitation].user}
    /\ accept(s)

expire(i) ==
    /\ get_invitation(i)
    /\ invitation' = [invitation EXCEPT ![i].expired = TRUE]
    /\ UNCHANGED <<accounts, dashboard, owner_id, active, members, org_role, req, admitted>>

\* A request fails, or its process dies, before the commit.
roll_back(s) ==
    /\ req[s] # Idle
    /\ done(s)
    /\ UNCHANGED <<accounts, dashboard, owner_id, active, members, org_role,
                   invitation, admitted>>

manage(s) ==
    \/ \E o \in Orgs :
        \/ begin_delete_organization(s, o)
        \/ \E u \in Users, role \in Roles :
            begin_add_member(s, o, u, role) \/ begin_invite(s, o, u, role)
    \/ \E m \in members :
        \/ \E k \in members : begin_transfer_ownership(s, k, m)
        \/ \E role \in Roles, c \in BOOLEAN : begin_update_member_role(s, m, role, c)
        \/ begin_remove_member(s, m)
    \/ delete_organization(s)
    \/ transfer_ownership(s)
    \/ add_member_request(s)
    \/ invite_existing_user(s)
    \/ invite_member_by_email(s)
    \/ update_member_role(s)
    \/ remove_member(s)

join(s) ==
    \/ \E i \in Invitations : begin_accept(s, i)
    \/ accept_invitation(s)
    \/ accept_invitation_with_signup(s)

Next ==
    \/ \E u \in Users : register(u)
    \/ \E o \in Orgs, u \in Users : create_organization(o, u)
    \/ \E o \in Customizing : create_org_role(o) \/ delete_org_role(o)
    \/ \E i \in Invitations : revoke_invitation(i) \/ expire(i)
    \/ backfill_member_platform_roles
    \/ \E s \in Managers : manage(s)
    \/ \E s \in Joiners : join(s)
    \/ \E s \in Slots : roll_back(s)

Spec == Init /\ [][Next]_vars

-----------------------------------------------------------------------------
(* Properties *)

(* The organization has one owner among its members and owner_id is that   *)
(* member, through transfers, removals, role changes and invitations.      *)
OneOwner ==
    \A o \in Orgs : owner_id[o] # NoOwner =>
        \E m \in members :
            /\ m.org = o /\ m.role = "owner" /\ m.user = owner_id[o]
            /\ \A k \in members : k.org = o /\ k.role = "owner" => k = m

(* An invitation brings in one member, and none once it has been accepted  *)
(* or revoked ("Invitation has already been used or expired"), also when   *)
(* the acceptance had begun before the revocation.                         *)
AdmitsOnce ==
    [][\A i \in Invitations : admitted'[i] # admitted[i] =>
        invitation[i].status = "pending" /\ admitted[i] = 0]_vars

(* "Someone on two teams must not lose access to the second by leaving the *)
(* first": who loses the platform roles keeps no membership that was there *)
(* when the removal began.                                                 *)
LeavingOneTeam ==
    [][\A u \in dashboard \ dashboard' : \E s \in Slots :
        /\ req[s].op = "remove"
        /\ \A m \in members' : m.user = u => ~\E k \in req[s].others : same_row(m, k)]_vars

(* Nobody is a member of an organization twice ("User is already a member",*)
(* "You are already a member of this organization").                       *)
MemberOnce == \A m, k \in members : m.org = k.org /\ m.user = k.user => m = k

(* "Every member needs these to reach the organizer dashboard at all."     *)
MembersReachTheDashboard == \A m \in members : m.user \in dashboard
=============================================================================
