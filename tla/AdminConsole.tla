----------------------------- MODULE AdminConsole -----------------------------
(***************************************************************************)
(* The admin console: accounts and their roles, what roles permit, the     *)
(* platform's settings, overrides of prices, the audit log, and lists that *)
(* are read a page at a time.                                              *)
(*                                                                         *)
(* A handler reads when it begins and writes when it commits.  Accounts    *)
(* and roles are changed in one transaction with the audit entry.  The     *)
(* settings and the overrides are committed first, each key on its own,    *)
(* and the entry afterwards.  No row is locked before it is written.       *)
(*                                                                         *)
(* list_users orders by created_at alone: rows created in one transaction  *)
(* tie (an import of voters makes accounts so), and may come in any order. *)
(***************************************************************************)
EXTENDS Naturals, Sequences, FiniteSets, SequencesExt

CONSTANTS
    Users,       \* accounts there are or may be made
    Founders,    \* the administrators of the beginning
    Roles,
    ADMIN_ROLE,
    Defaults,    \* Voter and Event Attendee
    Permissions, \* what a role may be granted
    Keys,        \* platform settings, and listings with a price of their own
    Values,
    Requests,    \* slots for handlers in progress
    Page,        \* limit of a list
    MaxBatch,    \* accounts made in one transaction
    MaxChanges   \* bound on the audit log

Idle == [op |-> "idle"]
Unset == 0
AccountOps == {"UPDATE_STATUS", "ASSIGN_ROLES", "DELETE_USER", "ADMIN_CREATE_USER"}

VARIABLES
    account,     \* account_status, or none
    roles,       \* user_roles
    joined,      \* created_at, 0 before
    permits,     \* roles.permissions
    setting,     \* platform_settings and vote_price of elections
    audit,       \* audit_logs
    request,
    changes,     \* what has been committed of accounts and roles
    toggles,     \* what has been committed of permissions: the last of each
    reader       \* a walk through the pages of list_users

adminVars == <<account, roles, joined, permits, setting, audit, request, changes, toggles, reader>>
accountVars == <<account, roles, joined, changes>>

TypeOK ==
    /\ account \in [Users -> {"none", "active", "suspended", "deactivated"}]
    /\ roles \in [Users -> SUBSET Roles]
    /\ permits \in [Roles -> SUBSET Permissions]
    /\ setting \in [Keys -> Values \cup {Unset}]
    /\ Len(audit) <= MaxChanges + Cardinality(Requests)
    /\ \A u \in Users : (joined[u] = 0) <=> (account[u] = "none")

Init ==
    /\ account = [u \in Users |-> IF u \in Founders THEN "active" ELSE "none"]
    /\ roles = [u \in Users |-> IF u \in Founders THEN {ADMIN_ROLE} ELSE {}]
    /\ joined \in {j \in [Users -> 0..Cardinality(Founders)] :
                      /\ \A u \in Users : j[u] # 0 <=> u \in Founders
                      /\ IsInjective([u \in Founders |-> j[u]])}
    /\ permits = [o \in Roles |-> {}]
    /\ setting = [k \in Keys |-> Unset]
    /\ audit = <<>> /\ changes = <<>>
    /\ toggles = [o \in Roles |-> [p \in Permissions |-> FALSE]]
    /\ request = [r \in Requests |-> Idle]
    /\ reader = Idle

-----------------------------------------------------------------------------
require_roles(by) == account[by] = "active" /\ ADMIN_ROLE \in roles[by]

begin(r, what) ==
    /\ request[r] = Idle /\ require_roles(what.by) /\ Len(audit) < MaxChanges
    /\ request' = [request EXCEPT ![r] = what]
    /\ UNCHANGED <<accountVars, permits, setting, audit, toggles, reader>>

finish(r) == request' = [request EXCEPT ![r] = Idle]

\* A refusal, a lost connection, a restart: what is not committed is lost.
roll_back(r) ==
    /\ request[r] # Idle
    /\ finish(r)
    /\ UNCHANGED <<accountVars, permits, setting, audit, toggles, reader>>

entry(r) == [by |-> request[r].by, op |-> request[r].op, of |-> request[r].of]

log_action(r) == audit' = Append(audit, entry(r))

\* The change and its entry, in one transaction.
commit_account(r) ==
    /\ log_action(r)
    /\ changes' = Append(changes, entry(r))
    /\ finish(r)
    /\ UNCHANGED <<permits, setting, toggles, reader>>

-----------------------------------------------------------------------------
(* Accounts *)

known(u) == account[u] # "none"

begin_status(r, by, u, status) == known(u) /\ begin(r, [by |-> by, op |-> "UPDATE_STATUS", of |-> u, status |-> status])
update_user_status(r) ==
    /\ request[r].op = "UPDATE_STATUS"
    /\ account' = [account EXCEPT ![request[r].of] = request[r].status]
    /\ commit_account(r)
    /\ UNCHANGED <<roles, joined>>

\* Not one's own account; the row stays.
begin_delete(r, by, u) == known(u) /\ u # by /\ begin(r, [by |-> by, op |-> "DELETE_USER", of |-> u])

\* MUTANT of delete_user: the row goes.
remove_the_row(r) ==
    /\ request[r].op = "DELETE_USER"
    /\ account' = [account EXCEPT ![request[r].of] = "none"]
    /\ joined' = [joined EXCEPT ![request[r].of] = 0]
    /\ commit_account(r)
    /\ UNCHANGED roles

delete_user(r) ==
    /\ request[r].op = "DELETE_USER"
    /\ account' = [account EXCEPT ![request[r].of] = "deactivated"]
    /\ commit_account(r)
    /\ UNCHANGED <<roles, joined>>

\* The roles the user has when the handler reads them go, and the new ones
\* come; a row that is there already fails the whole.
begin_assign(r, by, u, os) ==
    known(u) /\ begin(r, [by |-> by, op |-> "ASSIGN_ROLES", of |-> u, had |-> roles[u], new |-> os])

\* MUTANT of assign_roles: the roles are committed before the entry.
commit_before_the_log(r) ==
    /\ request[r].op = "ASSIGN_ROLES"
    /\ roles' = [roles EXCEPT ![request[r].of] = request[r].new]
    /\ changes' = Append(changes, entry(r))
    /\ request' = [request EXCEPT ![r] = [op |-> "log", by |-> @.by, of |-> @.of]]
    /\ UNCHANGED <<account, joined, audit, permits, setting, toggles, reader>>

assign_roles(r) ==
    /\ request[r].op = "ASSIGN_ROLES"
    /\ LET kept == roles[request[r].of] \ request[r].had
       IN  /\ kept \cap request[r].new = {}
           /\ roles' = [roles EXCEPT ![request[r].of] = kept \cup request[r].new]
    /\ commit_account(r)
    /\ UNCHANGED <<account, joined>>

\* An e-mail address that is taken is refused, by the check or by the
\* unique index; so is a default role asked for again.
begin_create(r, by, u, os) ==
    /\ ~known(u) /\ os \cap Defaults = {}
    /\ begin(r, [by |-> by, op |-> "ADMIN_CREATE_USER", of |-> u, new |-> os])

now == Cardinality({joined[u] : u \in Users})

admin_create_user(r) ==
    LET u == request[r].of
    IN  /\ request[r].op = "ADMIN_CREATE_USER"
        /\ ~known(u)
        /\ account' = [account EXCEPT ![u] = "active"]
        /\ roles' = [roles EXCEPT ![u] = Defaults \cup request[r].new]
        /\ joined' = [joined EXCEPT ![u] = now]
        /\ commit_account(r)

\* Accounts made for the e-mails of a list of voters, or by signing up.
import_accounts ==
    \E us \in SUBSET {u \in Users : ~known(u)} :
        /\ us # {} /\ Cardinality(us) <= MaxBatch
        /\ account' = [u \in Users |-> IF u \in us THEN "active" ELSE account[u]]
        /\ roles' = [u \in Users |-> IF u \in us THEN Defaults ELSE roles[u]]
        /\ joined' = [u \in Users |-> IF u \in us THEN now ELSE joined[u]]
        /\ UNCHANGED <<permits, setting, audit, request, changes, toggles, reader>>

-----------------------------------------------------------------------------
(* Permissions, settings, prices *)

\* The whole of the role's permissions is read, changed and written.
begin_toggle(r, by, o, p, granted) ==
    begin(r, [by |-> by, op |-> "toggle", of |-> o, permission |-> p, granted |-> granted, had |-> permits[o]])

toggle_role_permission(r) ==
    LET t == request[r]
    IN  /\ t.op = "toggle"
        /\ permits' = [permits EXCEPT ![t.of] = IF t.granted THEN t.had \cup {t.permission} ELSE t.had \ {t.permission}]
        /\ toggles' = [toggles EXCEPT ![t.of][t.permission] = t.granted]
        /\ finish(r)
        /\ UNCHANGED <<accountVars, setting, audit, reader>>

\* `of` are the keys saved, `left` those to come.
begin_settings(r, by, values) ==
    begin(r, [by |-> by, op |-> "UPDATE_PLATFORM_SETTINGS", of |-> DOMAIN values, left |-> DOMAIN values, values |-> values])

override_election_vote_price(r, by, k, v) == begin_settings(r, by, k :> v)

set_platform_setting(r) ==
    /\ request[r].op = "UPDATE_PLATFORM_SETTINGS"
    /\ \E k \in request[r].left :
        /\ setting' = [setting EXCEPT ![k] = request[r].values[k]]
        /\ request' = [request EXCEPT ![r].left = @ \ {k}]
    /\ UNCHANGED <<accountVars, permits, audit, toggles, reader>>

update_platform_settings(r) ==
    /\ request[r].op = "UPDATE_PLATFORM_SETTINGS" /\ request[r].left = {}
    /\ log_action(r)
    /\ finish(r)
    /\ UNCHANGED <<accountVars, permits, setting, toggles, reader>>

-----------------------------------------------------------------------------
(* Lists *)

everyone == {u \in Users : known(u)}

\* All at once.
export_users_excel == everyone

\* Newest first.
orders == {s \in SetToSeqs(everyone) : \A i, j \in 1..Len(s) : i < j => joined[s[i]] >= joined[s[j]]}

rows(s, skip) == {s[i] : i \in {k \in 1..Len(s) : skip < k /\ k <= skip + Page}}

open_list ==
    /\ reader = Idle
    /\ reader' = [op |-> "reading", skip |-> 0, seen |-> {}, there |-> export_users_excel]
    /\ UNCHANGED <<accountVars, permits, setting, audit, request, toggles>>

list_users ==
    /\ reader.op = "reading"
    /\ \E s \in orders :
        LET page == rows(s, reader.skip)
        IN  reader' = [reader EXCEPT !.skip = @ + Page, !.seen = @ \cup page,
                                     !.op = IF page = {} THEN "read" ELSE @]
    /\ UNCHANGED <<accountVars, permits, setting, audit, request, toggles>>

-----------------------------------------------------------------------------
begins(r) ==
    \E by \in Users :
        \/ \E u \in Users, status \in {"active", "suspended", "deactivated"} : begin_status(r, by, u, status)
        \/ \E u \in Users : begin_delete(r, by, u)
        \/ \E u \in Users, os \in SUBSET Roles : begin_assign(r, by, u, os) \/ begin_create(r, by, u, os)
        \/ \E o \in Roles, p \in Permissions, granted \in BOOLEAN : begin_toggle(r, by, o, p, granted)
        \/ \E ks \in SUBSET Keys \ {{}} : \E values \in [ks -> Values] : begin_settings(r, by, values)
        \/ \E k \in Keys, v \in Values : override_election_vote_price(r, by, k, v)

accountStep ==
    \/ \E r \in Requests :
        begins(r) \/ roll_back(r) \/ update_user_status(r) \/ delete_user(r) \/ assign_roles(r) \/ admin_create_user(r)
    \/ import_accounts
settingStep == \E r \in Requests : toggle_role_permission(r) \/ set_platform_setting(r) \/ update_platform_settings(r)
listStep == open_list \/ list_users
Next == accountStep \/ settingStep \/ listStep
Spec == Init /\ [][Next]_adminVars

-----------------------------------------------------------------------------
(* Properties *)

\* What was done to accounts and roles is in the audit log, each change
\* once and in its order, and the log holds nothing that was not done:
\* no crash and no other administrator comes between (log_action).
AccountsAreAudited ==
    LET about_accounts(e) == e.op \in AccountOps
    IN  SelectSeq(audit, about_accounts) = changes

\* Whoever reads list_users to its end has seen everyone who was there when
\* the first page was read, while accounts come and go between the pages
\* ("a row can appear on two pages or on none" without an order).
PagesMissNoOne == reader.op = "read" => reader.there \subseteq reader.seen

\* Someone can still administer the platform.
SomeAdminRemains == \E u \in Users : require_roles(u)

\* "Replace a user's roles wholesale": after an assignment the user has
\* those roles and no others.
AssignedWholesale ==
    [][\A r \in Requests :
        (request[r] # Idle /\ request[r].op = "ASSIGN_ROLES" /\ changes' # changes /\ request'[r] = Idle)
            => roles'[request[r].of] = request[r].new]_adminVars

\* A permission is as it was last toggled.
TogglesAreKept == \A o \in Roles, p \in Permissions : p \in permits[o] <=> toggles[o][p]

\* A setting that was changed is in the audit log once nobody is saving.
SettingsAreAudited ==
    (\A r \in Requests : request[r] = Idle) =>
        \A k \in Keys : setting[k] # Unset => \E i \in DOMAIN audit : audit[i].op \notin AccountOps /\ k \in audit[i].of
================================================================================
