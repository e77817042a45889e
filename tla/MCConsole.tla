------------------------------ MODULE MCConsole -------------------------------
(* Small instances of the parts of Console, and of the accounts and        *)
(* settings. A behaviour is one of a single part, and the others stay as   *)
(* they began, so that one run checks them all.                            *)
EXTENDS Naturals, Sequences, Console, TLC

CONSTANTS a1, a2, m1, m2, u1, u2, w1, w2, k1, k2, admin, voter

VARIABLES
    part,  \* the part of the behaviour that takes place
    accounts_account, accounts_roles, accounts_joined, accounts_permits,
    accounts_setting, accounts_audit, accounts_request, accounts_changes,
    accounts_toggles, accounts_reader,
    settings_account, settings_roles, settings_joined, settings_permits,
    settings_setting, settings_audit, settings_request, settings_changes,
    settings_toggles, settings_reader

JPEG == [ext |-> "jpg", format |-> "jpeg", width |-> 300, legible |-> TRUE]
WEBP == [ext |-> "webp", format |-> "webp", width |-> 300, legible |-> TRUE]
BROKEN == [ext |-> "png", format |-> "webp", width |-> 300, legible |-> FALSE]
GIF == [ext |-> "gif", format |-> "gif", width |-> 300, legible |-> TRUE]
SomePictures == {WEBP, BROKEN, GIF}
OnePicture == {JPEG}

Accounts == INSTANCE AdminConsole WITH
    Users <- {u1, u2}, Founders <- {u1}, Roles <- {admin, voter},
    ADMIN_ROLE <- admin, Defaults <- {voter}, Permissions <- {}, Keys <- {},
    Values <- {1}, Requests <- {m1, m2}, Page <- 1, MaxBatch <- 1,
    MaxChanges <- 2, account <- accounts_account, roles <- accounts_roles,
    joined <- accounts_joined, permits <- accounts_permits,
    setting <- accounts_setting, audit <- accounts_audit,
    request <- accounts_request, changes <- accounts_changes,
    toggles <- accounts_toggles, reader <- accounts_reader
accountsVars == <<
    accounts_account, accounts_roles, accounts_joined, accounts_permits,
    accounts_setting, accounts_audit, accounts_request, accounts_changes,
    accounts_toggles, accounts_reader>>

Settings == INSTANCE AdminConsole WITH
    Users <- {u1}, Founders <- {u1}, Roles <- {admin}, ADMIN_ROLE <- admin,
    Defaults <- {}, Permissions <- {w1, w2}, Keys <- {k1, k2},
    Values <- {1}, Requests <- {m1, m2}, Page <- 1, MaxBatch <- 1,
    MaxChanges <- 2, account <- settings_account, roles <- settings_roles,
    joined <- settings_joined, permits <- settings_permits,
    setting <- settings_setting, audit <- settings_audit,
    request <- settings_request, changes <- settings_changes,
    toggles <- settings_toggles, reader <- settings_reader
settingsVars == <<
    settings_account, settings_roles, settings_joined, settings_permits,
    settings_setting, settings_audit, settings_request, settings_changes,
    settings_toggles, settings_reader>>

partVars == <<part, monitorVars, imagesVars, papersVars, pagesVars,
              accountsVars, settingsVars>>

Parts == {"jobs", "logs", "health", "pictures", "papers", "accounts",
          "settings", "pages"}

MCInit ==
    /\ part \in Parts
    /\ Monitor!Init
    /\ Images!Init
    /\ Papers!Init
    /\ Pages!Init
    /\ Accounts!Init
    /\ Settings!Init
    /\ part # "pages" => pages_joined[u1] = 1

MCNext ==
    \/ /\ part = "jobs"
       /\ Monitor!jobStep
       /\ UNCHANGED <<part, imagesVars, papersVars, pagesVars, accountsVars,
                      settingsVars>>
    \/ /\ part = "logs"
       /\ Monitor!logStep
       /\ UNCHANGED <<part, imagesVars, papersVars, pagesVars, accountsVars,
                      settingsVars>>
    \/ /\ part = "health"
       /\ Monitor!healthStep
       /\ UNCHANGED <<part, imagesVars, papersVars, pagesVars, accountsVars,
                      settingsVars>>
    \/ /\ part = "pictures"
       /\ Images!Next
       /\ UNCHANGED <<part, monitorVars, papersVars, pagesVars,
                      accountsVars, settingsVars>>
    \/ /\ part = "papers"
       /\ Papers!Next
       /\ UNCHANGED <<part, monitorVars, imagesVars, pagesVars,
                      accountsVars, settingsVars>>
    \/ /\ part = "accounts"
       /\ Accounts!accountStep
       /\ UNCHANGED <<part, monitorVars, imagesVars, papersVars, pagesVars,
                      settingsVars>>
    \/ /\ part = "settings"
       /\ \/ Settings!settingStep
          \/ \E r \in {m1, m2} : Settings!begins(r) \/ Settings!roll_back(r)
       /\ UNCHANGED <<part, monitorVars, imagesVars, papersVars, pagesVars,
                      accountsVars>>
    \/ /\ part = "pages"
       /\ Pages!Next
       /\ UNCHANGED <<part, monitorVars, imagesVars, papersVars,
                      accountsVars, settingsVars>>

MCSpec == MCInit /\ [][MCNext]_partVars

Symmetric == Permutations({m1, m2}) \cup Permutations({a1, a2})
===============================================================================
