------------------------------ MODULE Sessions ------------------------------
(***************************************************************************)
(* Sessions of one account: sign-in with and without a second factor,      *)
(* rotation of refresh tokens, signing out one device or all of them.      *)
(*                                                                         *)
(* A refresh token and the access token issued with it share a jti and the *)
(* users.token_version of their birth; bumping the version ends them all.  *)
(* A request loads the user (and the token's row) and writes later from    *)
(* that copy, only the columns it changes.  The user always types the      *)
(* right password: a wrong one is answered 401, and the exception rolls    *)
(* back the counter and the lock flushed before it (db/base.py get_db), as *)
(* it does the bump flushed for a refresh token presented twice.  Names,   *)
(* mails and the audit trail are left out.                                 *)
(***************************************************************************)
EXTENDS Integers, FiniteSets

CONSTANTS
    Tokens,      \* jti's a refresh token may be given
    Codes,       \* the recovery codes of one batch
    SignIns,     \* slots for sign-ins and refreshes served concurrently
    Changes,     \* slots for requests that change the account
    AccessTTL,   \* ACCESS_TOKEN_EXPIRE_MINUTES, and the life of a mark in Redis
    RefreshTTL,  \* REFRESH_TOKEN_EXPIRE_DAYS
    RedisFails,  \* may Redis be out of reach?
    MaxVersion   \* bound on users.token_version

NoToken == "no token"

ASSUME ConstantsAssumption ==
    /\ NoToken \notin Tokens
    /\ AccessTTL \in Nat /\ RefreshTTL \in Nat /\ MaxVersion \in Nat
    /\ RedisFails \in BOOLEAN
    /\ SignIns \cap Changes = {}

VARIABLES
    user,       \* the row of users
    otp,        \* is an unexpired code of the e-mail verification outstanding?
    challenge,  \* ... an unexpired second-factor challenge?
    tokens,     \* refresh_tokens by jti, each with its age and version
    marks,      \* ticks left of revoked_session:<jti> in Redis, 0 for none
    redis_up,   \* does Redis answer?
    req,        \* the requests being served
    kills,      \* how many logouts, resets and password changes have committed
    signed_out, \* devices signed out one by one, their mark recorded
    redeemed    \* recovery codes of the current batch a sign-in has used

vars == <<user, otp, challenge, tokens, marks, redis_up, req, kills,
          signed_out, redeemed>>
links == <<otp, challenge>>
ghosts == <<kills, signed_out, redeemed>>
Slots == SignIns \cup Changes

Users == [version : Nat, verified : BOOLEAN, status : {"active", "suspended"},
          totp_enabled : BOOLEAN, secret : {"none", "pending", "scanned"},
          codes : SUBSET Codes]
Rows == [issued : BOOLEAN, version : Nat, revoked : BOOLEAN, age : Nat, born : Nat]
Idle == [op |-> "idle"]

\* What a request remembers of the rows it loaded: those that issue tokens the
\* version (and the codes, if one was typed), those that bump it the version.
SignIn == [op : {"login", "refresh"}, token : Tokens \cup {NoToken}, version : Nat,
           kills : Nat, typed : SUBSET Codes, codes : SUBSET Codes]
Kill == [op : {"logout", "reset", "change"}, token : Tokens \cup {NoToken}, version : Nat]
Edit == [op : {"setup", "enable", "disable", "regenerate", "sign_out"}, token : Tokens]
Requests == {Idle} \cup SignIn \cup Kill \cup Edit

TypeOK ==
    /\ user \in Users
    /\ otp \in BOOLEAN /\ challenge \in BOOLEAN
    /\ tokens \in [Tokens -> Rows]
    /\ marks \in [Tokens -> Nat]
    /\ redis_up \in BOOLEAN
    /\ req \in [Slots -> Requests]
    /\ kills \in Nat
    /\ signed_out \subseteq Tokens
    /\ redeemed \subseteq Codes

NoRow == [issued |-> FALSE, version |-> 0, revoked |-> FALSE, age |-> 0, born |-> 0]

\* The account has just been registered and its code mailed.
Init ==
    /\ user = [version |-> 0, verified |-> FALSE, status |-> "active",
               totp_enabled |-> FALSE, secret |-> "none", codes |-> {}]
    /\ otp = TRUE /\ challenge = FALSE
    /\ tokens = [j \in Tokens |-> NoRow]
    /\ marks = [j \in Tokens |-> 0]
    /\ redis_up = TRUE
    /\ req = [s \in Slots |-> Idle]
    /\ kills = 0
    /\ signed_out = {}
    /\ redeemed = {}

-----------------------------------------------------------------------------
(* Tokens *)

\* Signature and expiry of a refresh token.
decodes(j) == tokens[j].issued /\ tokens[j].age < RefreshTTL

\* MUTANT of is_session_revoked: the mark is never looked up.
never_revoked(j) == FALSE

is_session_revoked(j) == redis_up /\ marks[j] > 0

\* What get_current_user lets pass of the access token issued with j.
get_current_user(j) ==
    /\ tokens[j].issued
    /\ tokens[j].age < AccessTTL
    /\ ~is_session_revoked(j)
    /\ tokens[j].version = user.version

get_current_active_user(j) == get_current_user(j) /\ user.status = "active"

\* May j still be exchanged for a new pair, whatever the account's status?
redeemable(j) == decodes(j) /\ tokens[j].version = user.version /\ ~tokens[j].revoked

issue_tokens(j, r, rows) ==
    /\ ~tokens[j].issued
    /\ tokens' = [rows EXCEPT ![j] =
        [issued |-> TRUE, version |-> r.version, revoked |-> FALSE, age |-> 0,
         born |-> r.kills]]

-----------------------------------------------------------------------------
(* Verification of the e-mail address *)

verify_otp ==
    /\ ~user.verified /\ otp
    /\ user' = [user EXCEPT !.verified = TRUE]
    /\ otp' = FALSE
    /\ UNCHANGED <<challenge, tokens, marks, redis_up, req, ghosts>>

resend_otp ==
    /\ ~user.verified /\ ~otp
    /\ otp' = TRUE
    /\ UNCHANGED <<user, challenge, tokens, marks, redis_up, req, ghosts>>

-----------------------------------------------------------------------------
(* A request loads the user, and the row of the token it carries *)

begin(s, r) ==
    /\ req[s] = Idle
    /\ req' = [req EXCEPT ![s] = r]
    /\ UNCHANGED <<user, links, tokens, marks, redis_up, ghosts>>

sign_in_request(op, j, typed) ==
    [op |-> op, token |-> j, version |-> user.version, kills |-> kills,
     typed |-> typed, codes |-> IF typed = {} THEN {} ELSE user.codes]

begin_login(s) ==
    /\ user.verified /\ user.status = "active" /\ ~user.totp_enabled
    /\ begin(s, sign_in_request("login", NoToken, {}))

\* Past the password, with a second factor to come; nothing is stored.
create_mfa_challenge_token ==
    /\ user.verified /\ user.status = "active" /\ user.totp_enabled
    /\ ~challenge /\ challenge' = TRUE
    /\ UNCHANGED <<user, otp, tokens, marks, redis_up, req, ghosts>>

\* A code of the authenticator, or one of the list.
begin_verify_2fa(s) ==
    /\ challenge /\ user.totp_enabled
    /\ \/ user.secret = "scanned" /\ begin(s, sign_in_request("login", NoToken, {}))
       \/ \E c \in user.codes : begin(s, sign_in_request("login", NoToken, {c}))

begin_refresh(s, j) ==
    /\ redeemable(j) /\ user.status = "active"
    /\ begin(s, sign_in_request("refresh", j, {}))

begin_kill(s, op, j) ==
    /\ user.version < MaxVersion
    /\ begin(s, [op |-> op, token |-> j, version |-> user.version])

\* Any refresh token will do, even one that no longer refreshes.
begin_logout(s, j) == decodes(j) /\ begin_kill(s, "logout", j)

\* A link is mailed to whoever asks and stored nowhere.
begin_reset_password(s) == begin_kill(s, "reset", NoToken)

begin_change_password(s, j) ==
    get_current_active_user(j) /\ begin_kill(s, "change", j)

begin_two_factor(s, op, j) ==
    /\ get_current_active_user(j)
    /\ op = "enable" => user.secret = "scanned"
    /\ op = "regenerate" => user.totp_enabled
    /\ begin(s, [op |-> op, token |-> j])

\* The device to sign out is one of the caller's, or an admin asks.
begin_revoke_session(s, j) ==
    /\ tokens[j].issued
    /\ begin(s, [op |-> "sign_out", token |-> j])

-----------------------------------------------------------------------------
(* ... and writes from what it loaded *)

done(s) == req' = [req EXCEPT ![s] = Idle]

\* MUTANT of verify_login_code: the redeemed code stays in the list.
code_stays(r) ==
    /\ user' = IF r.typed = {} THEN user ELSE [user EXCEPT !.codes = r.codes]
    /\ redeemed' = redeemed \cup r.typed

\* A recovery code is taken off the list as it was loaded.
verify_login_code(r) ==
    /\ user' = IF r.typed = {} THEN user ELSE [user EXCEPT !.codes = r.codes \ r.typed]
    /\ redeemed' = redeemed \cup r.typed

login(s) ==
    LET r == req[s] IN
    /\ r.op = "login"
    /\ done(s)
    /\ verify_login_code(r)
    /\ \E j \in Tokens : issue_tokens(j, r, tokens)
    /\ UNCHANGED <<links, marks, redis_up, kills, signed_out>>

\* MUTANT of refresh_token: the successor carries the version of the moment.
refresh_current(s) ==
    LET r == req[s] IN
    /\ r.op = "refresh"
    /\ done(s)
    /\ \E j \in Tokens : issue_tokens(j, [r EXCEPT !.version = user.version],
                                      [tokens EXCEPT ![r.token].revoked = TRUE])
    /\ UNCHANGED <<user, links, marks, redis_up, ghosts>>

refresh_token(s) ==
    LET r == req[s] IN
    /\ r.op = "refresh"
    /\ done(s)
    /\ \E j \in Tokens : issue_tokens(j, r, [tokens EXCEPT ![r.token].revoked = TRUE])
    /\ UNCHANGED <<user, links, marks, redis_up, ghosts>>

\* MUTANT of bump: the version goes back to that of the first session.
bump_back(r) ==
    /\ user' = [user EXCEPT !.version = (r.version + 1) % 2]
    /\ kills' = kills + 1

bump(r) ==
    /\ user' = [user EXCEPT !.version = r.version + 1]
    /\ kills' = kills + 1

logout(s) ==
    LET r == req[s] IN
    /\ r.op = "logout"
    /\ done(s)
    /\ bump(r)
    /\ tokens' = [tokens EXCEPT ![r.token].revoked = TRUE]
    /\ UNCHANGED <<links, marks, redis_up, signed_out, redeemed>>

reset_password(s) ==
    /\ req[s].op = "reset"
    /\ done(s)
    /\ bump(req[s])
    /\ UNCHANGED <<links, tokens, marks, redis_up, signed_out, redeemed>>

change_password(s) ==
    /\ req[s].op = "change"
    /\ done(s)
    /\ bump(req[s])
    /\ UNCHANGED <<links, tokens, marks, redis_up, signed_out, redeemed>>

\* MUTANT of revoke_session: the mark lives a tick less than the token.
revoke_briefly(s) ==
    LET j == req[s].token IN
    /\ req[s].op = "sign_out"
    /\ done(s)
    /\ tokens' = [tokens EXCEPT ![j].revoked = TRUE]
    /\ marks' = IF redis_up THEN [marks EXCEPT ![j] = AccessTTL - 1] ELSE marks
    /\ signed_out' = IF redis_up THEN signed_out \cup {j} ELSE signed_out
    /\ UNCHANGED <<user, links, redis_up, kills, redeemed>>

\* A failing Redis is logged and passed over.
revoke_session(s) ==
    LET j == req[s].token IN
    /\ req[s].op = "sign_out"
    /\ done(s)
    /\ tokens' = [tokens EXCEPT ![j].revoked = TRUE]
    /\ marks' = IF redis_up THEN [marks EXCEPT ![j] = AccessTTL] ELSE marks
    /\ signed_out' = IF redis_up THEN signed_out \cup {j} ELSE signed_out
    /\ UNCHANGED <<user, links, redis_up, kills, redeemed>>

-----------------------------------------------------------------------------
(* The second factor *)

\* Replaces the secret, also under an account that already uses one.
start_setup(s) ==
    /\ req[s].op = "setup"
    /\ done(s)
    /\ user' = [user EXCEPT !.secret = "pending"]
    /\ UNCHANGED <<links, tokens, marks, redis_up, ghosts>>

scan_qr ==
    /\ user.secret = "pending"
    /\ user' = [user EXCEPT !.secret = "scanned"]
    /\ UNCHANGED <<links, tokens, marks, redis_up, req, ghosts>>

new_codes(s) ==
    /\ done(s)
    /\ redeemed' = {}
    /\ UNCHANGED <<links, tokens, marks, redis_up, kills, signed_out>>

verify_and_enable(s) ==
    /\ req[s].op = "enable"
    /\ user' = [user EXCEPT !.totp_enabled = TRUE, !.codes = Codes]
    /\ new_codes(s)

disable(s) ==
    /\ req[s].op = "disable"
    /\ user' = [user EXCEPT !.totp_enabled = FALSE, !.secret = "none", !.codes = {}]
    /\ new_codes(s)

regenerate_recovery_codes(s) ==
    /\ req[s].op = "regenerate"
    /\ user' = [user EXCEPT !.codes = Codes]
    /\ new_codes(s)

-----------------------------------------------------------------------------
(* Everyone else *)

\* Suspended and deactivated are refused alike.
update_account_status ==
    /\ user' = [user EXCEPT !.status = IF @ = "active" THEN "suspended" ELSE "active"]
    /\ UNCHANGED <<links, tokens, marks, redis_up, req, ghosts>>

\* A request dies before its commit; a mark in Redis is not rolled back.
roll_back(s) ==
    /\ req[s] # Idle
    /\ done(s)
    /\ \/ UNCHANGED marks
       \/ req[s].op = "sign_out" /\ redis_up /\ marks' = [marks EXCEPT ![req[s].token] = AccessTTL]
    /\ UNCHANGED <<user, links, tokens, redis_up, ghosts>>

redis_fails ==
    /\ RedisFails
    /\ redis_up' = ~redis_up
    /\ UNCHANGED <<user, links, tokens, marks, req, ghosts>>

lapse ==
    /\ \/ otp /\ otp' = FALSE /\ UNCHANGED challenge
       \/ challenge /\ challenge' = FALSE /\ UNCHANGED otp
    /\ UNCHANGED <<user, tokens, marks, redis_up, req, ghosts>>

\* Time passes; a token too old for anything ages no further.
tick ==
    /\ tokens' = [j \in Tokens |->
        IF decodes(j) THEN [tokens[j] EXCEPT !.age = @ + 1] ELSE tokens[j]]
    /\ marks' = [j \in Tokens |-> IF marks[j] > 0 THEN marks[j] - 1 ELSE 0]
    /\ UNCHANGED <<user, links, redis_up, req, ghosts>>

sign_in(s) ==
    \/ begin_login(s)
    \/ begin_verify_2fa(s)
    \/ \E j \in Tokens : begin_refresh(s, j)
    \/ login(s)
    \/ refresh_token(s)

change(s) ==
    \/ begin_reset_password(s)
    \/ \E j \in Tokens :
        \/ begin_logout(s, j)
        \/ begin_change_password(s, j)
        \/ \E op \in {"setup", "enable", "disable", "regenerate"} : begin_two_factor(s, op, j)
        \/ begin_revoke_session(s, j)
    \/ logout(s)
    \/ reset_password(s)
    \/ change_password(s)
    \/ revoke_session(s)
    \/ start_setup(s)
    \/ verify_and_enable(s)
    \/ disable(s)
    \/ regenerate_recovery_codes(s)

Next ==
    \/ verify_otp
    \/ resend_otp
    \/ \E s \in SignIns : sign_in(s)
    \/ \E s \in Changes : change(s)
    \/ \E s \in Slots : roll_back(s)
    \/ create_mfa_challenge_token
    \/ scan_qr
    \/ update_account_status
    \/ redis_fails
    \/ lapse
    \/ tick

Spec == Init /\ [][Next]_vars

-----------------------------------------------------------------------------
(* Properties *)

(* A logout, a password reset or change ends every session "across every   *)
(* device": a pair born of a request that began before it neither opens an *)
(* endpoint nor buys a new pair, even if the request commits after it.     *)
NoneOutlivesAKill ==
    \A j \in Tokens : get_current_user(j) \/ redeemable(j) => tokens[j].born = kills

(* A refresh token that can no longer be redeemed, because it has expired, *)
(* was rotated, or its version is past, cannot ever be again.              *)
EndedStaysEnded ==
    [][\A j \in Tokens : tokens[j].issued /\ ~redeemable(j) => ~redeemable(j)']_vars

(* A device signed out alone is out at once, "rather than staying valid    *)
(* until it naturally expires", and the mark in Redis does not go before   *)
(* the last access token it is meant for (Redis being in reach both times).*)
SignedOutIsOut ==
    \A j \in signed_out : redis_up => ~get_current_user(j) /\ ~redeemable(j)

(* A recovery code is "consumed on use": once a sign-in has redeemed it,   *)
(* it is not on the list again until a new batch replaces all of them.     *)
RedeemedIsSpent == redeemed \cap user.codes = {}

(* "A re-scanned QR from an abandoned attempt just replaces the pending    *)
(* secret" (start_setup): the second factor in use is one the user's       *)
(* authenticator holds.                                                    *)
AuthenticatorFits == user.totp_enabled => user.secret = "scanned"
=============================================================================
