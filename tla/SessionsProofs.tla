--------------------------- MODULE SessionsProofs ---------------------------
(***************************************************************************)
(* Proofs about Sessions, for any number of tokens, recovery codes and     *)
(* requests that overlap and any lifetimes.  What is said of kills is for  *)
(* one request at a time that changes the account: two that overlap write  *)
(* one version between them, and a session begun in between outlives the   *)
(* second.  What is said of recovery codes is for one sign-in at a time:   *)
(* two that overlap each put back the code the other took off the list.    *)
(***************************************************************************)
EXTENDS Sessions, TLAPS

(***************************************************************************)
(* The inductive invariant                                                 *)
(***************************************************************************)

\* Requests that change the account do not overlap.
OneChange == \A s, t \in Changes : s = t

\* No token is ahead of the account, and one that is level with it was born
\* after the last kill.
TokensAreBehind ==
    \A j \in Tokens : tokens[j].issued =>
        /\ tokens[j].version <= user.version
        /\ tokens[j].version = user.version => tokens[j].born = kills

\* The same of the token a request is about to issue.
SignInsAreBehind ==
    \A s \in Slots : req[s].op \in {"login", "refresh"} =>
        /\ req[s].version <= user.version
        /\ req[s].version = user.version => req[s].kills = kills

\* A request that is to bump the version has read the present one.
KillsAreCurrent ==
    \A s \in Slots : req[s].op \in {"logout", "reset", "change"} =>
        s \in Changes /\ req[s].version = user.version

Behind == TokensAreBehind /\ SignInsAreBehind /\ KillsAreCurrent

Inv == TypeOK /\ Behind

-----------------------------------------------------------------------------
(* Types *)

\* What a request remembers follows from what it is for.
LEMMA RequestKinds ==
  ASSUME TypeOK, NEW s \in Slots
  PROVE  /\ req[s].op \in {"login", "refresh"} => req[s] \in SignIn
         /\ req[s].op \in {"logout", "reset", "change"} => req[s] \in Kill
         /\ req[s].op \in {"setup", "enable", "disable", "regenerate",
            "sign_out"} => req[s] \in Edit
         /\ req[s] = Idle => req[s].op = "idle"
BY DEF TypeOK, Requests, SignIn, Kill, Edit, Idle

\* done leaves the slot idle and touches no other.
LEMMA Done ==
  ASSUME TypeOK, NEW s \in Slots, done(s)
  PROVE  /\ req' \in [Slots -> Requests] /\ req'[s] = Idle
         /\ \A t \in Slots : t # s => req'[t] = req[t]
BY DEF TypeOK, done, Requests

\* begin fills the slot and does nothing else.
LEMMA Began ==
  ASSUME TypeOK, NEW s \in Slots, NEW r \in Requests, begin(s, r)
  PROVE  /\ req' \in [Slots -> Requests] /\ req'[s] = r
         /\ \A t \in Slots : t # s => req'[t] = req[t]
         /\ UNCHANGED <<user, otp, challenge, tokens, marks, redis_up, kills, signed_out,
            redeemed>>
BY DEF TypeOK, begin, links, ghosts

\* sign_in_request makes the record of a request that issues tokens.
LEMMA SignInRequest ==
  ASSUME TypeOK, NEW op \in {"login", "refresh"}, NEW j \in Tokens \cup {NoToken},
         NEW typed \in SUBSET Codes
  PROVE  sign_in_request(op, j, typed) \in SignIn
BY DEF TypeOK, sign_in_request, SignIn, Users

\* The first state has the types declared.
LEMMA TypeInit == Init => TypeOK
<1> SUFFICES ASSUME Init PROVE TypeOK
  OBVIOUS
<1>1. user \in Users
  BY DEF Init, Users
<1>2. tokens \in [Tokens -> Rows]
  BY DEF Init, Rows, NoRow
<1>3. req \in [Slots -> Requests]
  BY DEF Init, Requests
<1>4. QED
  BY <1>1, <1>2, <1>3 DEF Init, TypeOK

\* issue_tokens writes one row that was not there.
LEMMA Issued ==
  ASSUME TypeOK, NEW r \in SignIn, NEW j \in Tokens, NEW rows \in [Tokens -> Rows],
         issue_tokens(j, r, rows)
  PROVE  /\ tokens' \in [Tokens -> Rows] /\ ~tokens[j].issued
         /\ tokens'[j].issued /\ tokens'[j].version = r.version /\ tokens'[j].born = r.kills
         /\ \A k \in Tokens : k # j => tokens'[k] = rows[k]
BY DEF issue_tokens, Rows, SignIn

\* Revoking a row changes nothing else of it, nor of other rows.
LEMMA Revoked ==
  ASSUME TypeOK, NEW j
  PROVE  /\ [tokens EXCEPT ![j].revoked = TRUE] \in [Tokens -> Rows]
         /\ \A k \in Tokens :
              LET row == [tokens EXCEPT ![j].revoked = TRUE][k] IN
              /\ row.issued = tokens[k].issued /\ row.version = tokens[k].version
              /\ row.born = tokens[k].born /\ row.age = tokens[k].age
              /\ tokens[k].revoked => row.revoked
<1>1. tokens \in [Tokens -> Rows]
  BY DEF TypeOK
<1>2. \A k \in Tokens : /\ [tokens[k] EXCEPT !.revoked = TRUE] \in Rows
                        /\ [tokens[k] EXCEPT !.revoked = TRUE].issued = tokens[k].issued
                        /\ [tokens[k] EXCEPT !.revoked = TRUE].version = tokens[k].version
                        /\ [tokens[k] EXCEPT !.revoked = TRUE].born = tokens[k].born
                        /\ [tokens[k] EXCEPT !.revoked = TRUE].age = tokens[k].age
                        /\ [tokens[k] EXCEPT !.revoked = TRUE].revoked
  BY <1>1 DEF Rows
<1>3. [tokens EXCEPT ![j].revoked = TRUE] = [tokens EXCEPT ![j]
   = [tokens[j] EXCEPT !.revoked = TRUE]]
  OBVIOUS
<1>4. QED
  BY <1>1, <1>2, <1>3

\* Every step keeps the types.
LEMMA TypeNext == TypeOK /\ [Next]_vars => TypeOK'
<1> SUFFICES ASSUME TypeOK, [Next]_vars PROVE TypeOK'
  OBVIOUS
<1>1. CASE verify_otp
  BY <1>1 DEF verify_otp, TypeOK, Users, links, ghosts
<1>2. CASE resend_otp
  BY <1>2 DEF resend_otp, TypeOK, links, ghosts
<1>3. ASSUME NEW s \in SignIns, begin_login(s)
      PROVE  TypeOK'
  <2>1. s \in Slots
    BY DEF Slots
  <2>2. sign_in_request("login", NoToken, {}) \in Requests
    BY SignInRequest DEF Requests
  <2>3. QED
    BY <1>3, <2>1, <2>2, Began DEF begin_login, TypeOK
<1>4. ASSUME NEW s \in SignIns, begin_verify_2fa(s)
      PROVE  TypeOK'
  <2>1. s \in Slots
    BY DEF Slots
  <2>2. user.codes \in SUBSET Codes
    BY DEF TypeOK, Users
  <2>3. PICK typed \in SUBSET Codes : begin(s, sign_in_request("login", NoToken, typed))
    BY <1>4, <2>2 DEF begin_verify_2fa
  <2>4. sign_in_request("login", NoToken, typed) \in Requests
    BY SignInRequest DEF Requests
  <2>5. QED
    BY <2>1, <2>3, <2>4, Began DEF TypeOK
<1>5. ASSUME NEW s \in SignIns, NEW j \in Tokens, begin_refresh(s, j)
      PROVE  TypeOK'
  <2>1. s \in Slots
    BY DEF Slots
  <2>2. sign_in_request("refresh", j, {}) \in Requests
    BY SignInRequest DEF Requests
  <2>3. QED
    BY <1>5, <2>1, <2>2, Began DEF begin_refresh, TypeOK
<1>6. ASSUME NEW s \in SignIns, login(s)
      PROVE  TypeOK'
  <2>1. s \in Slots
    BY DEF Slots
  <2>2. req[s] \in SignIn
    BY <1>6, <2>1, RequestKinds DEF login
  <2>3. PICK j \in Tokens : issue_tokens(j, req[s], tokens)
    BY <1>6 DEF login
  <2>4. tokens' \in [Tokens -> Rows]
    BY <2>2, <2>3, Issued DEF TypeOK
  <2>5. user' \in Users /\ redeemed' \subseteq Codes
    BY <1>6, <2>2 DEF login, verify_login_code, TypeOK, Users, SignIn
  <2>6. QED
    BY <1>6, <2>1, <2>4, <2>5, Done DEF login, TypeOK, links
<1>7. ASSUME NEW s \in SignIns, refresh_token(s)
      PROVE  TypeOK'
  <2>1. s \in Slots
    BY DEF Slots
  <2>2. req[s] \in SignIn
    BY <1>7, <2>1, RequestKinds DEF refresh_token
  <2>3. PICK j \in Tokens : issue_tokens(j, req[s],
     [tokens EXCEPT ![req[s].token].revoked = TRUE])
    BY <1>7 DEF refresh_token
  <2>4. [tokens EXCEPT ![req[s].token].revoked = TRUE] \in [Tokens -> Rows]
    BY Revoked
  <2>5. tokens' \in [Tokens -> Rows]
    BY <2>2, <2>3, <2>4, Issued
  <2>6. QED
    BY <1>7, <2>1, <2>5, Done DEF refresh_token, TypeOK, links, ghosts
<1>8. ASSUME NEW s \in Changes, begin_reset_password(s)
      PROVE  TypeOK'
  <2>1. s \in Slots
    BY DEF Slots
  <2>2. [op |-> "reset", token |-> NoToken, version |-> user.version] \in Requests
    BY DEF TypeOK, Users, Requests, Kill
  <2>3. QED
    BY <1>8, <2>1, <2>2, Began DEF begin_reset_password, begin_kill, TypeOK
<1>9. ASSUME NEW s \in Changes, NEW j \in Tokens, begin_logout(s, j)
      PROVE  TypeOK'
  <2>1. s \in Slots
    BY DEF Slots
  <2>2. [op |-> "logout", token |-> j, version |-> user.version] \in Requests
    BY DEF TypeOK, Users, Requests, Kill
  <2>3. QED
    BY <1>9, <2>1, <2>2, Began DEF begin_logout, begin_kill, TypeOK
<1>10. ASSUME NEW s \in Changes, NEW j \in Tokens, begin_change_password(s, j)
      PROVE  TypeOK'
  <2>1. s \in Slots
    BY DEF Slots
  <2>2. [op |-> "change", token |-> j, version |-> user.version] \in Requests
    BY DEF TypeOK, Users, Requests, Kill
  <2>3. QED
    BY <1>10, <2>1, <2>2, Began DEF begin_change_password, begin_kill, TypeOK
<1>11. ASSUME NEW s \in Changes, NEW op \in {"setup", "enable", "disable", "regenerate"},
             NEW j \in Tokens, begin_two_factor(s, op, j)
      PROVE  TypeOK'
  <2>1. s \in Slots
    BY DEF Slots
  <2>2. [op |-> op, token |-> j] \in Requests
    BY DEF Requests, Edit
  <2>3. QED
    BY <1>11, <2>1, <2>2, Began DEF begin_two_factor, TypeOK
<1>12. ASSUME NEW s \in Changes, NEW j \in Tokens, begin_revoke_session(s, j)
      PROVE  TypeOK'
  <2>1. s \in Slots
    BY DEF Slots
  <2>2. [op |-> "sign_out", token |-> j] \in Requests
    BY DEF Requests, Edit
  <2>3. QED
    BY <1>12, <2>1, <2>2, Began DEF begin_revoke_session, TypeOK
<1>13. ASSUME NEW s \in Changes, logout(s)
      PROVE  TypeOK'
  <2>1. s \in Slots
    BY DEF Slots
  <2>2. req[s].version \in Nat
    BY <1>13, <2>1, RequestKinds DEF logout, Kill
  <2>3. user' \in Users /\ kills' \in Nat
    BY <1>13, <2>2 DEF logout, bump, TypeOK, Users
  <2>4. tokens' \in [Tokens -> Rows]
    BY <1>13, Revoked DEF logout, TypeOK
  <2>5. QED
    BY <1>13, <2>1, <2>3, <2>4, Done DEF logout, TypeOK, links
<1>14. ASSUME NEW s \in Changes, reset_password(s)
      PROVE  TypeOK'
  <2>1. s \in Slots
    BY DEF Slots
  <2>2. req[s].version \in Nat
    BY <1>14, <2>1, RequestKinds DEF reset_password, Kill
  <2>3. user' \in Users /\ kills' \in Nat
    BY <1>14, <2>2 DEF reset_password, bump, TypeOK, Users
  <2>4. tokens' \in [Tokens -> Rows]
    BY <1>14, Revoked DEF reset_password, TypeOK
  <2>5. QED
    BY <1>14, <2>1, <2>3, <2>4, Done DEF reset_password, TypeOK, links
<1>15. ASSUME NEW s \in Changes, change_password(s)
      PROVE  TypeOK'
  <2>1. s \in Slots
    BY DEF Slots
  <2>2. req[s].version \in Nat
    BY <1>15, <2>1, RequestKinds DEF change_password, Kill
  <2>3. user' \in Users /\ kills' \in Nat
    BY <1>15, <2>2 DEF change_password, bump, TypeOK, Users
  <2>4. tokens' \in [Tokens -> Rows]
    BY <1>15, Revoked DEF change_password, TypeOK
  <2>5. QED
    BY <1>15, <2>1, <2>3, <2>4, Done DEF change_password, TypeOK, links
<1>16. ASSUME NEW s \in Changes, revoke_session(s)
      PROVE  TypeOK'
  <2>1. s \in Slots
    BY DEF Slots
  <2>2. req[s].token \in Tokens
    BY <1>16, <2>1, RequestKinds DEF revoke_session, Edit
  <2>3. tokens' \in [Tokens -> Rows]
    BY <1>16, Revoked DEF revoke_session
  <2>4. QED
    BY <1>16, <2>1, <2>2, <2>3, ConstantsAssumption, Done DEF revoke_session, TypeOK, links
<1>17. ASSUME NEW s \in Changes, start_setup(s)
      PROVE  TypeOK'
  <2>1. s \in Slots
    BY DEF Slots
  <2>2. QED
    BY <1>17, <2>1, Done DEF start_setup, TypeOK, Users, new_codes, links, ghosts
<1>18. ASSUME NEW s \in Changes, verify_and_enable(s)
      PROVE  TypeOK'
  <2>1. s \in Slots
    BY DEF Slots
  <2>2. QED
    BY <1>18, <2>1, Done DEF verify_and_enable, TypeOK, Users, new_codes, links, ghosts
<1>19. ASSUME NEW s \in Changes, disable(s)
      PROVE  TypeOK'
  <2>1. s \in Slots
    BY DEF Slots
  <2>2. QED
    BY <1>19, <2>1, Done DEF disable, TypeOK, Users, new_codes, links, ghosts
<1>20. ASSUME NEW s \in Changes, regenerate_recovery_codes(s)
      PROVE  TypeOK'
  <2>1. s \in Slots
    BY DEF Slots
  <2>2. QED
    BY <1>20, <2>1, Done DEF regenerate_recovery_codes, TypeOK, Users, new_codes, links, ghosts
<1>21. ASSUME NEW s \in Slots, roll_back(s)
      PROVE  TypeOK'
  <2>1. marks' \in [Tokens -> Nat]
    BY <1>21, RequestKinds, ConstantsAssumption DEF roll_back, TypeOK, Edit
  <2>2. QED
    BY <1>21, <2>1, Done DEF roll_back, TypeOK, links, ghosts
<1>22. CASE create_mfa_challenge_token
  BY <1>22 DEF create_mfa_challenge_token, TypeOK, ghosts
<1>23. CASE scan_qr
  BY <1>23 DEF scan_qr, TypeOK, Users, links, ghosts
<1>24. CASE update_account_status
  BY <1>24 DEF update_account_status, TypeOK, Users, links, ghosts
<1>25. CASE redis_fails
  BY <1>25 DEF redis_fails, TypeOK, links, ghosts
<1>26. CASE lapse
  BY <1>26 DEF lapse, TypeOK, ghosts
<1>27. CASE tick
  <2>1. tokens' \in [Tokens -> Rows]
    BY <1>27 DEF tick, TypeOK, Rows
  <2>2. marks' \in [Tokens -> Nat]
    BY <1>27 DEF tick, TypeOK
  <2>3. QED
    BY <1>27, <2>1, <2>2 DEF tick, TypeOK, links, ghosts
<1>28. CASE UNCHANGED vars
  BY <1>28 DEF vars, TypeOK
<1>29. QED
  BY <1>1, <1>2, <1>3, <1>4, <1>5, <1>6, <1>7, <1>8, <1>9, <1>10, <1>11, <1>12, <1>13, <1>14,
     <1>15, <1>16, <1>17, <1>18, <1>19, <1>20, <1>21, <1>22, <1>23, <1>24, <1>25, <1>26,
        <1>27, <1>28
  DEF Next, sign_in, change

-----------------------------------------------------------------------------
(* Versions *)

\* Where the account stays as it is, what is issued and begun is level with it.
LEMMA AccountRests ==
  ASSUME Behind, user'.version = user.version, kills' = kills,
         \A j \in Tokens : tokens'[j].issued =>
            \/ /\ tokens[j].issued /\ tokens'[j].version = tokens[j].version
               /\ tokens'[j].born = tokens[j].born
            \/ /\ tokens'[j].version <= user.version
               /\ tokens'[j].version = user.version => tokens'[j].born = kills,
         \A t \in Slots :
            \/ req'[t] = req[t]
            \/ req'[t].op \notin {"login", "refresh", "logout", "reset", "change"}
            \/ /\ req'[t].op \in {"login", "refresh"}
               /\ req'[t].version <= user.version
               /\ req'[t].version = user.version => req'[t].kills = kills
            \/ /\ req'[t].op \in {"logout", "reset", "change"} /\ t \in Changes
               /\ req'[t].version = user.version
  PROVE  Behind'
<1>1. TokensAreBehind'
  BY DEF Behind, TokensAreBehind
<1>2. SignInsAreBehind'
  BY DEF Behind, SignInsAreBehind
<1>3. KillsAreCurrent'
  BY DEF Behind, KillsAreCurrent
<1>4. QED
  BY <1>1, <1>2, <1>3 DEF Behind

\* After a kill everything issued or about to be is behind.
LEMMA AccountMoves ==
  ASSUME TypeOK, Behind, OneChange, NEW s \in Changes, done(s), bump(req[s]),
         req[s].op \in {"logout", "reset", "change"},
         \A j \in Tokens : /\ tokens'[j].issued = tokens[j].issued
                           /\ tokens'[j].version = tokens[j].version
  PROVE  Behind' /\ user'.version = user.version + 1
<1>1. s \in Slots /\ user.version \in Nat
  BY DEF Slots, TypeOK, Users
<1>2. user'.version = user.version + 1 /\ req[s].version = user.version
  BY <1>1 DEF bump, Behind, KillsAreCurrent, TypeOK, Users
<1>3. \A j \in Tokens : tokens[j].version \in Nat
  BY DEF TypeOK, Rows
<1>4. \A t \in Slots : t # s => req'[t] = req[t]
  BY <1>1, Done
<1>5. req'[s].op = "idle"
  BY <1>1, Done DEF Idle
<1>6. \A t \in Slots : req[t].op \in {"login", "refresh"} => req[t].version \in Nat
  BY RequestKinds DEF SignIn
<1>7. TokensAreBehind'
  BY <1>1, <1>2, <1>3 DEF Behind, TokensAreBehind
<1>8. SignInsAreBehind'
  BY <1>1, <1>2, <1>4, <1>5, <1>6 DEF Behind, SignInsAreBehind
<1>9. KillsAreCurrent'
  BY <1>4, <1>5 DEF Behind, KillsAreCurrent, OneChange
<1>10. QED
  BY <1>2, <1>7, <1>8, <1>9 DEF Behind

\* Every step keeps tokens, and those about to be issued, behind the account.
LEMMA BehindNext == TypeOK /\ Behind /\ OneChange /\ [Next]_vars => Behind'
<1> SUFFICES ASSUME TypeOK, Behind, OneChange, [Next]_vars PROVE Behind'
  OBVIOUS
<1>1. CASE verify_otp
  BY <1>1, AccountRests DEF verify_otp, TypeOK, Users, links, ghosts
<1>2. CASE resend_otp
  BY <1>2, AccountRests DEF resend_otp, links, ghosts
<1>3. ASSUME NEW s \in SignIns, begin_login(s)
      PROVE  Behind'
  <2>1. s \in Slots
    BY DEF Slots
  <2>2. user.version \in Nat
    BY DEF TypeOK, Users
  <2>3. sign_in_request("login", NoToken, {}) \in Requests
    BY SignInRequest DEF Requests
  <2>4. QED
    BY <1>3, <2>1, <2>2, <2>3, Began, AccountRests DEF begin_login, sign_in_request
<1>4. ASSUME NEW s \in SignIns, begin_verify_2fa(s)
      PROVE  Behind'
  <2>1. s \in Slots
    BY DEF Slots
  <2>2. user.version \in Nat
    BY DEF TypeOK, Users
  <2>3. user.codes \in SUBSET Codes
    BY DEF TypeOK, Users
  <2>4. PICK typed \in SUBSET Codes : begin(s, sign_in_request("login", NoToken, typed))
    BY <1>4, <2>3 DEF begin_verify_2fa
  <2>5. sign_in_request("login", NoToken, typed) \in Requests
    BY SignInRequest DEF Requests
  <2>6. QED
    BY <2>1, <2>2, <2>4, <2>5, Began, AccountRests DEF sign_in_request
<1>5. ASSUME NEW s \in SignIns, NEW j \in Tokens, begin_refresh(s, j)
      PROVE  Behind'
  <2>1. s \in Slots
    BY DEF Slots
  <2>2. user.version \in Nat
    BY DEF TypeOK, Users
  <2>3. sign_in_request("refresh", j, {}) \in Requests
    BY SignInRequest DEF Requests
  <2>4. QED
    BY <1>5, <2>1, <2>2, <2>3, Began, AccountRests DEF begin_refresh, sign_in_request
<1>6. ASSUME NEW s \in SignIns, login(s)
      PROVE  Behind'
  <2>1. s \in Slots
    BY DEF Slots
  <2>2. user.version \in Nat
    BY DEF TypeOK, Users
  <2>3. req[s] \in SignIn
    BY <1>6, <2>1, RequestKinds DEF login
  <2>4. PICK j \in Tokens : issue_tokens(j, req[s], tokens)
    BY <1>6 DEF login
  <2>5. /\ req[s].version <= user.version
        /\ req[s].version = user.version => req[s].kills = kills
    BY <1>6, <2>1 DEF login, Behind, SignInsAreBehind
  <2>6. \A t \in Slots : req'[t] = req[t] \/ req'[t] = Idle
    BY <1>6, <2>1, Done DEF login
  <2>7. user'.version = user.version
    BY <1>6 DEF login, verify_login_code, TypeOK, Users
  <2>8. \A k \in Tokens : k # j => tokens'[k] = tokens[k]
    BY <2>3, <2>4, Issued DEF TypeOK
  <2>9. tokens'[j].version = req[s].version /\ tokens'[j].born = req[s].kills
    BY <2>3, <2>4, Issued DEF TypeOK
  <2>10. QED
    BY <1>6, <2>5, <2>6, <2>7, <2>8, <2>9, AccountRests DEF login, Idle
<1>7. ASSUME NEW s \in SignIns, refresh_token(s)
      PROVE  Behind'
  <2>1. s \in Slots
    BY DEF Slots
  <2>2. user.version \in Nat
    BY DEF TypeOK, Users
  <2> DEFINE rows == [tokens EXCEPT ![req[s].token].revoked = TRUE]
  <2>3. req[s] \in SignIn
    BY <1>7, <2>1, RequestKinds DEF refresh_token
  <2>4. PICK j \in Tokens : issue_tokens(j, req[s], rows)
    BY <1>7 DEF refresh_token
  <2>5. /\ req[s].version <= user.version
        /\ req[s].version = user.version => req[s].kills = kills
    BY <1>7, <2>1 DEF refresh_token, Behind, SignInsAreBehind
  <2>6. \A t \in Slots : req'[t] = req[t] \/ req'[t] = Idle
    BY <1>7, <2>1, Done DEF refresh_token
  <2>7. rows \in [Tokens -> Rows] /\ \A k \in Tokens : /\ rows[k].issued = tokens[k].issued
                                                    /\ rows[k].version = tokens[k].version
                                                    /\ rows[k].born = tokens[k].born
    BY Revoked
  <2> HIDE DEF rows
  <2>8. \A k \in Tokens : k # j => tokens'[k] = rows[k]
    BY <2>3, <2>4, <2>7, Issued
  <2>9. tokens'[j].version = req[s].version /\ tokens'[j].born = req[s].kills
    BY <2>3, <2>4, <2>7, Issued
  <2>10. QED
    BY <1>7, <2>5, <2>6, <2>7, <2>8, <2>9, AccountRests DEF refresh_token, Idle, ghosts
<1>8. ASSUME NEW s \in Changes, begin_reset_password(s)
      PROVE  Behind'
  <2>1. s \in Slots
    BY DEF Slots
  <2>2. [op |-> "reset", token |-> NoToken, version |-> user.version] \in Requests
    BY DEF TypeOK, Users, Requests, Kill
  <2>3. QED
    BY <1>8, <2>1, <2>2, Began, AccountRests DEF begin_reset_password, begin_kill
<1>9. ASSUME NEW s \in Changes, NEW j \in Tokens, begin_logout(s, j)
      PROVE  Behind'
  <2>1. s \in Slots
    BY DEF Slots
  <2>2. [op |-> "logout", token |-> j, version |-> user.version] \in Requests
    BY DEF TypeOK, Users, Requests, Kill
  <2>3. QED
    BY <1>9, <2>1, <2>2, Began, AccountRests DEF begin_logout, begin_kill
<1>10. ASSUME NEW s \in Changes, NEW j \in Tokens, begin_change_password(s, j)
      PROVE  Behind'
  <2>1. s \in Slots
    BY DEF Slots
  <2>2. [op |-> "change", token |-> j, version |-> user.version] \in Requests
    BY DEF TypeOK, Users, Requests, Kill
  <2>3. QED
    BY <1>10, <2>1, <2>2, Began, AccountRests DEF begin_change_password, begin_kill
<1>11. ASSUME NEW s \in Changes, NEW op \in {"setup", "enable", "disable", "regenerate"},
             NEW j \in Tokens, begin_two_factor(s, op, j)
      PROVE  Behind'
  <2>1. s \in Slots
    BY DEF Slots
  <2>2. [op |-> op, token |-> j] \in Requests
    BY DEF Requests, Edit
  <2>3. QED
    BY <1>11, <2>1, <2>2, Began, AccountRests DEF begin_two_factor
<1>12. ASSUME NEW s \in Changes, NEW j \in Tokens, begin_revoke_session(s, j)
      PROVE  Behind'
  <2>1. s \in Slots
    BY DEF Slots
  <2>2. [op |-> "sign_out", token |-> j] \in Requests
    BY DEF Requests, Edit
  <2>3. QED
    BY <1>12, <2>1, <2>2, Began, AccountRests DEF begin_revoke_session
<1>13. ASSUME NEW s \in Changes, logout(s)
      PROVE  Behind'
  <2>1. \A k \in Tokens : /\ tokens'[k].issued = tokens[k].issued
                          /\ tokens'[k].version = tokens[k].version
    BY <1>13, Revoked DEF logout
  <2>2. QED
    BY <1>13, <2>1, AccountMoves DEF logout
<1>14. ASSUME NEW s \in Changes, reset_password(s)
      PROVE  Behind'
  BY <1>14, AccountMoves DEF reset_password
<1>15. ASSUME NEW s \in Changes, change_password(s)
      PROVE  Behind'
  BY <1>15, AccountMoves DEF change_password
<1>16. ASSUME NEW s \in Changes, revoke_session(s)
      PROVE  Behind'
  <2>1. s \in Slots
    BY DEF Slots
  <2>2. \A k \in Tokens : /\ tokens'[k].issued = tokens[k].issued
                          /\ tokens'[k].version = tokens[k].version
                          /\ tokens'[k].born = tokens[k].born
    BY <1>16, Revoked DEF revoke_session
  <2>3. QED
    BY <1>16, <2>1, <2>2, Done, AccountRests DEF revoke_session, Idle
<1>17. ASSUME NEW s \in Changes, start_setup(s)
      PROVE  Behind'
  <2>1. s \in Slots
    BY DEF Slots
  <2>2. QED
    BY <1>17, <2>1, Done, AccountRests DEF start_setup, Idle, new_codes, TypeOK, Users, links,
       ghosts
<1>18. ASSUME NEW s \in Changes, verify_and_enable(s)
      PROVE  Behind'
  <2>1. s \in Slots
    BY DEF Slots
  <2>2. QED
    BY <1>18, <2>1, Done, AccountRests DEF verify_and_enable, Idle, new_codes, TypeOK, Users,
       links, ghosts
<1>19. ASSUME NEW s \in Changes, disable(s)
      PROVE  Behind'
  <2>1. s \in Slots
    BY DEF Slots
  <2>2. QED
    BY <1>19, <2>1, Done, AccountRests DEF disable, Idle, new_codes, TypeOK, Users, links,
       ghosts
<1>20. ASSUME NEW s \in Changes, regenerate_recovery_codes(s)
      PROVE  Behind'
  <2>1. s \in Slots
    BY DEF Slots
  <2>2. QED
    BY <1>20, <2>1, Done, AccountRests DEF regenerate_recovery_codes, Idle, new_codes, TypeOK,
       Users, links, ghosts
<1>21. ASSUME NEW s \in Slots, roll_back(s)
      PROVE  Behind'
  BY <1>21, Done, AccountRests DEF roll_back, Idle, links, ghosts
<1>22. CASE create_mfa_challenge_token
  BY <1>22, AccountRests DEF create_mfa_challenge_token, links, ghosts
<1>23. CASE scan_qr
  BY <1>23, AccountRests DEF scan_qr, TypeOK, Users, links, ghosts
<1>24. CASE update_account_status
  BY <1>24, AccountRests DEF update_account_status, TypeOK, Users, links, ghosts
<1>25. CASE redis_fails
  BY <1>25, AccountRests DEF redis_fails, links, ghosts
<1>26. CASE lapse
  BY <1>26, AccountRests DEF lapse, links, ghosts
<1>27. CASE tick
  <2>1. \A k \in Tokens : /\ tokens'[k].issued = tokens[k].issued
                          /\ tokens'[k].version = tokens[k].version
                          /\ tokens'[k].born = tokens[k].born
    BY <1>27 DEF tick, TypeOK, Rows
  <2>2. QED
    BY <1>27, <2>1, AccountRests DEF tick, ghosts
<1>28. CASE UNCHANGED vars
  BY <1>28, AccountRests DEF vars
<1>29. QED
  BY <1>1, <1>2, <1>3, <1>4, <1>5, <1>6, <1>7, <1>8, <1>9, <1>10, <1>11, <1>12, <1>13, <1>14,
     <1>15, <1>16, <1>17, <1>18, <1>19, <1>20, <1>21, <1>22, <1>23, <1>24, <1>25, <1>26,
        <1>27, <1>28
  DEF Next, sign_in, change

-----------------------------------------------------------------------------
(* The end of a token *)

Ended(j) == tokens[j].issued /\ ~redeemable(j)

\* Rows only age, are revoked, and are written where there was none.
RowsGoOn ==
    \A j \in Tokens : tokens[j].issued =>
        /\ tokens'[j].issued /\ tokens'[j].version = tokens[j].version
        /\ tokens[j].revoked => tokens'[j].revoked
        /\ tokens[j].age <= tokens'[j].age

\* No step takes back the end of a token.
LEMMA RowsNext == TypeOK /\ [Next]_vars => RowsGoOn
<1> SUFFICES ASSUME TypeOK, [Next]_vars PROVE RowsGoOn
  OBVIOUS
<1>1. UNCHANGED tokens => RowsGoOn
  BY DEF RowsGoOn, TypeOK, Rows
<1>2. CASE verify_otp
  BY <1>2, <1>1 DEF verify_otp, ghosts
<1>3. CASE resend_otp
  BY <1>3, <1>1 DEF resend_otp, ghosts
<1>4. ASSUME NEW s \in SignIns, begin_login(s)
      PROVE  RowsGoOn
  BY <1>4, <1>1 DEF begin_login, begin
<1>5. ASSUME NEW s \in SignIns, begin_verify_2fa(s)
      PROVE  RowsGoOn
  BY <1>5, <1>1 DEF begin_verify_2fa, begin
<1>6. ASSUME NEW s \in SignIns, NEW j \in Tokens, begin_refresh(s, j)
      PROVE  RowsGoOn
  BY <1>6, <1>1 DEF begin_refresh, begin
<1>7. ASSUME NEW s \in SignIns, login(s)
      PROVE  RowsGoOn
  <2>1. s \in Slots /\ \A k \in Tokens : tokens[k].age \in Nat
    BY DEF Slots, TypeOK, Rows
  <2>2. req[s] \in SignIn
    BY <1>7, <2>1, RequestKinds DEF login
  <2>3. PICK j \in Tokens : issue_tokens(j, req[s], tokens)
    BY <1>7 DEF login
  <2>4. ~tokens[j].issued /\ \A k \in Tokens : k # j => tokens'[k] = tokens[k]
    BY <2>2, <2>3, Issued DEF TypeOK
  <2>5. QED
    BY <2>1, <2>4 DEF RowsGoOn
<1>8. ASSUME NEW s \in SignIns, refresh_token(s)
      PROVE  RowsGoOn
  <2> DEFINE rows == [tokens EXCEPT ![req[s].token].revoked = TRUE]
  <2>1. s \in Slots /\ \A k \in Tokens : tokens[k].age \in Nat
    BY DEF Slots, TypeOK, Rows
  <2>2. req[s] \in SignIn
    BY <1>8, <2>1, RequestKinds DEF refresh_token
  <2>3. PICK j \in Tokens : issue_tokens(j, req[s], rows)
    BY <1>8 DEF refresh_token
  <2>4. rows \in [Tokens -> Rows] /\ \A k \in Tokens :
            /\ rows[k].issued = tokens[k].issued /\ rows[k].version = tokens[k].version
            /\ rows[k].age = tokens[k].age
            /\ tokens[k].revoked => rows[k].revoked
    BY Revoked
  <2> HIDE DEF rows
  <2>5. ~tokens[j].issued /\ \A k \in Tokens : k # j => tokens'[k] = rows[k]
    BY <2>2, <2>3, <2>4, Issued
  <2>6. QED
    BY <2>1, <2>4, <2>5 DEF RowsGoOn
<1>9. ASSUME NEW s \in Changes, begin_reset_password(s)
      PROVE  RowsGoOn
  BY <1>9, <1>1 DEF begin_reset_password, begin_kill, begin
<1>10. ASSUME NEW s \in Changes, NEW j \in Tokens, begin_logout(s, j)
      PROVE  RowsGoOn
  BY <1>10, <1>1 DEF begin_logout, begin_kill, begin
<1>11. ASSUME NEW s \in Changes, NEW j \in Tokens, begin_change_password(s, j)
      PROVE  RowsGoOn
  BY <1>11, <1>1 DEF begin_change_password, begin_kill, begin
<1>12. ASSUME NEW s \in Changes, NEW op \in {"setup", "enable", "disable", "regenerate"},
             NEW j \in Tokens, begin_two_factor(s, op, j)
      PROVE  RowsGoOn
  BY <1>12, <1>1 DEF begin_two_factor, begin
<1>13. ASSUME NEW s \in Changes, NEW j \in Tokens, begin_revoke_session(s, j)
      PROVE  RowsGoOn
  BY <1>13, <1>1 DEF begin_revoke_session, begin
<1>14. ASSUME NEW s \in Changes, logout(s)
      PROVE  RowsGoOn
  <2>1. \A k \in Tokens : tokens[k].age \in Nat
    BY DEF TypeOK, Rows
  <2>2. QED
    BY <1>14, <2>1, Revoked DEF logout, RowsGoOn
<1>15. ASSUME NEW s \in Changes, reset_password(s)
      PROVE  RowsGoOn
  BY <1>15, <1>1 DEF reset_password, ghosts
<1>16. ASSUME NEW s \in Changes, change_password(s)
      PROVE  RowsGoOn
  BY <1>16, <1>1 DEF change_password, ghosts
<1>17. ASSUME NEW s \in Changes, revoke_session(s)
      PROVE  RowsGoOn
  <2>1. \A k \in Tokens : tokens[k].age \in Nat
    BY DEF TypeOK, Rows
  <2>2. QED
    BY <1>17, <2>1, Revoked DEF revoke_session, RowsGoOn
<1>18. ASSUME NEW s \in Changes, start_setup(s)
      PROVE  RowsGoOn
  BY <1>18, <1>1 DEF start_setup, ghosts
<1>19. ASSUME NEW s \in Changes, verify_and_enable(s)
      PROVE  RowsGoOn
  BY <1>19, <1>1 DEF verify_and_enable, new_codes
<1>20. ASSUME NEW s \in Changes, disable(s)
      PROVE  RowsGoOn
  BY <1>20, <1>1 DEF disable, new_codes
<1>21. ASSUME NEW s \in Changes, regenerate_recovery_codes(s)
      PROVE  RowsGoOn
  BY <1>21, <1>1 DEF regenerate_recovery_codes, new_codes
<1>22. ASSUME NEW s \in Slots, roll_back(s)
      PROVE  RowsGoOn
  BY <1>22, <1>1 DEF roll_back, ghosts
<1>23. CASE create_mfa_challenge_token
  BY <1>23, <1>1 DEF create_mfa_challenge_token, ghosts
<1>24. CASE scan_qr
  BY <1>24, <1>1 DEF scan_qr, ghosts
<1>25. CASE update_account_status
  BY <1>25, <1>1 DEF update_account_status, ghosts
<1>26. CASE redis_fails
  BY <1>26, <1>1 DEF redis_fails, ghosts
<1>27. CASE lapse
  BY <1>27, <1>1 DEF lapse, ghosts
<1>28. CASE tick
  <2>1. \A k \in Tokens : /\ tokens'[k].issued = tokens[k].issued /\ tokens[k].age \in Nat
                          /\ tokens'[k].version = tokens[k].version
                          /\ tokens'[k].revoked = tokens[k].revoked
                          /\ tokens'[k].age = tokens[k].age \/ tokens'[k].age
                             = tokens[k].age + 1
    BY <1>28 DEF tick, TypeOK, Rows
  <2>2. QED
    BY <2>1 DEF RowsGoOn
<1>29. CASE UNCHANGED vars
  BY <1>29, <1>1 DEF vars
<1>30. QED
  BY <1>2, <1>3, <1>4, <1>5, <1>6, <1>7, <1>8, <1>9, <1>10, <1>11, <1>12, <1>13, <1>14, <1>15,
     <1>16, <1>17, <1>18, <1>19, <1>20, <1>21, <1>22, <1>23, <1>24, <1>25, <1>26, <1>27,
        <1>28, <1>29
  DEF Next, sign_in, change

\* The version of the account only grows.
LEMMA VersionNext ==
  TypeOK /\ Behind /\ OneChange /\ [Next]_vars => user.version <= user'.version
<1> SUFFICES ASSUME TypeOK, Behind, OneChange, [Next]_vars PROVE user.version <= user'.version
  OBVIOUS
<1>1. user.version \in Nat
  BY DEF TypeOK, Users
<1>2. user'.version = user.version => user.version <= user'.version
  BY <1>1
<1>3. CASE verify_otp
  BY <1>3, <1>2 DEF verify_otp, new_codes, TypeOK, Users
<1>4. CASE resend_otp
  BY <1>4, <1>2 DEF resend_otp, ghosts
<1>5. ASSUME NEW s \in SignIns, begin_login(s)
      PROVE  user.version <= user'.version
  BY <1>5, <1>2 DEF begin_login, begin
<1>6. ASSUME NEW s \in SignIns, begin_verify_2fa(s)
      PROVE  user.version <= user'.version
  BY <1>6, <1>2 DEF begin_verify_2fa, begin
<1>7. ASSUME NEW s \in SignIns, NEW j \in Tokens, begin_refresh(s, j)
      PROVE  user.version <= user'.version
  BY <1>7, <1>2 DEF begin_refresh, begin
<1>8. ASSUME NEW s \in SignIns, login(s)
      PROVE  user.version <= user'.version
  BY <1>8, <1>2 DEF login, verify_login_code, TypeOK, Users
<1>9. ASSUME NEW s \in SignIns, refresh_token(s)
      PROVE  user.version <= user'.version
  BY <1>9, <1>2 DEF refresh_token, ghosts
<1>10. ASSUME NEW s \in Changes, begin_reset_password(s)
      PROVE  user.version <= user'.version
  BY <1>10, <1>2 DEF begin_reset_password, begin_kill, begin
<1>11. ASSUME NEW s \in Changes, NEW j \in Tokens, begin_logout(s, j)
      PROVE  user.version <= user'.version
  BY <1>11, <1>2 DEF begin_logout, begin_kill, begin
<1>12. ASSUME NEW s \in Changes, NEW j \in Tokens, begin_change_password(s, j)
      PROVE  user.version <= user'.version
  BY <1>12, <1>2 DEF begin_change_password, begin_kill, begin
<1>13. ASSUME NEW s \in Changes, NEW op \in {"setup", "enable", "disable", "regenerate"},
             NEW j \in Tokens, begin_two_factor(s, op, j)
      PROVE  user.version <= user'.version
  BY <1>13, <1>2 DEF begin_two_factor, begin
<1>14. ASSUME NEW s \in Changes, NEW j \in Tokens, begin_revoke_session(s, j)
      PROVE  user.version <= user'.version
  BY <1>14, <1>2 DEF begin_revoke_session, begin
<1>15. ASSUME NEW s \in Changes, logout(s)
      PROVE  user.version <= user'.version
  <2>1. s \in Slots
    BY DEF Slots
  <2>2. user'.version = user.version + 1
    BY <1>15, <2>1 DEF logout, bump, Behind, KillsAreCurrent, TypeOK, Users
  <2>3. QED
    BY <1>1, <2>2
<1>16. ASSUME NEW s \in Changes, reset_password(s)
      PROVE  user.version <= user'.version
  <2>1. s \in Slots
    BY DEF Slots
  <2>2. user'.version = user.version + 1
    BY <1>16, <2>1 DEF reset_password, bump, Behind, KillsAreCurrent, TypeOK, Users
  <2>3. QED
    BY <1>1, <2>2
<1>17. ASSUME NEW s \in Changes, change_password(s)
      PROVE  user.version <= user'.version
  <2>1. s \in Slots
    BY DEF Slots
  <2>2. user'.version = user.version + 1
    BY <1>17, <2>1 DEF change_password, bump, Behind, KillsAreCurrent, TypeOK, Users
  <2>3. QED
    BY <1>1, <2>2
<1>18. ASSUME NEW s \in Changes, revoke_session(s)
      PROVE  user.version <= user'.version
  BY <1>18, <1>2 DEF revoke_session, ghosts
<1>19. ASSUME NEW s \in Changes, start_setup(s)
      PROVE  user.version <= user'.version
  BY <1>19, <1>2 DEF start_setup, new_codes, TypeOK, Users
<1>20. ASSUME NEW s \in Changes, verify_and_enable(s)
      PROVE  user.version <= user'.version
  BY <1>20, <1>2 DEF verify_and_enable, new_codes, TypeOK, Users
<1>21. ASSUME NEW s \in Changes, disable(s)
      PROVE  user.version <= user'.version
  BY <1>21, <1>2 DEF disable, new_codes, TypeOK, Users
<1>22. ASSUME NEW s \in Changes, regenerate_recovery_codes(s)
      PROVE  user.version <= user'.version
  BY <1>22, <1>2 DEF regenerate_recovery_codes, new_codes, TypeOK, Users
<1>23. ASSUME NEW s \in Slots, roll_back(s)
      PROVE  user.version <= user'.version
  BY <1>23, <1>2 DEF roll_back, ghosts
<1>24. CASE create_mfa_challenge_token
  BY <1>24, <1>2 DEF create_mfa_challenge_token, ghosts
<1>25. CASE scan_qr
  BY <1>25, <1>2 DEF scan_qr, new_codes, TypeOK, Users
<1>26. CASE update_account_status
  BY <1>26, <1>2 DEF update_account_status, new_codes, TypeOK, Users
<1>27. CASE redis_fails
  BY <1>27, <1>2 DEF redis_fails, ghosts
<1>28. CASE lapse
  BY <1>28, <1>2 DEF lapse, ghosts
<1>29. CASE tick
  BY <1>29, <1>2 DEF tick, ghosts
<1>30. CASE UNCHANGED vars
  BY <1>30, <1>2 DEF vars
<1>31. QED
  BY <1>3, <1>4, <1>5, <1>6, <1>7, <1>8, <1>9, <1>10, <1>11, <1>12, <1>13, <1>14, <1>15,
     <1>16, <1>17, <1>18, <1>19, <1>20, <1>21, <1>22, <1>23, <1>24, <1>25, <1>26, <1>27,
        <1>28, <1>29, <1>30
  DEF Next, sign_in, change

\* Once expired, revoked or behind the account, a token stays so.
LEMMA EndedNext ==
  Inv /\ OneChange /\ [Next]_vars => [\A j \in Tokens : Ended(j) => ~redeemable(j)']_vars
<1> SUFFICES ASSUME Inv, OneChange, [Next]_vars, NEW j \in Tokens, Ended(j)
             PROVE  ~redeemable(j)'
  OBVIOUS
<1>1. /\ user.version \in Nat /\ tokens[j].version \in Nat /\ tokens[j].age \in Nat
      /\ tokens'[j].age \in Nat /\ user'.version \in Nat
  <2>1. TypeOK /\ TypeOK'
    BY TypeNext DEF Inv
  <2>2. QED
    BY <2>1 DEF TypeOK, Users, Rows
<1>2. /\ tokens'[j].version = tokens[j].version /\ tokens[j].age <= tokens'[j].age
      /\ tokens[j].revoked => tokens'[j].revoked
  BY RowsNext DEF Inv, Ended, RowsGoOn
<1>3. user.version <= user'.version /\ tokens[j].version <= user.version
  BY VersionNext DEF Inv, Behind, Ended, TokensAreBehind
<1>4. CASE ~(tokens[j].age < RefreshTTL)
  BY <1>1, <1>2, <1>4, ConstantsAssumption DEF redeemable, decodes
<1>5. CASE tokens[j].version # user.version
  BY <1>1, <1>2, <1>3, <1>5 DEF redeemable
<1>6. CASE tokens[j].revoked
  BY <1>2, <1>6 DEF redeemable
<1>7. QED
  BY <1>4, <1>5, <1>6 DEF Ended, redeemable, decodes

-----------------------------------------------------------------------------
(* One device signed out *)

\* Whatever does not concern a device leaves its mark and its record alone.
LEMMA MarksMove ==
  ASSUME [Next]_vars
  PROVE  \/ UNCHANGED <<marks, signed_out>>
         \/ \E s \in Changes : revoke_session(s)
         \/ \E s \in Slots : roll_back(s)
         \/ tick
<1>1. ASSUME NEW s \in SignIns, sign_in(s) PROVE UNCHANGED <<marks, signed_out>>
  <2>1. CASE begin_login(s) \/ begin_verify_2fa(s) \/ \E j \in Tokens : begin_refresh(s, j)
    BY <2>1 DEF begin_login, begin_verify_2fa, begin_refresh, begin, ghosts
  <2>2. CASE login(s) \/ refresh_token(s)
    BY <2>2 DEF login, refresh_token, ghosts
  <2> QED BY <1>1, <2>1, <2>2 DEF sign_in
<1>2. ASSUME NEW s \in Changes, change(s), ~revoke_session(s) PROVE UNCHANGED <<marks, signed_out>>
  <2>1. CASE begin_reset_password(s)
    BY <2>1 DEF begin_reset_password, begin_kill, begin, ghosts
  <2>2. ASSUME NEW j \in Tokens,
               \/ begin_logout(s, j) \/ begin_change_password(s, j) \/ begin_revoke_session(s, j)
               \/ \E op \in {"setup", "enable", "disable", "regenerate"} :
                    begin_two_factor(s, op, j)
        PROVE  UNCHANGED <<marks, signed_out>>
    BY <2>2 DEF begin_logout, begin_change_password, begin_kill, begin_revoke_session,
       begin_two_factor, begin, ghosts
  <2>3. CASE logout(s) \/ reset_password(s) \/ change_password(s)
    BY <2>3 DEF logout, reset_password, change_password
  <2>4. CASE \/ start_setup(s) \/ verify_and_enable(s) \/ disable(s)
             \/ regenerate_recovery_codes(s)
    BY <2>4 DEF start_setup, verify_and_enable, disable, regenerate_recovery_codes, new_codes,
       ghosts
  <2> QED BY <1>2, <2>1, <2>2, <2>3, <2>4 DEF change
<1>3. CASE \/ verify_otp \/ resend_otp \/ create_mfa_challenge_token \/ scan_qr
           \/ update_account_status \/ redis_fails \/ lapse \/ UNCHANGED vars
  BY <1>3 DEF verify_otp, resend_otp, create_mfa_challenge_token, scan_qr,
     update_account_status, redis_fails, lapse, vars, ghosts
<1> QED BY <1>1, <1>2, <1>3 DEF Next

\* A request stays as it is, ends, or is begun with what its kind remembers.
Moves(s) ==
    \/ req'[s] = req[s]
    \/ req'[s] = Idle
    \/ /\ s \in SignIns /\ req'[s].op \in {"login", "refresh"}
       /\ UNCHANGED <<user, redeemed>>
       /\ req'[s].typed # {} => req'[s].codes = user.codes
    \/ s \in Changes /\ req'[s].op \in {"logout", "reset", "change"}
    \/ s \in Changes /\ req'[s].op \in {"setup", "enable", "disable", "regenerate"}
    \/ /\ s \in Changes /\ req'[s].op = "sign_out"
       /\ req'[s].token \in Tokens /\ tokens[req'[s].token].issued

\* Requests are begun in their own slots.
LEMMA RequestsMove == ASSUME TypeOK, [Next]_vars, NEW s \in Slots PROVE Moves(s)
<1>1. ASSUME NEW t \in Slots, done(t) PROVE Moves(s)
  BY <1>1, Done DEF Moves
<1>2. ASSUME NEW t \in Slots, NEW r, begin(t, r) PROVE req'[s] = req[s] \/ (t = s /\ req'[s] = r)
  BY <1>2 DEF begin, TypeOK
<1>3. ASSUME NEW t \in SignIns, sign_in(t) PROVE Moves(s)
  <2>0. t \in Slots
    BY DEF Slots
  <2>1. ASSUME NEW op \in {"login", "refresh"}, NEW j, NEW typed,
               begin(t, sign_in_request(op, j, typed))
        PROVE  Moves(s)
    BY <2>1, <2>0, <1>2 DEF sign_in_request, begin, ghosts, Moves
  <2>2. CASE begin_login(t) \/ begin_verify_2fa(t) \/ \E j \in Tokens : begin_refresh(t, j)
    BY <2>2, <2>1 DEF begin_login, begin_verify_2fa, begin_refresh
  <2>3. CASE login(t) \/ refresh_token(t)
    BY <2>3, <2>0, <1>1 DEF login, refresh_token
  <2> QED BY <1>3, <2>2, <2>3 DEF sign_in
<1>4. ASSUME NEW t \in Changes, change(t) PROVE Moves(s)
  <2>0. t \in Slots
    BY DEF Slots
  <2>1. ASSUME NEW op \in {"logout", "reset", "change"}, NEW j, begin_kill(t, op, j) PROVE Moves(s)
    BY <2>1, <2>0, <1>2 DEF begin_kill, Moves
  <2>2. ASSUME NEW j \in Tokens, NEW op \in {"setup", "enable", "disable", "regenerate"},
               begin_two_factor(t, op, j)
        PROVE  Moves(s)
    BY <2>2, <2>0, <1>2 DEF begin_two_factor, Moves
  <2>3. ASSUME NEW j \in Tokens, begin_revoke_session(t, j) PROVE Moves(s)
    BY <2>3, <2>0, <1>2 DEF begin_revoke_session, Moves
  <2>4. CASE \/ begin_reset_password(t)
             \/ \E j \in Tokens : begin_logout(t, j) \/ begin_change_password(t, j)
    BY <2>4, <2>1 DEF begin_reset_password, begin_logout, begin_change_password
  <2>5. CASE \/ logout(t) \/ reset_password(t) \/ change_password(t) \/ revoke_session(t)
             \/ start_setup(t)
    BY <2>5, <2>0, <1>1 DEF logout, reset_password, change_password, revoke_session, start_setup
  <2>6. CASE verify_and_enable(t) \/ disable(t) \/ regenerate_recovery_codes(t)
    BY <2>6, <2>0, <1>1 DEF verify_and_enable, disable, regenerate_recovery_codes, new_codes
  <2> QED BY <1>4, <2>2, <2>3, <2>4, <2>5, <2>6 DEF change
<1>5. ASSUME NEW t \in Slots, roll_back(t) PROVE Moves(s)
  BY <1>5, <1>1 DEF roll_back
<1>6. CASE \/ verify_otp \/ resend_otp \/ create_mfa_challenge_token \/ scan_qr
           \/ update_account_status \/ redis_fails \/ lapse \/ tick \/ UNCHANGED vars
  BY <1>6 DEF verify_otp, resend_otp, create_mfa_challenge_token, scan_qr,
     update_account_status, redis_fails, lapse, tick, vars, Moves
<1> QED BY <1>3, <1>4, <1>5, <1>6 DEF Next

\* A device is signed out by its token's row and, as long as an access token
\* born with it may live, by a mark that outlasts it.
MarksOutlast ==
    \A j \in signed_out :
        /\ tokens[j].issued /\ tokens[j].revoked
        /\ tokens[j].age + marks[j] >= AccessTTL

\* Whoever signs a device out has seen its row.
SignOutsAreOfTokens ==
    \A s \in Slots : req[s].op = "sign_out" => tokens[req[s].token].issued

DevicesInv == MarksOutlast /\ SignOutsAreOfTokens

\* Nobody is signed out at first.
LEMMA InitDevices == Init => DevicesInv
BY DEF Init, DevicesInv, MarksOutlast, SignOutsAreOfTokens, Idle

\* A row that stays, and a mark no shorter, keep the device out.
LEMMA DeviceRests ==
  ASSUME TypeOK, TypeOK', RowsGoOn, NEW j \in signed_out, MarksOutlast, marks'[j] >= marks[j]
  PROVE  tokens'[j].issued /\ tokens'[j].revoked /\ tokens'[j].age + marks'[j] >= AccessTTL
<1>1. j \in Tokens
  BY DEF TypeOK
<1>2. /\ tokens[j].age \in Nat /\ tokens'[j].age \in Nat /\ marks[j] \in Nat
      /\ marks'[j] \in Nat
  BY <1>1 DEF TypeOK, Rows
<1>3. tokens'[j].issued /\ tokens'[j].revoked /\ tokens'[j].age >= tokens[j].age
  BY <1>1, <1>2 DEF RowsGoOn, MarksOutlast
<1> QED BY <1>2, <1>3, ConstantsAssumption DEF MarksOutlast

\* While the mark has time left it loses a tick when the token ages one; a token
\* that ages no further is older than any access token.
LEMMA DevicesNext ==
  ASSUME AccessTTL <= RefreshTTL
  PROVE  TypeOK /\ DevicesInv /\ [Next]_vars => DevicesInv'
<1> SUFFICES ASSUME TypeOK, DevicesInv, [Next]_vars PROVE DevicesInv'
  OBVIOUS
<1>1. TypeOK' /\ RowsGoOn
  BY TypeNext, RowsNext
<1>2. SignOutsAreOfTokens'
  <2> SUFFICES ASSUME NEW s \in Slots, req'[s].op = "sign_out"
               PROVE  tokens'[req'[s].token].issued
    BY DEF SignOutsAreOfTokens
  <2>1. req'[s] # Idle
    BY DEF Idle
  <2>2. req'[s] = req[s] \/ tokens[req'[s].token].issued
    BY <2>1, RequestsMove DEF Moves
  <2>3. req'[s].token \in Tokens
    BY <1>1, RequestKinds, <2>2 DEF TypeOK, Requests, SignIn, Kill, Edit, Idle
  <2>4. tokens[req'[s].token].issued
    BY <2>2 DEF DevicesInv, SignOutsAreOfTokens
  <2> QED BY <2>3, <2>4, <1>1 DEF RowsGoOn
<1>3. CASE UNCHANGED <<marks, signed_out>>
  <2>1. \A j \in Tokens : marks'[j] >= marks[j]
    BY <1>3 DEF TypeOK
  <2>2. signed_out \subseteq Tokens
    BY DEF TypeOK
  <2> QED BY <1>1, <1>2, <1>3, <2>1, <2>2, DeviceRests DEF DevicesInv, MarksOutlast
<1>4. ASSUME NEW s \in Changes, revoke_session(s) PROVE DevicesInv'
  <2> DEFINE j == req[s].token
  <2>0. s \in Slots /\ req[s].op = "sign_out"
    BY <1>4 DEF Slots, revoke_session
  <2>1. j \in Tokens /\ tokens[j].issued /\ AccessTTL \in Nat
    BY <2>0, RequestKinds, ConstantsAssumption DEF Edit, DevicesInv, SignOutsAreOfTokens
  <2>2. /\ tokens' = [tokens EXCEPT ![j].revoked = TRUE]
        /\ redis_up => marks' = [marks EXCEPT ![j] = AccessTTL] /\ signed_out' = signed_out \cup {j}
        /\ ~redis_up => UNCHANGED <<marks, signed_out>>
    BY <1>4 DEF revoke_session
  <2>3. tokens'[j].issued /\ tokens'[j].revoked /\ tokens'[j].age \in Nat
    BY <2>1, <2>2, <1>1 DEF TypeOK, Rows
  <2>4. CASE redis_up
    <3>1. ASSUME NEW k \in signed_out', k # j
          PROVE  tokens'[k].issued /\ tokens'[k].revoked /\ tokens'[k].age + marks'[k] >= AccessTTL
      <4>1. k \in signed_out /\ k \in Tokens
        BY <3>1, <2>2, <2>4 DEF TypeOK
      <4>2. marks'[k] = marks[k] /\ marks[k] \in Nat
        BY <4>1, <3>1, <2>2, <2>4 DEF TypeOK
      <4> QED BY <4>1, <4>2, <1>1, DeviceRests DEF DevicesInv
    <3>2. marks'[j] = AccessTTL
      BY <2>1, <2>2, <2>4 DEF TypeOK
    <3>3. tokens'[j].age + marks'[j] >= AccessTTL
      BY <3>2, <2>3, <2>1
    <3> QED BY <3>1, <3>3, <2>3, <1>2 DEF DevicesInv, MarksOutlast
  <2>5. CASE ~redis_up
    BY <2>2, <2>5, <1>3
  <2> QED BY <2>4, <2>5
<1>5. ASSUME NEW s \in Slots, roll_back(s) PROVE DevicesInv'
  <2>1. CASE UNCHANGED marks
    BY <1>5, <2>1, <1>3 DEF roll_back, ghosts
  <2>2. CASE req[s].op = "sign_out" /\ marks' = [marks EXCEPT ![req[s].token] = AccessTTL]
    <3>1. req[s].token \in Tokens /\ AccessTTL \in Nat
      BY <2>2, RequestKinds, ConstantsAssumption DEF Edit
    <3>2. signed_out' = signed_out /\ signed_out \subseteq Tokens /\ tokens' = tokens
      BY <1>5 DEF roll_back, ghosts, TypeOK
    <3>3. ASSUME NEW k \in signed_out
          PROVE  tokens'[k].issued /\ tokens'[k].revoked /\ tokens'[k].age + marks'[k] >= AccessTTL
      <4>1. CASE k = req[s].token
        <5>1. marks'[k] = AccessTTL
          BY <2>2, <3>1, <4>1 DEF TypeOK
        <5>2. tokens'[k].age \in Nat
          BY <3>1, <4>1, <1>1 DEF TypeOK, Rows
        <5>3. tokens'[k].issued /\ tokens'[k].revoked
          BY <3>2, <3>3 DEF DevicesInv, MarksOutlast
        <5> QED BY <5>1, <5>2, <5>3, <3>1
      <4>2. CASE k # req[s].token
        <5>1. marks'[k] = marks[k] /\ marks[k] \in Nat
          BY <2>2, <3>1, <3>2, <3>3, <4>2 DEF TypeOK
        <5> QED BY <5>1, <3>3, <1>1, DeviceRests DEF DevicesInv
      <4> QED BY <4>1, <4>2
    <3> QED BY <3>2, <3>3, <1>2 DEF DevicesInv, MarksOutlast
  <2> QED BY <1>5, <2>1, <2>2 DEF roll_back
<1>6. CASE tick
  <2>1. signed_out' = signed_out /\ signed_out \subseteq Tokens
    BY <1>6 DEF tick, ghosts, TypeOK
  <2>2. ASSUME NEW k \in signed_out
        PROVE  tokens'[k].issued /\ tokens'[k].revoked /\ tokens'[k].age + marks'[k] >= AccessTTL
    <3>1. /\ k \in Tokens /\ tokens[k].age \in Nat /\ marks[k] \in Nat
          /\ AccessTTL \in Nat /\ RefreshTTL \in Nat
      BY <2>1, <2>2, ConstantsAssumption DEF TypeOK, Rows
    <3>2. tokens[k].issued /\ tokens[k].revoked /\ tokens[k].age + marks[k] >= AccessTTL
      BY <2>2 DEF DevicesInv, MarksOutlast
    <3>3. tokens'[k].issued /\ tokens'[k].revoked
      BY <3>1, <3>2, <1>1 DEF RowsGoOn
    <3>4. marks'[k] = IF marks[k] > 0 THEN marks[k] - 1 ELSE 0
      BY <1>6, <3>1 DEF tick
    <3>5. tokens'[k].age = IF tokens[k].age < RefreshTTL THEN tokens[k].age + 1 ELSE tokens[k].age
      BY <1>6, <3>1, <3>2 DEF tick, decodes, TypeOK, Rows
    <3>6. tokens'[k].age + marks'[k] >= AccessTTL
      BY <3>1, <3>2, <3>4, <3>5
    <3> QED BY <3>3, <3>6
  <2> QED BY <2>1, <2>2, <1>2 DEF DevicesInv, MarksOutlast
<1> QED BY <1>3, <1>4, <1>5, <1>6, MarksMove

\* With no mark left the access token is too old.
LEMMA DevicesOut == TypeOK /\ DevicesInv => SignedOutIsOut
<1> SUFFICES ASSUME TypeOK, DevicesInv, NEW j \in signed_out, redis_up
             PROVE  ~get_current_user(j) /\ ~redeemable(j)
  BY DEF SignedOutIsOut
<1>1. j \in Tokens /\ tokens[j].age \in Nat /\ marks[j] \in Nat /\ AccessTTL \in Nat
  BY ConstantsAssumption DEF TypeOK, Rows
<1>2. tokens[j].revoked /\ tokens[j].age + marks[j] >= AccessTTL
  BY DEF DevicesInv, MarksOutlast
<1>3. marks[j] > 0 \/ ~(tokens[j].age < AccessTTL)
  BY <1>1, <1>2
<1> QED BY <1>2, <1>3 DEF get_current_user, is_session_revoked, redeemable

-----------------------------------------------------------------------------
(* Recovery codes *)

\* Sign-ins do not overlap.
OneSignIn == \A s, t \in SignIns : s = t

\* Sign-ins have slots of their own, and what one has loaded of the codes holds
\* none that has been redeemed.
CodesInv ==
    /\ RedeemedIsSpent
    /\ \A s \in Slots : req[s].op \in {"login", "refresh"} =>
        /\ s \in SignIns
        /\ req[s].typed # {} => redeemed \cap req[s].codes = {}

\* Codes are redeemed by a sign-in alone, and come back in batches.
LEMMA CodesMove ==
  ASSUME TypeOK, [Next]_vars
  PROVE  \/ redeemed' = redeemed /\ user'.codes = user.codes
         \/ redeemed' = {}
         \/ \E s \in SignIns : login(s)
<1>1. ASSUME NEW s \in SignIns, sign_in(s), ~login(s)
      PROVE  redeemed' = redeemed /\ user'.codes = user.codes
  BY <1>1 DEF sign_in, begin_login, begin_verify_2fa, begin_refresh, begin, refresh_token, ghosts
<1>2. ASSUME NEW s \in Changes, change(s)
      PROVE  (redeemed' = redeemed /\ user'.codes = user.codes) \/ redeemed' = {}
  <2>1. CASE begin_reset_password(s)
    BY <2>1 DEF begin_reset_password, begin_kill, begin, ghosts
  <2>2. ASSUME NEW j \in Tokens,
               \/ begin_logout(s, j) \/ begin_change_password(s, j) \/ begin_revoke_session(s, j)
               \/ \E op \in {"setup", "enable", "disable", "regenerate"} :
                    begin_two_factor(s, op, j)
        PROVE  redeemed' = redeemed /\ user'.codes = user.codes
    BY <2>2 DEF begin_logout, begin_change_password, begin_kill, begin_revoke_session,
       begin_two_factor, begin, ghosts
  <2>3. CASE logout(s) \/ reset_password(s) \/ change_password(s) \/ revoke_session(s)
    BY <2>3 DEF logout, reset_password, change_password, revoke_session, bump, TypeOK, Users
  <2>4. CASE start_setup(s)
    BY <2>4 DEF start_setup, ghosts, TypeOK, Users
  <2>5. CASE verify_and_enable(s) \/ disable(s) \/ regenerate_recovery_codes(s)
    BY <2>5 DEF verify_and_enable, disable, regenerate_recovery_codes, new_codes
  <2> QED BY <1>2, <2>1, <2>2, <2>3, <2>4, <2>5 DEF change
<1>3. CASE verify_otp \/ scan_qr \/ update_account_status
  BY <1>3 DEF verify_otp, scan_qr, update_account_status, ghosts, TypeOK, Users
<1>4. CASE \/ resend_otp \/ create_mfa_challenge_token \/ redis_fails \/ lapse \/ tick
           \/ UNCHANGED vars \/ \E s \in Slots : roll_back(s)
  BY <1>4 DEF resend_otp, create_mfa_challenge_token, redis_fails, lapse, tick, roll_back, vars,
     ghosts
<1> QED BY <1>1, <1>2, <1>3, <1>4 DEF Next

\* A sign-in writes the codes it has loaded without those it was given; while it
\* is the only one, none of them has been redeemed since.
LEMMA CodesNext ==
  ASSUME OneSignIn
  PROVE  TypeOK /\ CodesInv /\ [Next]_vars => CodesInv'
<1> SUFFICES ASSUME TypeOK, CodesInv, [Next]_vars PROVE CodesInv'
  OBVIOUS
<1>1. ASSUME NEW s \in Slots, req'[s].op \in {"login", "refresh"}
      PROVE  \/ req'[s] = req[s]
             \/ /\ s \in SignIns /\ UNCHANGED <<user, redeemed>>
                /\ req'[s].typed # {} => req'[s].codes = user.codes
  <2>1. req'[s] # Idle
    BY <1>1 DEF Idle
  <2> QED BY <1>1, <2>1, RequestsMove DEF Moves
<1>2. CASE redeemed' = {} \/ (redeemed' = redeemed /\ user'.codes = user.codes)
  <2>1. RedeemedIsSpent'
    BY <1>2 DEF CodesInv, RedeemedIsSpent
  <2>2. ASSUME NEW s \in Slots, req'[s].op \in {"login", "refresh"}
        PROVE  s \in SignIns /\ (req'[s].typed # {} => redeemed' \cap req'[s].codes = {})
    <3>1. CASE req'[s] = req[s]
      BY <1>2, <2>2, <3>1 DEF CodesInv
    <3>2. CASE req'[s] # req[s]
      BY <1>1, <1>2, <2>2, <3>2 DEF CodesInv, RedeemedIsSpent
    <3> QED BY <3>1, <3>2
  <2> QED BY <2>1, <2>2 DEF CodesInv
<1>3. ASSUME NEW s \in SignIns, login(s) PROVE CodesInv'
  <2> DEFINE r == req[s]
  <2>1. s \in Slots /\ r.op = "login" /\ done(s) /\ verify_login_code(r)
    BY <1>3 DEF login, Slots
  <2>2. r.typed # {} => redeemed \cap r.codes = {}
    BY <2>1 DEF CodesInv
  <2>3. RedeemedIsSpent'
    <3>1. CASE r.typed = {}
      BY <2>1, <3>1 DEF verify_login_code, CodesInv, RedeemedIsSpent
    <3>2. CASE r.typed # {}
      <4>1. user'.codes = r.codes \ r.typed
        BY <2>1, <3>2 DEF verify_login_code, TypeOK, Users
      <4>2. redeemed' = redeemed \cup r.typed
        BY <2>1 DEF verify_login_code
      <4> QED BY <4>1, <4>2, <2>2, <3>2 DEF RedeemedIsSpent
    <3> QED BY <3>1, <3>2
  <2>4. ASSUME NEW t \in Slots, req'[t].op \in {"login", "refresh"} PROVE FALSE
    <3>1. t # s
      BY <2>1, <2>4, Done DEF Idle
    <3>2. req'[t] = req[t]
      BY <2>1, <3>1, Done
    <3> QED BY <2>4, <3>1, <3>2 DEF CodesInv, OneSignIn
  <2> QED BY <2>3, <2>4 DEF CodesInv
<1> QED BY <1>2, <1>3, CodesMove

-----------------------------------------------------------------------------
(* Theorems *)

\* While the account is changed by one request at a time, the invariant holds.
LEMMA Invariance == ASSUME OneChange PROVE Spec => []Inv
<1>1. Init => Inv
  <2>1. Init => Behind
    BY DEF Init, Behind, TokensAreBehind, SignInsAreBehind, KillsAreCurrent, NoRow, Idle
  <2>2. QED
    BY <2>1, TypeInit DEF Inv, Behind
<1>2. Inv /\ [Next]_vars => Inv'
  BY TypeNext, BehindNext DEF Inv, Behind
<1>3. QED
  BY <1>1, <1>2, PTL DEF Spec

\* The state keeps its types: versions and ages are numbers, requests remember
\* what their kind remembers (auth_service.py).
THEOREM TypeCorrect == Spec => []TypeOK
<1>1. QED
  BY TypeInit, TypeNext, PTL DEF Spec

\* A logout, a reset or a password change ends every session, those begun before it
\* and issued after it included, while such requests do not overlap
\* (auth_service.py, token_version).
THEOREM KillsEndSessions ==
    ASSUME OneChange
    PROVE  Spec => []NoneOutlivesAKill
<1>1. Inv => NoneOutlivesAKill
  BY DEF Inv, Behind, TokensAreBehind, NoneOutlivesAKill, get_current_user, redeemable, decodes
<1>2. QED
  BY <1>1, Invariance, PTL

\* A refresh token once expired, rotated or of a past version never refreshes again,
\* under the same condition (auth_service.py, refresh_token).
THEOREM TokensStayEnded ==
    ASSUME OneChange
    PROVE  Spec => EndedStaysEnded
<1>1. Inv /\ [Next]_vars
        => [\A j \in Tokens : tokens[j].issued /\ ~redeemable(j) => ~redeemable(j)']_vars
  BY EndedNext DEF Ended
<1>2. QED
  BY <1>1, Invariance, PTL DEF Spec, EndedStaysEnded

\* A device signed out alone neither opens an endpoint nor buys a new pair while
\* Redis answers, whatever overlaps; a refresh token is not shorter-lived than an
\* access token (auth_service.py, revoke_session).
THEOREM DevicesStayOut ==
    ASSUME AccessTTL <= RefreshTTL
    PROVE  Spec => []SignedOutIsOut
<1>1. Init => TypeOK /\ DevicesInv
  BY TypeInit, InitDevices
<1>2. (TypeOK /\ DevicesInv) /\ [Next]_vars => (TypeOK /\ DevicesInv)'
  BY TypeNext, DevicesNext
<1>3. TypeOK /\ DevicesInv => SignedOutIsOut
  BY DevicesOut
<1>4. QED
  BY <1>1, <1>2, <1>3, PTL DEF Spec

\* A recovery code opens the account once while sign-ins do not overlap, whatever
\* happens to the batch meanwhile (two_factor_service.py, verify_login_code).
THEOREM CodesAreSpent ==
    ASSUME OneSignIn
    PROVE  Spec => []RedeemedIsSpent
<1>1. Init => TypeOK /\ CodesInv
  <2>1. Init => CodesInv
    BY DEF Init, CodesInv, RedeemedIsSpent, Idle
  <2>2. QED
    BY <2>1, TypeInit
<1>2. (TypeOK /\ CodesInv) /\ [Next]_vars => (TypeOK /\ CodesInv)'
  BY TypeNext, CodesNext
<1>3. CodesInv => RedeemedIsSpent
  BY DEF CodesInv
<1>4. QED
  BY <1>1, <1>2, <1>3, PTL DEF Spec

=============================================================================
