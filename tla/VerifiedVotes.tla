----------------------------- MODULE VerifiedVotes -----------------------------
(***************************************************************************)
(* One-time codes and the list of eligible voters.                         *)
(*                                                                         *)
(* Codes sent by e-mail or by SMS cast a free vote in a category; codes    *)
(* sent to a candidate open the candidate's own results.  The handlers are *)
(* the same but for what a code is good for: an address is a voter's or a  *)
(* candidate's.  A request reads the unused codes of the address, sends a  *)
(* new one and commits; a verification reads the code and commits the      *)
(* vote.  No row is locked in between.  The category and the selection     *)
(* (Elections), access codes and rate limits are left out.                 *)
(*                                                                         *)
(* The list of a private election is filled by account, or imported by     *)
(* e-mail: an import makes the accounts that are missing and queues an     *)
(* invitation for every row before it commits.                             *)
(***************************************************************************)
EXTENDS Naturals, FiniteSets

CONSTANTS
    Voters,         \* e-mail addresses and phone numbers that vote
    Candidates,     \* e-mail addresses of candidates
    Codes,          \* codes that may be made
    Emails,         \* addresses on lists of eligible voters
    Requests,       \* slots for handlers in progress
    Revoting        \* allow_revoting

Addresses == Voters \cup Candidates
Absent == [state |-> "none"]
Idle == [op |-> "idle"]

VARIABLES
    code,       \* voter_otps, sms_voter_otps, candidate_access_otps
    sent,       \* codes sent
    lapsed,     \* codes more than ten minutes old
    votes,      \* votes cast from each address
    cast_with,  \* votes cast with each code
    voting_open,
    account,    \* e-mail addresses with an account
    listed,     \* eligible_voters
    invited,    \* addresses told that they may vote
    request

verifiedVars == <<code, sent, lapsed, votes, cast_with, voting_open, account, listed, invited, request>>

unused(a) == {c \in Codes : code[c] # Absent /\ code[c].address = a /\ ~code[c].used}
has_voted(a) == votes[a] > 0

TypeOK ==
    /\ \A c \in Codes : code[c] = Absent \/ code[c].address \in Addresses
    /\ votes \in [Addresses -> 0..Cardinality(Codes) * Cardinality(Requests)]
    /\ sent \subseteq Codes /\ lapsed \subseteq Codes /\ voting_open \in BOOLEAN
    /\ listed \subseteq account /\ account \subseteq Emails /\ invited \subseteq Emails

Init ==
    /\ code = [c \in Codes |-> Absent]
    /\ sent = {} /\ lapsed = {}
    /\ votes = [a \in Addresses |-> 0]
    /\ cast_with = [c \in Codes |-> 0]
    /\ voting_open = TRUE
    /\ account = {} /\ listed = {} /\ invited = {}
    /\ request = [r \in Requests |-> Idle]

begin(r, op) == request[r] = Idle /\ request' = [request EXCEPT ![r] = op]
finish(r) == request' = [request EXCEPT ![r] = Idle]

\* A refusal after the first flush, an exception, a lost connection.
roll_back(r) ==
    /\ request[r] # Idle
    /\ finish(r)
    /\ UNCHANGED <<code, sent, lapsed, votes, cast_with, voting_open, account, listed, invited>>

-----------------------------------------------------------------------------
(* Codes *)

may_request(a) == a \in Voters => voting_open /\ (Revoting \/ ~has_voted(a))

\* Mail and SMS leave before the commit.
begin_request(r, a, c) ==
    /\ c \notin sent /\ may_request(a)
    /\ begin(r, [op |-> "request", address |-> a, code |-> c, previous |-> unused(a)])
    /\ sent' = sent \cup {c}
    /\ UNCHANGED <<code, lapsed, votes, cast_with, voting_open, account, listed, invited>>

request_vote_otp(r) ==
    LET q == request[r] IN
    /\ q.op = "request"
    /\ code' = [c \in Codes |->
        IF c = q.code THEN [state |-> "there", address |-> q.address, used |-> FALSE]
        ELSE IF c \in q.previous THEN [code[c] EXCEPT !.used = TRUE] ELSE code[c]]
    /\ finish(r)
    /\ UNCHANGED <<sent, lapsed, votes, cast_with, voting_open, account, listed, invited>>

expire(c) ==
    /\ code[c] # Absent /\ c \notin lapsed
    /\ lapsed' = lapsed \cup {c}
    /\ UNCHANGED <<code, sent, votes, cast_with, voting_open, account, listed, invited, request>>

begin_verify(r, c) ==
    /\ code[c] # Absent /\ ~code[c].used /\ c \notin lapsed
    /\ code[c].address \in Voters => voting_open
    /\ begin(r, [op |-> "verify", code |-> c, voted |-> has_voted(code[c].address)])
    /\ UNCHANGED <<code, sent, lapsed, votes, cast_with, voting_open, account, listed, invited>>

\* MUTANT of insert_vote: what the handler has read decides.
insert_unless_read(a, read) == Revoting \/ ~read

\* Without revoting the hash of the address is the voter's, and is unique in
\* the category; with revoting it is salted.
insert_vote(a, read) == Revoting \/ ~has_voted(a)

\* MUTANT of spend: a refused vote keeps the code.
spend_first(q, a) ==
    /\ code' = [code EXCEPT ![q.code].used = TRUE]
    /\ IF insert_vote(a, q.voted)
       THEN /\ votes' = [votes EXCEPT ![a] = @ + 1]
            /\ cast_with' = [cast_with EXCEPT ![q.code] = @ + 1]
       ELSE UNCHANGED <<votes, cast_with>>

\* The code and the vote, in one transaction.
spend(q, a) ==
    /\ insert_vote(a, q.voted)
    /\ code' = [code EXCEPT ![q.code].used = TRUE]
    /\ votes' = [votes EXCEPT ![a] = @ + 1]
    /\ cast_with' = [cast_with EXCEPT ![q.code] = @ + 1]

verify_and_cast(r) ==
    LET q == request[r] IN
    /\ q.op = "verify" /\ code[q.code].address \in Voters
    /\ spend(q, code[q.code].address)
    /\ finish(r)
    /\ UNCHANGED <<sent, lapsed, voting_open, account, listed, invited>>

\* The candidate gets a link that needs no further code.
verify_candidate_otp(r) ==
    LET q == request[r] IN
    /\ q.op = "verify" /\ code[q.code].address \in Candidates
    /\ code' = [code EXCEPT ![q.code].used = TRUE]
    /\ finish(r)
    /\ UNCHANGED <<sent, lapsed, votes, cast_with, voting_open, account, listed, invited>>

close_voting ==
    /\ voting_open /\ voting_open' = FALSE
    /\ UNCHANGED <<code, sent, lapsed, votes, cast_with, account, listed, invited, request>>

-----------------------------------------------------------------------------
(* The list of eligible voters *)

\* Accounts that already exist are added by id.
begin_add(r, rows) ==
    /\ rows # {} /\ rows \subseteq account
    /\ begin(r, [op |-> "add", rows |-> rows, makes |-> {}, adds |-> rows \ listed])
    /\ UNCHANGED <<code, sent, lapsed, votes, cast_with, voting_open, account, listed, invited>>

\* The invitations leave with the queue, before anything is committed.
begin_import(r, rows) ==
    /\ rows # {}
    /\ begin(r, [op |-> "add", rows |-> rows, makes |-> rows \ account, adds |-> rows \ listed])
    /\ invited' = invited \cup rows
    /\ UNCHANGED <<code, sent, lapsed, votes, cast_with, voting_open, account, listed>>

\* The unique e-mail and the unique entry refuse what another handler made
\* meanwhile, and the handler fails as a whole.
add_eligible_voters(r) ==
    LET q == request[r] IN
    /\ q.op = "add"
    /\ q.makes \cap account = {} /\ q.adds \cap listed = {}
    /\ account' = account \cup q.makes
    /\ listed' = listed \cup q.adds
    /\ finish(r)
    /\ UNCHANGED <<code, sent, lapsed, votes, cast_with, voting_open, invited>>

remove_eligible_voter(e) ==
    /\ e \in listed
    /\ listed' = listed \ {e}
    /\ UNCHANGED <<code, sent, lapsed, votes, cast_with, voting_open, account, invited, request>>

resend_eligible_voter_invite(e) ==
    /\ e \in listed
    /\ invited' = invited \cup {e}
    /\ UNCHANGED <<code, sent, lapsed, votes, cast_with, voting_open, account, listed, request>>

Next ==
    \/ \E r \in Requests :
        \/ \E a \in Addresses, c \in Codes : begin_request(r, a, c)
        \/ request_vote_otp(r)
        \/ \E c \in Codes : begin_verify(r, c)
        \/ verify_and_cast(r) \/ verify_candidate_otp(r)
        \/ \E rows \in SUBSET Emails : begin_add(r, rows) \/ begin_import(r, rows)
        \/ add_eligible_voters(r)
        \/ roll_back(r)
    \/ \E c \in Codes : expire(c)
    \/ \E e \in Emails : remove_eligible_voter(e) \/ resend_eligible_voter_invite(e)
    \/ close_voting

Spec == Init /\ [][Next]_verifiedVars

-----------------------------------------------------------------------------
(* Properties *)

(* "You have already voted in this category": without revoting an address  *)
(* has one vote, whatever codes it was sent and however they overlap.      *)
OneVotePerAddress == ~Revoting => \A a \in Addresses : votes[a] <= 1

(* A code is only spent on a vote: unless a newer code replaced it, a used *)
(* code has cast one, and a refused vote leaves the code as it was.        *)
SpentOnAVote ==
    [][\A r \in Requests, c \in Codes :
        request[r].op = "verify" /\ request[r].code = c /\ request'[r] = Idle
            /\ code[c].address \in Voters /\ code'[c].used /\ ~code[c].used
        => cast_with'[c] = cast_with[c] + 1]_verifiedVars

(* "Invalidate any previous unused OTPs for this email+category": at most  *)
(* one code of an address is good.                                         *)
OneGoodCode == \A a \in Addresses : Cardinality(unused(a)) <= 1

(* A used code is invalid, also where voting again is allowed.             *)
OneVotePerCode == \A c \in Codes : cast_with[c] <= 1

(* Whoever an import told that they may vote is on the list when the      *)
(* import is over.                                                         *)
InvitedIsListed ==
    [][\A r \in Requests : request[r].op = "add" /\ request'[r] = Idle
        => request[r].rows \cap invited \subseteq listed']_verifiedVars
=============================================================================
