-------------------------- MODULE ElectionsProofs --------------------------
(***************************************************************************)
(* Theorems about Elections.  That the type is kept and that a voter has   *)
(* one row per category holds however requests, tasks and votes overlap.   *)
(* What Ballot promises is kept when the organizer's requests do not       *)
(* overlap, no beat task runs, and nothing is unpublished or removed: the  *)
(* assumptions of the second part, each of which a run shows to be needed. *)
(*                                                                         *)
(* Then the parts of Ballots, for any parameters: the votes that a code    *)
(* confirms, nominations, votes by phone, promo codes, and the tally.      *)
(***************************************************************************)
EXTENDS Elections, Ballots, FiniteSetTheorems, WellFoundedInduction, TLAPS

-----------------------------------------------------------------------------
(* Types *)

LEMMA InitType == Init => TypeOK
<1> SUFFICES ASSUME Init PROVE TypeOK
  OBVIOUS
<1>1. 0 \in Times /\ 0 \in 0..MaxEdits
  BY ConstantsAssumption DEF Times
<1>2. /\ wording \in 0..MaxEdits /\ now \in Times
      /\ candidates \in [Categories -> SUBSET Candidates]
      /\ receipts \in [Voters -> Nat]
      /\ casting \in [Sessions -> Ballots \cup {NoBallot}]
  BY <1>1 DEF Init
<1>3. request \in [Organizers -> [op : Operations \cup {Nothing}, date : Times]]
  BY <1>1 DEF Init, NoRequest
<1> QED  BY <1>2, <1>3 DEF Init, TypeOK

\* Reading the election for a request keeps the types.
LEMMA ReadType ==
  ASSUME TypeOK, NEW o \in Organizers, NEW op \in Operations, read_election(o, op)
  PROVE  TypeOK'
<1>1. PICK d \in Times : request' = [request EXCEPT ![o] = [op |-> op, date |-> d]]
  <2>1. PICK d \in (IF op = "reschedule" THEN Times \ {start_datetime}
                    ELSE IF op = "extend" THEN Times \ {end_datetime} ELSE {0}) :
          request' = [request EXCEPT ![o] = [op |-> op, date |-> d]]
    BY DEF read_election
  <2>2. d \in Times
    BY <2>1, ConstantsAssumption DEF Times
  <2> QED  BY <2>1, <2>2
<1>2. [op |-> op, date |-> d] \in [op : Operations \cup {Nothing}, date : Times]
  OBVIOUS
<1>3. request' \in [Organizers -> [op : Operations \cup {Nothing}, date : Times]]
  BY <1>1, <1>2 DEF TypeOK
<1> QED  BY <1>3 DEF TypeOK, read_election, window, ballot, box, beat

\* A request that commits leaves a typed slot.
LEMMA CommitType ==
  ASSUME TypeOK, NEW o \in Organizers, NEW op, commits(o, op)
  PROVE  request' \in [Organizers -> [op : Operations \cup {Nothing}, date : Times]]
<1>1. NoRequest \in [op : Operations \cup {Nothing}, date : Times]
  BY ConstantsAssumption DEF NoRequest, Times
<1> QED  BY <1>1 DEF commits, TypeOK

\* The requests that only change the status keep the types.
LEMMA BecomesType ==
  ASSUME TypeOK, NEW o \in Organizers, NEW op, NEW to, becomes(o, op, to),
         to \in {"draft", "scheduled", "active", "completed"}
  PROVE  TypeOK'
<1>1. commits(o, op)
  BY DEF becomes
<1>2. request' \in [Organizers -> [op : Operations \cup {Nothing}, date : Times]]
  BY <1>1, CommitType
<1> QED  BY <1>2 DEF becomes, TypeOK, window, ballot, box, beat

\* So do the requests that write something else.
LEMMA WriteType ==
  ASSUME TypeOK, NEW o \in Organizers,
         \/ delete_election(o) \/ update_election(o) \/ add_category(o)
         \/ delete_category(o) \/ add_candidate(o) \/ remove_candidate(o)
  PROVE  TypeOK'
<1>1. PICK op : commits(o, op)
  BY DEF delete_election, update_election, add_category, delete_category, add_candidate,
     remove_candidate
<1>2. request' \in [Organizers -> [op : Operations \cup {Nothing}, date : Times]]
  BY <1>1, CommitType
<1>3. CASE delete_election(o)
  BY <1>2, <1>3 DEF delete_election, TypeOK, window, box, beat
<1>4. CASE update_election(o)
  <2>1. request[o].date \in Times
    BY DEF TypeOK
  <2>2. start_datetime' \in Times /\ end_datetime' \in Times /\ wording' \in 0..MaxEdits
    BY <1>4, <2>1, ConstantsAssumption DEF update_election, TypeOK, window
  <2> QED  BY <1>2, <1>4, <2>2 DEF update_election, TypeOK, box, beat
<1>5. CASE add_category(o)
  BY <1>2, <1>5 DEF add_category, TypeOK, window, box, beat
<1>6. CASE delete_category(o)
  <2>1. PICK c \in categories : /\ categories' = categories \ {c}
                                /\ candidates' = [candidates EXCEPT ![c] = {}]
    BY <1>6 DEF delete_category
  <2> QED  BY <1>2, <1>6, <2>1 DEF delete_category, TypeOK, window, box, beat
<1>7. CASE add_candidate(o)
  <2>1. PICK c \in categories, a \in Candidates :
          candidates' = [candidates EXCEPT ![c] = @ \cup {a}]
    BY <1>7 DEF add_candidate
  <2> QED  BY <1>2, <1>7, <2>1 DEF add_candidate, TypeOK, window, box, beat
<1>8. CASE remove_candidate(o)
  <2>1. PICK c \in categories : \E a \in candidates[c] :
          candidates' = [candidates EXCEPT ![c] = @ \ {a}]
    BY <1>8 DEF remove_candidate
  <2> QED  BY <1>2, <1>8, <2>1 DEF remove_candidate, TypeOK, window, box, beat
<1> QED  BY <1>3, <1>4, <1>5, <1>6, <1>7, <1>8

\* Votes are rows of the table.
LEMMA VoteType ==
  ASSUME TypeOK, NEW s \in Sessions,
         \/ \E b \in Ballots : cast_vote(s, b)
         \/ insert_vote(s)
  PROVE  TypeOK'
<1>1. ASSUME NEW b \in Ballots, cast_vote(s, b)
      PROVE  TypeOK'
  BY <1>1 DEF cast_vote, TypeOK, window, ballot, box, beat
<1>2. CASE insert_vote(s)
  <2>1. casting[s] \in Ballots
    BY <1>2 DEF insert_vote, TypeOK
  <2>2. PICK n \in {0} \cup Salts : votes' = votes \cup {with_salt(casting[s], n)}
    BY <1>2 DEF insert_vote
  <2>3. with_salt(casting[s], n) \in Rows
    BY <2>1 DEF with_salt, Rows, Ballots
  <2>4. receipts' \in [Voters -> Nat]
    BY <1>2, <2>1 DEF insert_vote, keep_receipt, TypeOK, Ballots
  <2>5. casting' \in [Sessions -> Ballots \cup {NoBallot}]
    BY <1>2 DEF insert_vote, TypeOK
  <2> QED  BY <1>2, <2>2, <2>3, <2>4, <2>5 DEF insert_vote, TypeOK, window, ballot, beat
<1> QED  BY <1>1, <1>2

\* The tasks, rollbacks and the clock keep the types.
LEMMA RestType ==
  ASSUME TypeOK,
         \/ read_expired \/ check_election_status
         \/ read_scheduled \/ activate_scheduled_elections
         \/ roll_back \/ tick \/ UNCHANGED vars
  PROVE  TypeOK'
<1>1. CASE read_expired
  BY <1>1 DEF read_expired, TypeOK, window, ballot, box
<1>2. CASE check_election_status
  BY <1>2 DEF check_election_status, TypeOK, window, ballot, box
<1>3. CASE read_scheduled
  BY <1>3 DEF read_scheduled, TypeOK, window, ballot, box
<1>4. CASE activate_scheduled_elections
  BY <1>4 DEF activate_scheduled_elections, TypeOK, window, ballot, box
<1>5. CASE roll_back
  <2>1. NoRequest \in [op : Operations \cup {Nothing}, date : Times]
    BY ConstantsAssumption DEF NoRequest, Times
  <2>2. request' \in [Organizers -> [op : Operations \cup {Nothing}, date : Times]]
    BY <1>5, <2>1 DEF roll_back, TypeOK, beat
  <2>3. casting' \in [Sessions -> Ballots \cup {NoBallot}]
    BY <1>5 DEF roll_back, TypeOK, beat
  <2>4. starting' \in BOOLEAN /\ ending' \in BOOLEAN
    BY <1>5 DEF roll_back, TypeOK, beat
  <2> QED  BY <1>5, <2>2, <2>3, <2>4 DEF roll_back, TypeOK, window, ballot, box
<1>6. CASE tick
  BY <1>6, ConstantsAssumption DEF tick, TypeOK, window, ballot, box, beat, Times
<1>7. CASE UNCHANGED vars
  BY <1>7 DEF vars, TypeOK
<1> QED  BY <1>1, <1>2, <1>3, <1>4, <1>5, <1>6, <1>7

LEMMA NextType == TypeOK /\ [Next]_vars => TypeOK'
<1> SUFFICES ASSUME TypeOK, [Next]_vars PROVE TypeOK'
  OBVIOUS
<1>1. ASSUME NEW o \in Organizers, NEW op \in Operations, read_election(o, op)
      PROVE  TypeOK'
  BY <1>1, ReadType
<1>2. ASSUME NEW o \in Organizers,
             \/ publish_election(o) \/ schedule_election(o)
             \/ close_election(o) \/ unpublish_election(o)
      PROVE  TypeOK'
  BY <1>2, BecomesType
  DEF publish_election, schedule_election, close_election, unpublish_election
<1>3. ASSUME NEW o \in Organizers,
             \/ delete_election(o) \/ update_election(o) \/ add_category(o)
             \/ delete_category(o) \/ add_candidate(o) \/ remove_candidate(o)
      PROVE  TypeOK'
  BY <1>3, WriteType
<1>4. ASSUME NEW s \in Sessions,
             \/ \E b \in Ballots : cast_vote(s, b)
             \/ insert_vote(s)
      PROVE  TypeOK'
  BY <1>4, VoteType
<1>5. CASE \/ read_expired \/ check_election_status
           \/ read_scheduled \/ activate_scheduled_elections
           \/ roll_back \/ tick \/ UNCHANGED vars
  BY <1>5, RestType
<1> QED  BY <1>1, <1>2, <1>3, <1>4, <1>5 DEF Next

(* The state of Elections keeps its types, whatever overlaps.              *)
THEOREM TypeCorrect == Spec => []TypeOK
<1>1. Init => TypeOK
  BY InitType
<1>2. TypeOK /\ [Next]_vars => TypeOK'
  BY NextType
<1> QED  BY <1>1, <1>2, PTL DEF Spec

-----------------------------------------------------------------------------
(* One row per voter and category *)

\* Only insert_vote writes to the votes table.
LEMMA OnlyInsertsVote ==
  ASSUME [Next]_vars
  PROVE  votes' = votes \/ \E s \in Sessions : insert_vote(s)
  BY DEF Next, vars, box, read_election, publish_election, schedule_election,
     close_election, unpublish_election, becomes, delete_election, update_election,
     add_category, delete_category, add_candidate, remove_candidate, cast_vote,
     read_expired, check_election_status, read_scheduled, activate_scheduled_elections,
     roll_back, tick

LEMMA OneVoteStep ==
  ASSUME TypeOK, OneVoteEach, [Next]_vars
  PROVE  OneVoteEach'
<1>1. CASE votes' = votes
  BY <1>1 DEF OneVoteEach
<1>2. ASSUME NEW s \in Sessions, insert_vote(s)
      PROVE  OneVoteEach'
  <2> DEFINE b == casting[s]
  <2> SUFFICES ASSUME Salts = {}, NEW v \in votes', NEW w \in votes',
                      v.category = w.category, v.voter = w.voter
               PROVE  v = w
    BY DEF OneVoteEach
  <2>1. votes' = votes \cup {with_salt(b, 0)} /\ \A r \in rows_of(b) : r.salt # 0
    BY <1>2 DEF insert_vote
  <2>2. \A r \in votes : r.salt = 0
    BY DEF TypeOK, Rows
  <2>3. rows_of(b) = {}
    BY <2>1, <2>2 DEF rows_of
  <2>4. \A r \in votes : ~(r.category = b.category /\ r.voter = b.voter)
    BY <2>3 DEF rows_of
  <2>5. with_salt(b, 0).category = b.category /\ with_salt(b, 0).voter = b.voter
    BY DEF with_salt
  <2> QED  BY <2>1, <2>4, <2>5 DEF OneVoteEach
<1> QED  BY <1>1, <1>2, OnlyInsertsVote

(* However votes, requests and tasks overlap, a voter who may not revote   *)
(* has one row per category: the unique constraint is enough.              *)
THEOREM VotersVoteOnce == Spec => []OneVoteEach
<1>1. Init => OneVoteEach
  BY DEF Init, OneVoteEach
<1>2. TypeOK /\ OneVoteEach /\ [Next]_vars => OneVoteEach'
  BY OneVoteStep
<1> QED  BY <1>1, <1>2, TypeCorrect, PTL DEF Spec

-----------------------------------------------------------------------------
(* What keeps the promise of Ballot *)

OneOrganizer == \A o, p \in Organizers : o = p
NothingTakenBack == Operations \cap {"unpublish", "remove_candidate"} = {}

\* Votes, and ballots on their way, belong to an election that has begun.
Begun ==
    /\ ~starting /\ ~ending
    /\ VotedMeansStarted
    /\ \A s \in Sessions : casting[s] # NoBallot =>
        /\ status \in {"active", "completed"}
        /\ casting[s].choice \in candidates[casting[s].category]

\* What the request being served has read is still so.
StillSo ==
    \A o \in Organizers :
        /\ request[o].op \in {"schedule", "delete_election"} => status = "draft"
        /\ request[o].op \in {"publish", "reschedule", "reword", "add_category",
                              "delete_category", "add_candidate"} => before_voting
        /\ request[o].op = "publish" => has_candidates
        /\ request[o].op = "close" => status = "active"

PInv == TypeOK /\ OneVoteEach /\ Begun /\ StillSo /\ ActiveHasCandidates

LEMMA InitPInv == Init => PInv
<1> SUFFICES ASSUME Init PROVE PInv
  OBVIOUS
<1>1. Begun
  BY DEF Init, Begun, VotedMeansStarted
<1>2. StillSo
  BY DEF Init, StillSo, NoRequest, Nothing
<1> QED  BY <1>1, <1>2, InitType DEF Init, PInv, OneVoteEach, ActiveHasCandidates

\* After its request has committed the only organizer has none.
LEMMA Served ==
  ASSUME OneOrganizer, TypeOK, NEW o \in Organizers, NEW op, commits(o, op)
  PROVE  StillSo'
<1>1. \A p \in Organizers : request'[p].op = Nothing
  BY DEF OneOrganizer, TypeOK, commits, NoRequest
<1> QED  BY <1>1 DEF StillSo, Nothing

LEMMA ReadPInv ==
  ASSUME OneOrganizer, NothingTakenBack, PInv,
         NEW o \in Organizers, NEW op \in Operations, read_election(o, op)
  PROVE  Begun' /\ StillSo' /\ ActiveHasCandidates'
<1>1. request'[o].op = op /\ \A p \in Organizers : p = o
  BY DEF OneOrganizer, PInv, TypeOK, read_election
<1>2. op \notin {"unpublish", "remove_candidate"} /\ allowed(op)
  BY DEF NothingTakenBack, read_election
<1>3. UNCHANGED <<status, categories, candidates, votes, casting, starting, ending>>
  BY DEF read_election, ballot, box, beat
<1>4. status \in {"draft", "scheduled", "active", "completed", "deleted"}
  BY DEF PInv, TypeOK
<1>5. /\ op \in {"schedule", "delete_election"} => status = "draft"
      /\ op \in {"publish", "reschedule", "reword", "add_category",
                 "delete_category", "add_candidate"} => before_voting
      /\ op = "publish" => has_candidates
      /\ op = "close" => status = "active"
  BY <1>2, <1>4 DEF allowed, leads_to, VALID_TRANSITIONS, before_voting
<1>6. StillSo'
  BY <1>1, <1>3, <1>5 DEF StillSo, before_voting, has_candidates
<1> QED  BY <1>3, <1>6 DEF PInv, Begun, VotedMeansStarted, ActiveHasCandidates

\* Requests that only change the status.
LEMMA BecomesPInv ==
  ASSUME OneOrganizer, NothingTakenBack, PInv, NEW o \in Organizers,
         \/ publish_election(o) \/ schedule_election(o)
         \/ close_election(o) \/ unpublish_election(o)
  PROVE  Begun' /\ StillSo' /\ ActiveHasCandidates'
<1>1. PICK op, to : becomes(o, op, to)
  BY DEF publish_election, schedule_election, close_election, unpublish_election
<1>2. StillSo'
  BY <1>1, Served DEF PInv, becomes
<1>3. UNCHANGED <<categories, candidates, votes, casting, starting, ending>>
  BY <1>1 DEF becomes, ballot, box, beat
<1>4. ~unpublish_election(o)
  BY DEF unpublish_election, becomes, commits, NothingTakenBack, PInv, TypeOK, Nothing
<1>5. CASE publish_election(o)
  <2>1. status' = "active" /\ has_candidates
    BY <1>5 DEF publish_election, becomes, commits, PInv, StillSo
  <2> QED  BY <1>2, <1>3, <2>1 DEF PInv, Begun, VotedMeansStarted, ActiveHasCandidates,
              has_candidates
<1>6. CASE schedule_election(o)
  <2>1. status = "draft" /\ status' = "scheduled"
    BY <1>6 DEF schedule_election, becomes, commits, PInv, StillSo
  <2> QED  BY <1>2, <1>3, <2>1 DEF PInv, Begun, VotedMeansStarted, ActiveHasCandidates
<1>7. CASE close_election(o)
  <2>1. status' = "completed"
    BY <1>7 DEF close_election, becomes
  <2> QED  BY <1>2, <1>3, <2>1 DEF PInv, Begun, VotedMeansStarted, ActiveHasCandidates
<1> QED  BY <1>4, <1>5, <1>6, <1>7

\* Requests that write to the ballot or the window.
LEMMA WritePInv ==
  ASSUME OneOrganizer, NothingTakenBack, PInv, NEW o \in Organizers,
         \/ delete_election(o) \/ update_election(o) \/ add_category(o)
         \/ delete_category(o) \/ add_candidate(o) \/ remove_candidate(o)
  PROVE  Begun' /\ StillSo' /\ ActiveHasCandidates'
<1>1. PICK op : commits(o, op)
  BY DEF delete_election, update_election, add_category, delete_category, add_candidate,
     remove_candidate
<1>2. StillSo'
  BY <1>1, Served DEF PInv
<1>3. ~remove_candidate(o)
  BY DEF remove_candidate, commits, NothingTakenBack, PInv, TypeOK, Nothing
<1>4. CASE update_election(o)
  <2>1. UNCHANGED <<status, categories, candidates, votes, casting, starting, ending>>
    BY <1>4 DEF update_election, box, beat
  <2> QED  BY <1>2, <2>1 DEF PInv, Begun, VotedMeansStarted, ActiveHasCandidates
<1>5. CASE delete_election(o) \/ add_category(o) \/ delete_category(o) \/ add_candidate(o)
  <2>1. UNCHANGED <<votes, casting, starting, ending>>
    BY <1>5 DEF delete_election, add_category, delete_category, add_candidate, box, beat
  <2>2. before_voting
    BY <1>5 DEF delete_election, add_category, delete_category, add_candidate, commits,
       PInv, StillSo, before_voting
  <2>3. status' \in {"draft", "scheduled", "deleted"}
    BY <1>5, <2>2 DEF delete_election, add_category, delete_category, add_candidate,
       before_voting
  <2>4. votes = {} /\ \A s \in Sessions : casting[s] = NoBallot
    BY <2>2 DEF PInv, Begun, VotedMeansStarted, before_voting
  <2> QED  BY <1>2, <2>1, <2>3, <2>4 DEF PInv, Begun, VotedMeansStarted, ActiveHasCandidates
<1> QED  BY <1>3, <1>4, <1>5

LEMMA VotePInv ==
  ASSUME PInv, NEW s \in Sessions,
         \/ \E b \in Ballots : cast_vote(s, b)
         \/ insert_vote(s)
  PROVE  Begun' /\ StillSo' /\ ActiveHasCandidates'
<1>1. UNCHANGED <<status, categories, candidates, request, starting, ending>>
  BY DEF cast_vote, insert_vote, ballot, beat
<1>2. StillSo' /\ ActiveHasCandidates'
  BY <1>1 DEF PInv, StillSo, ActiveHasCandidates, before_voting, has_candidates
<1>3. ASSUME NEW b \in Ballots, cast_vote(s, b)
      PROVE  Begun'
  <2>1. status = "active" /\ b.choice \in candidates[b.category]
    BY <1>3 DEF cast_vote, open_for_voting
  <2>2. casting' = [casting EXCEPT ![s] = b] /\ votes' = votes
    BY <1>3 DEF cast_vote, box
  <2> QED  BY <1>1, <2>1, <2>2 DEF PInv, TypeOK, Begun, VotedMeansStarted
<1>4. CASE insert_vote(s)
  <2>1. status \in {"active", "completed"}
    BY <1>4 DEF insert_vote, PInv, Begun
  <2>2. casting' = [casting EXCEPT ![s] = NoBallot]
    BY <1>4 DEF insert_vote
  <2>3. \A u \in Sessions : casting'[u] = casting[u] \/ casting'[u] = NoBallot
    BY <2>2 DEF PInv, TypeOK
  <2> QED  BY <1>1, <1>2, <2>1, <2>3 DEF PInv, Begun, VotedMeansStarted
<1> QED  BY <1>2, <1>3, <1>4

LEMMA RestPInv ==
  ASSUME ~Beat, PInv,
         \/ read_expired \/ check_election_status
         \/ read_scheduled \/ activate_scheduled_elections
         \/ roll_back \/ tick \/ UNCHANGED vars
  PROVE  Begun' /\ StillSo' /\ ActiveHasCandidates'
<1>1. roll_back \/ tick \/ UNCHANGED vars
  BY DEF read_expired, check_election_status, read_scheduled, activate_scheduled_elections,
     PInv, Begun
<1>2. UNCHANGED <<status, categories, candidates, votes>>
  BY <1>1 DEF roll_back, tick, vars, ballot, box
<1>3. CASE roll_back
  <2>1. ~starting' /\ ~ending'
    BY <1>3 DEF roll_back, beat, PInv, Begun
  <2>2. \A s \in Sessions : casting'[s] = casting[s] \/ casting'[s] = NoBallot
    BY <1>3 DEF roll_back, PInv, TypeOK
  <2>3. \A o \in Organizers : request'[o] = request[o] \/ request'[o] = NoRequest
    BY <1>3 DEF roll_back, PInv, TypeOK
  <2>4. Begun'
    BY <1>2, <2>1, <2>2 DEF PInv, Begun, VotedMeansStarted
  <2>5. StillSo'
    BY <1>2, <2>3 DEF PInv, StillSo, NoRequest, Nothing, before_voting, has_candidates
  <2> QED  BY <1>2, <2>4, <2>5 DEF PInv, ActiveHasCandidates
<1>4. CASE tick \/ UNCHANGED vars
  <2>1. UNCHANGED <<casting, request, starting, ending>>
    BY <1>4 DEF tick, vars, beat
  <2> QED  BY <1>2, <2>1 DEF PInv, Begun, StillSo, VotedMeansStarted, ActiveHasCandidates,
              before_voting, has_candidates
<1> QED  BY <1>1, <1>3, <1>4

LEMMA PInvStep ==
  ASSUME OneOrganizer, NothingTakenBack, ~Beat, PInv, [Next]_vars
  PROVE  PInv'
<1>1. TypeOK' /\ OneVoteEach'
  BY NextType, OneVoteStep DEF PInv
<1>2. Begun' /\ StillSo' /\ ActiveHasCandidates'
  <2>1. ASSUME NEW o \in Organizers, NEW op \in Operations, read_election(o, op)
        PROVE  Begun' /\ StillSo' /\ ActiveHasCandidates'
    BY <2>1, ReadPInv
  <2>2. ASSUME NEW o \in Organizers,
               \/ publish_election(o) \/ schedule_election(o)
               \/ close_election(o) \/ unpublish_election(o)
        PROVE  Begun' /\ StillSo' /\ ActiveHasCandidates'
    BY <2>2, BecomesPInv
  <2>3. ASSUME NEW o \in Organizers,
               \/ delete_election(o) \/ update_election(o) \/ add_category(o)
               \/ delete_category(o) \/ add_candidate(o) \/ remove_candidate(o)
        PROVE  Begun' /\ StillSo' /\ ActiveHasCandidates'
    BY <2>3, WritePInv
  <2>4. ASSUME NEW s \in Sessions,
               \/ \E b \in Ballots : cast_vote(s, b)
               \/ insert_vote(s)
        PROVE  Begun' /\ StillSo' /\ ActiveHasCandidates'
    BY <2>4, VotePInv
  <2>5. CASE \/ read_expired \/ check_election_status
             \/ read_scheduled \/ activate_scheduled_elections
             \/ roll_back \/ tick \/ UNCHANGED vars
    BY <2>5, RestPInv
  <2> QED  BY <2>1, <2>2, <2>3, <2>4, <2>5 DEF Next
<1> QED  BY <1>1, <1>2 DEF PInv

LEMMA PInvHolds ==
  ASSUME OneOrganizer, NothingTakenBack, ~Beat
  PROVE  Spec => []PInv
<1>1. Init => PInv
  BY InitPInv
<1>2. PInv /\ [Next]_vars => PInv'
  BY PInvStep
<1> QED  BY <1>1, <1>2, PTL DEF Spec

(* The requests of one organizer who takes nothing back never open voting  *)
(* on a ballot with a category nobody stands in.                           *)
THEOREM OpenedOnCandidates ==
  ASSUME OneOrganizer, NothingTakenBack, ~Beat
  PROVE  Spec => []ActiveHasCandidates
<1>1. PInv => ActiveHasCandidates
  BY DEF PInv
<1> QED  BY <1>1, PInvHolds, PTL

(* Nor do they leave votes in an election whose voting has not begun.      *)
THEOREM VotesHaveBegun ==
  ASSUME OneOrganizer, NothingTakenBack, ~Beat
  PROVE  Spec => []VotedMeansStarted
<1>1. PInv => VotedMeansStarted
  BY DEF PInv, Begun
<1> QED  BY <1>1, PInvHolds, PTL

-----------------------------------------------------------------------------
(* The ballot, and the end, under the same assumptions *)

\* Only requests made before voting write to the ballot.
LEMMA BallotWritten ==
  ASSUME NothingTakenBack, PInv, [Next]_vars
  PROVE  \/ UNCHANGED ballot
         \/ /\ before_voting /\ UNCHANGED box
            /\ status' \in {"draft", "scheduled", "deleted"}
<1>1. ASSUME NEW o \in Organizers,
             \/ delete_election(o) \/ update_election(o) \/ add_category(o)
             \/ delete_category(o) \/ add_candidate(o) \/ remove_candidate(o)
      PROVE  \/ UNCHANGED ballot
             \/ /\ before_voting /\ UNCHANGED box
                /\ status' \in {"draft", "scheduled", "deleted"}
  <2>1. ~remove_candidate(o)
    BY DEF remove_candidate, commits, NothingTakenBack, PInv, TypeOK, Nothing
  <2>2. CASE update_election(o)
    <3>1. UNCHANGED <<status, categories, candidates, box>>
      BY <2>2 DEF update_election
    <3>2. wording' = wording \/ commits(o, "reword")
      BY <2>2 DEF update_election
    <3>3. commits(o, "reword") => before_voting
      BY DEF commits, PInv, StillSo
    <3> QED  BY <3>1, <3>2, <3>3 DEF ballot, before_voting
  <2>3. CASE delete_election(o) \/ add_category(o) \/ delete_category(o) \/ add_candidate(o)
    <3>1. before_voting
      BY <2>3 DEF delete_election, add_category, delete_category, add_candidate, commits,
         PInv, StillSo, before_voting
    <3>2. UNCHANGED box /\ (status' = status \/ status' = "deleted")
      BY <2>3 DEF delete_election, add_category, delete_category, add_candidate
    <3> QED  BY <3>1, <3>2 DEF before_voting
  <2> QED  BY <1>1, <2>1, <2>2, <2>3
<1>2. CASE \A o \in Organizers :
             ~ \/ delete_election(o) \/ update_election(o) \/ add_category(o)
               \/ delete_category(o) \/ add_candidate(o) \/ remove_candidate(o)
  BY <1>2 DEF Next, vars, ballot, read_election, publish_election, schedule_election,
     close_election, unpublish_election, becomes, cast_vote, insert_vote, read_expired,
     check_election_status, read_scheduled, activate_scheduled_elections, roll_back, tick
<1> QED  BY <1>1, <1>2

(* The requests of one organizer who takes nothing back do not touch the   *)
(* ballot once a vote is cast.                                             *)
THEOREM BallotStaysLocked ==
  ASSUME OneOrganizer, NothingTakenBack, ~Beat
  PROVE  Spec => BallotLocked
<1>1. PInv /\ [Next]_vars => [votes # {} => UNCHANGED ballot]_vars
  BY BallotWritten DEF PInv, Begun, VotedMeansStarted, before_voting
<1> QED  BY <1>1, PInvHolds, PTL DEF Spec, BallotLocked

\* How the status moves.
LEMMA StatusMoves ==
  ASSUME NothingTakenBack, ~Beat, PInv, [Next]_vars
  PROVE  \/ phase' = phase
         \/ phase = "preparing" /\ phase' = "voting" /\ UNCHANGED <<ballot, box>>
         \/ phase = "voting" /\ phase' = "closed" /\ UNCHANGED <<ballot, box>>
<1>1. ASSUME NEW o \in Organizers,
             \/ publish_election(o) \/ schedule_election(o)
             \/ close_election(o) \/ unpublish_election(o)
      PROVE  \/ phase' = phase
             \/ phase = "preparing" /\ phase' = "voting" /\ UNCHANGED <<ballot, box>>
             \/ phase = "voting" /\ phase' = "closed" /\ UNCHANGED <<ballot, box>>
  <2>1. ~unpublish_election(o)
    BY DEF unpublish_election, becomes, commits, NothingTakenBack, PInv, TypeOK, Nothing
  <2>2. UNCHANGED <<ballot, box>>
    BY <1>1 DEF publish_election, schedule_election, close_election, unpublish_election,
       becomes
  <2>3. CASE publish_election(o)
    BY <2>2, <2>3 DEF publish_election, becomes, commits, PInv, StillSo, before_voting,
       phase
  <2>4. CASE schedule_election(o)
    BY <2>2, <2>4 DEF schedule_election, becomes, commits, PInv, StillSo, phase
  <2>5. CASE close_election(o)
    BY <2>2, <2>5 DEF close_election, becomes, commits, PInv, StillSo, phase
  <2> QED  BY <1>1, <2>1, <2>3, <2>4, <2>5
<1>2. ASSUME NEW o \in Organizers, delete_election(o)
      PROVE  phase' = phase
  BY <1>2 DEF delete_election, commits, PInv, StillSo, phase
<1>3. CASE status' = status
  BY <1>3 DEF phase
<1>4. CASE check_election_status \/ activate_scheduled_elections
  BY <1>4 DEF check_election_status, activate_scheduled_elections, PInv, Begun
<1>5. \/ status' = status
      \/ check_election_status \/ activate_scheduled_elections
      \/ \E o \in Organizers :
           \/ delete_election(o)
           \/ publish_election(o) \/ schedule_election(o)
           \/ close_election(o) \/ unpublish_election(o)
  BY DEF Next, vars, read_election, update_election, add_category, delete_category,
     add_candidate, remove_candidate, cast_vote, insert_vote, read_expired, read_scheduled,
     roll_back, tick
<1> QED  BY <1>1, <1>2, <1>3, <1>4, <1>5

(* Nor do they reopen a completed election.                                *)
THEOREM CompletedForGood ==
  ASSUME OneOrganizer, NothingTakenBack, ~Beat
  PROVE  Spec => CompletedIsFinal
<1>1. PInv /\ [Next]_vars => [status = "completed" => status' = "completed"]_vars
  <2> SUFFICES ASSUME PInv, [Next]_vars, status = "completed"
               PROVE  status' = "completed"
    OBVIOUS
  <2>1. phase = "closed"
    BY DEF phase
  <2>2. phase' = "closed"
    BY <2>1, StatusMoves
  <2> QED  BY <2>2 DEF phase
<1> QED  BY <1>1, PInvHolds, PTL DEF Spec, CompletedIsFinal

-----------------------------------------------------------------------------
(* Elections implements Ballot *)

LEMMA InitPromise == Init => Promise!Init
<1> SUFFICES ASSUME Init PROVE Promise!Init
  OBVIOUS
<1>1. wording \in 0..MaxEdits
  BY InitType DEF TypeOK
<1>2. {without_salt(w) : w \in votes} = {}
  BY DEF Init
<1> QED  BY <1>1, <1>2 DEF Init, Promise!Init, phase

\* A vote that is inserted is cast in the sense of Ballot.
LEMMA InsertCasts ==
  ASSUME Salts = {}, PInv, NEW s \in Sessions, insert_vote(s)
  PROVE  Promise!Cast
<1> DEFINE b == casting[s]
           Box == {without_salt(w) : w \in votes}
           v == [category |-> b.category, voter |-> b.voter, choice |-> b.choice]
<1>1. b \in Ballots /\ b.choice \in candidates[b.category] /\ status \in {"active", "completed"}
  BY DEF insert_vote, PInv, TypeOK, Begun
<1>2. votes' = votes \cup {with_salt(b, 0)} /\ \A r \in rows_of(b) : r.salt # 0
  BY DEF insert_vote
<1>3. without_salt(with_salt(b, 0)) = v
  BY DEF without_salt, with_salt
<1>4. {without_salt(w) : w \in votes'} = Box \cup {v}
  BY <1>2, <1>3
<1>5. \A r \in votes : r.salt = 0
  BY DEF PInv, TypeOK, Rows
<1>6. \A r \in votes : ~(r.category = b.category /\ r.voter = b.voter)
  BY <1>2, <1>5 DEF rows_of
<1>7. ~ \E w \in Box : w.category = v.category /\ w.voter = v.voter
  BY <1>6 DEF without_salt
<1>8. v \in [category : Categories, voter : Voters, choice : Candidates]
  BY <1>1 DEF Ballots
<1>9. phase \in {"voting", "closed"} /\ UNCHANGED <<phase, candidates, wording>>
  BY <1>1 DEF insert_vote, phase, ballot
<1>10. v.choice \in candidates[v.category]
  BY <1>1
<1> HIDE DEF v, Box
<1> QED  BY <1>4, <1>7, <1>8, <1>9, <1>10 DEF Promise!Cast, Promise!Votes, Promise!HasVoted,
            Promise!paper, Box

LEMMA StepPromise ==
  ASSUME NothingTakenBack, ~Beat, Salts = {}, PInv, PInv', [Next]_vars
  PROVE  [Promise!Next]_(Promise!vars)
<1>1. ASSUME NEW s \in Sessions, insert_vote(s)
      PROVE  Promise!Next
  BY <1>1, InsertCasts DEF Promise!Next
<1>2. CASE votes' = votes
  <2>1. {without_salt(w) : w \in votes}' = {without_salt(w) : w \in votes}
    BY <1>2
  <2>2. CASE phase' = phase /\ UNCHANGED ballot
    BY <2>1, <2>2 DEF Promise!vars, ballot
  <2>3. CASE phase' = phase /\ ~UNCHANGED ballot
    <3>1. phase = "preparing"
      BY <2>3, BallotWritten DEF phase, before_voting
    <3>2. candidates' \in [Categories -> SUBSET Candidates] /\ wording' \in 0..MaxEdits
      BY DEF PInv, TypeOK
    <3> QED  BY <2>1, <2>3, <3>1, <3>2 DEF Promise!Next, Promise!LayOut
  <2>4. CASE phase = "preparing" /\ phase' = "voting" /\ UNCHANGED <<ballot, box>>
    BY <2>1, <2>4 DEF Promise!Next, Promise!Open, Promise!paper, ballot
  <2>5. CASE phase = "voting" /\ phase' = "closed" /\ UNCHANGED <<ballot, box>>
    BY <2>1, <2>5 DEF Promise!Next, Promise!Close, Promise!paper, ballot
  <2> QED  BY <2>2, <2>3, <2>4, <2>5, StatusMoves
<1> QED  BY <1>1, <1>2, OnlyInsertsVote

(* The requests of one organizer who takes nothing back, and any number of *)
(* overlapping votes, implement Ballot: one vote per voter and category,   *)
(* for a candidate on a paper that no longer changes.                      *)
THEOREM PromiseKept ==
  ASSUME OneOrganizer, NothingTakenBack, ~Beat, Salts = {}
  PROVE  Spec => KeepsThePromise
<1>1. Init => Promise!Init
  BY InitPromise
<1>2. PInv /\ PInv' /\ [Next]_vars => [Promise!Next]_(Promise!vars)
  BY StepPromise
<1> QED  BY <1>1, <1>2, PInvHolds, PTL DEF Spec, KeepsThePromise, Promise!Spec

-----------------------------------------------------------------------------
(* Votes confirmed by a code. *)

Counted == verified_votes \in [Verified!Addresses -> Nat]

\* The handlers that cast no vote.
LEMMA NoVoteCast ==
    ASSUME NEW r \in VerifiedRequests,
           \/ \E a \in Verified!Addresses,
                c \in VerifiedCodes : Verified!begin_request(r, a, c)
           \/ Verified!request_vote_otp(r)
           \/ \E c \in VerifiedCodes : Verified!begin_verify(r, c)
           \/ Verified!verify_candidate_otp(r)
           \/ \E rows \in SUBSET VerifiedEmails : Verified!begin_add(r, rows)
                \/ Verified!begin_import(r, rows)
           \/ Verified!add_eligible_voters(r)
           \/ Verified!roll_back(r)
    PROVE  UNCHANGED verified_votes
  BY DEF Verified!begin_request, Verified!request_vote_otp, Verified!begin_verify,
     Verified!verify_candidate_otp, Verified!begin_add, Verified!begin_import,
     Verified!add_eligible_voters, Verified!roll_back

\* An address has one vote, whatever codes it was sent and however they overlap: the vote is a
\* row of its address, and the unique index refuses a second.
THEOREM AddressVotesOnce == Verified!Spec => []OneVotePerAddress
<1> DEFINE VInv == Counted /\ Verified!OneVotePerAddress
<1>1. Verified!Init => VInv
  BY DEF Verified!Init, Counted, Verified!OneVotePerAddress
<1>2. VInv /\ [Verified!Next]_(Verified!verifiedVars) => VInv'
  <2> SUFFICES ASSUME VInv, [Verified!Next]_(Verified!verifiedVars) PROVE VInv'
    OBVIOUS
  <2>1. ASSUME UNCHANGED verified_votes PROVE VInv'
    BY <2>1 DEF Counted, Verified!OneVotePerAddress
  <2>2. ASSUME NEW r \in VerifiedRequests, Verified!verify_and_cast(r) PROVE VInv'
    <3> DEFINE a == verified_code[verified_request[r].code].address
    <3>1. /\ a \in Verified!Addresses /\ Verified!insert_vote(a, verified_request[r].voted)
          /\ verified_votes' = [verified_votes EXCEPT ![a] = @ + 1]
      BY <2>2 DEF Verified!verify_and_cast, Verified!spend, Verified!Addresses
    <3> HIDE DEF a
    <3>2. Counted'
      BY <3>1 DEF Counted
    <3>3. ASSUME ~VerifiedRevoting, NEW b \in Verified!Addresses
          PROVE verified_votes'[b] <= 1
      BY <3>1, <3>3 DEF Counted, Verified!OneVotePerAddress, Verified!insert_vote,
         Verified!has_voted
    <3> QED BY <3>2, <3>3 DEF Verified!OneVotePerAddress
  <2>3. ASSUME NEW c \in VerifiedCodes, Verified!expire(c) PROVE VInv'
    BY <2>1, <2>3 DEF Verified!expire
  <2>4. ASSUME NEW e \in VerifiedEmails,
               Verified!remove_eligible_voter(e) \/ Verified!resend_eligible_voter_invite(e)
        PROVE  VInv'
    BY <2>1, <2>4 DEF Verified!remove_eligible_voter, Verified!resend_eligible_voter_invite
  <2>5. CASE Verified!close_voting \/ UNCHANGED Verified!verifiedVars
    BY <2>1, <2>5 DEF Verified!close_voting, Verified!verifiedVars
  <2> QED BY <2>1, <2>2, <2>3, <2>4, <2>5, NoVoteCast DEF Verified!Next
<1>3. VInv => OneVotePerAddress
  BY DEF OneVotePerAddress
<1> HIDE DEF VInv
<1> QED BY <1>1, <1>2, <1>3, PTL DEF Verified!Spec

-----------------------------------------------------------------------------
(* Nominations. *)

\* The instance has its own copy of FiniteSets.
LEMMA SameSize == ASSUME NEW S PROVE Reviews!Cardinality(S) = Cardinality(S)
  BY DEF Cardinality, Reviews!Cardinality

SubmissionRows == [id : Nat, form : NominatedForms \cup {Reviews!NoForm}, group :
  Reviews!Groups, field : Nat, status : Reviews!Statuses]

\* Submissions are told apart by their numbers, which go up to how many there are.
Numbered ==
    /\ reviews_submissions \subseteq SubmissionRows
    /\ IsFiniteSet(reviews_submissions)
    /\ \A i, k \in reviews_submissions : i.id = k.id => i = k
    /\ \A i \in reviews_submissions : i.id <= Cardinality(reviews_submissions)

ReviewTables ==
    /\ reviews_form \in [NominatedForms -> [state : {"none", "open", "deleted"},
         field : Nat]]
    /\ reviews_candidates \in [Reviews!Groups -> Nat]
    /\ reviews_review = [s \in NominatedReviewers |-> reviews_review[s]]

OnTheBallot(g) == reviews_candidates[g] > 0 \/ g \in reviews_removed

ARowOf(n, g) == \E i \in reviews_submissions : i.id = n /\ i.group = g

\* A review loads and writes rows of its group; what it takes for the candidate
\* of the group is on the ballot, or was until an organizer removed it.
ReviewOK(r) ==
    /\ r.op \in {"load", "flush", "approved", "approve"} => r.group \in Reviews!Groups
    /\ r.op = "load" => \A k \in r.loaded : ARowOf(k[1], r.group)
    /\ r.op = "flush" => r.verdict \in {"approved", "rejected"}
    /\ r.op = "load" => r.verdict \in {"approved", "rejected"}
    /\ r.op \in {"flush", "approved", "approve"} => \A n \in r.writes : ARowOf(n, r.group)
    /\ r.op = "approve" /\ r.match => OnTheBallot(r.group)

ReviewsAgree == \A s \in NominatedReviewers : ReviewOK(reviews_review[s])

EveryRow == \A i \in reviews_submissions : i.status = "approved" => OnTheBallot(i.group)

NInv == Numbered /\ ReviewTables /\ ReviewsAgree /\ EveryRow

(* Numbers have a smallest one.                                            *)
LEMMA SmallestNumber ==
    ASSUME NEW Numbers, Numbers \subseteq Nat, Numbers # {}
    PROVE  \E m \in Numbers : \A k \in Numbers : m <= k
<1> DEFINE Before == {mn \in Nat \X Nat : mn[1] < mn[2]}
<1>1. IsWellFoundedOn(Before, Nat)
  BY NatLessThanWellFounded DEF OpToRel
<1>2. PICK m \in Numbers : \A k \in Numbers : ~(<<k, m>> \in Before)
  <2> HIDE DEF Before
  <2> QED BY <1>1, WFMin
<1>3. \A k \in Numbers : ~(k < m)
  BY <1>2
<1> QED BY <1>3

(* Of a group that is not empty there is a last submission.                *)
LEMMA LastSubmitted ==
    ASSUME Numbered, NEW g, Reviews!get_group(g) # {}
    PROVE  Reviews!last_submitted(g) \in Reviews!get_group(g)
<1> DEFINE n == Cardinality(reviews_submissions)
           Back == {n - i.id : i \in Reviews!get_group(g)}
<1>1. n \in Nat /\ \A i \in Reviews!get_group(g) : i.id \in Nat /\ n - i.id \in Nat
  BY FS_CardinalityType DEF Numbered, Reviews!get_group, SubmissionRows
<1> HIDE DEF n
<1>2. Back \subseteq Nat /\ Back # {}
  BY <1>1
<1>3. PICK m \in Back : \A k \in Back : m <= k
  BY <1>2, SmallestNumber
<1>4. PICK i \in Reviews!get_group(g) : n - i.id = m
  OBVIOUS
<1>5. \A k \in Reviews!get_group(g) : k.id <= i.id
  <2> SUFFICES ASSUME NEW k \in Reviews!get_group(g) PROVE k.id <= i.id
    OBVIOUS
  <2>1. n - i.id <= n - k.id
    BY <1>3, <1>4
  <2> QED BY <1>1, <2>1
<1> QED BY <1>5 DEF Reviews!last_submitted

(* Rows that are written keep their number, so there are as many as before. *)
LEMMA SameNumber ==
    ASSUME NEW S, IsFiniteSet(S), NEW T,
           \A i, k \in S : i.id = k.id => i = k,
           \A i, k \in T : i.id = k.id => i = k,
           \A i \in S : \E k \in T : k.id = i.id,
           \A k \in T : \E i \in S : i.id = k.id
    PROVE  IsFiniteSet(T) /\ Cardinality(T) = Cardinality(S)
<1> DEFINE f == [i \in S |-> CHOOSE k \in T : k.id = i.id]
<1>1. \A i \in S : f[i] \in T /\ f[i].id = i.id
  OBVIOUS
<1> HIDE DEF f
<1>2. f \in [S -> T]
  <2>1. f = [i \in S |-> f[i]]
    BY DEF f
  <2> QED BY <1>1, <2>1
<1>3. \A i, k \in S : f[i] = f[k] => i = k
  BY <1>1
<1>4. \A k \in T : \E i \in S : f[i] = k
  BY <1>1
<1>5. f \in Bijection(S, T)
  BY <1>2, <1>3, <1>4 DEF Bijection, Injection, Surjection, IsInjective
<1> QED BY <1>5, FS_Bijection DEF ExistsBijection

(* Writing a column other than the number and the group keeps the rows     *)
(* told apart and the reviews that have read them right.                   *)
LEMMA Rewritten ==
    ASSUME Numbered,
           reviews_submissions' \subseteq SubmissionRows,
           \A i \in reviews_submissions : \E k \in reviews_submissions' : k.id = i.id
             /\ k.group = i.group,
           \A k \in reviews_submissions' : \E i \in reviews_submissions : k.id = i.id
             /\ k.group = i.group,
           \A i, k \in reviews_submissions' : i.id = k.id => i = k
    PROVE  Numbered'
<1>1. IsFiniteSet(reviews_submissions')
  /\ Cardinality(reviews_submissions') = Cardinality(reviews_submissions)
  BY SameNumber DEF Numbered
<1>2. \A k \in reviews_submissions' : k.id <= Cardinality(reviews_submissions')
  BY <1>1 DEF Numbered
<1> QED BY <1>1, <1>2 DEF Numbered

(* What is true of a review stays so as long as rows keep their groups and *)
(* what is on the ballot stays or is known to be removed.                  *)
LEMMA StillOK ==
    ASSUME ReviewsAgree,
           \A i \in reviews_submissions : \E k \in reviews_submissions' : k.id = i.id
             /\ k.group = i.group,
           \A g \in Reviews!Groups : OnTheBallot(g) => OnTheBallot(g)',
           \A s \in NominatedReviewers :
               \/ reviews_review'[s] = reviews_review[s]
               \/ ReviewOK(reviews_review[s])'
    PROVE  ReviewsAgree'
<1>1. \A n, g : ARowOf(n, g) => ARowOf(n, g)'
  BY DEF ARowOf
<1> SUFFICES ASSUME NEW s \in NominatedReviewers, reviews_review'[s] = reviews_review[s]
             PROVE  ReviewOK(reviews_review[s])'
  BY DEF ReviewsAgree
<1> QED BY <1>1 DEF ReviewsAgree, ReviewOK

(* The steps that change no row.                                           *)
LEMMA SameRows ==
    ASSUME NInv, ReviewTables', UNCHANGED reviews_submissions,
           \A g \in Reviews!Groups : OnTheBallot(g) => OnTheBallot(g)',
           \A s \in NominatedReviewers :
               \/ reviews_review'[s] = reviews_review[s]
               \/ ReviewOK(reviews_review[s])'
    PROVE  NInv'
<1>1. Numbered'
  BY DEF NInv, Numbered
<1>2. ReviewsAgree'
  BY StillOK DEF NInv
<1>3. EveryRow'
  BY DEF NInv, EveryRow, Numbered, SubmissionRows
<1> QED BY <1>1, <1>2, <1>3 DEF NInv

(* The steps that write rows: none becomes approved but in a group that is *)
(* on the ballot.                                                          *)
LEMMA WrittenRows ==
    ASSUME NInv, ReviewTables', Numbered',
           \A i \in reviews_submissions : \E k \in reviews_submissions' : k.id = i.id
             /\ k.group = i.group,
           \A k \in reviews_submissions' : k.status = "approved" => OnTheBallot(k.group)',
           \A g \in Reviews!Groups : OnTheBallot(g) => OnTheBallot(g)',
           \A s \in NominatedReviewers :
               \/ reviews_review'[s] = reviews_review[s]
               \/ reviews_review'[s] = Reviews!Idle
    PROVE  NInv'
<1>1. ReviewsAgree'
  <2>1. ASSUME NEW s \in NominatedReviewers, reviews_review'[s] = Reviews!Idle
        PROVE  ReviewOK(reviews_review[s])'
    BY <2>1 DEF ReviewOK, Reviews!Idle
  <2> QED BY <2>1, StillOK DEF NInv
<1>2. EveryRow'
  BY DEF EveryRow
<1> QED BY <1>1, <1>2 DEF NInv

\* Nothing is submitted yet.
LEMMA InitNInv == Reviews!Init => NInv
  BY FS_EmptySet DEF Reviews!Init, NInv, Numbered, ReviewTables, ReviewsAgree, ReviewOK,
     EveryRow, Reviews!Idle

\* Opening, closing and saving a form write no submission and no candidate.
LEMMA FormSteps ==
    ASSUME NInv, NEW f \in NominatedForms, Reviews!create_form(f) \/ Reviews!update_form(f)
    PROVE  NInv'
<1>1. UNCHANGED <<reviews_submissions, reviews_candidates, reviews_review, reviews_removed>>
  BY DEF Reviews!create_form, Reviews!update_form
<1>2. ReviewTables'
  BY <1>1 DEF Reviews!create_form, Reviews!update_form, NInv, ReviewTables
<1> QED BY <1>1, <1>2, SameRows DEF OnTheBallot

\* A form that is deleted leaves its submissions behind, with no form.
LEMMA DeleteForm ==
    ASSUME NInv, NEW f \in NominatedForms, Reviews!delete_form(f)
    PROVE  NInv'
<1> DEFINE orphan(i) == [i EXCEPT !.form = IF @ = f THEN Reviews!NoForm ELSE @]
<1>1. UNCHANGED <<reviews_candidates, reviews_review, reviews_removed>>
  BY DEF Reviews!delete_form
<1>2. reviews_submissions' = {orphan(i) : i \in reviews_submissions}
  BY DEF Reviews!delete_form
<1>3. \A i \in reviews_submissions : /\ orphan(i) \in SubmissionRows /\ orphan(i).id = i.id
                                     /\ orphan(i).group = i.group
                                     /\ orphan(i).status = i.status
  BY DEF NInv, Numbered, SubmissionRows
<1> HIDE DEF orphan
<1>4. ReviewTables'
  BY <1>1 DEF Reviews!delete_form, NInv, ReviewTables
<1>5. Numbered'
  BY <1>2, <1>3, Rewritten DEF NInv, Numbered
<1>6. \A k \in reviews_submissions' : k.status = "approved" => OnTheBallot(k.group)'
  BY <1>1, <1>2, <1>3 DEF NInv, EveryRow, OnTheBallot
<1> QED BY <1>1, <1>2, <1>3, <1>4, <1>5, <1>6, WrittenRows DEF OnTheBallot

\* A new submission is pending, under a number of its own.
LEMMA Arrivals ==
    ASSUME NInv, NEW f \in NominatedForms \cup {Reviews!NoForm}, NEW g \in Reviews!Groups,
           NEW q \in Nat, Reviews!arrive(f, g, q)
    PROVE  NInv'
<1> DEFINE new == [id |-> Reviews!next_id, form |-> f, group |-> g, field |-> q,
  status |-> "pending"]
<1>1. UNCHANGED <<reviews_form, reviews_candidates, reviews_review, reviews_removed>>
  /\ reviews_submissions' = reviews_submissions \cup {new}
  BY DEF Reviews!arrive
<1>2. Cardinality(reviews_submissions) \in Nat
  BY FS_CardinalityType DEF NInv, Numbered
<1>3. new \in SubmissionRows /\ new.id = Cardinality(reviews_submissions) + 1
  BY <1>2, SameSize DEF SubmissionRows, Reviews!next_id, Reviews!Statuses
<1>4. \A i \in reviews_submissions : i.id # new.id /\ i.id \in Nat
  /\ i.id <= Cardinality(reviews_submissions)
  BY <1>2, <1>3 DEF NInv, Numbered, SubmissionRows
<1>5. new.status = "pending"
  OBVIOUS
<1> HIDE DEF new
<1>6. new \notin reviews_submissions
  BY <1>4
<1>7. IsFiniteSet(reviews_submissions')
  /\ Cardinality(reviews_submissions') = Cardinality(reviews_submissions) + 1
  BY <1>1, <1>6, FS_AddElement DEF NInv, Numbered
<1>8. Numbered'
  <2>1. reviews_submissions' \subseteq SubmissionRows
    BY <1>1, <1>3 DEF NInv, Numbered
  <2>2. \A i, k \in reviews_submissions' : i.id = k.id => i = k
    BY <1>1, <1>4 DEF NInv, Numbered
  <2>3. \A i \in reviews_submissions' : i.id <= Cardinality(reviews_submissions')
    BY <1>1, <1>2, <1>3, <1>4, <1>7
  <2> QED BY <1>7, <2>1, <2>2, <2>3 DEF Numbered
<1>9. ReviewTables'
  BY <1>1 DEF NInv, ReviewTables
<1>10. \A k \in reviews_submissions' : k.status = "approved" => OnTheBallot(k.group)'
  BY <1>1, <1>5 DEF NInv, EveryRow, OnTheBallot
<1> QED BY <1>1, <1>8, <1>9, <1>10, WrittenRows DEF OnTheBallot

\* A review reads, or is refused: it writes to no table yet.
LEMMA ReviewSteps ==
    ASSUME NInv, NEW s \in NominatedReviewers,
           \/ \E g \in Reviews!Groups,
                v \in {"approved", "rejected"} : Reviews!begin_review(s, g, v)
           \/ Reviews!select_group(s)
           \/ Reviews!flush(s)
           \/ Reviews!read_candidates(s)
           \/ Reviews!delete_photo_answers(s)
           \/ Reviews!roll_back(s)
    PROVE  NInv'
<1> DEFINE q == reviews_review[s]
<1>1. UNCHANGED <<reviews_form, reviews_submissions, reviews_candidates, reviews_removed>>
  BY DEF Reviews!begin_review, Reviews!select_group, Reviews!flush, Reviews!read_candidates,
     Reviews!delete_photo_answers, Reviews!roll_back
<1>2. \A n, g : ARowOf(n, g)' <=> ARowOf(n, g)
  BY <1>1 DEF ARowOf
<1>3. \A g : OnTheBallot(g)' <=> OnTheBallot(g)
  BY <1>1 DEF OnTheBallot
<1>4. ReviewOK(q)
  BY DEF NInv, ReviewsAgree
<1>5. ASSUME NEW r, reviews_review' = [reviews_review EXCEPT ![s] = r],
             ReviewOK(reviews_review[s])'
      PROVE  NInv'
  <2>1. ReviewTables' /\ \A u \in NominatedReviewers \ {s} : reviews_review'[u] = reviews_review[u]
    BY <1>1, <1>5 DEF NInv, ReviewTables
  <2> QED BY <1>1, <1>3, <1>5, <2>1, SameRows
<1>6. ASSUME NEW r, reviews_review' = [reviews_review EXCEPT ![s] = r]
      PROVE  reviews_review'[s] = r
  BY <1>6 DEF NInv, ReviewTables
<1>7. ASSUME NEW g \in Reviews!Groups, NEW v \in {"approved", "rejected"},
             Reviews!begin_review(s, g, v)
      PROVE  NInv'
  <2> DEFINE r == [op |-> "load", verdict |-> v, group |-> g,
                   loaded |-> {<<i.id, i.status>> : i \in Reviews!get_group(g)}]
  <2>1. reviews_review' = [reviews_review EXCEPT ![s] = r]
    BY <1>7 DEF Reviews!begin_review
  <2>2. r.op = "load" /\ r.verdict = v /\ r.group = g /\ \A k \in r.loaded : ARowOf(k[1], g)
    BY DEF Reviews!get_group, ARowOf
  <2> HIDE DEF r
  <2>3. ReviewOK(reviews_review[s])'
    BY <1>2, <1>6, <2>1, <2>2 DEF ReviewOK
  <2> QED BY <1>5, <2>1, <2>3
<1>8. CASE Reviews!select_group(s)
  <2> DEFINE arrived == {i \in Reviews!get_group(q.group) : \A k \in q.loaded : k[1] # i.id}
             known == q.loaded \cup {<<i.id, i.status>> : i \in arrived}
             r == [op |-> "flush", verdict |-> q.verdict, group |-> q.group,
                   rows |-> {k[1] : k \in q.loaded},
                   writes |-> {k[1] : k \in {l \in known : l[2] # q.verdict}}]
  <2>1. q.op = "load" /\ reviews_review' = [reviews_review EXCEPT ![s] = r]
    BY <1>8 DEF Reviews!select_group
  <2>2. \A k \in known : ARowOf(k[1], q.group)
    BY <1>4, <2>1 DEF ReviewOK, Reviews!get_group, ARowOf
  <2>3. r.op = "flush" /\ r.verdict = q.verdict /\ r.group = q.group
        /\ \A n \in r.writes : ARowOf(n, q.group)
    BY <2>2
  <2> HIDE DEF r, known
  <2>4. ReviewOK(reviews_review[s])'
    BY <1>2, <1>4, <1>6, <2>1, <2>3 DEF ReviewOK
  <2> QED BY <1>5, <2>1, <2>4
<1>9. CASE Reviews!flush(s)
  <2> DEFINE r == [op |-> q.verdict, group |-> q.group, rows |-> q.rows, writes |-> q.writes]
  <2>1. q.op = "flush" /\ reviews_review' = [reviews_review EXCEPT ![s] = r]
    BY <1>9 DEF Reviews!flush
  <2>2. q.verdict \in {"approved", "rejected"}
    BY <1>4, <2>1 DEF ReviewOK
  <2>3. r.op = q.verdict /\ r.group = q.group /\ r.writes = q.writes
    OBVIOUS
  <2> HIDE DEF r
  <2>4. ReviewOK(reviews_review[s])'
    BY <1>2, <1>4, <1>6, <2>1, <2>2, <2>3 DEF ReviewOK
  <2> QED BY <1>5, <2>1, <2>4
<1>10. CASE Reviews!read_candidates(s)
  <2> DEFINE r == [op |-> "approve", group |-> q.group, writes |-> q.writes,
                   match |-> Reviews!match(q.group)]
  <2>1. q.op = "approved" /\ reviews_review' = [reviews_review EXCEPT ![s] = r]
    BY <1>10 DEF Reviews!read_candidates
  <2>2. r.op = "approve" /\ r.group = q.group /\ r.writes = q.writes
    /\ (r.match => Reviews!match(q.group))
    OBVIOUS
  <2>3. q.group \in Reviews!Groups
    BY <1>4, <2>1 DEF ReviewOK
  <2>4. r.match => OnTheBallot(q.group)
    BY <2>2, <2>3 DEF Reviews!match, Reviews!get_by_category, Reviews!Groups, OnTheBallot
  <2> HIDE DEF r
  <2>5. ReviewOK(reviews_review[s])'
    BY <1>2, <1>3, <1>4, <1>6, <2>1, <2>2, <2>4 DEF ReviewOK
  <2> QED BY <1>5, <2>1, <2>5
<1>11. CASE Reviews!delete_photo_answers(s)
  <2> DEFINE r == [op |-> "reject", writes |-> q.writes]
  <2>1. reviews_review' = [reviews_review EXCEPT ![s] = r] /\ r.op = "reject"
    BY <1>11 DEF Reviews!delete_photo_answers
  <2> HIDE DEF r
  <2>2. ReviewOK(reviews_review[s])'
    BY <1>6, <2>1 DEF ReviewOK
  <2> QED BY <1>5, <2>1, <2>2
<1>12. CASE Reviews!roll_back(s)
  <2>1. reviews_review' = [reviews_review EXCEPT ![s] = Reviews!Idle]
    BY <1>12 DEF Reviews!roll_back
  <2>2. ReviewOK(Reviews!Idle)'
    BY DEF ReviewOK, Reviews!Idle
  <2>3. ReviewOK(reviews_review[s])'
    BY <1>6, <2>1, <2>2 DEF ReviewOK
  <2> QED BY <1>5, <2>1, <2>3
<1> QED BY <1>7, <1>8, <1>9, <1>10, <1>11, <1>12

\* The verdict is written to the submissions that were read; an approval that found no
\* candidate makes one.
LEMMA Verdicts ==
    ASSUME NInv, NEW s \in NominatedReviewers, Reviews!approve(s) \/ Reviews!reject(s)
    PROVE  NInv'
<1> DEFINE q == reviews_review[s]
           verdict == IF q.op = "approve" THEN "approved" ELSE "rejected"
           stamped(i) == IF i.id \in q.writes THEN [i EXCEPT !.status = verdict] ELSE i
<1>1. reviews_submissions' = {stamped(i) : i \in reviews_submissions}
  BY DEF Reviews!approve, Reviews!reject, Reviews!set_group_status
<1>2. \A i \in reviews_submissions :
        /\ stamped(i) \in SubmissionRows /\ stamped(i).id = i.id
        /\ stamped(i).group = i.group
        /\ stamped(i).status = "approved" =>
            i.status = "approved" \/ (q.op = "approve" /\ i.id \in q.writes)
  BY DEF NInv, Numbered, SubmissionRows, Reviews!Statuses
<1> HIDE DEF stamped
<1>3. Numbered'
  BY <1>1, <1>2, Rewritten DEF NInv, Numbered
<1>4. reviews_review' = [reviews_review EXCEPT ![s] = Reviews!Idle]
  /\ reviews_form' = reviews_form
  BY DEF Reviews!approve, Reviews!reject
<1>5. \A u \in NominatedReviewers :
  reviews_review'[u] = IF u = s THEN Reviews!Idle ELSE reviews_review[u]
  BY <1>4 DEF NInv, ReviewTables
<1>6. \A u \in NominatedReviewers : \/ reviews_review'[u] = reviews_review[u]
                                     \/ reviews_review'[u] = Reviews!Idle
  BY <1>5
<1>7. /\ ReviewTables'
      /\ \A g \in Reviews!Groups : OnTheBallot(g) => OnTheBallot(g)'
      /\ q.op = "approve" => (reviews_candidates'[q.group] > 0
           \/ q.group \in reviews_removed')
  <2>1. reviews_review' = [u \in NominatedReviewers |-> reviews_review'[u]]
    BY <1>4 DEF NInv, ReviewTables
  <2>2. CASE UNCHANGED <<reviews_candidates, reviews_removed>>
    /\ (q.op = "approve" => q.match)
    BY <1>4, <2>1, <2>2 DEF NInv, ReviewTables, OnTheBallot, ReviewsAgree, ReviewOK
  <2>3. CASE q.op = "approve" /\ Reviews!create_candidate(q.group)
    /\ reviews_removed' = reviews_removed \ {q.group}
    <3>1. q.group \in Reviews!Groups
      BY <2>3 DEF NInv, ReviewsAgree, ReviewOK
    <3>2. /\ reviews_candidates' \in [Reviews!Groups -> Nat]
          /\ reviews_candidates'[q.group] > 0
          /\ \A g \in Reviews!Groups \ {q.group} :
               reviews_candidates'[g] = reviews_candidates[g]
      BY <2>3, <3>1 DEF Reviews!create_candidate, NInv, ReviewTables
    <3> QED BY <1>4, <2>1, <2>3, <3>2 DEF NInv, ReviewTables, OnTheBallot
  <2> QED BY <2>2, <2>3 DEF Reviews!approve, Reviews!reject
<1>8. ASSUME NEW i \in reviews_submissions, stamped(i).status = "approved"
      PROVE  OnTheBallot(i.group)'
  <2>1. i.group \in Reviews!Groups
    BY DEF NInv, Numbered, SubmissionRows
  <2>2. CASE i.status = "approved"
    BY <1>7, <2>1, <2>2 DEF NInv, EveryRow
  <2>3. CASE q.op = "approve" /\ i.id \in q.writes
    <3>1. i.group = q.group
      BY <2>3 DEF NInv, ReviewsAgree, ReviewOK, ARowOf, Numbered
    <3> QED BY <1>7, <2>3, <3>1 DEF OnTheBallot
  <2> QED BY <1>2, <1>8, <2>2, <2>3
<1>9. \A k \in reviews_submissions' : k.status = "approved" => OnTheBallot(k.group)'
  BY <1>1, <1>2, <1>8
<1> QED BY <1>1, <1>2, <1>3, <1>6, <1>7, <1>9, WrittenRows

\* The organizer's own candidates.
LEMMA OwnEdits ==
    ASSUME NInv, NEW g \in Reviews!Groups,
           Reviews!add_candidate(g) \/ Reviews!remove_candidate(g)
    PROVE  NInv'
<1>1. UNCHANGED <<reviews_form, reviews_submissions, reviews_review>>
  BY DEF Reviews!add_candidate, Reviews!remove_candidate
<1>2. ReviewTables' /\ \A k \in Reviews!Groups : OnTheBallot(k) => OnTheBallot(k)'
  BY <1>1 DEF Reviews!add_candidate, Reviews!remove_candidate, Reviews!create_candidate,
     NInv, ReviewTables, OnTheBallot
<1> QED BY <1>1, <1>2, SameRows

\* Every step keeps the invariant.
LEMMA NInvStep == NInv /\ [Reviews!Next]_(Reviews!nominationVars) => NInv'
<1> SUFFICES ASSUME NInv, [Reviews!Next]_(Reviews!nominationVars) PROVE NInv'
  OBVIOUS
<1>1. ASSUME NEW f \in NominatedForms, NEW g \in Reviews!Groups,
             Reviews!submit_public(f, g) PROVE NInv'
  <2>1. reviews_form[f].field \in Nat
    BY DEF NInv, ReviewTables
  <2> QED BY <1>1, <2>1, Arrivals DEF Reviews!submit_public
<1>2. ASSUME NEW g \in Reviews!Groups, Reviews!add_manual(g) PROVE NInv'
  BY <1>2, Arrivals DEF Reviews!add_manual
<1>3. CASE Reviews!publish \/ UNCHANGED Reviews!nominationVars
  BY <1>3, SameRows DEF Reviews!publish, Reviews!nominationVars, NInv, ReviewTables,
     OnTheBallot
<1> QED BY <1>1, <1>2, <1>3, FormSteps, DeleteForm, ReviewSteps, Verdicts, OwnEdits
           DEF Reviews!Next

(* However many reviewers are at work and whatever the organizer adds or   *)
(* removes meanwhile, a group the queue shows as approved has a candidate  *)
(* of its name in its category, or had until it was removed                *)
(* (update_group_status).                                                  *)
THEOREM ApprovedHasACandidate == Reviews!Spec => []ApprovedIsOnTheBallot
<1>1. NInv => ApprovedIsOnTheBallot
  <2> SUFFICES ASSUME NInv, NEW g \in Reviews!Groups, Reviews!get_group(g) # {},
                      Reviews!last_submitted(g).status = "approved",
                        g \notin reviews_removed
               PROVE  reviews_candidates[g] > 0
    BY DEF ApprovedIsOnTheBallot, Reviews!ApprovedIsOnTheBallot
  <2>1. Reviews!last_submitted(g) \in Reviews!get_group(g)
    BY LastSubmitted DEF NInv
  <2> QED BY <2>1 DEF NInv, EveryRow, Reviews!get_group, OnTheBallot
<1> QED BY <1>1, InitNInv, NInvStep, PTL DEF Reviews!Spec

-----------------------------------------------------------------------------
(* Votes by phone. *)

\* A phone votes over one channel.
OneChannel == PhoneDialers \cap PhoneChatters = {}

\* A row that a message is about to write.
Writes == [ref : PhoneRefs, row : [status : {"pending", "failed"}, quote : Phone!Quote]]

\* The conversations of a dialer, and of a chatter.
Checkout == [state : {"awaiting_checkout_confirm"}, price : PhonePrices,
             category : PhoneCategories, count : PhoneCounts]
Calls == [state : {"idle"}]
    \cup [state : {"awaiting_vote"}, price : PhonePrices]
    \cup [state : {"awaiting_vote_count"}, price : PhonePrices, category : PhoneCategories]
    \cup [state : {"awaiting_network"}, price : PhonePrices, category : PhoneCategories,
          count : PhoneCounts]
    \cup Checkout
Shown == [state : {"awaiting_vote"}, price : PhonePrices, category : PhoneCategories]
Talks == [state : {"idle", "awaiting_category", "awaiting_payment"}] \cup Shown

\* What the last screen of a conversation quotes has been shown to its phone.
Told(p, rec, known) ==
    /\ p \in PhoneDialers =>
        /\ rec \in Calls
        /\ rec.state = "awaiting_checkout_confirm" =>
            [phone |-> p, price |-> rec.price, category |-> rec.category,
             count |-> rec.count] \in known
    /\ p \in PhoneChatters =>
        /\ rec \in Talks
        /\ rec.state = "awaiting_vote" =>
            [phone |-> p, price |-> rec.price, category |-> rec.category,
             count |-> 1] \in known

\* What a message is about to write.
Drafted(m, known) ==
    /\ m.step = "asked" => \E w \in Writes : m.writes = {w}
    /\ \A w \in m.writes : w.row.quote \in known

\* A message being handled.
Message == [step : Phone!Steps, phone : Phone!Phones, session : UNION {Calls, Talks},
            writes : SUBSET Writes]

\* Who was told what, whatever messages overlap.
PhoneInv ==
    /\ phone_ballot \in [open : BOOLEAN, price : PhonePrices, allow_revoting : BOOLEAN]
    /\ phone_quoted \subseteq Phone!Quote
    /\ phone_session \in [Phone!Phones -> UNION {Calls, Talks}]
    /\ \A p \in Phone!Phones : Told(p, phone_session[p], phone_quoted)
    /\ phone_message \in [PhoneMessages -> Message \cup {Phone!Idle}]
    /\ \A s \in PhoneMessages : phone_message[s] # Phone!Idle =>
        /\ Told(phone_message[s].phone, phone_message[s].session, phone_quoted)
        /\ Drafted(phone_message[s], phone_quoted)

\* At first nobody was told anything.
LEMMA InitPhoneInv == Phone!Init => PhoneInv
<1> SUFFICES ASSUME Phone!Init PROVE PhoneInv
  OBVIOUS
<1>1. phone_ballot \in [open : BOOLEAN, price : PhonePrices, allow_revoting : BOOLEAN]
  BY DEF Phone!Init
<1>2. Phone!Idle \in UNION {Calls, Talks} /\ \A p \in Phone!Phones : Told(p, Phone!Idle, {})
  BY DEF Told, Phone!Idle, Calls, Talks
<1> QED BY <1>1, <1>2 DEF Phone!Init, PhoneInv

\* More is known, and nothing else changes for what was told.
LEMMA StillTold ==
    ASSUME NEW p, NEW rec, NEW known, NEW more, known \subseteq more, Told(p, rec, known)
    PROVE  Told(p, rec, more)
  BY DEF Told

\* The step of a message s that leaves new in its place.
LEMMA Moved ==
    ASSUME PhoneInv, NEW s \in PhoneMessages, NEW new \in Message \cup {Phone!Idle},
           phone_message[s] # Phone!Idle,
           phone_message' = [phone_message EXCEPT ![s] = new],
           phone_quoted' \subseteq Phone!Quote, phone_quoted \subseteq phone_quoted',
           phone_ballot' = phone_ballot,
           phone_session' \in [Phone!Phones -> UNION {Calls, Talks}],
           \A p \in Phone!Phones : phone_session'[p] # phone_session[p]
             => Told(p, phone_session'[p], phone_quoted'),
           new # Phone!Idle =>
             /\ Told(new.phone, new.session, phone_quoted')
             /\ Drafted(new, phone_quoted')
    PROVE  PhoneInv'
<1>1. phone_ballot' \in [open : BOOLEAN, price : PhonePrices, allow_revoting : BOOLEAN]
      /\ phone_quoted' \subseteq Phone!Quote
      /\ phone_session' \in [Phone!Phones -> UNION {Calls, Talks}]
      /\ phone_message' \in [PhoneMessages -> Message \cup {Phone!Idle}]
  BY DEF PhoneInv
<1>2. \A p \in Phone!Phones : Told(p, phone_session'[p], phone_quoted')
  BY StillTold DEF PhoneInv
<1>3. ASSUME NEW k \in PhoneMessages, phone_message'[k] # Phone!Idle
      PROVE  Told(phone_message'[k].phone, phone_message'[k].session, phone_quoted')
             /\ Drafted(phone_message'[k], phone_quoted')
  <2>1. CASE k = s
    BY <1>3, <2>1 DEF PhoneInv
  <2>2. CASE k # s
    <3>1. phone_message'[k] = phone_message[k] /\ phone_message[k] # Phone!Idle
      /\ phone_message[k] \in Message
      BY <1>3, <2>2 DEF PhoneInv
    <3>2. Told(phone_message[k].phone, phone_message[k].session, phone_quoted')
      BY <3>1, StillTold DEF PhoneInv
    <3>4. Drafted(phone_message[k], phone_quoted)
      BY <3>1 DEF PhoneInv
    <3>5. Drafted(phone_message[k], phone_quoted')
      BY <3>4 DEF Drafted
    <3> QED BY <3>1, <3>2, <3>5
  <2> QED BY <2>1, <2>2
<1> QED BY <1>1, <1>2, <1>3 DEF PhoneInv

\* What a phone may say next is decided by what it was told.
LEMMA SaidOK ==
    ASSUME PhoneInv, NEW s \in PhoneMessages, phone_message[s] # Phone!Idle
    PROVE  /\ phone_message[s] \in Message
           /\ phone_message[s].phone \in Phone!Phones
           /\ Told(phone_message[s].phone, phone_message[s].session, phone_quoted)
           /\ Drafted(phone_message[s], phone_quoted)
  BY DEF PhoneInv, Message

\* The handlers that end a message, and leave nothing to commit.
LEMMA Ended ==
    ASSUME PhoneInv, NEW s \in PhoneMessages, NEW record \in UNION {Calls, Talks},
           NEW known,
           phone_message[s] # Phone!Idle,
           known \subseteq Phone!Quote, phone_quoted \subseteq known,
           Told(phone_message[s].phone, record, known),
           phone_session' = phone_session \/ Phone!set_session(s, record),
           Phone!finish(s), phone_quoted' = known, phone_ballot' = phone_ballot
    PROVE  PhoneInv'
<1>1. phone_session' \in [Phone!Phones -> UNION {Calls, Talks}]
      /\ \A p \in Phone!Phones : phone_session'[p] # phone_session[p]
           => Told(p, phone_session'[p], known)
  BY SaidOK DEF PhoneInv, Phone!set_session
<1>2. phone_message' = [phone_message EXCEPT ![s] = Phone!Idle]
      /\ Phone!Idle \in Message \cup {Phone!Idle}
  BY DEF Phone!finish
<1> QED BY <1>1, <1>2, Moved

\* An idle conversation quotes nothing.
LEMMA SilentOK ==
    ASSUME NEW p \in Phone!Phones, NEW known
    PROVE  Phone!Idle \in UNION {Calls, Talks} /\ Told(p, Phone!Idle, known)
  BY DEF Told, Phone!Idle, Calls, Talks, Phone!Phones

\* Ending a conversation.
LEMMA HangUp == ASSUME PhoneInv, NEW s \in PhoneMessages, phone_message[s] # Phone!Idle,
  Phone!hang_up(s) PROVE PhoneInv'
<1>1. phone_quoted \subseteq Phone!Quote
  BY DEF PhoneInv
<1> QED BY <1>1, SaidOK, SilentOK, Ended DEF Phone!hang_up, Phone!clear_session

\* What the session of a caller holds.
LEMMA Calling ==
    ASSUME PhoneInv, OneChannel, NEW s \in PhoneMessages, phone_message[s] # Phone!Idle,
           phone_message[s].phone \in PhoneDialers
    PROVE  /\ phone_message[s].session \in Calls
           /\ phone_message[s].phone \in Phone!Phones
           /\ phone_message[s].phone \notin PhoneChatters
           /\ phone_message[s].session.state = "awaiting_vote"
                => phone_message[s].session.price \in PhonePrices
           /\ phone_message[s].session.state = "awaiting_vote_count" =>
                      phone_message[s].session.price \in PhonePrices
                        /\ phone_message[s].session.category \in PhoneCategories
           /\ phone_message[s].session.state \in {"awaiting_network",
                "awaiting_checkout_confirm"} =>
                      /\ phone_message[s].session.price \in PhonePrices
                      /\ phone_message[s].session.category \in PhoneCategories
                      /\ phone_message[s].session.count \in PhoneCounts
  BY SaidOK DEF Told, Calls, Checkout, OneChannel

\* A screen that quotes nothing yet.
LEMMA Screened ==
    ASSUME PhoneInv, OneChannel, NEW s \in PhoneMessages, NEW record \in Calls,
           phone_message[s] # Phone!Idle, phone_message[s].phone \in PhoneDialers,
           record.state # "awaiting_checkout_confirm",
           Phone!screen(s, record), UNCHANGED phone_quoted
    PROVE  PhoneInv'
<1>1. Told(phone_message[s].phone, record, phone_quoted)
  BY Calling DEF Told
<1>2. phone_quoted \subseteq Phone!Quote
  BY DEF PhoneInv
<1> QED BY <1>1, <1>2, Ended DEF Phone!screen

\* The screen that quotes the charge before the caller confirms it.
LEMMA Confirming ==
    ASSUME PhoneInv, OneChannel, NEW s \in PhoneMessages, NEW count \in PhoneCounts,
           phone_message[s] # Phone!Idle, phone_message[s].phone \in PhoneDialers,
           phone_message[s].session.price \in PhonePrices,
             phone_message[s].session.category \in PhoneCategories,
           Phone!start_checkout_confirm(s, count)
    PROVE  PhoneInv'
<1> DEFINE record == [state |-> "awaiting_checkout_confirm",
  price |-> phone_message[s].session.price,
                      category |-> phone_message[s].session.category, count |-> count]
           quote == [phone |-> phone_message[s].phone,
             price |-> phone_message[s].session.price,
                     category |-> phone_message[s].session.category, count |-> count]
<1>1. record \in Calls
  BY DEF Calls, Checkout
<1>2. quote \in Phone!Quote
  BY Calling DEF Phone!Quote
<1>3. Told(phone_message[s].phone, record, phone_quoted \cup {quote})
  BY <1>1, Calling DEF Told
<1>4. phone_quoted \subseteq Phone!Quote
  BY DEF PhoneInv
<1>5. Phone!screen(s, record) /\ phone_quoted' = phone_quoted \cup {quote}
  BY DEF Phone!start_checkout_confirm
<1> QED BY <1>1, <1>2, <1>3, <1>4, <1>5, Ended DEF Phone!screen

\* The rows of a charge that is being started.
LEMMA Charging ==
    ASSUME PhoneInv, NEW s \in PhoneMessages, NEW r \in PhoneRefs,
           NEW quote \in phone_quoted,
           phone_message[s] # Phone!Idle, Phone!start_charge(s, r, quote)
    PROVE  PhoneInv'
<1> DEFINE w == [ref |-> r, row |-> [status |-> "pending", quote |-> quote]]
           new == [phone_message[s] EXCEPT !.step = "asked", !.writes = {w}]
<1>1. w \in Writes /\ phone_quoted \subseteq Phone!Quote
  BY DEF Writes, PhoneInv, Phone!start_charge
<1>2. phone_message' = [phone_message EXCEPT ![s] = new] /\ new \in Message
  BY <1>1, SaidOK DEF Phone!start_charge, Message, PhoneInv, Phone!Steps
<1>3. Told(new.phone, new.session, phone_quoted)
  BY SaidOK, <1>2 DEF Message
<1>4. new.step = "asked" /\ new.writes = {w}
  BY SaidOK DEF Message
<1>5. Drafted(new, phone_quoted)
  BY <1>1, <1>4 DEF Drafted
<1>7. UNCHANGED <<phone_ballot, phone_session, phone_quoted>>
  BY DEF Phone!start_charge
<1>8. ASSUME NEW k \in PhoneMessages, phone_message'[k] # Phone!Idle
      PROVE  Told(phone_message'[k].phone, phone_message'[k].session, phone_quoted')
             /\ Drafted(phone_message'[k], phone_quoted')
  BY <1>2, <1>3, <1>5, <1>7, <1>8 DEF PhoneInv
<1>10. phone_message' \in [PhoneMessages -> Message \cup {Phone!Idle}]
  BY <1>2 DEF PhoneInv
<1> QED BY <1>7, <1>8, <1>10 DEF PhoneInv

\* The row of the payment that the gateway was asked for.
LEMMA Asked ==
    ASSUME PhoneInv, NEW s \in PhoneMessages, phone_message[s] # Phone!Idle,
           phone_message[s].step = "asked"
    PROVE  \E w \in Writes :
             phone_message[s].writes = {w} /\ w.row.quote \in phone_quoted
<1>1. PICK w \in Writes : phone_message[s].writes = {w}
  BY SaidOK DEF Drafted
<1>2. w.row.quote \in phone_quoted
  BY <1>1, SaidOK DEF Drafted
<1> QED BY <1>1, <1>2

\* The answers of the gateway, and their absence: the row is written as it is, or as failed.
LEMMA Answered ==
    ASSUME PhoneInv, NEW s \in PhoneMessages, NEW record \in UNION {Calls, Talks},
           NEW w \in Writes, NEW v \in Writes, NEW new \in Message,
           phone_message[s] # Phone!Idle, phone_message[s].writes = {w},
           v.row.quote = w.row.quote, w.row.quote \in phone_quoted,
           Told(phone_message[s].phone, record, phone_quoted),
           phone_session' = phone_session \/ Phone!set_session(s, record),
           phone_message' = [phone_message EXCEPT ![s] = new],
           new.step = "reply", new.writes = {v},
           new.phone = phone_message[s].phone, new.session = phone_message[s].session,
           UNCHANGED <<phone_ballot, phone_quoted>>
    PROVE  PhoneInv'
<1>1. phone_session' \in [Phone!Phones -> UNION {Calls, Talks}]
      /\ \A p \in Phone!Phones : phone_session'[p] # phone_session[p]
           => Told(p, phone_session'[p], phone_quoted)
  BY SaidOK DEF PhoneInv, Phone!set_session
<1>2. Told(new.phone, new.session, phone_quoted)
  BY SaidOK
<1>3. Drafted(new, phone_quoted)
  BY DEF Drafted
<1>4. phone_quoted \subseteq Phone!Quote /\ phone_ballot' = phone_ballot
      /\ phone_quoted' = phone_quoted
  BY DEF PhoneInv
<1>5. new # Phone!Idle =>
         /\ Told(new.phone, new.session, phone_quoted')
         /\ Drafted(new, phone_quoted')
  BY <1>2, <1>3, <1>4
<1>6. new \in Message \cup {Phone!Idle}
      /\ phone_quoted' \subseteq Phone!Quote /\ phone_quoted \subseteq phone_quoted'
  BY <1>4
<1>7. \A p \in Phone!Phones : phone_session'[p] # phone_session[p]
      => Told(p, phone_session'[p], phone_quoted')
  BY <1>1, <1>4
<1> QED BY <1>1, <1>4, <1>5, <1>6, <1>7, Moved

\* Accepted, rejected, unanswered: each leaves the row it was asked about.
LEMMA GatewayAnswers ==
    ASSUME PhoneInv, OneChannel, NEW s \in PhoneMessages, phone_message[s] # Phone!Idle,
           Phone!charge_accepted(s) \/ Phone!charge_rejected(s)
             \/ Phone!charge_unanswered(s) \/ Phone!initiate_payment(s)
    PROVE  PhoneInv'
<1>1. phone_message[s].step = "asked" /\ UNCHANGED <<phone_ballot, phone_quoted>>
  BY DEF Phone!charge_accepted, Phone!charge_rejected, Phone!charge_unanswered,
     Phone!initiate_payment
<1>2. PICK w \in Writes :
        phone_message[s].writes = {w} /\ w.row.quote \in phone_quoted
  BY <1>1, Asked
<1>3. phone_message[s].phone \in Phone!Phones /\ phone_message[s] \in Message
      /\ Phone!Idle \in UNION {Calls, Talks}
      /\ Told(phone_message[s].phone, Phone!Idle, phone_quoted)
  BY SaidOK, SilentOK
<1>4. phone_message \in [PhoneMessages -> Message \cup {Phone!Idle}]
  BY DEF PhoneInv
<1>5. ASSUME NEW v \in Writes
      PROVE  \E new \in Message :
               /\ new = [phone_message[s] EXCEPT !.step = "reply", !.writes = {v}]
               /\ new.step = "reply" /\ new.writes = {v}
               /\ new.phone = phone_message[s].phone
               /\ new.session = phone_message[s].session
  <2>1. [phone_message[s] EXCEPT !.step = "reply", !.writes = {v}] \in Message
    BY <1>3 DEF Message, Phone!Steps
  <2>2. PICK new \in Message : new =
    [phone_message[s] EXCEPT !.step = "reply", !.writes = {v}]
    BY <2>1
  <2>3. new.step = "reply" /\ new.writes = {v}
        /\ new.phone = phone_message[s].phone /\ new.session = phone_message[s].session
    BY <1>3, <2>2 DEF Message
  <2> QED BY <2>2, <2>3
<1>6. PICK same \in Message :
        /\ same = [phone_message[s] EXCEPT !.step = "reply", !.writes = {w}]
        /\ same.step = "reply" /\ same.writes = {w}
        /\ same.phone = phone_message[s].phone /\ same.session = phone_message[s].session
  BY <1>5
<1>7. ASSUME Phone!to_reply(s) PROVE phone_message' = [phone_message EXCEPT ![s] = same]
  <2>1. [phone_message[s] EXCEPT !.step = "reply"]
                = [step |-> "reply", phone |-> phone_message[s].phone,
                   session |-> phone_message[s].session, writes |-> {w}]
    BY <1>2, <1>3 DEF Message
  <2>2. same = [step |-> "reply", phone |-> phone_message[s].phone,
                session |-> phone_message[s].session, writes |-> {w}]
    BY <1>6 DEF Message
  <2> QED BY <1>4, <1>7, <2>1, <2>2 DEF Phone!to_reply
<1>8. CASE Phone!charge_accepted(s)
  <2>1. phone_session' = phone_session \/ Phone!set_session(s, Phone!Idle)
    BY <1>8 DEF Phone!charge_accepted, Phone!clear_session
  <2>3. phone_message' = [phone_message EXCEPT ![s] = same]
    BY <1>7, <1>8 DEF Phone!charge_accepted
  <2> QED BY <1>1, <1>2, <1>3, <1>6, <2>1, <2>3, Answered
<1>9. CASE Phone!charge_rejected(s)
  <2> DEFINE v == [w EXCEPT !.row.status = "failed"]
  <2>1. v \in Writes /\ v.row.quote = w.row.quote
    BY DEF Writes
  <2>2. {[x EXCEPT !.row.status = "failed"] : x \in phone_message[s].writes} = {v}
    BY <1>2
  <2>3. PICK new \in Message :
          /\ new = [phone_message[s] EXCEPT !.step = "reply", !.writes = {v}]
          /\ new.step = "reply" /\ new.writes = {v}
          /\ new.phone = phone_message[s].phone /\ new.session = phone_message[s].session
    BY <1>5, <2>1
  <2>4. phone_message' = [phone_message EXCEPT ![s] = new]
    BY <1>4, <1>9, <2>2, <2>3 DEF Phone!charge_rejected, Phone!write_failed
  <2>5. phone_session' = phone_session \/ Phone!set_session(s, Phone!Idle)
    BY <1>9 DEF Phone!charge_rejected, Phone!clear_session
  <2>7. PICK x \in Writes : x = v
    BY <2>1
  <2> HIDE DEF v
  <2> QED BY <1>1, <1>2, <1>3, <2>1, <2>3, <2>4, <2>5, <2>7, Answered
<1>10. CASE Phone!charge_unanswered(s)
  <2>1. phone_session' = phone_session \/ Phone!set_session(s, Phone!Idle)
    BY <1>10 DEF Phone!charge_unanswered
  <2>3. phone_message' = [phone_message EXCEPT ![s] = same]
    BY <1>7, <1>10 DEF Phone!charge_unanswered
  <2> QED BY <1>1, <1>2, <1>3, <1>6, <2>1, <2>3, Answered
<1>11. CASE Phone!initiate_payment(s)
  <2> DEFINE waiting == [state |-> "awaiting_payment"]
  <2>1. phone_message[s].phone \in PhoneChatters
    /\ phone_message[s].phone \notin PhoneDialers
    BY <1>11 DEF Phone!initiate_payment, Phone!over_whatsapp, OneChannel
  <2>2. waiting \in UNION {Calls, Talks}
    /\ Told(phone_message[s].phone, waiting, phone_quoted)
    BY <2>1 DEF Told, Talks
  <2>3. phone_session' = phone_session \/ Phone!set_session(s, waiting)
    BY <1>11 DEF Phone!initiate_payment
  <2>5. phone_message' = [phone_message EXCEPT ![s] = same]
    BY <1>7, <1>11 DEF Phone!initiate_payment
  <2> HIDE DEF waiting
  <2> QED BY <1>1, <1>2, <1>3, <1>6, <2>2, <2>3, <2>5, Answered
<1> QED BY <1>8, <1>9, <1>10, <1>11

\* A message arrives, with the session as it is stored.
LEMMA Received ==
    ASSUME PhoneInv, NEW s \in PhoneMessages, NEW p \in Phone!Phones, Phone!receive(s, p)
    PROVE  PhoneInv'
<1> DEFINE new == [step |-> "read", phone |-> p, session |-> phone_session[p],
  writes |-> {}]
<1>1. phone_message[s] = Phone!Idle /\ phone_message' = [phone_message EXCEPT ![s] = new]
      /\ UNCHANGED <<phone_ballot, phone_session, phone_quoted>>
  BY DEF Phone!receive
<1>2. new \in Message
  BY DEF Message, Phone!Steps, PhoneInv
<1>3. Told(new.phone, new.session, phone_quoted) /\ Drafted(new, phone_quoted)
  BY DEF PhoneInv, Drafted
<1>4. phone_message' \in [PhoneMessages -> Message \cup {Phone!Idle}]
  BY <1>1, <1>2 DEF PhoneInv
<1>5. ASSUME NEW k \in PhoneMessages, phone_message'[k] # Phone!Idle
      PROVE  Told(phone_message'[k].phone, phone_message'[k].session, phone_quoted)
             /\ Drafted(phone_message'[k], phone_quoted')
  BY <1>1, <1>3, <1>5 DEF PhoneInv
<1> QED BY <1>1, <1>4, <1>5 DEF PhoneInv

\* Of what phones were told, only the price changes, or a conversation goes silent.
LEMMA Quiet ==
    ASSUME PhoneInv, UNCHANGED <<phone_quoted, phone_message>>,
           phone_ballot' \in [open : BOOLEAN, price : PhonePrices, allow_revoting :
             BOOLEAN],
           phone_session' \in [Phone!Phones -> UNION {Calls, Talks}],
           \A p \in Phone!Phones : phone_session'[p] # phone_session[p]
             => phone_session'[p] = Phone!Idle
    PROVE  PhoneInv'
<1>1. \A p \in Phone!Phones : Told(p, phone_session'[p], phone_quoted)
  BY SilentOK DEF PhoneInv
<1> QED BY <1>1 DEF PhoneInv

\* What the session of a chatter holds.
LEMMA Chatting ==
    ASSUME PhoneInv, OneChannel, NEW s \in PhoneMessages, phone_message[s] # Phone!Idle,
           phone_message[s].phone \in PhoneChatters
    PROVE  /\ phone_message[s].phone \in Phone!Phones
           /\ phone_message[s].phone \notin PhoneDialers
           /\ phone_message[s].session \in Talks
           /\ phone_message[s].session.state = "awaiting_vote"
                => phone_message[s].session \in Shown
  BY SaidOK DEF Told, Talks, OneChannel

\* The ballot shown in a chat quotes the price of each of its categories.
LEMMA Presented ==
    ASSUME PhoneInv, OneChannel, NEW s \in PhoneMessages, NEW c \in PhoneCategories,
           phone_message[s] # Phone!Idle, Phone!over_whatsapp(s), Phone!present_ballot(s, c)
    PROVE  PhoneInv'
<1> DEFINE record == [state |-> "awaiting_vote", price |-> phone_ballot.price,
  category |-> c]
           quote == [phone |-> phone_message[s].phone, price |-> phone_ballot.price,
             category |-> c, count |-> 1]
<1>1. phone_message[s].phone \in Phone!Phones /\ phone_message[s].phone \notin PhoneDialers
      /\ phone_ballot.price \in PhonePrices
  BY Chatting DEF Phone!over_whatsapp, PhoneInv
<1>2. record \in UNION {Calls, Talks}
  BY <1>1 DEF Talks, Shown
<1>3. quote \in Phone!Quote
  BY <1>1 DEF Phone!Quote
<1>4. Told(phone_message[s].phone, record, phone_quoted \cup {quote})
  BY <1>1 DEF Told, Talks, Shown
<1>5. phone_quoted \subseteq Phone!Quote
  BY DEF PhoneInv
<1>6. Phone!screen(s, record) /\ phone_quoted' = phone_quoted \cup {quote}
  BY DEF Phone!present_ballot
<1>7. PICK shown : shown = record
  OBVIOUS
<1> HIDE DEF record, quote
<1> QED BY <1>2, <1>3, <1>4, <1>5, <1>6, Ended DEF Phone!screen

\* A confirmation asks for what was shown.
LEMMA Confirmed ==
    ASSUME PhoneInv, OneChannel, NEW s \in PhoneMessages, NEW r \in PhoneRefs,
           Phone!charge_and_respond(s, r) \/ Phone!handle_chat_vote(s, r)
    PROVE  PhoneInv'
<1>1. CASE Phone!charge_and_respond(s, r)
  <2> DEFINE quote == Phone!quote_of(s, phone_message[s].session.category)
  <2>1. phone_message[s] # Phone!Idle /\ phone_message[s].phone \in PhoneDialers
        /\ phone_message[s].session.state = "awaiting_checkout_confirm"
    BY <1>1 DEF Phone!charge_and_respond, Phone!over_ussd, Phone!said
  <2>2. phone_message[s].session \in Checkout
    BY <2>1, Calling DEF Calls
  <2>3. quote = [phone |-> phone_message[s].phone, price |-> phone_message[s].session.price,
                 category |-> phone_message[s].session.category,
                   count |-> phone_message[s].session.count]
    BY <2>2 DEF Phone!quote_of, Checkout
  <2>4. quote \in phone_quoted
    BY <2>1, <2>3, SaidOK DEF Told
  <2>5. Phone!start_charge(s, r, quote)
    BY <1>1 DEF Phone!charge_and_respond
  <2> HIDE DEF quote
  <2> QED BY <2>1, <2>4, <2>5, Charging
<1>2. CASE Phone!handle_chat_vote(s, r)
  <2> DEFINE quote == Phone!quote_of(s, phone_message[s].session.category)
  <2>1. phone_message[s] # Phone!Idle /\ phone_message[s].phone \in PhoneChatters
        /\ phone_message[s].session.state = "awaiting_vote"
    BY <1>2 DEF Phone!handle_chat_vote, Phone!over_whatsapp, Phone!said
  <2>2. phone_message[s].session \in Shown
    BY <2>1, Chatting
  <2>3. quote = [phone |-> phone_message[s].phone, price |-> phone_message[s].session.price,
                 category |-> phone_message[s].session.category, count |-> 1]
    BY <2>2 DEF Phone!quote_of, Shown
  <2>4. quote \in phone_quoted
    BY <2>1, <2>3, SaidOK DEF Told
  <2>5. Phone!hang_up(s) \/ Phone!start_charge(s, r, quote)
    BY <1>2 DEF Phone!handle_chat_vote
  <2> HIDE DEF quote
  <2> QED BY <2>1, <2>4, <2>5, Charging, HangUp
<1> QED BY <1>1, <1>2

\* The handlers of the two conversations.
LEMMA Handled ==
    ASSUME PhoneInv, OneChannel, NEW s \in PhoneMessages,
           \/ Phone!no_effect(s) \/ Phone!handle_code_lookup(s)
           \/ \E c \in PhoneCategories :
                Phone!handle_vote_input(s, c) \/ Phone!handle_category_selection(s, c)
                \/ Phone!cast_vote_directly(s, c)
           \/ \E n \in PhoneCounts : Phone!handle_vote_count(s, n)
           \/ Phone!handle_network_selection(s) \/ Phone!cancel_checkout(s)
           \/ Phone!restart(s) \/ Phone!cast_chat_vote(s) \/ Phone!handle_election_lookup(s)
           \/ Phone!commit(s) \/ Phone!lose(s)
    PROVE  PhoneInv'
<1>1. CASE Phone!no_effect(s) \/ Phone!commit(s) \/ Phone!lose(s)
  <2>1. phone_message[s] # Phone!Idle /\ Phone!finish(s)
    /\ UNCHANGED <<phone_ballot, phone_session, phone_quoted>>
    BY <1>1 DEF Phone!no_effect, Phone!commit, Phone!lose
  <2>2. phone_quoted \subseteq Phone!Quote
    BY DEF PhoneInv
  <2> QED BY <2>1, <2>2, SaidOK, SilentOK, Ended
<1>2. CASE Phone!handle_code_lookup(s)
  <2> DEFINE record == [state |-> "awaiting_vote", price |-> phone_ballot.price]
  <2>1. record \in Calls
    BY DEF Calls, PhoneInv
  <2>2. phone_message[s] # Phone!Idle /\ phone_message[s].phone \in PhoneDialers
        /\ Phone!screen(s, record) /\ UNCHANGED phone_quoted
    BY <1>2 DEF Phone!handle_code_lookup, Phone!over_ussd
  <2> QED BY <2>1, <2>2, Screened
<1>3. ASSUME NEW c \in PhoneCategories, Phone!handle_vote_input(s, c) PROVE PhoneInv'
  <2> DEFINE record == [state |-> "awaiting_vote_count",
    price |-> phone_message[s].session.price,
                        category |-> c]
  <2>1. phone_message[s] # Phone!Idle /\ phone_message[s].phone \in PhoneDialers
        /\ phone_message[s].session.state = "awaiting_vote"
    BY <1>3 DEF Phone!handle_vote_input, Phone!over_ussd, Phone!said
  <2>2. record \in Calls
    BY <2>1, Calling DEF Calls
  <2>3. Phone!hang_up(s) \/ (Phone!screen(s, record) /\ UNCHANGED phone_quoted)
    BY <1>3 DEF Phone!handle_vote_input
  <2> HIDE DEF record
  <2>4. record.state # "awaiting_checkout_confirm"
    BY DEF record
  <2> QED BY <2>1, <2>2, <2>3, <2>4, HangUp, Screened
<1>4. ASSUME NEW n \in PhoneCounts, Phone!handle_vote_count(s, n) PROVE PhoneInv'
  <2> DEFINE record == [state |-> "awaiting_network",
    price |-> phone_message[s].session.price,
                        category |-> phone_message[s].session.category, count |-> n]
  <2>1. phone_message[s] # Phone!Idle /\ phone_message[s].phone \in PhoneDialers
        /\ phone_message[s].session.state = "awaiting_vote_count"
    BY <1>4 DEF Phone!handle_vote_count, Phone!over_ussd, Phone!said
  <2>2. record \in Calls /\ record.state # "awaiting_checkout_confirm"
    BY <2>1, Calling DEF Calls
  <2>3. Phone!start_checkout_confirm(s, n)
    \/ (Phone!screen(s, record) /\ UNCHANGED phone_quoted)
    BY <1>4 DEF Phone!handle_vote_count
  <2> HIDE DEF record
  <2> QED BY <2>1, <2>2, <2>3, Calling, Confirming, Screened
<1>5. CASE Phone!handle_network_selection(s)
  <2>1. phone_message[s] # Phone!Idle /\ phone_message[s].phone \in PhoneDialers
        /\ phone_message[s].session.state = "awaiting_network"
    BY <1>5 DEF Phone!handle_network_selection, Phone!over_ussd, Phone!said
  <2> QED BY <1>5, <2>1, Calling, Confirming DEF Phone!handle_network_selection
<1>6. CASE Phone!cancel_checkout(s) \/ Phone!restart(s)
  BY <1>6, HangUp DEF Phone!cancel_checkout, Phone!restart, Phone!over_ussd,
     Phone!over_whatsapp
<1>7. ASSUME NEW c, Phone!insert_vote(s, c) PROVE PhoneInv'
  <2>1. phone_message[s] # Phone!Idle /\ Phone!finish(s) /\ Phone!clear_session(s)
        /\ UNCHANGED <<phone_ballot, phone_quoted>>
    BY <1>7 DEF Phone!insert_vote, Phone!said
  <2>2. phone_quoted \subseteq Phone!Quote
    BY DEF PhoneInv
  <2> QED BY <2>1, <2>2, SaidOK, SilentOK, Ended DEF Phone!clear_session
<1>8. ASSUME NEW c \in PhoneCategories, Phone!handle_category_selection(s, c)
      PROVE PhoneInv'
  BY <1>8, Presented DEF Phone!handle_category_selection, Phone!said
<1>9. CASE Phone!handle_election_lookup(s)
  <2> DEFINE record == [state |-> "awaiting_category"]
  <2>1. phone_message[s] # Phone!Idle /\ phone_message[s].phone \notin PhoneDialers
    /\ phone_message[s].phone \in PhoneChatters
        /\ Phone!over_whatsapp(s)
    BY <1>9, Chatting DEF Phone!handle_election_lookup, Phone!over_whatsapp
  <2>2. record \in UNION {Calls, Talks}
    /\ Told(phone_message[s].phone, record, phone_quoted)
    BY <2>1 DEF Told, Talks
  <2>3. phone_quoted \subseteq Phone!Quote
    BY DEF PhoneInv
  <2>4. \/ \E c \in PhoneCategories : Phone!present_ballot(s, c)
        \/ Phone!screen(s, record) /\ UNCHANGED phone_quoted
    BY <1>9 DEF Phone!handle_election_lookup
  <2> HIDE DEF record
  <2>5. ASSUME Phone!screen(s, record), UNCHANGED phone_quoted PROVE PhoneInv'
    BY <2>1, <2>2, <2>3, <2>5, Ended DEF Phone!screen
  <2> QED BY <2>1, <2>4, <2>5, Presented
<1> QED BY <1>1, <1>2, <1>3, <1>4, <1>5, <1>6, <1>7, <1>8, <1>9
        DEF Phone!cast_vote_directly, Phone!cast_chat_vote

\* What time, the gateways and the organizer do.
LEMMA Elsewhere ==
    ASSUME PhoneInv,
           \/ \E p \in Phone!Phones : Phone!expire(p)
           \/ \E r \in PhoneRefs :
                \/ Phone!attempt_fails(r)
                \/ \E amount \in {"short", "full"} : Phone!customer_pays(r, amount)
                \/ Phone!success_ignored(r) \/ Phone!already_processed(r)
           \/ \E h \in PhoneHooks :
                \/ \E r \in PhoneRefs : Phone!begin_charge_success(h, r)
                                      \/ Phone!begin_charge_failed(h, r)
                \/ Phone!read_parent(h) \/ Phone!handle_charge_success(h)
                \/ Phone!insert_refused(h) \/ Phone!write_off(h) \/ Phone!hook_dies(h)
           \/ \E open \in BOOLEAN, price \in PhonePrices : Phone!organize(open, price)
           \/ UNCHANGED Phone!phoneVars
    PROVE  PhoneInv'
<1>1. /\ phone_ballot \in [open : BOOLEAN, price : PhonePrices, allow_revoting : BOOLEAN]
      /\ phone_session \in [Phone!Phones -> UNION {Calls, Talks}]
      /\ Phone!Idle \in UNION {Calls, Talks}
  BY DEF PhoneInv, Phone!Idle, Calls
<1>2. ASSUME NEW p \in Phone!Phones, Phone!expire(p) PROVE PhoneInv'
  BY <1>1, <1>2, Quiet DEF Phone!expire
<1>3. ASSUME UNCHANGED <<phone_ballot, phone_session, phone_quoted, phone_message>>
      PROVE PhoneInv'
  BY <1>1, <1>3, Quiet
<1>4. ASSUME NEW r \in PhoneRefs,
             \/ Phone!attempt_fails(r)
             \/ \E amount \in {"short", "full"} : Phone!customer_pays(r, amount)
             \/ Phone!success_ignored(r) \/ Phone!already_processed(r)
             \/ \E h \in PhoneHooks : Phone!begin_charge_success(h, r)
                                      \/ Phone!begin_charge_failed(h, r)
      PROVE PhoneInv'
  BY <1>3, <1>4 DEF Phone!attempt_fails, Phone!customer_pays, Phone!success_ignored,
     Phone!already_processed, Phone!begin_charge_success, Phone!begin_charge_failed,
     Phone!begin
<1>5. ASSUME NEW h \in PhoneHooks, Phone!read_parent(h) \/ Phone!insert_refused(h)
      PROVE PhoneInv'
  BY <1>3, <1>5 DEF Phone!read_parent, Phone!insert_refused
<1>6. ASSUME NEW r, Phone!notify(r),
             UNCHANGED <<phone_ballot, phone_quoted, phone_message>>
      PROVE PhoneInv'
  <2>1. /\ phone_session' \in [Phone!Phones -> UNION {Calls, Talks}]
        /\ \A p \in Phone!Phones : phone_session'[p] # phone_session[p]
             => phone_session'[p] = Phone!Idle
    BY <1>1, <1>6 DEF Phone!notify
  <2> QED BY <1>1, <1>6, <2>1, Quiet
<1>7. ASSUME NEW h \in PhoneHooks,
             Phone!handle_charge_success(h) \/ Phone!write_off(h) \/ Phone!hook_dies(h)
      PROVE PhoneInv'
  <2>1. /\ Phone!notify(phone_hook[h].ref) \/ UNCHANGED phone_session
        /\ UNCHANGED <<phone_ballot, phone_quoted, phone_message>>
    BY <1>7 DEF Phone!handle_charge_success, Phone!write_off, Phone!hook_dies
  <2> QED BY <1>3, <1>6, <2>1
<1>8. ASSUME NEW open \in BOOLEAN, NEW price \in PhonePrices, Phone!organize(open, price)
      PROVE PhoneInv'
  <2>1. phone_ballot' \in [open : BOOLEAN, price : PhonePrices, allow_revoting : BOOLEAN]
    BY <1>8, <1>1 DEF Phone!organize
  <2> QED BY <1>1, <1>8, <2>1, Quiet DEF Phone!organize
<1>9. CASE UNCHANGED Phone!phoneVars
  BY <1>3, <1>9 DEF Phone!phoneVars
<1> QED BY <1>2, <1>4, <1>5, <1>7, <1>8, <1>9

\* Every step keeps the invariant.
LEMMA PhoneInvStep == ASSUME OneChannel, PhoneInv, [Phone!Next]_(Phone!phoneVars)
PROVE PhoneInv'
<1>1. ASSUME NEW s \in PhoneMessages, NEW p \in Phone!Phones, Phone!receive(s, p)
      PROVE PhoneInv'
  BY <1>1, Received
<1>2. ASSUME NEW s \in PhoneMessages, NEW r \in PhoneRefs,
             Phone!charge_and_respond(s, r) \/ Phone!handle_chat_vote(s, r)
      PROVE  PhoneInv'
  BY <1>2, Confirmed
<1>3. ASSUME NEW s \in PhoneMessages,
             Phone!charge_accepted(s) \/ Phone!charge_rejected(s)
               \/ Phone!charge_unanswered(s) \/ Phone!initiate_payment(s)
      PROVE  PhoneInv'
  <2>1. phone_message[s] # Phone!Idle
    BY <1>3 DEF Phone!charge_accepted, Phone!charge_rejected, Phone!charge_unanswered,
       Phone!initiate_payment,
       Phone!over_ussd, Phone!over_whatsapp
  <2> QED BY <1>3, <2>1, GatewayAnswers
<1> QED BY <1>1, <1>2, <1>3, Handled, Elsewhere DEF Phone!Next

(* Nobody is charged for what a screen of this phone has not shown          *)
(* (charge_and_respond of ussd.py, initiate_payment of                     *)
(* whatsapp_vote_service.py), however messages overlap, are lost or come   *)
(* twice: what a conversation remembers was shown to its phone, and the    *)
(* row that a charge writes quotes what the conversation remembers.        *)
THEOREM QuotesAreKept == Phone!Spec => []ChargedAsQuoted
<1>1. PhoneInv /\ [Phone!Next]_(Phone!phoneVars) => PhoneInv'
  BY PhoneInvStep, BallotsAssumption DEF OneChannel
<1>2. PhoneInv => ChargedAsQuoted
  BY DEF PhoneInv, Drafted, ChargedAsQuoted, Phone!ChargedAsQuoted
<1> QED BY <1>1, <1>2, InitPhoneInv, PTL DEF Phone!Spec

\* Where a payment has got to: a success that was written or answered has its vote, and
\* the amount is short where that was what the webhook found.
PaidInv ==
    /\ phone_collected \in [PhoneRefs -> {"nothing", "short", "full"}]
    /\ phone_txn \in [PhoneRefs -> Phone!Rows \cup {Phone!NoRow}]
    /\ phone_hook \in [PhoneHooks -> [state : Phone!Stages, ref : PhoneRefs] \cup {Phone!Idle}]
    /\ \A h \in PhoneHooks :
         /\ phone_hook[h].state # "idle" => phone_txn[phone_hook[h].ref] \in Phone!Rows
         /\ phone_hook[h].state = "amount_mismatch" =>
              phone_collected[phone_hook[h].ref] = "short"
    /\ \A r \in PhoneRefs : phone_txn[r].status = "success" => Phone!bought(r)
    /\ phone_answers \subseteq [ref : PhoneRefs, answer : Phone!Answers]
    /\ \A a \in phone_answers :
         /\ a.answer \in {"ok", "already_processed"} => Phone!bought(a.ref)
         /\ a.answer = "amount_mismatch" => phone_collected[a.ref] = "short"

\* Nothing has been paid for at first.
LEMMA InitPaidInv == Phone!Init => PaidInv
  BY DEF Phone!Init, PaidInv, Phone!NoRow, Phone!Idle

\* A vote stays what it was bought with.
LEMMA StaysBought ==
    ASSUME phone_voted \subseteq phone_voted', NEW r, Phone!bought(r)
    PROVE  Phone!bought(r)'
  BY DEF Phone!bought

\* The steps that have to do with no row and no notice.
LEMMA NothingPaid ==
    ASSUME PaidInv, phone_voted \subseteq phone_voted',
           UNCHANGED <<phone_txn, phone_collected, phone_answers, phone_hook>>
    PROVE  PaidInv'
<1>1. \A r : Phone!bought(r) => Phone!bought(r)'
  BY StaysBought
<1> QED BY <1>1 DEF PaidInv

\* Messages, but for their commit, and the organizer.
LEMMA Unpaid ==
    ASSUME PaidInv,
           \/ \E s \in PhoneMessages :
               \/ \E p \in Phone!Phones : Phone!receive(s, p)
               \/ Phone!no_effect(s) \/ Phone!handle_code_lookup(s)
               \/ \E c \in PhoneCategories :
                    Phone!handle_vote_input(s, c) \/ Phone!handle_category_selection(s, c)
                    \/ Phone!cast_vote_directly(s, c)
               \/ \E n \in PhoneCounts : Phone!handle_vote_count(s, n)
               \/ Phone!handle_network_selection(s) \/ Phone!cancel_checkout(s)
               \/ \E r \in PhoneRefs : Phone!charge_and_respond(s, r)
                                     \/ Phone!handle_chat_vote(s, r)
               \/ Phone!charge_accepted(s) \/ Phone!charge_rejected(s)
               \/ Phone!charge_unanswered(s) \/ Phone!restart(s)
               \/ Phone!cast_chat_vote(s) \/ Phone!handle_election_lookup(s)
               \/ Phone!initiate_payment(s) \/ Phone!lose(s)
           \/ \E p \in Phone!Phones : Phone!expire(p)
           \/ \E open \in BOOLEAN, price \in PhonePrices : Phone!organize(open, price)
           \/ UNCHANGED Phone!phoneVars
    PROVE  PaidInv'
<1> DEFINE Still == /\ phone_voted \subseteq phone_voted'
                    /\ UNCHANGED <<phone_txn, phone_collected, phone_answers, phone_hook>>
<1>1. ASSUME NEW s \in PhoneMessages,
             \/ \E p \in Phone!Phones : Phone!receive(s, p)
             \/ Phone!no_effect(s) \/ Phone!handle_code_lookup(s)
             \/ \E n \in PhoneCounts : Phone!handle_vote_count(s, n)
             \/ Phone!handle_network_selection(s) \/ Phone!cancel_checkout(s)
             \/ Phone!restart(s) \/ Phone!lose(s)
      PROVE  Still
  BY <1>1 DEF Phone!receive, Phone!no_effect, Phone!handle_code_lookup,
     Phone!handle_vote_count, Phone!handle_network_selection, Phone!cancel_checkout,
     Phone!restart, Phone!lose, Phone!screen, Phone!hang_up, Phone!start_checkout_confirm,
     Phone!gateway
<1>2. ASSUME NEW s \in PhoneMessages,
             \/ Phone!charge_accepted(s) \/ Phone!charge_rejected(s)
             \/ Phone!charge_unanswered(s) \/ Phone!initiate_payment(s)
      PROVE  Still
  BY <1>2 DEF Phone!charge_accepted, Phone!charge_rejected, Phone!charge_unanswered,
     Phone!initiate_payment, Phone!collects, Phone!gateway
<1>3. ASSUME NEW s \in PhoneMessages, NEW c, Phone!insert_vote(s, c) PROVE Still
  BY <1>3 DEF Phone!insert_vote, Phone!gateway
<1>4. ASSUME NEW s \in PhoneMessages, NEW c \in PhoneCategories,
             \/ Phone!handle_vote_input(s, c) \/ Phone!handle_category_selection(s, c)
             \/ Phone!present_ballot(s, c)
      PROVE  Still
  BY <1>4 DEF Phone!handle_vote_input, Phone!handle_category_selection,
     Phone!present_ballot, Phone!screen, Phone!hang_up, Phone!gateway
<1>5. ASSUME NEW s \in PhoneMessages, Phone!handle_election_lookup(s) PROVE Still
  BY <1>4, <1>5 DEF Phone!handle_election_lookup, Phone!screen, Phone!gateway
<1>6. ASSUME NEW s \in PhoneMessages, NEW r \in PhoneRefs,
             Phone!charge_and_respond(s, r) \/ Phone!handle_chat_vote(s, r)
      PROVE  Still
  BY <1>6 DEF Phone!charge_and_respond, Phone!handle_chat_vote, Phone!start_charge,
     Phone!hang_up, Phone!gateway
<1>7. ASSUME \/ \E p \in Phone!Phones : Phone!expire(p)
             \/ \E open \in BOOLEAN, price \in PhonePrices : Phone!organize(open, price)
             \/ UNCHANGED Phone!phoneVars
      PROVE  Still
  BY <1>7 DEF Phone!expire, Phone!organize, Phone!phoneVars, Phone!gateway
<1>8. Still
  BY <1>1, <1>2, <1>3, <1>4, <1>5, <1>6, <1>7 DEF Phone!cast_vote_directly,
     Phone!cast_chat_vote
<1> QED BY <1>8, NothingPaid

\* A commit writes a row that is pending or failed.
LEMMA RowCommitted ==
    ASSUME PhoneInv, PaidInv, NEW s \in PhoneMessages, Phone!commit(s)
    PROVE  PaidInv'
<1>1. phone_message[s] # Phone!Idle /\ phone_message[s] \in Message
  BY SaidOK DEF Phone!commit
<1>2. \A r \in PhoneRefs : (\E v \in phone_message[s].writes : v.ref = r) =>
        (CHOOSE v \in phone_message[s].writes : v.ref = r) \in Writes
  BY <1>1 DEF Message
<1>3. ASSUME NEW r \in PhoneRefs
      PROVE  \/ phone_txn'[r] = phone_txn[r]
             \/ phone_txn'[r] \in Phone!Rows /\ phone_txn'[r].status # "success"
  BY <1>2 DEF Phone!commit, Writes, Phone!Rows
<1>4. phone_txn' = [r \in PhoneRefs |-> phone_txn'[r]]
  BY DEF Phone!commit
<1>5. phone_txn' \in [PhoneRefs -> Phone!Rows \cup {Phone!NoRow}]
  BY <1>3, <1>4 DEF PaidInv
<1>6. UNCHANGED <<phone_collected, phone_answers, phone_hook, phone_voted>>
  BY DEF Phone!commit, Phone!gateway
<1>7. \A r : Phone!bought(r) => Phone!bought(r)'
  BY <1>6, StaysBought
<1>8. \A h \in PhoneHooks : phone_hook[h].state # "idle" => phone_hook[h].ref \in PhoneRefs
  BY DEF PaidInv, Phone!Idle
<1>9. \A h \in PhoneHooks :
        phone_hook[h].state # "idle" => phone_txn'[phone_hook[h].ref] \in Phone!Rows
  BY <1>3, <1>8 DEF PaidInv
<1>10. \A r \in PhoneRefs : phone_txn'[r].status = "success" => Phone!bought(r)'
  BY <1>3, <1>7 DEF PaidInv
<1>11. \A a \in phone_answers : a.answer \in {"ok", "already_processed"} => Phone!bought(a.ref)'
  BY <1>7 DEF PaidInv
<1> QED BY <1>5, <1>6, <1>9, <1>10, <1>11 DEF PaidInv

\* The customer, and the notices that are answered at once.
LEMMA AtOnce ==
    ASSUME PaidInv, NEW r \in PhoneRefs,
           \/ Phone!attempt_fails(r)
           \/ \E amount \in {"short", "full"} : Phone!customer_pays(r, amount)
           \/ Phone!success_ignored(r) \/ Phone!already_processed(r)
    PROVE  PaidInv'
<1>1. UNCHANGED <<phone_txn, phone_hook, phone_voted>>
  BY DEF Phone!attempt_fails, Phone!customer_pays, Phone!success_ignored,
     Phone!already_processed
<1>2. \A q : Phone!bought(q) => Phone!bought(q)'
  BY <1>1, StaysBought
<1>3. CASE Phone!attempt_fails(r)
  BY <1>3, NothingPaid DEF Phone!attempt_fails
<1>4. ASSUME NEW amount \in {"short", "full"}, Phone!customer_pays(r, amount)
      PROVE  PaidInv'
  <2>1. phone_collected[r] = "nothing" /\ UNCHANGED phone_answers
        /\ phone_collected' = [phone_collected EXCEPT ![r] = amount]
    BY <1>4 DEF Phone!customer_pays
  <2>2. phone_collected' \in [PhoneRefs -> {"nothing", "short", "full"}]
    BY <2>1 DEF PaidInv
  <2>3. \A q \in PhoneRefs : phone_collected[q] = "short" => phone_collected'[q] = "short"
    BY <2>1 DEF PaidInv
  <2>4. \A h \in PhoneHooks : phone_hook[h].state = "amount_mismatch" =>
          phone_hook[h].ref \in PhoneRefs
    BY DEF PaidInv, Phone!Idle
  <2> QED BY <1>1, <1>2, <2>1, <2>2, <2>3, <2>4 DEF PaidInv
<1>5. CASE Phone!success_ignored(r)
  <2>1. phone_answers' = phone_answers \cup {[ref |-> r, answer |-> "ignored"]}
        /\ UNCHANGED phone_collected
    BY <1>5 DEF Phone!success_ignored, Phone!answer
  <2> QED BY <1>1, <1>2, <2>1 DEF PaidInv, Phone!Answers
<1>6. CASE Phone!already_processed(r)
  <2>1. phone_answers' = phone_answers \cup {[ref |-> r, answer |-> "already_processed"]}
        /\ UNCHANGED phone_collected /\ phone_txn[r].status = "success"
    BY <1>6 DEF Phone!already_processed, Phone!answer, Phone!to_settle
  <2> QED BY <1>1, <1>2, <2>1 DEF PaidInv, Phone!Answers
<1> QED BY <1>3, <1>4, <1>5, <1>6

\* A webhook that goes on, or dies, without having written.
LEMMA Onward ==
    ASSUME PaidInv, NEW h \in PhoneHooks,
           \/ \E r \in PhoneRefs : Phone!begin_charge_success(h, r)
                                 \/ Phone!begin_charge_failed(h, r)
           \/ Phone!read_parent(h) \/ Phone!insert_refused(h) \/ Phone!hook_dies(h)
    PROVE  PaidInv'
<1>1. UNCHANGED <<phone_txn, phone_collected, phone_answers, phone_voted>>
  BY DEF Phone!begin_charge_success, Phone!begin_charge_failed, Phone!begin,
     Phone!read_parent, Phone!insert_refused, Phone!hook_dies, Phone!gateway
<1>2. \A q : Phone!bought(q) => Phone!bought(q)'
  BY <1>1, StaysBought
<1>3. ASSUME NEW next \in [state : Phone!Stages, ref : PhoneRefs] \cup {Phone!Idle},
             phone_hook' = [phone_hook EXCEPT ![h] = next],
             next.state # "idle" => phone_txn[next.ref] \in Phone!Rows,
             next.state = "amount_mismatch" => phone_collected[next.ref] = "short"
      PROVE  PaidInv'
  <2>1. /\ phone_hook' \in [PhoneHooks ->
               [state : Phone!Stages, ref : PhoneRefs] \cup {Phone!Idle}]
        /\ \A k \in PhoneHooks : phone_hook'[k] = IF k = h THEN next ELSE phone_hook[k]
    BY <1>3 DEF PaidInv
  <2>2. \A k \in PhoneHooks :
          /\ phone_hook'[k].state # "idle" => phone_txn[phone_hook'[k].ref] \in Phone!Rows
          /\ phone_hook'[k].state = "amount_mismatch" =>
               phone_collected[phone_hook'[k].ref] = "short"
    BY <1>3, <2>1 DEF PaidInv
  <2> QED BY <1>1, <1>2, <2>1, <2>2 DEF PaidInv
<1>4. ASSUME NEW r \in PhoneRefs, Phone!begin_charge_success(h, r) PROVE PaidInv'
  <2> DEFINE stage == IF Phone!short(r) THEN "amount_mismatch" ELSE "paid"
             next == [state |-> stage, ref |-> r]
  <2>1. phone_hook' = [phone_hook EXCEPT ![h] = next]
    BY <1>4 DEF Phone!begin_charge_success, Phone!begin
  <2>2. next \in [state : Phone!Stages, ref : PhoneRefs]
        /\ next.ref = r
        /\ (next.state = "amount_mismatch" => phone_collected[next.ref] = "short")
    BY DEF Phone!Stages, Phone!short
  <2>3. phone_txn[r] \in Phone!Rows
    BY <1>4 DEF Phone!begin_charge_success, PaidInv
  <2> HIDE DEF next
  <2> QED BY <1>3, <2>1, <2>2, <2>3
<1>5. ASSUME NEW r \in PhoneRefs, Phone!begin_charge_failed(h, r) PROVE PaidInv'
  <2> DEFINE next == [state |-> "declined", ref |-> r]
  <2>1. phone_hook' = [phone_hook EXCEPT ![h] = next]
    BY <1>5 DEF Phone!begin_charge_failed, Phone!begin
  <2>2. next \in [state : Phone!Stages, ref : PhoneRefs] /\ next.state # "amount_mismatch"
        /\ next.ref = r
    BY DEF Phone!Stages
  <2>3. phone_txn[r] \in Phone!Rows
    BY <1>5 DEF Phone!begin_charge_failed, PaidInv, Phone!NoRow
  <2> HIDE DEF next
  <2> QED BY <1>3, <2>1, <2>2, <2>3
<1>6. CASE Phone!read_parent(h)
  <2> DEFINE stage == IF phone_ballot.open THEN "cast" ELSE "ended"
             next == [state |-> stage, ref |-> phone_hook[h].ref]
  <2>1. phone_hook[h] \in [state : Phone!Stages, ref : PhoneRefs]
    BY <1>6 DEF Phone!read_parent, PaidInv, Phone!Idle
  <2>2. [phone_hook[h] EXCEPT !.state = stage] = next
    BY <2>1
  <2>3. phone_hook' = [phone_hook EXCEPT ![h] = next]
    BY <1>6, <2>2 DEF Phone!read_parent, PaidInv
  <2>4. next \in [state : Phone!Stages, ref : PhoneRefs] /\ next.state # "amount_mismatch"
        /\ phone_txn[next.ref] \in Phone!Rows
    BY <1>6, <2>1 DEF Phone!Stages, Phone!read_parent, PaidInv
  <2> HIDE DEF next
  <2> QED BY <1>3, <2>3, <2>4
<1>7. CASE Phone!insert_refused(h) \/ Phone!hook_dies(h)
  <2>1. phone_hook' = [phone_hook EXCEPT ![h] = Phone!Idle]
    BY <1>7 DEF Phone!insert_refused, Phone!hook_dies
  <2>2. Phone!Idle.state = "idle"
    BY DEF Phone!Idle
  <2> QED BY <1>3, <2>1, <2>2
<1> QED BY <1>4, <1>5, <1>6, <1>7

\* The end of a webhook that writes a status and answers, if it does.
LEMMA RowWritten ==
    ASSUME PaidInv, NEW h \in PhoneHooks, NEW r \in PhoneRefs, phone_txn[r] \in Phone!Rows,
           NEW outcome \in {"success", "failed"}, NEW told \in Phone!Answers,
           phone_txn' = [phone_txn EXCEPT ![r].status = outcome],
           phone_hook' = [phone_hook EXCEPT ![h] = Phone!Idle],
           UNCHANGED phone_collected, phone_voted \subseteq phone_voted',
           phone_answers' \subseteq phone_answers \cup {[ref |-> r, answer |-> told]},
           outcome = "success" \/ told \in {"ok", "already_processed"} => Phone!bought(r)',
           told = "amount_mismatch" => phone_collected[r] = "short"
    PROVE  PaidInv'
<1>1. \A q : Phone!bought(q) => Phone!bought(q)'
  BY StaysBought
<1>2. /\ phone_txn' \in [PhoneRefs -> Phone!Rows \cup {Phone!NoRow}]
      /\ \A q \in PhoneRefs :
           /\ phone_txn[q] \in Phone!Rows => phone_txn'[q] \in Phone!Rows
           /\ q # r => phone_txn'[q] = phone_txn[q]
      /\ phone_txn'[r].status = outcome
  <2>1. [phone_txn[r] EXCEPT !.status = outcome] \in Phone!Rows
        /\ [phone_txn[r] EXCEPT !.status = outcome].status = outcome
    BY DEF Phone!Rows
  <2> QED BY <2>1 DEF PaidInv
<1>3. /\ phone_hook' \in [PhoneHooks ->
             [state : Phone!Stages, ref : PhoneRefs] \cup {Phone!Idle}]
      /\ \A k \in PhoneHooks :
           /\ phone_hook'[k].state # "idle" => phone_txn'[phone_hook'[k].ref] \in Phone!Rows
           /\ phone_hook'[k].state = "amount_mismatch" =>
                phone_collected'[phone_hook'[k].ref] = "short"
  <2>1. \A k \in PhoneHooks : phone_hook'[k] = IF k = h THEN Phone!Idle ELSE phone_hook[k]
    BY DEF PaidInv
  <2>2. \A k \in PhoneHooks : phone_hook[k].state # "idle" => phone_hook[k].ref \in PhoneRefs
    BY DEF PaidInv, Phone!Idle
  <2> QED BY <1>2, <2>1, <2>2 DEF PaidInv, Phone!Idle
<1>4. ASSUME NEW q \in PhoneRefs, phone_txn'[q].status = "success"
      PROVE  Phone!bought(q)'
  <2>1. CASE q = r
    BY <1>2, <1>4, <2>1
  <2>2. CASE q # r
    BY <1>1, <1>2, <1>4, <2>2 DEF PaidInv
  <2> QED BY <2>1, <2>2
<1>5. ASSUME NEW a \in phone_answers'
      PROVE  /\ a \in [ref : PhoneRefs, answer : Phone!Answers]
             /\ a.answer \in {"ok", "already_processed"} => Phone!bought(a.ref)'
             /\ a.answer = "amount_mismatch" => phone_collected'[a.ref] = "short"
  <2>1. CASE a \in phone_answers
    BY <1>1, <2>1 DEF PaidInv
  <2>2. CASE a = [ref |-> r, answer |-> told]
    BY <2>2
  <2> QED BY <1>5, <2>1, <2>2
<1>6. phone_collected' \in [PhoneRefs -> {"nothing", "short", "full"}]
  BY DEF PaidInv
<1> QED BY <1>2, <1>3, <1>4, <1>5, <1>6 DEF PaidInv

\* A webhook that writes: "success" with the vote, or "failed" whatever the row has become.
LEMMA HookWrites ==
    ASSUME PaidInv, NEW h \in PhoneHooks,
           Phone!handle_charge_success(h) \/ Phone!write_off(h)
    PROVE  PaidInv'
<1>1. PICK r : r = phone_hook[h].ref
  OBVIOUS
<1>2. r \in PhoneRefs /\ phone_hook[h] \in [state : Phone!Stages, ref : PhoneRefs]
      /\ phone_txn[r] \in Phone!Rows
  BY <1>1 DEF Phone!handle_charge_success, Phone!write_off, PaidInv, Phone!Idle
<1>3. CASE Phone!handle_charge_success(h)
  <2>1. PICK v : v = [phone |-> phone_txn[r].quote.phone,
                      category |-> phone_txn[r].quote.category, ref |-> r]
    OBVIOUS
  <2>2. v.ref = r /\ phone_voted' = phone_voted \cup {v}
    BY <1>1, <1>3, <2>1 DEF Phone!handle_charge_success
  <2>3. Phone!bought(r)'
    BY <2>2 DEF Phone!bought
  <2>4. /\ phone_txn' = [phone_txn EXCEPT ![r].status = "success"]
        /\ phone_hook' = [phone_hook EXCEPT ![h] = Phone!Idle]
        /\ UNCHANGED phone_collected
        /\ phone_answers' = phone_answers \cup {[ref |-> r, answer |-> "ok"]}
    BY <1>1, <1>3 DEF Phone!handle_charge_success, Phone!answer
  <2>5. phone_voted \subseteq phone_voted'
    BY <2>2
  <2>6. "ok" \in Phone!Answers
    BY DEF Phone!Answers
  <2> QED BY <1>2, <2>3, <2>4, <2>5, <2>6, RowWritten
<1>4. CASE Phone!write_off(h)
  <2>1. PICK told : told = IF phone_hook[h].state = "declined" THEN "ended"
                           ELSE phone_hook[h].state
    OBVIOUS
  <2>2. /\ phone_txn' = [phone_txn EXCEPT ![r].status = "failed"]
        /\ phone_hook' = [phone_hook EXCEPT ![h] = Phone!Idle]
        /\ UNCHANGED <<phone_collected, phone_voted>>
    BY <1>1, <1>4 DEF Phone!write_off
  <2>3. phone_answers' \subseteq phone_answers \cup {[ref |-> r, answer |-> told]}
    BY <1>1, <1>4, <2>1 DEF Phone!write_off, Phone!answer
  <2>4. told \in {"amount_mismatch", "ended"} /\ told \in Phone!Answers
    BY <1>4, <2>1 DEF Phone!write_off, Phone!Answers
  <2>5. told = "amount_mismatch" => phone_collected[r] = "short"
    BY <1>1, <2>1 DEF PaidInv
  <2> QED BY <1>2, <2>2, <2>3, <2>4, <2>5, RowWritten
<1> QED BY <1>3, <1>4

\* Every step keeps it.
LEMMA PaidInvStep ==
    ASSUME PhoneInv, PaidInv, [Phone!Next]_(Phone!phoneVars)
    PROVE  PaidInv'
  BY Unpaid, RowCommitted, AtOnce, Onward, HookWrites DEF Phone!Next

(* What is paid for is voted for (_handle_charge_success of payments.py):  *)
(* a payment that came in full has its vote, or its notice is still taken  *)
(* up, unless it was told that voting had ended or came before the row was *)
(* committed - for any number of payments, messages and webhooks, though a *)
(* charge counted as refused, an attempt failed before another paid, a     *)
(* failure was written over a success or an answer was lost.  "success" is *)
(* only written with the vote, and no other status ends a payment.         *)
THEOREM PaymentsAreKept == Phone!Spec => []NoPaymentIsLost
<1>1. PhoneInv /\ PaidInv /\ [Phone!Next]_(Phone!phoneVars) => PhoneInv' /\ PaidInv'
  BY PhoneInvStep, PaidInvStep, BallotsAssumption DEF OneChannel
<1>2. PaidInv => NoPaymentIsLost
  <2> SUFFICES ASSUME PaidInv, NEW r \in PhoneRefs, phone_collected[r] = "full",
                      ~Phone!bought(r)
               PROVE  /\ phone_txn[r].status # "success"
                      /\ \A a \in phone_answers : a.ref = r => a.answer \in {"ignored", "ended"}
    BY DEF NoPaymentIsLost, Phone!NoPaymentIsLost
  <2> QED BY DEF PaidInv, Phone!Answers
<1> QED BY <1>1, <1>2, InitPhoneInv, InitPaidInv, PTL DEF Phone!Spec

-----------------------------------------------------------------------------
(* Promo codes. *)

\* The instance has its own copy of FiniteSets.
LEMMA SameCount == ASSUME NEW S PROVE Promo!Cardinality(S) = Cardinality(S)
  BY DEF Cardinality, Promo!Cardinality

\* Forms hold numbers, and there are finitely many payments.
Forms == DiscountDrafts \subseteq [Promo!Columns -> Nat] /\ IsFiniteSet(DiscountPayments)

\* What the columns hold.
Emails == DiscountBuyers \X Promo!Spellings
CodeRows == {Promo!NoCode, [state |-> "deleted"]}
    \cup [state : {"live"}, org : DiscountOrgs, row : [Promo!Columns -> Nat]]
PaymentRows == {Promo!NoPayment}
    \cup [status : {"pending", "failed", "success"}, channel : Promo!Channels,
           code : DiscountCodes, activity : DiscountActivities, email : Emails]
Limits == [usage_limit : Nat, per_person_limit : Nat]

\* The row of the ledger that a payment enters.
Entry(p) == [code |-> promo_payments[p].code, email |-> promo_payments[p].email,
  payment |-> p]

\* The payments of some addresses that are counted as uses of a code, or will be.
UsedBy(c, E) ==
    {p \in DiscountPayments :
        /\ promo_payments[p].status \in {"pending", "success"}
        /\ promo_payments[p].code = c /\ promo_payments[p].email \in E
        /\ p \notin promo_unrecorded}
\* Their redemptions on the ledger.
Redeemed(c, E) == {r \in Promo!of_code(c) : r.email \in E}

\* Types.
CodeTables ==
    /\ promo_codes \in [DiscountCodes -> CodeRows]
    /\ promo_saving = [s \in DiscountSavers |-> promo_saving[s]]
    /\ \A s \in DiscountSavers : promo_saving[s] # Promo!Idle =>
        /\ promo_saving[s].code \in DiscountCodes
        /\ promo_saving[s].op \in {"update", "rewrite"}
             => promo_saving[s].draft \in [Promo!Columns -> Nat]
    /\ promo_payments \in [DiscountPayments -> PaymentRows]
    /\ promo_highest \in [DiscountCodes -> Limits]

\* A row of the ledger is that of a payment which was settled and recorded, and as long
\* as its code is live every such payment has its row.
Ledger ==
    /\ \A r \in promo_redemptions :
         /\ r.payment \in DiscountPayments /\ r = Entry(r.payment)
         /\ promo_payments[r.payment].status = "success" /\ r.payment \notin promo_unrecorded
    /\ \A p \in DiscountPayments :
         /\ promo_payments[p].status = "success" /\ p \notin promo_unrecorded
         /\ Promo!live(promo_payments[p].code)
         => Entry(p) \in promo_redemptions
    /\ promo_unrecorded \subseteq DiscountPayments
    /\ \A p \in promo_unrecorded : promo_payments[p].status = "success"
    /\ \A p \in DiscountPayments : promo_payments[p].status # "none" =>
         promo_codes[promo_payments[p].code].state # "none"

\* No live code has higher limits than the highest it has had.
Highest == \A c \in DiscountCodes : Promo!live(c) =>
    /\ Promo!limit_of(promo_codes[c].row.usage_limit) <= promo_highest[c].usage_limit
    /\ promo_codes[c].row.per_person_limit <= promo_highest[c].per_person_limit

\* Open payments count: what arrives has been counted before.
WithOpenOnes == \A c \in DiscountCodes :
    /\ c \notin promo_crowded => Cardinality(UsedBy(c,
         Emails)) <= promo_highest[c].usage_limit
    /\ \A b \in DiscountBuyers : <<c, b>> \notin promo_crowded =>
        Cardinality(UsedBy(c, {b} \X Promo!Spellings)) <= promo_highest[c].per_person_limit

\* What the limits rest on.
PromoInv == CodeTables /\ Ledger /\ Highest /\ WithOpenOnes

\* There are no more uses than payments.
LEMMA FewUses ==
    ASSUME Forms, NEW c, NEW E
    PROVE  /\ IsFiniteSet(UsedBy(c, E)) /\ Cardinality(UsedBy(c, E)) \in Nat
           /\ Cardinality(UsedBy(c, E)) <= Cardinality(DiscountPayments)
           /\ Cardinality(DiscountPayments) \in Nat
<1>1. UsedBy(c, E) \in SUBSET DiscountPayments
  BY DEF UsedBy
<1>2. IsFiniteSet(UsedBy(c, E)) /\ Cardinality(UsedBy(c,
  E)) <= Cardinality(DiscountPayments)
  BY <1>1, FS_Subset DEF Forms
<1> QED BY <1>2, FS_CardinalityType DEF Forms

\* The ledger counts payments.
LEMMA LedgerCounts ==
    ASSUME Forms, CodeTables, Ledger, NEW c \in DiscountCodes, NEW E
    PROVE  /\ Cardinality(Redeemed(c, E)) \in Nat
           /\ Cardinality(Redeemed(c, E)) <= Cardinality(UsedBy(c, E))
           /\ /\ Promo!live(c)
              /\ \A p \in Promo!open_payments(c) : promo_payments[p].email \notin E
              => Cardinality(Redeemed(c, E)) = Cardinality(UsedBy(c, E))
<1> DEFINE f == [r \in Redeemed(c, E) |-> r.payment]
<1>1. \A r \in Redeemed(c, E) :
        r.payment \in UsedBy(c, E) /\ r = Entry(r.payment)
  BY DEF Redeemed, Promo!of_code, Ledger, Entry, UsedBy
<1>2. f \in [Redeemed(c, E) -> UsedBy(c, E)]
  BY <1>1
<1>3. \A r, t \in Redeemed(c, E) : f[r] = f[t] => r = t
  BY <1>1
<1>4. f \in Injection(Redeemed(c, E), UsedBy(c, E))
  BY <1>2, <1>3 DEF Injection, IsInjective
<1>5. /\ IsFiniteSet(Redeemed(c, E))
      /\ Cardinality(Redeemed(c, E)) <= Cardinality(UsedBy(c, E))
      /\ f \in Surjection(Redeemed(c, E), UsedBy(c, E)) =>
           Cardinality(Redeemed(c, E)) = Cardinality(UsedBy(c, E))
  BY <1>4, FewUses, FS_Injection
<1>6. ASSUME Promo!live(c),
             \A p \in Promo!open_payments(c) : promo_payments[p].email \notin E
      PROVE  f \in Surjection(Redeemed(c, E), UsedBy(c, E))
  <2>1. ASSUME NEW p \in UsedBy(c, E) PROVE \E r \in Redeemed(c, E) : f[r] = p
    <3>1. /\ p \in DiscountPayments /\ promo_payments[p].code = c
          /\ promo_payments[p].email \in E /\ promo_payments[p].status = "success"
          /\ p \notin promo_unrecorded
      BY <1>6 DEF UsedBy, Promo!open_payments
    <3>2. Entry(p) \in promo_redemptions
      BY <1>6, <3>1 DEF Ledger
    <3>3. Entry(p).code = c /\ Entry(p).email \in E /\ Entry(p).payment = p
      BY <3>1 DEF Entry
    <3> QED BY <3>2, <3>3 DEF Redeemed, Promo!of_code
  <2> QED BY <1>2, <2>1 DEF Surjection
<1> QED BY <1>5, <1>6, FS_CardinalityType

\* At first no code has a use.
LEMMA InitPromoInv == ASSUME Forms, Promo!Init PROVE PromoInv
<1>1. CodeTables
  <2>1. Promo!NoCode \in CodeRows /\ Promo!NoPayment \in PaymentRows
        /\ [usage_limit |-> 0, per_person_limit |-> 0] \in Limits
    BY DEF CodeRows, PaymentRows, Limits
  <2> QED BY <2>1 DEF Promo!Init, CodeTables
<1>2. Ledger /\ Highest
  BY DEF Promo!Init, Ledger, Highest, Promo!live, Promo!NoCode, Promo!NoPayment
<1>3. ASSUME NEW c, NEW E PROVE UsedBy(c, E) = {}
  <2>1. \A p \in DiscountPayments : promo_payments[p].status = "none"
    BY DEF Promo!Init, Promo!NoPayment
  <2> QED BY <2>1 DEF UsedBy
<1>4. \A c, E : Cardinality(UsedBy(c, E)) = 0
  BY <1>3, FS_EmptySet
<1>5. \A c \in DiscountCodes : promo_highest[c].usage_limit = 0
      /\ promo_highest[c].per_person_limit = 0
  BY DEF Promo!Init
<1>6. WithOpenOnes
  BY <1>4, <1>5 DEF WithOpenOnes
<1> QED BY <1>1, <1>2, <1>6 DEF PromoInv

\* Where no payment starts, the uses do not become more.
LEMMA NoneMore ==
    ASSUME Forms, PromoInv, CodeTables',
           \A c \in DiscountCodes :
             promo_highest[c].usage_limit <= promo_highest'[c].usage_limit
                                 /\ promo_highest[c].per_person_limit
                                      <= promo_highest'[c].per_person_limit,
           promo_crowded' = promo_crowded,
           \A p \in DiscountPayments :
             /\ promo_payments'[p].status # "none" =>
                        /\ promo_payments[p].status # "none"
                        /\ promo_payments'[p].code = promo_payments[p].code
                        /\ promo_payments'[p].email = promo_payments[p].email
             /\ promo_payments'[p].status \in {"pending", "success"} =>
                  promo_payments[p].status \in {"pending", "success"}
                    \/ p \in promo_unrecorded'
             /\ p \in promo_unrecorded => p \in promo_unrecorded'
    PROVE  WithOpenOnes'
<1>1. \A c, E : UsedBy(c, E)' \subseteq UsedBy(c, E)
  BY DEF UsedBy
<1>2. \A c, E : Cardinality(UsedBy(c, E)') <= Cardinality(UsedBy(c, E))
                /\ Cardinality(UsedBy(c, E)') \in Nat /\ Cardinality(UsedBy(c, E)) \in Nat
  <2> TAKE c, E
  <2>1. UsedBy(c, E)' \in SUBSET UsedBy(c, E) /\ IsFiniteSet(UsedBy(c, E))
    BY <1>1, FewUses
  <2> HIDE DEF UsedBy
  <2>2. IsFiniteSet(UsedBy(c, E)')
        /\ Cardinality(UsedBy(c, E)') <= Cardinality(UsedBy(c, E))
    BY <2>1, FS_Subset
  <2> QED BY <2>1, <2>2, FS_CardinalityType
<1>3. \A c \in DiscountCodes :
        /\ promo_highest[c].usage_limit \in Nat /\ promo_highest[c].per_person_limit \in Nat
        /\ promo_highest'[c].usage_limit \in Nat
        /\ promo_highest'[c].per_person_limit \in Nat
  BY DEF PromoInv, CodeTables, Limits
<1> SUFFICES ASSUME NEW c \in DiscountCodes
             PROVE  /\ c \notin promo_crowded' =>
                         Cardinality(UsedBy(c, Emails)') <= promo_highest'[c].usage_limit
                    /\ \A b \in DiscountBuyers : <<c, b>> \notin promo_crowded' =>
                         Cardinality(UsedBy(c, {b} \X Promo!Spellings)')
                           <= promo_highest'[c].per_person_limit
  BY DEF WithOpenOnes, Emails
<1>4. ASSUME c \notin promo_crowded
      PROVE  Cardinality(UsedBy(c, Emails)') <= promo_highest'[c].usage_limit
  <2>1. Cardinality(UsedBy(c, Emails)) <= promo_highest[c].usage_limit
    BY <1>4 DEF PromoInv, WithOpenOnes
  <2> QED BY <2>1, <1>2, <1>3
<1>5. ASSUME NEW b \in DiscountBuyers, <<c, b>> \notin promo_crowded
      PROVE  Cardinality(UsedBy(c,
             {b} \X Promo!Spellings)') <= promo_highest'[c].per_person_limit
  <2>1. Cardinality(UsedBy(c, {b} \X Promo!Spellings)) <= promo_highest[c].per_person_limit
    BY <1>5 DEF PromoInv, WithOpenOnes
  <2> QED BY <2>1, <1>2, <1>3
<1> QED BY <1>4, <1>5

\* The steps that leave the tables of codes, payments and limits alone.
LEMMA SameTables ==
    ASSUME Forms, PromoInv, UNCHANGED <<promo_codes, promo_payments, promo_redemptions,
           promo_unrecorded, promo_highest, promo_crowded>>,
           promo_saving' = [s \in DiscountSavers |-> promo_saving'[s]],
           \A s \in DiscountSavers : promo_saving'[s] # promo_saving[s]
             /\ promo_saving'[s] # Promo!Idle =>
             /\ promo_saving'[s].code \in DiscountCodes
             /\ promo_saving'[s].op \in {"update", "rewrite"} =>
                        promo_saving'[s].draft \in [Promo!Columns -> Nat]
    PROVE  PromoInv'
<1>1. CodeTables'
  BY DEF PromoInv, CodeTables
<1>2. Ledger' /\ Highest'
  BY DEF PromoInv, Ledger, Entry, Highest, Promo!live
<1>3. \A c, E : UsedBy(c, E)' = UsedBy(c, E)
  BY DEF UsedBy
<1>4. WithOpenOnes'
  BY <1>3 DEF PromoInv, WithOpenOnes, Emails
<1> QED BY <1>1, <1>2, <1>4 DEF PromoInv

\* Requests of organizers that have not written yet.
LEMMA Preparing ==
    ASSUME Forms, PromoInv, NEW s \in DiscountSavers,
           \/ \E c \in DiscountCodes, d \in DiscountDrafts,
                scope \in SUBSET DiscountActivities : Promo!update(s, c, d, scope)
           \/ Promo!flush(s)
           \/ \E c \in DiscountCodes : Promo!begin_delete(s, c)
           \/ Promo!roll_back(s)
    PROVE  PromoInv'
<1>1. UNCHANGED <<promo_codes, promo_payments, promo_redemptions, promo_unrecorded,
                  promo_highest, promo_crowded>>
  BY DEF Promo!update, Promo!flush, Promo!begin_delete, Promo!roll_back, Promo!buying
<1>2. ASSUME NEW new, promo_saving' = [promo_saving EXCEPT ![s] = new],
             new # Promo!Idle =>
               /\ new.code \in DiscountCodes
               /\ new.op \in {"update", "rewrite"} => new.draft \in [Promo!Columns -> Nat]
      PROVE  PromoInv'
  <2>1. promo_saving' = [k \in DiscountSavers |-> IF k = s THEN new ELSE promo_saving[k]]
    BY <1>2 DEF PromoInv, CodeTables
  <2> QED BY <1>1, <1>2, <2>1, SameTables
<1>3. ASSUME NEW c \in DiscountCodes, NEW d \in DiscountDrafts,
             NEW scope \in SUBSET DiscountActivities,
             Promo!update(s, c, d, scope)
      PROVE  PromoInv'
  <2> DEFINE new == [op |-> "update", code |-> c, draft |-> d, scope |-> scope,
                     writes |-> {k \in Promo!Columns : d[k] # Promo!NULL
                       /\ d[k] # promo_codes[c].row[k]}]
  <2>1. promo_saving' = [promo_saving EXCEPT ![s] = new]
    BY <1>3 DEF Promo!update
  <2>2. new.code \in DiscountCodes /\ new.draft \in [Promo!Columns -> Nat]
    BY DEF Forms
  <2> QED BY <2>1, <2>2, <1>2
<1>4. ASSUME Promo!flush(s) PROVE PromoInv'
  <2> DEFINE w == promo_saving[s]
             new == [op |-> "rewrite", code |-> w.code, draft |-> w.draft,
               scope |-> w.scope,
                     writes |-> w.writes, rows |-> Promo!scopes_of(w.code)]
  <2>1. promo_saving' = [promo_saving EXCEPT ![s] = new] /\ w.op = "update"
    /\ w # Promo!Idle
    BY <1>4 DEF Promo!flush, Promo!Idle
  <2>2. new.code \in DiscountCodes /\ new.draft \in [Promo!Columns -> Nat]
    BY <2>1 DEF PromoInv, CodeTables
  <2> QED BY <2>1, <2>2, <1>2
<1>5. ASSUME NEW c \in DiscountCodes, Promo!begin_delete(s, c) PROVE PromoInv'
  <2> DEFINE new == [op |-> "delete", code |-> c]
  <2>1. promo_saving' = [promo_saving EXCEPT ![s] = new] /\ new.code \in DiscountCodes
        /\ new.op \notin {"update", "rewrite"}
    BY <1>5 DEF Promo!begin_delete
  <2> QED BY <2>1, <1>2
<1>6. ASSUME Promo!roll_back(s) PROVE PromoInv'
  BY <1>2, <1>6 DEF Promo!roll_back
<1> QED BY <1>3, <1>4, <1>5, <1>6

\* A code gets a row: its limits are among the highest from then on.
LEMMA Written ==
    ASSUME Forms, PromoInv, NEW c \in DiscountCodes, NEW org \in DiscountOrgs,
           NEW row \in [Promo!Columns -> Nat],
           promo_codes' = [promo_codes EXCEPT ![c] =
             [state |-> "live", org |-> org, row |-> row]],
           promo_codes[c].state \in {"none", "live"},
           Promo!raise(c, row), UNCHANGED Promo!buying,
           \/ promo_saving' = promo_saving
           \/ \E s \in DiscountSavers :
                promo_saving' = [promo_saving EXCEPT ![s] = Promo!Idle]
    PROVE  PromoInv'
<1>1. Cardinality(DiscountPayments) \in Nat /\ row.usage_limit \in Nat
      /\ row.per_person_limit \in Nat
  BY FS_CardinalityType DEF Forms, Promo!Columns
<1>2. Promo!limit_of(row.usage_limit) \in Nat
  BY <1>1, SameCount DEF Promo!limit_of, Promo!Unlimited
<1>3. promo_highest[c] \in Limits /\ promo_highest[c].usage_limit \in Nat
      /\ promo_highest[c].per_person_limit \in Nat
  BY DEF PromoInv, CodeTables, Limits
<1> DEFINE u == Promo!larger(promo_highest[c].usage_limit, Promo!limit_of(row.usage_limit))
           n == Promo!larger(promo_highest[c].per_person_limit, row.per_person_limit)
<1>4. /\ u \in Nat /\ promo_highest[c].usage_limit <= u
      /\ Promo!limit_of(row.usage_limit) <= u
      /\ n \in Nat /\ promo_highest[c].per_person_limit <= n /\ row.per_person_limit <= n
  BY <1>1, <1>2, <1>3 DEF Promo!larger
<1>5. promo_highest' = [promo_highest EXCEPT ![c] =
  [usage_limit |-> u, per_person_limit |-> n]]
  BY DEF Promo!raise
<1> HIDE DEF u, n
<1>6. promo_highest' \in [DiscountCodes -> Limits]
  BY <1>4, <1>5 DEF PromoInv, CodeTables, Limits
<1>7. \A k \in DiscountCodes :
        /\ promo_highest[k].usage_limit <= promo_highest'[k].usage_limit
        /\ promo_highest[k].per_person_limit <= promo_highest'[k].per_person_limit
  BY <1>4, <1>5 DEF PromoInv, CodeTables, Limits
<1>8. promo_codes' \in [DiscountCodes -> CodeRows]
  BY DEF PromoInv, CodeTables, CodeRows
<1>9. promo_saving' = [s \in DiscountSavers |-> promo_saving'[s]]
      /\ \A s \in DiscountSavers : promo_saving'[s] = promo_saving[s]
           \/ promo_saving'[s] = Promo!Idle
  BY DEF PromoInv, CodeTables
<1>10. CodeTables'
  BY <1>6, <1>8, <1>9 DEF PromoInv, CodeTables, Promo!buying
<1>11. Ledger'
  <2>1. \A k \in DiscountCodes : promo_codes'[k].state # promo_codes[k].state =>
          promo_codes[k].state = "none" /\ promo_codes'[k].state = "live"
    BY DEF PromoInv, CodeTables
  <2>2. \A p \in DiscountPayments : promo_payments[p].status # "none" =>
          promo_payments[p].code \in DiscountCodes
    BY DEF PromoInv, CodeTables, PaymentRows, Promo!NoPayment
  <2> QED BY <2>1, <2>2 DEF PromoInv, Ledger, Entry, Promo!buying, Promo!live
<1>12. Highest'
  <2> SUFFICES ASSUME NEW k \in DiscountCodes, Promo!live(k)'
               PROVE  /\ Promo!limit_of(promo_codes'[k].row.usage_limit)
                           <= promo_highest'[k].usage_limit
                      /\ promo_codes'[k].row.per_person_limit
                           <= promo_highest'[k].per_person_limit
    BY DEF Highest, Promo!limit_of, Promo!Unlimited
  <2>1. CASE k = c
    BY <2>1, <1>4, <1>5 DEF PromoInv, CodeTables
  <2>2. CASE k # c
    BY <2>2, <1>5 DEF PromoInv, CodeTables, Highest, Promo!live
  <2> QED BY <2>1, <2>2
<1>13. WithOpenOnes'
  BY <1>7, <1>10, NoneMore DEF Promo!buying
<1> QED BY <1>10, <1>11, <1>12, <1>13 DEF PromoInv

\* A code is created, or a save writes its row.
LEMMA Saves ==
    ASSUME Forms, PromoInv,
           \/ \E c \in DiscountCodes, o \in DiscountOrgs, d \in DiscountDrafts,
                scope \in SUBSET DiscountActivities :
                Promo!create(c, o, d, scope)
           \/ \E s \in DiscountSavers : Promo!replace_scope(s)
    PROVE  PromoInv'
<1>1. ASSUME NEW c \in DiscountCodes, NEW o \in DiscountOrgs, NEW d \in DiscountDrafts,
             NEW scope \in SUBSET DiscountActivities, Promo!create(c, o, d, scope)
      PROVE  PromoInv'
  <2>1. d \in [Promo!Columns -> Nat] /\ Promo!raise(c, d) /\ UNCHANGED Promo!buying
    /\ promo_saving' = promo_saving /\ promo_codes[c].state = "none"
        /\ promo_codes' = [promo_codes EXCEPT ![c] =
             [state |-> "live", org |-> o, row |-> d]]
    BY <1>1 DEF Promo!create, Forms
  <2> QED BY <2>1, Written
<1>2. ASSUME NEW s \in DiscountSavers, Promo!replace_scope(s) PROVE PromoInv'
  <2> DEFINE w == promo_saving[s]
             c == w.code
  <2>0. w.op = "rewrite" /\ Promo!live(c)
    BY <1>2 DEF Promo!replace_scope
  <2>1. w # Promo!Idle /\ w.op = "rewrite" /\ Promo!live(c)
    BY <2>0 DEF Promo!Idle
  <2>2. c \in DiscountCodes /\ w.draft \in [Promo!Columns -> Nat]
    BY <2>1 DEF PromoInv, CodeTables
  <2>3. promo_codes[c].row \in [Promo!Columns -> Nat] /\ promo_codes[c].org \in DiscountOrgs
        /\ promo_codes[c] = [state |-> "live", org |-> promo_codes[c].org,
             row |-> promo_codes[c].row]
        /\ promo_codes[c].state = "live"
    BY <2>1, <2>2 DEF PromoInv, CodeTables, CodeRows, Promo!live, Promo!NoCode
  <2>4. PICK row \in [Promo!Columns -> Nat] :
          row = [k \in Promo!Columns |-> IF k \in w.writes THEN w.draft[k] ELSE
            promo_codes[c].row[k]]
    BY <2>2, <2>3
  <2>5. promo_codes' = [promo_codes EXCEPT ![c].row = row] /\ Promo!raise(c, row)
        /\ promo_saving' = [promo_saving EXCEPT ![s] = Promo!Idle] /\ UNCHANGED Promo!buying
    BY <1>2, <2>4 DEF Promo!replace_scope, Promo!buying
  <2>6. [promo_codes[c] EXCEPT !.row = row] =
    [state |-> "live", org |-> promo_codes[c].org, row |-> row]
    BY <2>3
  <2>7. promo_codes' = [promo_codes EXCEPT ![c] =
    [state |-> "live", org |-> promo_codes[c].org, row |-> row]]
    BY <2>2, <2>5, <2>6 DEF PromoInv, CodeTables
  <2> QED BY <2>2, <2>3, <2>5, <2>7, Written
<1> QED BY <1>1, <1>2

\* Deleting a code deletes its rows of the ledger, and nothing of it is live again.
LEMMA Deleted == ASSUME Forms, PromoInv, NEW s \in DiscountSavers, Promo!delete(s)
PROVE PromoInv'
<1> DEFINE c == promo_saving[s].code
<1>1. c \in DiscountCodes /\ promo_saving[s] # Promo!Idle
  BY DEF Promo!delete, Promo!Idle, PromoInv, CodeTables
<1>2. /\ promo_codes' = [promo_codes EXCEPT ![c] = [state |-> "deleted"]]
      /\ promo_redemptions' = promo_redemptions \ Promo!of_code(c)
      /\ promo_saving' = [promo_saving EXCEPT ![s] = Promo!Idle]
      /\ UNCHANGED <<promo_payments, promo_unrecorded, promo_crowded, promo_highest>>
  BY DEF Promo!delete
<1>3. promo_codes' \in [DiscountCodes -> CodeRows]
  BY <1>1, <1>2 DEF PromoInv, CodeTables, CodeRows
<1>4. promo_saving' = [k \in DiscountSavers |-> promo_saving'[k]]
      /\ \A k \in DiscountSavers : promo_saving'[k] = promo_saving[k]
           \/ promo_saving'[k] = Promo!Idle
  BY <1>2 DEF PromoInv, CodeTables
<1>5. CodeTables'
  BY <1>2, <1>3, <1>4 DEF PromoInv, CodeTables
<1>6. Ledger'
  <2>1. \A p \in DiscountPayments : promo_payments[p].status # "none" =>
          promo_payments[p].code \in DiscountCodes
    BY DEF PromoInv, CodeTables, PaymentRows, Promo!NoPayment
  <2>2. \A k \in DiscountCodes :
          /\ k # c => promo_codes'[k] = promo_codes[k]
          /\ k = c => promo_codes'[k].state = "deleted"
    BY <1>1, <1>2 DEF PromoInv, CodeTables
  <2>3. \A r \in promo_redemptions' : r \in promo_redemptions
    BY <1>2
  <2>4. \A p \in DiscountPayments : Entry(p)' = Entry(p)
    BY <1>2 DEF Entry
  <2>5. ASSUME NEW p \in DiscountPayments, promo_payments[p].status = "success",
               p \notin promo_unrecorded, Promo!live(promo_payments[p].code)'
        PROVE  Entry(p) \in promo_redemptions'
    <3>1. promo_payments[p].code \in DiscountCodes /\ promo_payments[p].code # c
          /\ Promo!live(promo_payments[p].code)
      BY <1>2, <2>1, <2>2, <2>5 DEF Promo!live
    <3>2. Entry(p) \in promo_redemptions /\ Entry(p).code # c
      BY <2>5, <3>1 DEF PromoInv, Ledger, Entry
    <3> QED BY <1>2, <3>2 DEF Promo!of_code
  <2> QED BY <1>2, <2>1, <2>2, <2>3, <2>4, <2>5 DEF PromoInv, Ledger, Promo!live
<1>7. Highest'
  BY <1>1, <1>2 DEF PromoInv, CodeTables, Highest, Promo!live, Promo!limit_of,
     Promo!Unlimited
<1>8. promo_highest \in [DiscountCodes -> Limits]
  BY DEF PromoInv, CodeTables
<1>9. \A k \in DiscountCodes : promo_highest[k].usage_limit <= promo_highest'[k].usage_limit
                              /\ promo_highest[k].per_person_limit
                                   <= promo_highest'[k].per_person_limit
  BY <1>2, <1>8 DEF Limits
<1>10. WithOpenOnes'
  BY <1>2, <1>5, <1>9, NoneMore
<1> QED BY <1>5, <1>6, <1>7, <1>10 DEF PromoInv

\* A payment arrives: it was counted already.
LEMMA Arrived == ASSUME Forms, PromoInv, NEW p \in DiscountPayments,
  Promo!record_redemption(p) PROVE PromoInv'
<1>1. /\ promo_payments[p].status = "pending"
      /\ promo_payments' = [promo_payments EXCEPT ![p].status = "success"]
      /\ promo_redemptions' = promo_redemptions \cup {Entry(p)}
      /\ UNCHANGED <<promo_codes, promo_saving, promo_unrecorded, promo_highest,
                     promo_crowded>>
  BY DEF Promo!record_redemption, Entry
<1>2. promo_payments \in [DiscountPayments -> PaymentRows]
      /\ promo_payments[p] # Promo!NoPayment
  BY <1>1 DEF PromoInv, CodeTables, Promo!NoPayment
<1>3. promo_payments' \in [DiscountPayments -> PaymentRows]
  BY <1>1, <1>2 DEF PaymentRows
<1>4. \A q \in DiscountPayments :
        /\ q # p => promo_payments'[q] = promo_payments[q]
        /\ promo_payments'[q].code = promo_payments[q].code
        /\ promo_payments'[q].email = promo_payments[q].email
  BY <1>1, <1>2 DEF PaymentRows
<1>5. promo_payments'[p].status = "success"
  BY <1>1, <1>2 DEF PaymentRows
<1>6. CodeTables'
  BY <1>1, <1>3 DEF PromoInv, CodeTables
<1>7. Ledger'
  <2>1. p \notin promo_unrecorded
    BY <1>1 DEF PromoInv, Ledger
  <2>2. \A q \in DiscountPayments : Entry(q)' = Entry(q)
    BY <1>4 DEF Entry
  <2>3. Entry(p).payment = p
    BY DEF Entry
  <2>4. ASSUME NEW r \in promo_redemptions'
        PROVE  /\ r.payment \in DiscountPayments /\ r = Entry(r.payment)
               /\ promo_payments'[r.payment].status = "success"
               /\ r.payment \notin promo_unrecorded
    <3>1. CASE r = Entry(p)
      BY <3>1, <1>5, <2>1, <2>3
    <3>2. CASE r \in promo_redemptions
      BY <3>2, <1>4, <1>5 DEF PromoInv, Ledger
    <3> QED BY <1>1, <3>1, <3>2
  <2>5. ASSUME NEW q \in DiscountPayments, promo_payments'[q].status = "success",
               q \notin promo_unrecorded, Promo!live(promo_payments[q].code)
        PROVE  Entry(q) \in promo_redemptions'
    BY <1>1, <1>4, <2>5 DEF PromoInv, Ledger
  <2>6. \A q \in DiscountPayments : promo_payments'[q].status # "none" =>
          promo_codes'[promo_payments'[q].code].state # "none"
    BY <1>1, <1>4 DEF PromoInv, Ledger
  <2>7. promo_unrecorded' \subseteq DiscountPayments
        /\ \A q \in promo_unrecorded' : promo_payments'[q].status = "success"
    BY <1>1, <1>4, <1>5 DEF PromoInv, Ledger
  <2> QED BY <1>1, <1>4, <2>2, <2>4, <2>5, <2>6, <2>7 DEF Ledger, Promo!live
<1>8. Highest'
  BY <1>1 DEF PromoInv, Highest, Promo!live
<1>9. \A k \in DiscountCodes : promo_highest[k].usage_limit <= promo_highest'[k].usage_limit
                              /\ promo_highest[k].per_person_limit
                                   <= promo_highest'[k].per_person_limit
  BY <1>1 DEF PromoInv, CodeTables, Limits
<1>10. \A q \in DiscountPayments :
         /\ promo_payments'[q].status # "none" => promo_payments[q].status # "none"
         /\ promo_payments'[q].status \in {"pending", "success"} =>
              promo_payments[q].status \in {"pending", "success"}
  BY <1>1, <1>4, <1>5
<1>11. WithOpenOnes'
  BY <1>1, <1>4, <1>6, <1>9, <1>10, NoneMore
<1> QED BY <1>6, <1>7, <1>8, <1>11 DEF PromoInv

\* A payment fails, or is settled without a row of the ledger: no use is counted for it.
LEMMA Uncounted ==
    ASSUME Forms, PromoInv, NEW p \in DiscountPayments,
           \/ Promo!payment_fails(p) \/ Promo!_handle_charge_success(p)
           \/ Promo!issue_ticket_for_untracked_payment(p)
    PROVE  PromoInv'
<1>1. PICK outcome \in {"failed", "success"} :
        /\ promo_payments[p].status \in {"pending", "failed"}
        /\ promo_payments' = [promo_payments EXCEPT ![p].status = outcome]
        /\ IF outcome = "success" THEN promo_unrecorded' = promo_unrecorded \cup {p}
                                 ELSE promo_unrecorded' = promo_unrecorded
        /\ UNCHANGED <<promo_codes, promo_saving, promo_redemptions, promo_highest,
                       promo_crowded>>
  <2>1. CASE Promo!payment_fails(p)
    BY <2>1 DEF Promo!payment_fails
  <2>2. CASE Promo!settle_unrecorded(p)
    BY <2>2 DEF Promo!settle_unrecorded
  <2> QED BY <2>1, <2>2 DEF Promo!_handle_charge_success,
             Promo!issue_ticket_for_untracked_payment
<1>2. promo_payments \in [DiscountPayments -> PaymentRows]
      /\ promo_payments[p] # Promo!NoPayment
  BY <1>1 DEF PromoInv, CodeTables, Promo!NoPayment
<1>3. promo_payments' \in [DiscountPayments -> PaymentRows]
  BY <1>1, <1>2 DEF PaymentRows
<1>4. \A q \in DiscountPayments :
        /\ q # p => promo_payments'[q] = promo_payments[q]
        /\ promo_payments'[q].code = promo_payments[q].code
        /\ promo_payments'[q].email = promo_payments[q].email
  BY <1>1, <1>2 DEF PaymentRows
<1>5. promo_payments'[p].status = outcome
  BY <1>1, <1>2 DEF PaymentRows
<1>6. CodeTables'
  BY <1>1, <1>3 DEF PromoInv, CodeTables
<1>7. Ledger'
  <2>1. \A r \in promo_redemptions : r.payment # p
    BY <1>1 DEF PromoInv, Ledger
  <2>2. \A q \in DiscountPayments : Entry(q)' = Entry(q)
    BY <1>4 DEF Entry
  <2>3. ASSUME NEW r \in promo_redemptions
        PROVE  /\ r.payment \in DiscountPayments /\ r = Entry(r.payment)
               /\ promo_payments'[r.payment].status = "success"
               /\ r.payment \notin promo_unrecorded'
    BY <1>1, <1>4, <2>1 DEF PromoInv, Ledger
  <2>4. ASSUME NEW q \in DiscountPayments, promo_payments'[q].status = "success",
               q \notin promo_unrecorded', Promo!live(promo_payments[q].code)
        PROVE  Entry(q) \in promo_redemptions
    BY <1>1, <1>4, <1>5, <2>4 DEF PromoInv, Ledger
  <2>5. \A q \in DiscountPayments : promo_payments'[q].status # "none" =>
          promo_codes'[promo_payments'[q].code].state # "none"
    BY <1>1, <1>4 DEF PromoInv, Ledger
  <2>6. promo_unrecorded' \subseteq DiscountPayments
        /\ \A q \in promo_unrecorded' : promo_payments'[q].status = "success"
    BY <1>1, <1>4, <1>5 DEF PromoInv, Ledger
  <2> QED BY <1>1, <1>4, <2>2, <2>3, <2>4, <2>5, <2>6 DEF Ledger, Promo!live
<1>8. Highest'
  BY <1>1 DEF PromoInv, Highest, Promo!live
<1>9. \A k \in DiscountCodes : promo_highest[k].usage_limit <= promo_highest'[k].usage_limit
                              /\ promo_highest[k].per_person_limit
                                   <= promo_highest'[k].per_person_limit
  BY <1>1 DEF PromoInv, CodeTables, Limits
<1>10. \A q \in DiscountPayments :
         /\ promo_payments'[q].status # "none" => promo_payments[q].status # "none"
         /\ promo_payments'[q].status \in {"pending", "success"} =>
              promo_payments[q].status \in {"pending", "success"}
                \/ q \in promo_unrecorded'
         /\ q \in promo_unrecorded => q \in promo_unrecorded'
  BY <1>1, <1>4, <1>5
<1>11. WithOpenOnes'
  BY <1>1, <1>4, <1>6, <1>9, <1>10, NoneMore
<1> QED BY <1>6, <1>7, <1>8, <1>11 DEF PromoInv

\* The count of a code's redemptions, for everyone and for one person.
LEMMA CountedRows ==
    ASSUME PromoInv, NEW c \in DiscountCodes
    PROVE  /\ Promo!of_code(c) = Redeemed(c, Emails)
           /\ \A b \in DiscountBuyers : {r \in Promo!of_code(c) : r.email[1] = b} =
                Redeemed(c, {b} \X Promo!Spellings)
<1>1. \A r \in Promo!of_code(c) : r.email \in Emails
  <2> SUFFICES ASSUME NEW r \in Promo!of_code(c) PROVE r.email \in Emails
    OBVIOUS
  <2>1. r.payment \in DiscountPayments /\ r.email = promo_payments[r.payment].email
        /\ promo_payments[r.payment].status = "success"
    BY DEF PromoInv, Ledger, Entry, Promo!of_code
  <2>2. promo_payments[r.payment] \in PaymentRows
    BY <2>1 DEF PromoInv, CodeTables
  <2> QED BY <2>1, <2>2 DEF PaymentRows, Promo!NoPayment
<1>2. \A b \in DiscountBuyers, e \in Emails : e[1] = b <=> e \in {b} \X Promo!Spellings
  BY DEF Emails
<1> QED BY <1>1, <1>2 DEF Redeemed

\* A payment starts: if no other of its code, or of its code and address, is
\* open, the uses with it are one more than the redemptions.
LEMMA Started ==
    ASSUME Forms, PromoInv, NEW p \in DiscountPayments, NEW a \in DiscountActivities,
           NEW email \in Emails,
           NEW c \in DiscountCodes, NEW channel \in Promo!Channels,
           Promo!initiate_payment(p, channel, a, email, c)
    PROVE  PromoInv'
<1> DEFINE new == [status |-> "pending", channel |-> channel, code |-> c, activity |-> a,
                   email |-> email]
           b == email[1]
<1>1. /\ promo_payments[p] = Promo!NoPayment
      /\ promo_payments' = [promo_payments EXCEPT ![p] = new]
      /\ UNCHANGED <<promo_codes, promo_saving, promo_redemptions, promo_unrecorded,
                     promo_highest>>
  BY DEF Promo!initiate_payment
<1>2. promo_payments \in [DiscountPayments -> PaymentRows] /\ new \in PaymentRows
  BY DEF PromoInv, CodeTables, PaymentRows
<1>3. CodeTables'
  BY <1>1, <1>2 DEF PromoInv, CodeTables
<1>4. (\A r \in promo_redemptions : r.payment # p) /\ p \notin promo_unrecorded
  BY <1>1 DEF PromoInv, Ledger, Promo!NoPayment
<1>5. Ledger'
  <2>1. promo_codes[c].state = "live"
    BY DEF Promo!initiate_payment, Promo!resolve_for_checkout, Promo!live
  <2> QED BY <1>1, <1>2, <1>4, <2>1 DEF PromoInv, Ledger, Entry, Promo!live
<1>6. Highest'
  BY <1>1 DEF PromoInv, Highest, Promo!live
<1>7. ASSUME NEW k, NEW E
      PROVE  UsedBy(k, E)' = IF k = c /\ email \in E THEN UsedBy(k, E) \cup {p}
                                                    ELSE UsedBy(k, E)
  <2>1. \A q \in DiscountPayments : q # p => promo_payments'[q] = promo_payments[q]
    BY <1>1, <1>2
  <2>2. promo_payments'[p] = new /\ promo_payments[p].status = "none"
    BY <1>1, <1>2 DEF Promo!NoPayment
  <2>3. p \notin UsedBy(k, E)
    BY <2>2 DEF UsedBy
  <2>4. \A q : q \in UsedBy(k, E)' <=>
                 \/ q \in UsedBy(k, E)
                 \/ q = p /\ k = c /\ email \in E
    BY <2>1, <2>2, <1>1, <1>4 DEF UsedBy
  <2> QED BY <2>4
<1>live. Promo!live(c) /\ Promo!resolve_for_checkout(c, a, email)
  BY DEF Promo!initiate_payment, Promo!resolve_for_checkout
<1>8. ASSUME NEW E, email \in E,
             \A q \in Promo!open_payments(c) : promo_payments[q].email \notin E
      PROVE  /\ Cardinality(UsedBy(c, E)') <= Cardinality(Redeemed(c, E)) + 1
             /\ Cardinality(Redeemed(c, E)) \in Nat
  <2>1. Cardinality(Redeemed(c, E)) = Cardinality(UsedBy(c, E))
        /\ Cardinality(Redeemed(c, E)) \in Nat
    BY <1>8, <1>live, LedgerCounts DEF PromoInv
  <2>2. UsedBy(c, E)' = UsedBy(c, E) \cup {p} /\ IsFiniteSet(UsedBy(c, E))
    BY <1>7, <1>8, FewUses
  <2> HIDE DEF UsedBy
  <2>3. Cardinality(UsedBy(c, E) \cup {p})
          = IF p \in UsedBy(c, E) THEN Cardinality(UsedBy(c, E)) ELSE
            Cardinality(UsedBy(c, E)) + 1
    BY <2>2, FS_AddElement
  <2>4. Cardinality(UsedBy(c, E)') <= Cardinality(UsedBy(c, E)) + 1
    BY <2>1, <2>2, <2>3
  <2> QED BY <2>1, <2>4
<1>9. ASSUME NEW E PROVE Cardinality(UsedBy(c, E)') <= Cardinality(DiscountPayments)
                         /\ Cardinality(UsedBy(c, E)') \in Nat
  <2>1. UsedBy(c, E)' \in SUBSET DiscountPayments
    BY DEF UsedBy
  <2> HIDE DEF UsedBy
  <2> QED BY <2>1, FS_Subset, FS_CardinalityType DEF Forms
<1>11. /\ Promo!limit_of(promo_codes[c].row.usage_limit) <= promo_highest[c].usage_limit
       /\ promo_codes[c].row.per_person_limit <= promo_highest[c].per_person_limit
       /\ promo_highest[c].usage_limit \in Nat /\ promo_highest[c].per_person_limit \in Nat
       /\ promo_codes[c].row.usage_limit \in Nat
       /\ promo_codes[c].row.per_person_limit \in Nat
       /\ Cardinality(DiscountPayments) \in Nat
  <2>1. promo_codes[c].row \in [Promo!Columns -> Nat]
    BY <1>live DEF PromoInv, CodeTables, CodeRows, Promo!live, Promo!NoCode
  <2>2. promo_highest[c] \in Limits
    BY DEF PromoInv, CodeTables
  <2> QED BY <1>live, <2>1, <2>2, FS_CardinalityType DEF PromoInv, Highest, Promo!Columns,
             Limits, Forms
<1>12. /\ c \notin promo_crowded' => Promo!open_payments(c) = {}
       /\ <<c, b>> \notin promo_crowded'
            => \A q \in Promo!open_payments(c) : promo_payments[q].email[1] # b
       /\ promo_crowded \subseteq promo_crowded'
  BY DEF Promo!initiate_payment
<1>13. ASSUME c \notin promo_crowded'
       PROVE  Cardinality(UsedBy(c, Emails)') <= promo_highest'[c].usage_limit
  <2>1. CASE promo_codes[c].row.usage_limit = Promo!NULL
    <3>1. Cardinality(DiscountPayments) <= promo_highest[c].usage_limit
      BY <2>1, <1>11, SameCount DEF Promo!limit_of, Promo!Unlimited
    <3> QED BY <3>1, <1>1, <1>9, <1>11
  <2>2. CASE promo_codes[c].row.usage_limit # Promo!NULL
    <3>1. Cardinality(Redeemed(c, Emails)) < promo_codes[c].row.usage_limit
      BY <2>2, <1>live, CountedRows, SameCount DEF Promo!resolve_for_checkout
    <3>2. promo_codes[c].row.usage_limit <= promo_highest[c].usage_limit
      BY <2>2, <1>11 DEF Promo!limit_of
    <3>3. Cardinality(UsedBy(c, Emails)') <= Cardinality(Redeemed(c, Emails)) + 1
          /\ Cardinality(Redeemed(c, Emails)) \in Nat
      BY <1>8, <1>12, <1>13
    <3> QED BY <3>1, <3>2, <3>3, <1>1, <1>9, <1>11
  <2> QED BY <2>1, <2>2
<1>14. ASSUME <<c, b>> \notin promo_crowded'
       PROVE  Cardinality(UsedBy(c,
              {b} \X Promo!Spellings)') <= promo_highest'[c].per_person_limit
  <2>1. b \in DiscountBuyers /\ email \in {b} \X Promo!Spellings
    BY DEF Emails
  <2>2. Cardinality(Redeemed(c,
    {b} \X Promo!Spellings)) < promo_codes[c].row.per_person_limit
    BY <2>1, <1>live, CountedRows, SameCount DEF Promo!resolve_for_checkout,
       Promo!count_redemptions_by_email, Promo!same_person
  <2>3. \A q \in Promo!open_payments(c) :
    promo_payments[q].email \notin {b} \X Promo!Spellings
    BY <1>12, <1>14
  <2>4. Cardinality(UsedBy(c, {b} \X Promo!Spellings)') <= Cardinality(Redeemed(c,
    {b} \X Promo!Spellings)) + 1
        /\ Cardinality(Redeemed(c, {b} \X Promo!Spellings)) \in Nat
    BY <2>1, <2>3, <1>8
  <2> QED BY <2>2, <2>4, <1>1, <1>9, <1>11
<1>15. WithOpenOnes'
  <2> SUFFICES ASSUME NEW k \in DiscountCodes
               PROVE  /\ k \notin promo_crowded' =>
                           Cardinality(UsedBy(k, Emails)') <= promo_highest'[k].usage_limit
                      /\ \A x \in DiscountBuyers : <<k, x>> \notin promo_crowded' =>
                           Cardinality(UsedBy(k, {x} \X Promo!Spellings)')
                             <= promo_highest'[k].per_person_limit
    BY DEF WithOpenOnes, Emails
  <2>1. ASSUME NEW x \in DiscountBuyers, k # c \/ x # b
        PROVE  UsedBy(k, {x} \X Promo!Spellings)' = UsedBy(k, {x} \X Promo!Spellings)
    BY <1>7, <2>1 DEF Emails
  <2>2. k # c => UsedBy(k, Emails)' = UsedBy(k, Emails)
    BY <1>7
  <2>3. k \notin promo_crowded' => Cardinality(UsedBy(k,
    Emails)') <= promo_highest'[k].usage_limit
    BY <2>2, <1>1, <1>12, <1>13 DEF PromoInv, WithOpenOnes
  <2>4. ASSUME NEW x \in DiscountBuyers, <<k, x>> \notin promo_crowded'
        PROVE  Cardinality(UsedBy(k,
               {x} \X Promo!Spellings)') <= promo_highest'[k].per_person_limit
    <3>1. CASE k = c /\ x = b
      BY <3>1, <2>4, <1>14
    <3>2. CASE k # c \/ x # b
      BY <3>2, <2>1, <2>4, <1>1, <1>12 DEF PromoInv, WithOpenOnes
    <3> QED BY <3>1, <3>2
  <2> QED BY <2>3, <2>4
<1> QED BY <1>3, <1>5, <1>6, <1>15 DEF PromoInv

\* Publishing, deleting an activity, the next day, and stuttering.
LEMMA Otherwise ==
    ASSUME Forms, PromoInv,
           \/ \E a \in DiscountActivities : Promo!publish(a) \/ Promo!delete_activity(a)
           \/ Promo!next_day
           \/ UNCHANGED Promo!promoVars
    PROVE  PromoInv'
<1>1. UNCHANGED <<promo_codes, promo_payments, promo_redemptions, promo_unrecorded,
                  promo_highest, promo_crowded, promo_saving>>
  BY DEF Promo!publish, Promo!delete_activity, Promo!next_day, Promo!promoVars, Promo!buying
<1>2. promo_saving' = [s \in DiscountSavers |-> promo_saving'[s]]
  BY <1>1 DEF PromoInv, CodeTables
<1> QED BY <1>1, <1>2, SameTables

\* Every step keeps the invariant.
LEMMA PromoInvStep == ASSUME Forms, PromoInv, [Promo!Next]_(Promo!promoVars) PROVE PromoInv'
<1>1. ASSUME NEW p \in DiscountPayments, NEW a \in DiscountActivities,
             NEW e \in DiscountBuyers \X Promo!Spellings,
             NEW c \in DiscountCodes, NEW channel \in Promo!Channels,
             Promo!initiate_payment(p, channel, a, e, c)
      PROVE  PromoInv'
  BY <1>1, Started DEF Emails
<1> QED BY <1>1, Preparing, Saves, Deleted, Arrived, Uncounted, Otherwise DEF Promo!Next

\* The paid uses are at most the counted ones and those without a row.
LEMMA PaidUses ==
    ASSUME Forms, PromoInv, NEW c, NEW E, NEW P \in SUBSET DiscountPayments,
           \A p \in P : promo_payments[p].status = "success" /\ promo_payments[p].code = c
                        /\ promo_payments[p].email \in E,
           NEW limit \in Nat, Cardinality(UsedBy(c, E)) <= limit
    PROVE  Cardinality(P) <= limit + Cardinality(P \cap promo_unrecorded)
<1> DEFINE A == P \ promo_unrecorded
           B == P \cap promo_unrecorded
<1>1. A \in SUBSET UsedBy(c, E)
  BY DEF UsedBy
<1>2. IsFiniteSet(UsedBy(c, E)) /\ Cardinality(UsedBy(c, E)) \in Nat
  BY FewUses
<1>3. IsFiniteSet(P)
  BY FS_Subset DEF Forms
<1>4. P = A \cup B /\ A \cap B = {} /\ B \in SUBSET P
  OBVIOUS
<1> HIDE DEF A, B, UsedBy
<1>5. IsFiniteSet(A) /\ Cardinality(A) <= Cardinality(UsedBy(c, E)) /\ IsFiniteSet(B)
  BY <1>1, <1>2, <1>3, <1>4, FS_Subset
<1>6. Cardinality(A) \in Nat /\ Cardinality(B) \in Nat
  BY <1>5, FS_CardinalityType
<1>7. Cardinality({}) = 0
  BY FS_EmptySet
<1>8. Cardinality(P) = Cardinality(A) + Cardinality(B) - Cardinality({})
  BY <1>4, <1>5, FS_Union
<1>9. Cardinality(P) <= limit + Cardinality(B)
  BY <1>2, <1>5, <1>6, <1>7, <1>8
<1> QED BY <1>9 DEF B

(* The paid uses of a promo code none of whose payments were pending       *)
(* together stay within its usage limit, and those of a person within the  *)
(* limit per person, but for those settled without a row of the ledger     *)
(* (resolve_for_checkout of promo_code_service.py, _handle_charge_success  *)
(* of payments.py), for any number of codes, buyers and payments, whatever *)
(* organizers save meanwhile: the pending payments are counted with the    *)
(* recorded ones, and a payment that starts alone finds no pending one.    *)
THEOREM LimitsHold == Promo!Spec => []LimitsHoldInTurn
<1>0. Forms
  BY BallotsAssumption DEF Forms
<1>1. ASSUME PromoInv PROVE LimitsHoldInTurn
  <2> SUFFICES ASSUME NEW c \in DiscountCodes
               PROVE  /\ c \notin promo_crowded =>
                           Cardinality(Promo!paid(c)) <= promo_highest[c].usage_limit
                             + Cardinality(Promo!paid(c) \cap promo_unrecorded)
                      /\ \A b \in DiscountBuyers : <<c, b>> \notin promo_crowded =>
                           Cardinality(Promo!paid_by(c, b))
                             <= promo_highest[c].per_person_limit
                                + Cardinality(Promo!paid_by(c, b) \cap promo_unrecorded)
    BY SameCount DEF LimitsHoldInTurn, Promo!LimitsHoldInTurn
  <2>1. \A p \in Promo!paid(c) :
          p \in DiscountPayments /\ promo_payments[p].status = "success"
          /\ promo_payments[p].code = c /\ promo_payments[p].email \in Emails
    BY <1>1 DEF Promo!paid, PromoInv, CodeTables, PaymentRows, Promo!NoPayment
  <2>2. promo_highest[c].usage_limit \in Nat /\ promo_highest[c].per_person_limit \in Nat
    BY <1>1 DEF PromoInv, CodeTables, Limits
  <2>3. ASSUME c \notin promo_crowded
        PROVE  Cardinality(Promo!paid(c)) <= promo_highest[c].usage_limit
                 + Cardinality(Promo!paid(c) \cap promo_unrecorded)
    <3>1. Cardinality(UsedBy(c, Emails)) <= promo_highest[c].usage_limit
      BY <1>1, <2>3 DEF PromoInv, WithOpenOnes
    <3>2. Promo!paid(c) \in SUBSET DiscountPayments
      BY <2>1
    <3> HIDE DEF UsedBy
    <3> QED BY <1>0, <1>1, <2>1, <2>2, <3>1, <3>2, PaidUses
  <2>4. ASSUME NEW b \in DiscountBuyers, <<c, b>> \notin promo_crowded
        PROVE  Cardinality(Promo!paid_by(c, b)) <= promo_highest[c].per_person_limit
                 + Cardinality(Promo!paid_by(c, b) \cap promo_unrecorded)
    <3>1. Cardinality(UsedBy(c, {b} \X Promo!Spellings))
            <= promo_highest[c].per_person_limit
      BY <1>1, <2>4 DEF PromoInv, WithOpenOnes
    <3>2. \A p \in Promo!paid_by(c, b) :
            p \in Promo!paid(c) /\ promo_payments[p].email \in {b} \X Promo!Spellings
      BY <2>1 DEF Promo!paid_by, Emails
    <3>3. Promo!paid_by(c, b) \in SUBSET DiscountPayments
      BY <2>1, <3>2
    <3> HIDE DEF UsedBy
    <3> QED BY <1>0, <1>1, <2>1, <2>2, <3>1, <3>2, <3>3, PaidUses
  <2> QED BY <2>3, <2>4
<1>2. Promo!Init => PromoInv
  BY <1>0, InitPromoInv
<1>3. PromoInv /\ [Promo!Next]_(Promo!promoVars) => PromoInv'
  BY <1>0, PromoInvStep
<1>4. PromoInv => LimitsHoldInTurn
  BY <1>1
<1> QED BY <1>2, <1>3, <1>4, PTL DEF Promo!Spec

-----------------------------------------------------------------------------
(* The tally: adding up votes, what is shown of them, and the streams. *)

\* Induction up to a bound: a set with 0 that goes on to the next has all.
LEMMA UpTo ==
    ASSUME NEW M \in Nat, NEW S, 0 \in S, \A m \in 0..M : m \in S /\ m < M => m + 1 \in S
    PROVE  \A m \in 0..M : m \in S
<1> DEFINE Before == {mn \in Nat \X Nat : mn[1] < mn[2]}
           Rest == {m \in 0..M : m \notin S}
<1>1. IsWellFoundedOn(Before, Nat)
  BY NatLessThanWellFounded DEF OpToRel
<1>2. SUFFICES ASSUME Rest # {} PROVE FALSE
  OBVIOUS
<1>3. Rest \subseteq Nat
  OBVIOUS
<1>4. PICK n \in Rest : \A m \in Rest : ~(<<m, n>> \in Before)
  <2> HIDE DEF Rest, Before
  <2> QED BY <1>1, <1>2, <1>3, WFMin
<1>5. n \in 0..M /\ n \notin S /\ n # 0
  BY <1>4
<1>6. n - 1 \in 0..M /\ n - 1 < n /\ n - 1 < M
      /\ (n - 1) + 1 = n /\ n \in Nat /\ n - 1 \in Nat
  BY <1>5
<1>7. n - 1 \notin Rest
  <2>1. <<n - 1, n>> \in Before
    BY <1>6
  <2> HIDE DEF Rest, Before
  <2> QED BY <1>4, <2>1
<1> QED BY <1>5, <1>6, <1>7

\* One of a finite set less, and it has one less.
LEMMA OneLess ==
    ASSUME NEW V, IsFiniteSet(V), NEW s \in SUBSET V, NEW x \in s
    PROVE  /\ x \in V /\ s \ {x} \in SUBSET V
           /\ Cardinality(s) \in Nat \ {0}
           /\ Cardinality(s \ {x}) = Cardinality(s) - 1
<1>1. IsFiniteSet(s)
  BY FS_Subset
<1>2. Cardinality(s) \in Nat /\ Cardinality(s) # 0
  BY <1>1, FS_CardinalityType, FS_EmptySet
<1>3. Cardinality(s \ {x}) = Cardinality(s) - 1
  BY <1>1, FS_RemoveElement
<1> QED BY <1>2, <1>3

\* u adds up f over every subset of V, from the first of it on.
Firsts(first, V) == \A s \in SUBSET V : s # {} => first[s] \in s
AddsUp(u, V, f, first) ==
    \A s \in SUBSET V : u[s] = IF s = {} THEN 0 ELSE f[first[s]] + u[s \ {first[s]}]

\* What each of a finite set has can be added up, one after the other.
LEMMA SetTotals ==
    ASSUME NEW V, IsFiniteSet(V), NEW f \in [V -> Nat],
           NEW first, Firsts(first, V)
    PROVE  \E u \in [SUBSET V -> Nat] : AddsUp(u, V, f, first)
<1> DEFINE Adds(u, s) == u[s] = IF s = {} THEN 0 ELSE f[first[s]] + u[s \ {first[s]}]
           Totals(m, u) == /\ u \in [SUBSET V -> Nat]
                           /\ \A s \in SUBSET V : Cardinality(s) <= m => Adds(u, s)
           M == Cardinality(V)
           Have == {m \in 0..M : \E u : Totals(m, u)}
<1>1. M \in Nat /\ \A s \in SUBSET V : IsFiniteSet(s) /\ Cardinality(s) \in 0..M
  BY FS_Subset, FS_CardinalityType
<1>2. \A s \in SUBSET V : s # {} =>
        /\ s \ {first[s]} \in SUBSET V /\ f[first[s]] \in Nat
        /\ Cardinality(s \ {first[s]}) = Cardinality(s) - 1
  BY OneLess DEF Firsts
<1> HIDE DEF M
<1>3. 0 \in Have
  <2>1. \A s \in SUBSET V : Cardinality(s) <= 0 => s = {}
    BY <1>1, FS_EmptySet
  <2>2. Totals(0, [s \in SUBSET V |-> 0])
    BY <2>1
  <2>3. 0 \in 0..M
    BY <1>1
  <2> HIDE DEF Totals
  <2> QED BY <2>2, <2>3
<1>4. ASSUME NEW m \in 0..M, m \in Have, m < M PROVE m + 1 \in Have
  <2>1. PICK u : Totals(m, u)
    BY <1>4
  <2>2. \A s \in SUBSET V : Cardinality(s) = m + 1 => s # {}
    BY <1>1, FS_EmptySet
  <2>3. PICK v : v = [s \in SUBSET V |-> IF Cardinality(s) = m + 1
                                         THEN f[first[s]] + u[s \ {first[s]}] ELSE u[s]]
    OBVIOUS
  <2>4. v \in [SUBSET V -> Nat]
    BY <1>2, <2>1, <2>2, <2>3
  <2>5. \A s \in SUBSET V : Cardinality(s) <= m => v[s] = u[s]
    BY <1>1, <2>3
  <2>6. \A s \in SUBSET V : Cardinality(s) <= m + 1 => Adds(v, s)
    <3> SUFFICES ASSUME NEW s \in SUBSET V, Cardinality(s) <= m + 1 PROVE Adds(v, s)
      OBVIOUS
    <3>1. s # {} => v[s \ {first[s]}] = u[s \ {first[s]}]
      BY <1>1, <1>2, <2>5
    <3>2. CASE Cardinality(s) = m + 1
      BY <2>2, <2>3, <3>1, <3>2
    <3>3. CASE Cardinality(s) # m + 1
      <4>1. Cardinality(s) <= m
        BY <1>1, <3>3
      <4>2. Adds(u, s)
        BY <2>1, <4>1
      <4>3. v[s] = u[s]
        BY <2>5, <4>1
      <4> QED BY <3>1, <4>2, <4>3
    <3> QED BY <3>2, <3>3
  <2>7. m + 1 \in 0..M
    BY <1>1, <1>4
  <2>8. Totals(m + 1, v)
    <3> HIDE DEF Adds
    <3> QED BY <2>4, <2>6
  <2> HIDE DEF Totals
  <2> QED BY <2>7, <2>8
<1>5. M \in Have
  <2>1. \A m \in 0..M : m \in Have
    <3> HIDE DEF Have
    <3> QED BY <1>1, <1>3, <1>4, UpTo
  <2>2. M \in 0..M
    BY <1>1
  <2> HIDE DEF Have
  <2> QED BY <2>1, <2>2
<1>6. PICK u : Totals(M, u)
  BY <1>5
<1>7. \A s \in SUBSET V : Adds(u, s)
  <2> HIDE DEF Adds
  <2> QED BY <1>1, <1>6
<1> QED BY <1>6, <1>7 DEF AddsUp

\* What comes of adding numbers is a number.
LEMMA TotalIsANumber ==
    ASSUME NEW V, IsFiniteSet(V), NEW f \in [V -> Nat],
           NEW first, Firsts(first, V), NEW u, AddsUp(u, V, f, first)
    PROVE  u[V] \in Nat
<1> DEFINE M == Cardinality(V)
           Good == {m \in 0..M : \A s \in SUBSET V : Cardinality(s) <= m => u[s] \in Nat}
<1>1. M \in Nat /\ \A s \in SUBSET V : IsFiniteSet(s) /\ Cardinality(s) \in 0..M
  BY FS_Subset, FS_CardinalityType
<1> HIDE DEF M
<1>2. 0 \in Good
  <2>1. \A s \in SUBSET V : Cardinality(s) <= 0 => s = {}
    BY <1>1, FS_EmptySet
  <2> QED BY <1>1, <2>1 DEF AddsUp
<1>3. ASSUME NEW m \in 0..M, m \in Good, m < M PROVE m + 1 \in Good
  <2>1. ASSUME NEW s \in SUBSET V, Cardinality(s) <= m + 1 PROVE u[s] \in Nat
    <3>1. CASE s = {}
      <4>1. u[s] = 0
        BY <3>1 DEF AddsUp
      <4> QED BY <4>1
    <3>2. CASE s # {}
      <4>1. /\ s \ {first[s]} \in SUBSET V /\ f[first[s]] \in Nat
            /\ Cardinality(s \ {first[s]}) = Cardinality(s) - 1
        BY <3>2, OneLess DEF Firsts
      <4>2. Cardinality(s \ {first[s]}) <= m
        BY <1>1, <2>1, <4>1
      <4>3. u[s \ {first[s]}] \in Nat
        BY <1>3, <4>1, <4>2
      <4>4. u[s] = f[first[s]] + u[s \ {first[s]}]
        BY <3>2 DEF AddsUp
      <4> QED BY <4>1, <4>3, <4>4
    <3> QED BY <3>1, <3>2
  <2> QED BY <1>1, <1>3, <2>1
<1>4. \A m \in 0..M : m \in Good
  <2> HIDE DEF Good
  <2> QED BY <1>1, <1>2, <1>3, UpTo
<1>5. M \in 0..M /\ Cardinality(V) <= M /\ V \in SUBSET V
  BY <1>1 DEF M
<1> QED BY <1>4, <1>5

\* A tally is a number.
LEMMA TallyIsANumber ==
    ASSUME NEW V, IsFiniteSet(V), \A v \in V : tally_vote[v].count \in Nat
    PROVE  Tally!weight(V) \in Nat
<1> DEFINE step(g) == [s \in SUBSET V |->
             IF s = {} THEN 0 ELSE tally_vote[CHOOSE x \in s : TRUE].count
                                           + g[s \ {CHOOSE x \in s : TRUE}]]
<1>1. PICK f : f = [v \in V |-> tally_vote[v].count]
  OBVIOUS
<1>2. PICK first : first = [s \in SUBSET V |-> CHOOSE x \in s : TRUE]
  OBVIOUS
<1>3. PICK sum : sum = CHOOSE g : g = step(g)
  OBVIOUS
<1>4. f \in [V -> Nat] /\ Firsts(first, V)
  BY <1>1, <1>2 DEF Firsts
<1>5. PICK u \in [SUBSET V -> Nat] : AddsUp(u, V, f, first)
  BY <1>4, SetTotals
<1>6. ASSUME NEW g, NEW s \in SUBSET V
      PROVE  step(g)[s] = IF s = {} THEN 0 ELSE f[first[s]] + g[s \ {first[s]}]
  <2>1. CASE s = {}
    BY <2>1
  <2>2. CASE s # {}
    <3>1. first[s] = CHOOSE x \in s : TRUE
      BY <1>2
    <3>2. f[first[s]] = tally_vote[first[s]].count
      BY <1>1, <1>4, <2>2 DEF Firsts
    <3> QED BY <2>2, <3>1, <3>2
  <2> QED BY <2>1, <2>2
<1>7. u = step(u)
  <2>1. u = [s \in SUBSET V |-> u[s]]
    BY <1>5
  <2>2. \A s \in SUBSET V : step(u)[s] = u[s]
    <3> HIDE DEF step
    <3> QED BY <1>5, <1>6 DEF AddsUp
  <2> QED BY <2>1, <2>2
<1>8. sum = step(sum)
  <2> HIDE DEF step
  <2> QED BY <1>3, <1>7
<1>9. Tally!weight(V) = sum[V]
  BY <1>3, Zenon DEF Tally!weight, Tally!MapThenSumSet, Tally!MapThenFoldSet
<1>10. AddsUp(sum, V, f, first)
  <2> HIDE DEF step
  <2> QED BY <1>6, <1>8 DEF AddsUp
<1>11. sum[V] \in Nat
  <2> HIDE DEF step
  <2> QED BY <1>4, <1>10, TotalIsANumber
<1> QED BY <1>9, <1>11

\* A committed vote has a count, and candidates are of the ballot.
TallyRow == [state : {"inserted", "announced", "committed"}, category : TalliedCategories,
        choice : SUBSET Tally!Contenders, count : TalliedWeights]
TallyInv ==
    /\ tally_vote \in [TalliedVotes -> {Tally!NoVote} \cup TallyRow]
    /\ tally_ballot \subseteq Tally!Contenders

\* Candidates can be counted, and the ballot numbers them.
LEMMA TalliedIsFinite ==
    IsFiniteSet(Tally!Contenders) /\ \A c \in Tally!Contenders : c[2] \in Nat
BY BallotsAssumption, FS_Product DEF Tally!Contenders

\* The tally counts as these proofs do.
LEMMA SameTally == ASSUME NEW S PROVE Tally!Cardinality(S) = Cardinality(S)
  BY DEF Cardinality, Tally!Cardinality

\* What a candidate is counted is a number.
LEMMA VotesAreNumbers == ASSUME TallyInv, NEW c
PROVE Tally!votes_for(Tally!get_votes, c) \in Nat
<1>1. PICK V : V = {v \in Tally!get_votes : c \in tally_vote[v].choice}
  OBVIOUS
<1>2. V \subseteq TalliedVotes /\ \A v \in V : tally_vote[v].state = "committed"
  BY <1>1 DEF Tally!get_votes
<1>3. \A v \in V : tally_vote[v].count \in Nat
  <2> SUFFICES ASSUME NEW v \in V PROVE tally_vote[v].count \in Nat
    OBVIOUS
  <2>1. tally_vote[v] \in {Tally!NoVote} \cup TallyRow /\ tally_vote[v].state = "committed"
    BY <1>2 DEF TallyInv
  <2>2. tally_vote[v] \in TallyRow
    BY <2>1 DEF Tally!NoVote
  <2> QED BY <2>2, BallotsAssumption DEF TallyRow
<1>4. IsFiniteSet(V)
  BY <1>2, BallotsAssumption, FS_Subset
<1>5. Tally!weight(V) \in Nat
  BY <1>3, <1>4, TallyIsANumber
<1> QED BY <1>1, <1>5 DEF Tally!votes_for

\* Whoever has more votes is ahead, and whoever is ahead has more or as many:
\* so the ranks of a list are those of the page but for candidates level.
LEMMA TalliesAgree == TallyInv => Tally!StandingsAgree
<1> SUFFICES ASSUME TallyInv, NEW c \in tally_ballot
             PROVE  LET own == Tally!_get_candidate_standing(Tally!get_votes, c)
                        row == Tally!tally_votes_by_category(Tally!get_votes)[c[1]].results[c]
                        level == {d \in Tally!candidates_of(c[1]) :
                                    Tally!votes_for(Tally!get_votes, d) = own.vote_count}
                    IN  /\ own.vote_count = row.vote_count
                        /\ row.rank \in own.rank..(own.rank + Tally!Cardinality(level) - 1)
                        /\ own.rank <= Tally!flat_ranks(Tally!get_votes)[c]
                        /\ c[1] \in DOMAIN Tally!_handle_results(Tally!get_votes) =>
                             Tally!_handle_results(Tally!get_votes)[c[1]][c] =
                               own.vote_count
  BY DEF Tally!StandingsAgree
<1>1. PICK n : n = [d \in Tally!Contenders |-> Tally!votes_for(Tally!get_votes, d)]
  OBVIOUS
<1>2. PICK own : own = Tally!_get_candidate_standing(Tally!get_votes, c)
  OBVIOUS
<1>3. PICK row : row = Tally!tally_votes_by_category(Tally!get_votes)[c[1]].results[c]
  OBVIOUS
<1>4. PICK mates : mates = Tally!candidates_of(c[1])
  OBVIOUS
<1>5. PICK more : more = {d \in mates : n[d] > n[c]}
  OBVIOUS
<1>6. PICK ahead : ahead = {d \in mates : n[d] > n[c] \/ (n[d] = n[c] /\ d[2] < c[2])}
  OBVIOUS
<1>7. PICK level : level = {d \in mates : n[d] = n[c]}
  OBVIOUS
<1>8. PICK all : all = {d \in tally_ballot : n[d] > n[c]}
  OBVIOUS
<1>9. /\ tally_ballot \subseteq Tally!Contenders /\ mates \subseteq tally_ballot
      /\ c \in mates /\ c \in Tally!Contenders /\ c[1] \in TalliedCategories
  BY <1>4 DEF TallyInv, Tally!candidates_of, Tally!Contenders
<1>10. \A d \in Tally!Contenders : n[d] = Tally!votes_for(Tally!get_votes, d)
                                    /\ n[d] \in Nat
  BY <1>1, VotesAreNumbers
<1>11. own.vote_count = n[c] /\ own.rank = 1 + Cardinality(more)
  <2>1. more = {d \in Tally!candidates_of(c[1]) :
                  Tally!votes_for(Tally!get_votes, d) > Tally!votes_for(Tally!get_votes, c)}
    BY <1>4, <1>5, <1>9, <1>10
  <2>2. Tally!Cardinality(more) = Cardinality(more)
    BY SameTally
  <2> QED BY <1>2, <1>9, <1>10, <2>1, <2>2 DEF Tally!_get_candidate_standing
<1>12. row.vote_count = n[c] /\ row.rank = 1 + Cardinality(ahead)
  <2>1. ahead = {d \in Tally!candidates_of(c[1]) : Tally!beats(Tally!get_votes, d, c)}
    <3>1. \A d \in mates : Tally!beats(Tally!get_votes, d, c) <=>
                           n[d] > n[c] \/ (n[d] = n[c] /\ d[2] < c[2])
      BY <1>9, <1>10, Zenon DEF Tally!beats
    <3> QED BY <1>4, <1>6, <3>1, Zenon
  <2>2. Tally!Cardinality(ahead) = Cardinality(ahead)
    BY SameTally
  <2> QED BY <1>3, <1>4, <1>9, <1>10, <2>1, <2>2 DEF Tally!tally_votes_by_category
<1>13. Tally!flat_ranks(Tally!get_votes)[c] = 1 + Cardinality(all)
  <2>1. all = {d \in tally_ballot :
                 Tally!votes_for(Tally!get_votes, d) > Tally!votes_for(Tally!get_votes, c)}
    BY <1>8, <1>9, <1>10
  <2>2. Tally!Cardinality(all) = Cardinality(all)
    BY SameTally
  <2> QED BY <2>1, <2>2 DEF Tally!flat_ranks
<1>14. level = {d \in Tally!candidates_of(c[1]) :
                  Tally!votes_for(Tally!get_votes, d) = own.vote_count}
  BY <1>4, <1>7, <1>9, <1>10, <1>11
<1>15. c[1] \in DOMAIN Tally!_handle_results(Tally!get_votes) =>
         Tally!_handle_results(Tally!get_votes)[c[1]][c] = n[c]
  BY <1>4, <1>9, <1>10 DEF Tally!_handle_results
<1>16. /\ IsFiniteSet(mates) /\ IsFiniteSet(all) /\ IsFiniteSet(more)
       /\ IsFiniteSet(ahead) /\ IsFiniteSet(level \ {c}) /\ IsFiniteSet(level)
  <2>1. IsFiniteSet(Tally!Contenders)
    BY TalliedIsFinite
  <2>2. /\ mates \subseteq Tally!Contenders /\ all \subseteq Tally!Contenders
        /\ more \subseteq Tally!Contenders /\ ahead \subseteq Tally!Contenders
        /\ level \ {c} \subseteq Tally!Contenders /\ level \subseteq Tally!Contenders
    BY <1>5, <1>6, <1>7, <1>8, <1>9
  <2> QED BY <2>1, <2>2, FS_Subset
<1>17. /\ Cardinality(all) \in Nat /\ Cardinality(more) \in Nat
       /\ Cardinality(ahead) \in Nat /\ Cardinality(level) \in Nat
  BY <1>16, FS_CardinalityType
\* Who has more is ahead, and who is ahead has more or as many.
<1>18. more \subseteq ahead /\ more \subseteq all
  <2>1. more \subseteq ahead
    BY <1>5, <1>6
  <2>2. more \subseteq all
    BY <1>5, <1>8, <1>9
  <2> QED BY <2>1, <2>2
<1>19. ahead \subseteq more \cup (level \ {c})
  <2>1. c \notin ahead
    BY <1>6, <1>9, <1>10, TalliedIsFinite
  <2> QED BY <1>5, <1>6, <1>7, <2>1
<1>20. Cardinality(more) <= Cardinality(ahead) /\ Cardinality(more) <= Cardinality(all)
  BY <1>16, <1>18, FS_Subset
<1>21. Cardinality(ahead) <= Cardinality(more) + Cardinality(level) - 1
  <2>1. c \in level
    BY <1>7, <1>9
  <2>2. Cardinality(level \ {c}) = Cardinality(level) - 1
    BY <1>16, <2>1, FS_RemoveElement
  <2>3. more \cap (level \ {c}) = {}
    BY <1>5, <1>7, <1>9, <1>10
  <2>4. /\ IsFiniteSet(more \cup (level \ {c}))
        /\ Cardinality(more \cup (level \ {c})) =
             Cardinality(more) + Cardinality(level \ {c})
             - Cardinality(more \cap (level \ {c}))
    BY <1>16, FS_Union
  <2>5. Cardinality(more \cap (level \ {c})) = 0
    BY <2>3, FS_EmptySet
  <2>6. Cardinality(ahead) <= Cardinality(more \cup (level \ {c}))
    BY <1>19, <2>4, FS_Subset
  <2> QED BY <1>17, <2>2, <2>4, <2>5, <2>6
<1>22. /\ own.vote_count = row.vote_count
       /\ row.rank \in own.rank..(own.rank + Cardinality(level) - 1)
       /\ own.rank <= Tally!flat_ranks(Tally!get_votes)[c]
  BY <1>11, <1>12, <1>13, <1>17, <1>20, <1>21
<1>23. Tally!Cardinality(level) = Cardinality(level)
  BY SameTally
<1> QED BY <1>2, <1>3, <1>11, <1>14, <1>15, <1>22, <1>23

\* Whoever votes, and whatever is removed, rows keep their form.
LEMMA TallyInvHolds == Tally!Spec => []TallyInv
<1>1. Tally!Init => TallyInv
  BY DEF Tally!Init, TallyInv
<1>2. TallyInv /\ [Tally!Next]_(Tally!resultVars) => TallyInv'
  <2> SUFFICES ASSUME TallyInv, [Tally!Next]_(Tally!resultVars) PROVE TallyInv'
    OBVIOUS
  <2> USE DEF TallyInv
  <2>1. ASSUME NEW v \in TalliedVotes, NEW k \in TalliedCategories,
               NEW choice \in SUBSET Tally!Contenders,
               NEW w \in TalliedWeights, Tally!insert(v, k, choice, w)
        PROVE  TallyInv'
    BY <2>1 DEF Tally!insert, TallyRow
  <2>2. ASSUME NEW v \in TalliedVotes, Tally!notify_vote_cast(v) \/ Tally!commit(v)
        PROVE TallyInv'
    <3>1. tally_vote[v] \in TallyRow
      BY <2>2 DEF Tally!notify_vote_cast, Tally!commit, Tally!NoVote
    <3> QED BY <2>2, <3>1 DEF Tally!notify_vote_cast, Tally!commit, TallyRow
  <2>3. ASSUME NEW v \in TalliedVotes, Tally!roll_back(v) PROVE TallyInv'
    BY <2>3 DEF Tally!roll_back
  <2>4. ASSUME NEW c \in Tally!Contenders, Tally!remove_candidate(c) PROVE TallyInv'
    BY <2>4 DEF Tally!remove_candidate
  <2>5. CASE Tally!close
    BY <2>5 DEF Tally!close
  <2>6. ASSUME NEW s \in TalliedStreams,
               Tally!subscribe(s) \/ Tally!recompute(s) \/ Tally!push(s)
                 \/ Tally!disconnect(s)
        PROVE  TallyInv'
    BY <2>6 DEF Tally!subscribe, Tally!recompute, Tally!push, Tally!disconnect
  <2>7. ASSUME NEW p \in TalliedPolls, Tally!miss(p) \/ Tally!set_cached(p) PROVE TallyInv'
    BY <2>7 DEF Tally!miss, Tally!set_cached
  <2>8. CASE Tally!expire
    BY <2>8 DEF Tally!expire
  <2>9. CASE UNCHANGED Tally!resultVars
    BY <2>9 DEF Tally!resultVars
  <2> QED BY <2>1, <2>2, <2>3, <2>4, <2>5, <2>6, <2>7, <2>8, <2>9 DEF Tally!Next
<1> QED BY <1>1, <1>2, PTL DEF Tally!Spec

(* The candidate's page, the lists and the messages give a candidate the    *)
(* same votes and, but for ties, the same rank, for any number of rows,     *)
(* categories and candidates and any weights (voting_service.py,            *)
(* elections.py).                                                           *)
THEOREM StandingsMatch == Tally!Spec => []StandingsAgree
<1>1. TallyInv => StandingsAgree
  BY TalliesAgree DEF StandingsAgree
<1> QED BY <1>1, TallyInvHolds, PTL

\* What a stream shows and what it has read are votes that have been
\* committed, and it has read what it shows.
TallyReads == [state : {"read"}, votes : SUBSET TalliedVotes]
Listening == [state : {"listening"}, inbox : BOOLEAN, read : {Tally!Missing} \cup TallyReads,
              shown : TallyReads]
StreamsInv ==
    /\ tally_stream \in [TalliedStreams -> {Tally!Closed} \cup Listening]
    /\ \A s \in TalliedStreams : tally_stream[s] # Tally!Closed =>
        /\ tally_stream[s].shown.votes \subseteq Tally!get_votes
        /\ tally_stream[s].read # Tally!Missing =>
                  /\ tally_stream[s].shown.votes \subseteq tally_stream[s].read.votes
                  /\ tally_stream[s].read.votes \subseteq Tally!get_votes

\* No committed vote is taken back.
LEMMA VotesOnlyGrow == TallyInv /\ [Tally!Next]_(Tally!resultVars)
  => Tally!get_votes \subseteq Tally!get_votes'
<1> SUFFICES ASSUME TallyInv, [Tally!Next]_(Tally!resultVars), NEW x \in TalliedVotes,
                    tally_vote[x].state = "committed"
             PROVE  tally_vote'[x].state = "committed"
  BY DEF Tally!get_votes
<1>1. ASSUME NEW v \in TalliedVotes, NEW k \in TalliedCategories,
             NEW choice \in SUBSET Tally!Contenders,
             NEW w \in TalliedWeights, Tally!insert(v, k, choice, w)
      PROVE  tally_vote'[x].state = "committed"
  BY <1>1 DEF Tally!insert, TallyInv, Tally!NoVote
<1>2. ASSUME NEW v \in TalliedVotes,
             Tally!notify_vote_cast(v) \/ Tally!commit(v) \/ Tally!roll_back(v)
      PROVE  tally_vote'[x].state = "committed"
  BY <1>2 DEF Tally!notify_vote_cast, Tally!commit, Tally!roll_back, TallyInv
<1>3. ASSUME UNCHANGED tally_vote PROVE tally_vote'[x].state = "committed"
  BY <1>3
<1>4. ASSUME NEW s \in TalliedStreams,
             Tally!subscribe(s) \/ Tally!recompute(s) \/ Tally!push(s)
               \/ Tally!disconnect(s)
      PROVE  UNCHANGED tally_vote
  BY <1>4 DEF Tally!subscribe, Tally!recompute, Tally!push, Tally!disconnect
<1>5. ASSUME NEW p \in TalliedPolls, Tally!miss(p) \/ Tally!set_cached(p)
      PROVE UNCHANGED tally_vote
  BY <1>5 DEF Tally!miss, Tally!set_cached
<1>6. ASSUME NEW c \in Tally!Contenders, Tally!remove_candidate(c)
      PROVE UNCHANGED tally_vote
  BY <1>6 DEF Tally!remove_candidate
<1>7. Tally!close \/ Tally!expire \/ UNCHANGED Tally!resultVars => UNCHANGED tally_vote
  BY DEF Tally!close, Tally!expire, Tally!resultVars
<1> QED BY <1>1, <1>2, <1>3, <1>4, <1>5, <1>6, <1>7 DEF Tally!Next

\* Some streams are told to read again.
Wakes == \A s \in TalliedStreams : tally_stream'[s] = tally_stream[s] \/
           (tally_stream[s] # Tally!Closed
             /\ tally_stream'[s] = [tally_stream[s] EXCEPT !.inbox = TRUE])
\* A step leaves the streams, wakes them, or is one of theirs.
LEMMA StreamSteps ==
    ASSUME StreamsInv, [Tally!Next]_(Tally!resultVars)
    PROVE  \/ tally_stream' \in [TalliedStreams -> {Tally!Closed} \cup Listening] /\ Wakes
           \/ \E s \in TalliedStreams : Tally!subscribe(s) \/ Tally!recompute(s)
                \/ Tally!push(s) \/ Tally!disconnect(s)
<1> USE DEF StreamsInv
<1>1. ASSUME UNCHANGED tally_stream
      PROVE  tally_stream' \in [TalliedStreams -> {Tally!Closed} \cup Listening] /\ Wakes
  BY <1>1 DEF Wakes
<1>2. ASSUME NEW v \in TalliedVotes, Tally!notify_vote_cast(v)
      PROVE  tally_stream' \in [TalliedStreams -> {Tally!Closed} \cup Listening] /\ Wakes
  <2>1. \A s \in TalliedStreams : tally_stream[s].state = "listening" =>
          tally_stream[s] # Tally!Closed
            /\ [tally_stream[s] EXCEPT !.inbox = TRUE] \in Listening
    <3> SUFFICES ASSUME NEW s \in TalliedStreams, tally_stream[s].state = "listening"
                 PROVE  tally_stream[s] # Tally!Closed
                        /\ [tally_stream[s] EXCEPT !.inbox = TRUE] \in Listening
      OBVIOUS
    <3>1. tally_stream[s] \in Listening /\ tally_stream[s] # Tally!Closed
      BY DEF Tally!Closed
    <3> QED BY <3>1 DEF Listening
  <2>2. tally_stream' = [s \in TalliedStreams |-> IF tally_stream[s].state = "listening"
                           THEN [tally_stream[s] EXCEPT !.inbox = TRUE] ELSE
                             tally_stream[s]]
    BY <1>2 DEF Tally!notify_vote_cast, Tally!wake
  <2> QED BY <2>1, <2>2 DEF Wakes
<1>3. ASSUME NEW v \in TalliedVotes, NEW k \in TalliedCategories,
             NEW choice \in SUBSET Tally!Contenders,
             NEW w \in TalliedWeights,
               Tally!insert(v, k, choice, w) \/ Tally!commit(v) \/ Tally!roll_back(v)
      PROVE  UNCHANGED tally_stream
  BY <1>3 DEF Tally!insert, Tally!commit, Tally!roll_back
<1>4. ASSUME NEW v \in TalliedVotes, Tally!commit(v) \/ Tally!roll_back(v)
      PROVE UNCHANGED tally_stream
  BY <1>4 DEF Tally!commit, Tally!roll_back
<1>5. ASSUME NEW p \in TalliedPolls, Tally!miss(p) \/ Tally!set_cached(p)
      PROVE UNCHANGED tally_stream
  BY <1>5 DEF Tally!miss, Tally!set_cached
<1>6. ASSUME NEW c \in Tally!Contenders, Tally!remove_candidate(c)
      PROVE UNCHANGED tally_stream
  BY <1>6 DEF Tally!remove_candidate
<1>7. Tally!close \/ Tally!expire \/ UNCHANGED Tally!resultVars => UNCHANGED tally_stream
  BY DEF Tally!close, Tally!expire, Tally!resultVars
<1> QED BY <1>1, <1>2, <1>3, <1>4, <1>5, <1>6, <1>7 DEF Tally!Next

\* Streams read committed votes only, and read again what they show.
LEMMA StreamsInvHolds == Tally!Spec => []StreamsInv
<1>1. Tally!Init => StreamsInv
  BY DEF Tally!Init, StreamsInv
<1>2. TallyInv /\ StreamsInv /\ [Tally!Next]_(Tally!resultVars) => StreamsInv'
  <2> SUFFICES ASSUME TallyInv, StreamsInv, [Tally!Next]_(Tally!resultVars)
      PROVE StreamsInv'
    OBVIOUS
  <2>1. Tally!get_votes \subseteq Tally!get_votes' /\ Tally!get_votes \subseteq TalliedVotes
    BY VotesOnlyGrow DEF Tally!get_votes
  <2>2. CASE tally_stream' \in [TalliedStreams -> {Tally!Closed} \cup Listening] /\ Wakes
    <3> SUFFICES ASSUME NEW s \in TalliedStreams, tally_stream'[s] # Tally!Closed
                 PROVE  /\ tally_stream'[s].shown.votes \subseteq Tally!get_votes'
                        /\ tally_stream'[s].read # Tally!Missing =>
                          /\ tally_stream'[s].shown.votes \subseteq tally_stream'[s].read.votes
                          /\ tally_stream'[s].read.votes \subseteq Tally!get_votes'
      BY <2>2 DEF StreamsInv
    <3>1. /\ tally_stream[s] # Tally!Closed
          /\ tally_stream'[s].shown = tally_stream[s].shown
          /\ tally_stream'[s].read = tally_stream[s].read
      <4>1. tally_stream[s] \in {Tally!Closed} \cup Listening
        BY DEF StreamsInv
      <4>2. CASE tally_stream'[s] = tally_stream[s]
        BY <4>2
      <4>3. CASE /\ tally_stream[s] # Tally!Closed
                /\ tally_stream'[s] = [tally_stream[s] EXCEPT !.inbox = TRUE]
        BY <4>1, <4>3 DEF Listening
      <4> QED BY <2>2, <4>2, <4>3 DEF Wakes
    <3> QED BY <2>1, <3>1 DEF StreamsInv
  <2>3. ASSUME NEW s \in TalliedStreams, Tally!subscribe(s) PROVE StreamsInv'
    <3> DEFINE new == [state |-> "listening", inbox |-> TRUE, read |-> Tally!Missing,
                       shown |-> Tally!Read({})]
    <3>1. tally_stream' = [tally_stream EXCEPT ![s] = new]
      BY <2>3 DEF Tally!subscribe
    <3>2. new \in Listening /\ new.shown.votes = {} /\ new.read = Tally!Missing
      BY DEF Listening, TallyReads, Tally!Read
    <3> HIDE DEF new
    <3> QED BY <2>1, <3>1, <3>2 DEF StreamsInv
  <2>4. ASSUME NEW s \in TalliedStreams, Tally!recompute(s) PROVE StreamsInv'
    <3>1. PICK new : new = [tally_stream[s] EXCEPT !.inbox = FALSE,
      !.read = Tally!Read(Tally!get_votes)]
      OBVIOUS
    <3>2. tally_stream[s] \in Listening /\ tally_stream[s] # Tally!Closed
      BY <2>4 DEF StreamsInv, Tally!recompute, Tally!Closed
    <3>3. tally_stream' = [tally_stream EXCEPT ![s] = new]
      BY <2>4, <3>1 DEF Tally!recompute, Tally!fresh, Tally!compute
    <3>4. /\ new \in Listening /\ new.shown = tally_stream[s].shown
          /\ new.read.votes = Tally!get_votes
      BY <2>1, <3>1, <3>2 DEF Listening, TallyReads, Tally!Read
    <3>5. new.shown.votes \subseteq Tally!get_votes
      BY <3>2, <3>4 DEF StreamsInv
    <3> QED BY <2>1, <3>3, <3>4, <3>5 DEF StreamsInv
  <2>5. ASSUME NEW s \in TalliedStreams, Tally!push(s) PROVE StreamsInv'
    <3>1. PICK new : new = [tally_stream[s] EXCEPT !.read = Tally!Missing,
      !.shown = tally_stream[s].read]
      OBVIOUS
    <3>2. /\ tally_stream[s] \in Listening /\ tally_stream[s] # Tally!Closed
          /\ tally_stream[s].read # Tally!Missing
      BY <2>5 DEF StreamsInv, Tally!push, Tally!Closed
    <3>3. tally_stream' = [tally_stream EXCEPT ![s] = new]
      BY <2>5, <3>1 DEF Tally!push
    <3>4. /\ new \in Listening /\ new.shown = tally_stream[s].read
          /\ new.read = Tally!Missing
      BY <3>1, <3>2 DEF Listening
    <3>5. new.shown.votes \subseteq Tally!get_votes
      BY <3>2, <3>4 DEF StreamsInv
    <3> QED BY <2>1, <3>3, <3>4, <3>5 DEF StreamsInv
  <2>6. ASSUME NEW s \in TalliedStreams, Tally!disconnect(s) PROVE StreamsInv'
    <3>1. tally_stream' = [tally_stream EXCEPT ![s] = Tally!Closed]
      BY <2>6 DEF Tally!disconnect
    <3> QED BY <2>1, <3>1 DEF StreamsInv
  <2> QED BY <2>2, <2>3, <2>4, <2>5, <2>6, StreamSteps
<1> QED BY <1>1, <1>2, TallyInvHolds, PTL DEF Tally!Spec

(* A stream never loses a vote that it has shown, whatever other streams    *)
(* and polls store in the cache (results_stream.py, stream_results).        *)
THEOREM StreamsGrow == Tally!Spec => Tally!StreamsOnlyGrow
<1> DEFINE Grows == \A s \in TalliedStreams :
        tally_stream[s] # Tally!Closed /\ tally_stream'[s] # Tally!Closed =>
                  tally_stream[s].shown.votes \subseteq tally_stream'[s].shown.votes
<1>1. StreamsInv /\ [Tally!Next]_(Tally!resultVars) => [Grows]_(Tally!resultVars)
  <2> SUFFICES ASSUME StreamsInv, [Tally!Next]_(Tally!resultVars), NEW s \in TalliedStreams,
                      tally_stream[s] # Tally!Closed, tally_stream'[s] # Tally!Closed
               PROVE  tally_stream[s].shown.votes \subseteq tally_stream'[s].shown.votes
    OBVIOUS
  <2>1. tally_stream[s] \in Listening
    BY DEF StreamsInv
  <2>2. CASE Wakes
    <3>1. \/ tally_stream'[s] = tally_stream[s]
          \/ tally_stream'[s] = [tally_stream[s] EXCEPT !.inbox = TRUE]
      BY <2>2 DEF Wakes
    <3> QED BY <2>1, <3>1 DEF Listening
  <2>3. ASSUME NEW t \in TalliedStreams, Tally!subscribe(t) \/ Tally!disconnect(t)
        PROVE  tally_stream[s].shown.votes \subseteq tally_stream'[s].shown.votes
    <3>1. t # s
      BY <2>3 DEF Tally!subscribe, Tally!disconnect, StreamsInv
    <3>2. tally_stream'[s] = tally_stream[s]
      BY <2>3, <3>1 DEF Tally!subscribe, Tally!disconnect, StreamsInv
    <3> QED BY <3>2
  <2>4. ASSUME NEW t \in TalliedStreams, Tally!recompute(t)
        PROVE  tally_stream[s].shown.votes \subseteq tally_stream'[s].shown.votes
    BY <2>1, <2>4 DEF Tally!recompute, StreamsInv, Listening
  <2>5. ASSUME NEW t \in TalliedStreams, Tally!push(t)
        PROVE  tally_stream[s].shown.votes \subseteq tally_stream'[s].shown.votes
    <3>1. CASE t # s
      BY <2>5, <3>1 DEF Tally!push, StreamsInv
    <3>2. CASE t = s
      <4>1. /\ tally_stream[s].read # Tally!Missing
            /\ tally_stream'[s].shown = tally_stream[s].read
        BY <2>1, <2>5, <3>2 DEF Tally!push, StreamsInv, Listening
      <4> QED BY <4>1 DEF StreamsInv
    <3> QED BY <3>1, <3>2
  <2> QED BY <2>2, <2>3, <2>4, <2>5, StreamSteps
<1> QED BY <1>1, StreamsInvHolds, PTL DEF Tally!Spec, Tally!StreamsOnlyGrow

===============================================================================
