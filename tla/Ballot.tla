------------------------------- MODULE Ballot -------------------------------
(***************************************************************************)
(* What an election promises its voters.  The paper is laid out while the  *)
(* election is prepared and not touched once voting has begun; a voter     *)
(* gets one vote per category, for a candidate on the paper; a closed      *)
(* election stays closed.  Votes handed in before closing may still drop   *)
(* into the box after it.                                                  *)
(***************************************************************************)
CONSTANTS Categories, Candidates, Voters, Wordings

VARIABLES
    phase,      \* "preparing", "voting" or "closed"
    candidates, \* who stands in each category
    wording,    \* the rest of what the paper says
    box         \* the votes

vars == <<phase, candidates, wording, box>>
paper == <<candidates, wording>>

Votes == [category : Categories, voter : Voters, choice : Candidates]
HasVoted(v) == \E w \in box : w.category = v.category /\ w.voter = v.voter

Init ==
    /\ phase = "preparing"
    /\ candidates = [c \in Categories |-> {}]
    /\ wording \in Wordings
    /\ box = {}

LayOut ==
    /\ phase = "preparing"
    /\ candidates' \in [Categories -> SUBSET Candidates]
    /\ wording' \in Wordings
    /\ UNCHANGED <<phase, box>>

Open ==
    /\ phase = "preparing"
    /\ phase' = "voting"
    /\ UNCHANGED <<paper, box>>

Cast ==
    /\ phase \in {"voting", "closed"}
    /\ \E v \in Votes :
        /\ v.choice \in candidates[v.category]
        /\ ~HasVoted(v)
        /\ box' = box \cup {v}
    /\ UNCHANGED <<phase, paper>>

Close ==
    /\ phase = "voting"
    /\ phase' = "closed"
    /\ UNCHANGED <<paper, box>>

Next == LayOut \/ Open \/ Cast \/ Close

Spec == Init /\ [][Next]_vars
=============================================================================
