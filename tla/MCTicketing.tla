---------------------------- MODULE MCTicketing ----------------------------
(* Small instances of Ticketing for TLC. *)
EXTENDS Ticketing, TLC

CONSTANTS standing, vip, r1, r2

of(t, n) == [type |-> t, quantity |-> n]

\* One ticket of one type.
OneType == {<<of(standing, 1)>>}

\* Two types in either order, and one of the type that is free.
There == <<of(standing, 1), of(vip, 1)>>
Back == <<of(vip, 1), of(standing, 1)>>
EitherWayAndSingle == {There, Back, <<of(standing, 1)>>}

\* The bound of the instance with two payments.  The first orders There, the
\* second Back; while there is a second, nothing but the two goes on.
TwoPaymentsAlone ==
    /\ txn[r1].items \in {<<>>, There}
    /\ txn[r2].status # "none" =>
          /\ txn[r1].status # "none" /\ txn[r2].items = Back
          /\ attempts_failed = {} /\ published
          /\ walkin = Nothing /\ manual[r1] + manual[r2] = 0
          /\ \A t \in Types : shelf[t] = "on_sale" /\ available[t] + sold[t] = Stock
          /\ \A q \in Reqs : req[q].kind # "free"
                             /\ req[q].stage \notin {"lookup", "manual", "reject"}
    /\ txn[r2].status = "none" => \A q \in Reqs : req[q].stage # "idle" => req[q].ref = r1
                                                  \/ req[q].kind = "free"

Symmetric == Permutations(Reqs)
=============================================================================
