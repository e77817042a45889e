--------------------------- MODULE PayoutsProofs ---------------------------
(***************************************************************************)
(* Payouts for any number of requests, transfers, organizers and admins.   *)
(***************************************************************************)
EXTENDS Payouts, TLAPS

(* A row that does not exist yet is blank.                                 *)
AbsentIsBlank == \A r \in Rows : payout[r].status = "none" => payout[r] = NoPayout

(* A row says nothing of a transfer, or names one Paystack has accepted.   *)
RecordedWasSent ==
    \A r \in Rows :
        /\ payout[r].ref = NoTransfer => payout[r].transfer_status = "none"
        /\ payout[r].ref # NoTransfer => transfer[payout[r].ref].state # "none"

(* What a "pay" call holds in memory is so: its request exists, and the    *)
(* transfer it is about to record is one of that request.                  *)
CallsAreTrue ==
    \A a \in Admins :
        /\ pay[a].stage # "idle" =>
             pay[a].row \in Rows /\ payout[pay[a].row].status # "none"
        /\ pay[a].stage = "record" =>
             /\ pay[a].ref \in Transfers
             /\ transfer[pay[a].ref].state # "none"
             /\ transfer[pay[a].ref].row = pay[a].row
             /\ transfer[pay[a].ref].amount = payout[pay[a].row].amount
             /\ pay[a].answer = "success" => transfer[pay[a].ref].state = "success"

IInv ==
    /\ TypeOK
    /\ AbsentIsBlank
    /\ RecordedWasSent
    /\ CallsAreTrue
    /\ TransferRecordsAreTrue
    /\ PaidIsBacked
    /\ PendingIsUnsettled

(* Types of the blank records, for every value of the constants.           *)
LEMMA BlankTypes ==
    /\ NoPayout \in Payout
    /\ NotSent \in Transfer
    /\ IdleRequest \in Request
    /\ IdlePay \in Pay
  BY ConstantsAssumption
  DEF NoPayout, NotSent, IdleRequest, IdlePay, Payout, Transfer, Request, Pay,
      Statuses, TransferStatuses

LEMMA InitIInv == Init => IInv
  BY BlankTypes, ConstantsAssumption
  DEF Init, IInv, TypeOK, AbsentIsBlank, RecordedWasSent, CallsAreTrue,
      TransferRecordsAreTrue, PaidIsBacked, PendingIsUnsettled,
      NoPayout, NotSent, IdlePay, sent

(* The steps that leave rows, transfers and pay calls alone.               *)
LEMMA QuietStep ==
    ASSUME IInv, TypeOK', UNCHANGED <<payout, transfer, pay>>
    PROVE  IInv'
  BY DEF IInv, AbsentIsBlank, RecordedWasSent, CallsAreTrue,
         TransferRecordsAreTrue, PaidIsBacked, PendingIsUnsettled, sent

LEMMA QuietTypes ==
    ASSUME TypeOK,
           \/ sell
           \/ set_commission_override
           \/ \E o \in Organizers : begin_request(o) \/ resolve_requested_amount(o)
    PROVE  TypeOK' /\ UNCHANGED <<payout, transfer, pay>>
<1>1. CASE sell
  BY <1>1, ConstantsAssumption DEF sell, TypeOK
<1>2. CASE set_commission_override
  BY <1>2 DEF set_commission_override, TypeOK
<1>3. ASSUME NEW o \in Organizers, begin_request(o)
      PROVE  TypeOK' /\ UNCHANGED <<payout, transfer, pay>>
  BY <1>3 DEF begin_request, TypeOK, Request
<1>4. ASSUME NEW o \in Organizers, resolve_requested_amount(o)
      PROVE  TypeOK' /\ UNCHANGED <<payout, transfer, pay>>
  <2>1. UNCHANGED <<revenue, rate, payout, transfer, pay>>
    BY <1>4 DEF resolve_requested_amount
  <2>2. PICK amount :
          \/ /\ amount \in MinPayout..MaxPayout
             /\ req' = [req EXCEPT ![o].stage = "create", ![o].amount = amount]
          \/ req' = [req EXCEPT ![o] = IdleRequest]
    BY <1>4 DEF resolve_requested_amount
  <2>3. req' \in [Organizers -> Request]
    BY <2>2, BlankTypes, ConstantsAssumption DEF TypeOK, Request
  <2> QED BY <2>1, <2>3 DEF TypeOK
<1> QED BY <1>1, <1>2, <1>3, <1>4

(* A request is inserted into a blank row.                                 *)
LEMMA RequestStep ==
    ASSUME IInv, NEW o \in Organizers, request_payout(o)
    PROVE  IInv'
<1>1. PICK r \in Rows :
        /\ payout[r].status = "none"
        /\ payout' = [payout EXCEPT ![r].status = "pending", ![r].amount = req[o].amount]
  BY DEF request_payout
<1>2. /\ req' = [req EXCEPT ![o] = IdleRequest]
      /\ UNCHANGED <<revenue, rate, transfer, pay>>
  BY DEF request_payout
<1>3. payout[r] = NoPayout
  BY <1>1 DEF IInv, AbsentIsBlank
<1>4. TypeOK'
  BY <1>1, <1>2, BlankTypes DEF IInv, TypeOK, Payout, Statuses, Request
<1>5. /\ payout'[r].status = "pending" /\ payout'[r].ref = NoTransfer
      /\ payout'[r].transfer_status = "none" /\ payout'[r].verdict = "none"
  BY <1>1, <1>3 DEF IInv, TypeOK, Payout, NoPayout
<1>6. \A s \in Rows \ {r} : payout'[s] = payout[s]
  BY <1>1 DEF IInv, TypeOK
<1>7. AbsentIsBlank' /\ RecordedWasSent' /\ TransferRecordsAreTrue' /\ PaidIsBacked' /\ PendingIsUnsettled'
  BY <1>2, <1>5, <1>6
  DEF IInv, AbsentIsBlank, RecordedWasSent, TransferRecordsAreTrue, PaidIsBacked,
      PendingIsUnsettled, sent
<1>8. CallsAreTrue'
  <2>1. \A a \in Admins : pay[a].stage # "idle" => pay[a].row # r
    BY <1>1 DEF IInv, CallsAreTrue
  <2> QED BY <1>2, <1>6, <2>1, ConstantsAssumption DEF IInv, CallsAreTrue, TypeOK, Pay
<1> QED BY <1>4, <1>7, <1>8 DEF IInv

(* A pay call starts, takes its lock or is rolled back.                    *)
LEMMA BeginStep ==
    ASSUME IInv, NEW a \in Admins,
           \/ \E r \in Rows : begin_transfer(a, r)
           \/ set_recipient_code(a)
           \/ roll_back(a)
    PROVE  IInv'
<1>1. UNCHANGED <<revenue, rate, payout, transfer, req>>
  BY DEF begin_transfer, set_recipient_code, roll_back
<1>2. /\ pay' \in [Admins -> Pay]
      /\ \A b \in Admins \ {a} : pay'[b] = pay[b]
      /\ pay'[a].stage # "record"
      /\ pay'[a].stage # "idle" => pay'[a].row \in Rows /\ payout[pay'[a].row].status # "none"
  <2>1. ASSUME NEW r \in Rows, begin_transfer(a, r) PROVE <1>2!:
    BY <2>1, BlankTypes DEF begin_transfer, IInv, TypeOK, Pay, IdlePay
  <2>2. CASE set_recipient_code(a)
    BY <2>2 DEF set_recipient_code, IInv, TypeOK, Pay, CallsAreTrue
  <2>3. CASE roll_back(a)
    BY <2>3, BlankTypes DEF roll_back, IInv, TypeOK, Pay, IdlePay
  <2> QED BY <2>1, <2>2, <2>3
<1>3. TypeOK'
  BY <1>1, <1>2 DEF IInv, TypeOK
<1>4. CallsAreTrue'
  BY <1>1, <1>2 DEF IInv, CallsAreTrue
<1> QED BY <1>1, <1>3, <1>4
  DEF IInv, AbsentIsBlank, RecordedWasSent, TransferRecordsAreTrue, PaidIsBacked,
      PendingIsUnsettled, sent

(* Paystack takes an order under a reference nobody has used.              *)
LEMMA SendStep ==
    ASSUME IInv, NEW a \in Admins, initiate_transfer(a)
    PROVE  IInv'
<1>1. PICK t \in Transfers, answer \in Answers :
        /\ transfer[t].state = "none"
        /\ transfer' = [transfer EXCEPT ![t] =
             [row |-> pay[a].row, amount |-> payout[pay[a].row].amount, state |-> answer]]
        /\ pay' = [pay EXCEPT ![a].stage = "record", ![a].ref = t, ![a].answer = answer]
  BY DEF initiate_transfer
<1>2. UNCHANGED <<revenue, rate, payout, req>> /\ pay[a].stage = "send"
  BY DEF initiate_transfer
<1>3. pay[a].row \in Rows /\ payout[pay[a].row].status # "none"
  BY <1>2 DEF IInv, CallsAreTrue
<1>4. answer \in TransferStatuses \ {"none"}
  BY ConstantsAssumption
<1>5. payout[pay[a].row].amount \in Int
  BY <1>3 DEF IInv, TypeOK, Payout
<1>6. TypeOK'
  <2>1. transfer' \in [Transfers -> Transfer]
    BY <1>1, <1>3, <1>4, <1>5 DEF IInv, TypeOK, Transfer
  <2>2. pay' \in [Admins -> Pay]
    <3>1. pay[a] \in Pay /\ answer \in TransferStatuses
      BY <1>4 DEF IInv, TypeOK
    <3>2. [pay[a] EXCEPT !.stage = "record", !.ref = t, !.answer = answer] \in Pay
      BY <3>1 DEF Pay
    <3> QED BY <1>1, <3>2 DEF IInv, TypeOK
  <2> QED BY <1>2, <2>1, <2>2 DEF IInv, TypeOK
<1>7. \A u \in Transfers : transfer[u].state # "none" => transfer'[u] = transfer[u]
  BY <1>1 DEF IInv, TypeOK
<1>8. /\ transfer'[t].row = pay[a].row
      /\ transfer'[t].amount = payout[pay[a].row].amount
      /\ transfer'[t].state = answer
  BY <1>1 DEF IInv, TypeOK
<1>9. RecordedWasSent' /\ TransferRecordsAreTrue'
  <2> SUFFICES ASSUME NEW r \in Rows, payout[r].ref # NoTransfer
               PROVE  transfer'[payout[r].ref] = transfer[payout[r].ref]
    BY <1>2 DEF IInv, RecordedWasSent, TransferRecordsAreTrue
  <2>1. payout[r].ref \in Transfers /\ transfer[payout[r].ref].state # "none"
    BY DEF IInv, TypeOK, Payout, RecordedWasSent
  <2> QED BY <2>1, <1>7
<1>10. PaidIsBacked'
  <2>1. \A r \in Rows : \A u \in sent(r) :
          transfer[u].state = "success" => u \in sent(r)' /\ transfer'[u].state = "success"
    BY <1>7 DEF sent
  <2> QED BY <1>2, <2>1 DEF IInv, PaidIsBacked
<1>11. CallsAreTrue'
  <2>1. pay'[a].stage = "record" /\ pay'[a].row = pay[a].row /\ pay'[a].ref = t
        /\ pay'[a].answer = answer
    BY <1>1 DEF IInv, TypeOK, Pay
  <2>2. \A b \in Admins \ {a} : pay'[b] = pay[b]
    BY <1>1 DEF IInv, TypeOK
  <2> SUFFICES ASSUME NEW b \in Admins
               PROVE  CallsAreTrue!(b)'
    BY DEF CallsAreTrue
  <2>3. CASE b = a
    BY <2>1, <2>3, <1>2, <1>3, <1>4, <1>8 DEF TransferStatuses
  <2>4. CASE b # a
    BY <2>2, <2>4, <1>2, <1>7 DEF IInv, CallsAreTrue
  <2> QED BY <2>3, <2>4
<1>12. AbsentIsBlank' /\ PendingIsUnsettled'
  BY <1>2 DEF IInv, AbsentIsBlank, PendingIsUnsettled
<1> QED BY <1>6, <1>9, <1>10, <1>11, <1>12 DEF IInv

(* The result of a call is written to its row.                             *)
LEMMA RecordStep ==
    ASSUME IInv, NEW a \in Admins, record_transfer_result(a)
    PROVE  IInv'
<1> DEFINE r == pay[a].row
           u == pay[a].ref
<1>1. /\ pay[a].stage = "record"
      /\ payout' = [payout EXCEPT
           ![r].ref = u,
           ![r].transfer_status = pay[a].answer,
           ![r].recipient = @ \/ pay[a].holds,
           ![r].status = IF pay[a].answer = "success" THEN "paid" ELSE @]
      /\ pay' = [pay EXCEPT ![a] = IdlePay]
      /\ UNCHANGED <<revenue, rate, transfer, req>>
  BY DEF record_transfer_result
<1>2. /\ r \in Rows /\ payout[r].status # "none"
      /\ u \in Transfers /\ transfer[u].state # "none" /\ transfer[u].row = r
      /\ transfer[u].amount = payout[r].amount
      /\ pay[a].answer = "success" => transfer[u].state = "success"
  BY <1>1 DEF IInv, CallsAreTrue
<1>3. payout[r] \in Payout /\ pay[a] \in Pay
  BY <1>2 DEF IInv, TypeOK
<1> HIDE DEF r, u
<1>4. payout'[r] = [payout[r] EXCEPT
           !.ref = u,
           !.transfer_status = pay[a].answer,
           !.recipient = @ \/ pay[a].holds,
           !.status = IF pay[a].answer = "success" THEN "paid" ELSE @]
  BY <1>1, <1>2 DEF IInv, TypeOK
<1>5. /\ payout'[r] \in Payout
      /\ payout'[r].ref = u /\ payout'[r].transfer_status = pay[a].answer
      /\ payout'[r].amount = payout[r].amount /\ payout'[r].verdict = payout[r].verdict
      /\ payout'[r].status = IF pay[a].answer = "success" THEN "paid" ELSE payout[r].status
  BY <1>2, <1>3, <1>4 DEF Payout, Pay, Statuses
<1>6. \A s \in Rows \ {r} : payout'[s] = payout[s]
  BY <1>1, <1>2 DEF IInv, TypeOK
<1>7. TypeOK'
  <2>1. payout' \in [Rows -> Payout]
    BY <1>1, <1>2, <1>5 DEF IInv, TypeOK
  <2>2. pay' \in [Admins -> Pay]
    BY <1>1, BlankTypes DEF IInv, TypeOK
  <2> QED BY <1>1, <2>1, <2>2 DEF IInv, TypeOK
<1>8. payout'[r].status # "none"
  BY <1>2, <1>5
<1>9. AbsentIsBlank' /\ PendingIsUnsettled'
  BY <1>5, <1>6, <1>8 DEF IInv, AbsentIsBlank, PendingIsUnsettled
<1>10. RecordedWasSent' /\ TransferRecordsAreTrue'
  <2>1. u # NoTransfer
    BY <1>2, ConstantsAssumption
  <2>2. /\ payout'[r].ref = u
        /\ transfer'[u].state # "none" /\ transfer'[u].row = r
        /\ transfer'[u].amount = payout'[r].amount
        /\ payout'[r].transfer_status = "success" => transfer'[u].state = "success"
    BY <1>1, <1>2, <1>5
  <2>3. ASSUME NEW s \in Rows
        PROVE  /\ payout'[s].ref = NoTransfer => payout'[s].transfer_status = "none"
               /\ payout'[s].ref # NoTransfer =>
                    /\ transfer'[payout'[s].ref].state # "none"
                    /\ transfer'[payout'[s].ref].row = s
                    /\ transfer'[payout'[s].ref].amount = payout'[s].amount
               /\ payout'[s].transfer_status = "success" =>
                    transfer'[payout'[s].ref].state = "success"
    <3>1. CASE s = r
      BY <2>1, <2>2, <3>1
    <3>2. CASE s # r
      <4>1. payout'[s] = payout[s] /\ transfer' = transfer
        BY <1>1, <1>6, <3>2
      <4> QED BY <4>1 DEF IInv, RecordedWasSent, TransferRecordsAreTrue
    <3> QED BY <3>1, <3>2
  <2> QED BY <2>3 DEF RecordedWasSent, TransferRecordsAreTrue
<1>11. PaidIsBacked'
  <2> SUFFICES ASSUME NEW s \in Rows, payout'[s].status = "paid"
               PROVE  \/ payout'[s].verdict = "paid"
                      \/ \E t \in Transfers : transfer[t].row = s /\ transfer[t].state = "success"
    BY <1>1 DEF PaidIsBacked, sent
  <2>1. CASE s = r /\ pay[a].answer = "success"
    BY <1>2, <2>1
  <2>2. CASE s = r /\ pay[a].answer # "success"
    BY <1>2, <1>5, <2>2 DEF IInv, PaidIsBacked, sent
  <2>3. CASE s # r
    BY <1>6, <2>3 DEF IInv, PaidIsBacked, sent
  <2> QED BY <2>1, <2>2, <2>3
<1>12. CallsAreTrue'
  <2>1. pay'[a] = IdlePay /\ \A b \in Admins \ {a} : pay'[b] = pay[b]
    BY <1>1 DEF IInv, TypeOK
  <2>2. \A s \in Rows : payout'[s].amount = payout[s].amount
                      /\ (payout[s].status # "none" => payout'[s].status # "none")
    BY <1>5, <1>6, <1>8
  <2> SUFFICES ASSUME NEW b \in Admins PROVE CallsAreTrue!(b)'
    BY DEF CallsAreTrue
  <2>3. CASE b = a
    BY <2>1, <2>3 DEF IdlePay
  <2>4. CASE b # a
    <3>1. pay'[b] = pay[b] /\ transfer' = transfer
      BY <1>1, <2>1, <2>4
    <3>2. CallsAreTrue!(b)
      BY DEF IInv, CallsAreTrue
    <3>3. CASE pay[b].stage = "idle"
      BY <3>1, <3>3
    <3>4. CASE pay[b].stage # "idle"
      BY <2>2, <3>1, <3>2, <3>4
    <3> QED BY <3>3, <3>4
  <2> QED BY <2>3, <2>4
<1> QED BY <1>7, <1>9, <1>10, <1>11, <1>12 DEF IInv

(* Paystack ends a transfer on its own.                                    *)
LEMMA EndStep ==
    ASSUME IInv, NEW t \in Transfers, transfer_ends(t)
    PROVE  IInv'
<1>1. PICK state \in {"success", "failed"} :
        transfer' = [transfer EXCEPT ![t].state = state]
  BY DEF transfer_ends
<1>2. transfer[t].state \in {"pending", "otp"} /\ UNCHANGED <<revenue, rate, payout, req, pay>>
  BY DEF transfer_ends
<1>3. /\ transfer' \in [Transfers -> Transfer]
      /\ \A v \in Transfers :
           /\ transfer'[v].row = transfer[v].row
           /\ transfer'[v].amount = transfer[v].amount
           /\ transfer[v].state # "none" => transfer'[v].state # "none"
           /\ transfer[v].state = "success" => transfer'[v].state = "success"
  BY <1>1, <1>2 DEF IInv, TypeOK, Transfer, TransferStatuses
<1>4. \A r \in Rows : payout[r].ref # NoTransfer => payout[r].ref \in Transfers
  BY DEF IInv, TypeOK, Payout
<1>5. TypeOK' /\ AbsentIsBlank' /\ PendingIsUnsettled'
  BY <1>2, <1>3 DEF IInv, TypeOK, AbsentIsBlank, PendingIsUnsettled
<1>6. RecordedWasSent' /\ TransferRecordsAreTrue'
  BY <1>2, <1>3, <1>4 DEF IInv, RecordedWasSent, TransferRecordsAreTrue
<1>7. PaidIsBacked' /\ CallsAreTrue'
  BY <1>2, <1>3 DEF IInv, PaidIsBacked, CallsAreTrue, sent
<1> QED BY <1>5, <1>6, <1>7 DEF IInv

LEMMA ReviewStep ==
    ASSUME IInv, NEW r \in Rows, NEW verdict \in Verdicts, review(r, verdict)
    PROVE  IInv'
<1>1. /\ payout[r].status # "none"
      /\ payout' = [payout EXCEPT ![r].status = verdict, ![r].verdict = verdict]
      /\ UNCHANGED <<revenue, rate, transfer, req, pay>>
  BY DEF review
<1>2. verdict \in {"paid", "rejected"}
  BY ConstantsAssumption
<1>3. /\ payout' \in [Rows -> Payout]
      /\ payout'[r].status = verdict /\ payout'[r].verdict = verdict
      /\ payout'[r].ref = payout[r].ref /\ payout'[r].amount = payout[r].amount
      /\ payout'[r].transfer_status = payout[r].transfer_status
  BY <1>1, <1>2 DEF IInv, TypeOK, Payout, Statuses
<1>4. \A s \in Rows \ {r} : payout'[s] = payout[s]
  BY <1>1 DEF IInv, TypeOK
<1>5. TypeOK' /\ AbsentIsBlank' /\ PendingIsUnsettled'
  BY <1>1, <1>2, <1>3, <1>4 DEF IInv, TypeOK, AbsentIsBlank, PendingIsUnsettled
<1>6. RecordedWasSent' /\ TransferRecordsAreTrue'
  BY <1>1, <1>3, <1>4 DEF IInv, RecordedWasSent, TransferRecordsAreTrue
<1>7. PaidIsBacked'
  BY <1>1, <1>3, <1>4 DEF IInv, PaidIsBacked, sent
<1>8. CallsAreTrue'
  <2>1. \A s \in Rows : payout'[s].amount = payout[s].amount
                      /\ (payout[s].status # "none" => payout'[s].status # "none")
    BY <1>2, <1>3, <1>4
  <2> QED BY <1>1, <2>1 DEF IInv, CallsAreTrue
<1> QED BY <1>5, <1>6, <1>7, <1>8 DEF IInv

LEMMA StepIInv == IInv /\ [Next]_vars => IInv'
<1> SUFFICES ASSUME IInv, [Next]_vars PROVE IInv'
  OBVIOUS
<1>1. ASSUME \/ sell
             \/ set_commission_override
             \/ \E o \in Organizers : begin_request(o) \/ resolve_requested_amount(o)
      PROVE  IInv'
  BY <1>1, QuietTypes, QuietStep DEF IInv
<1>2. ASSUME NEW o \in Organizers, request_payout(o) PROVE IInv'
  BY <1>2, RequestStep
<1>3. ASSUME NEW a \in Admins, PayStep(a) PROVE IInv'
  BY <1>3, BeginStep, SendStep, RecordStep DEF PayStep
<1>4. ASSUME NEW t \in Transfers, transfer_ends(t) PROVE IInv'
  BY <1>4, EndStep
<1>5. ASSUME NEW r \in Rows, NEW verdict \in Verdicts, review(r, verdict) PROVE IInv'
  BY <1>5, ReviewStep
<1>6. CASE UNCHANGED vars
  <2>1. TypeOK' /\ UNCHANGED <<payout, transfer, pay>>
    BY <1>6 DEF vars, IInv, TypeOK
  <2> QED BY <2>1, QuietStep
<1> QED BY <1>1, <1>2, <1>3, <1>4, <1>5, <1>6 DEF Next, Ask

LEMMA Invariance == Spec => []IInv
  BY InitIInv, StepIInv, PTL DEF Spec

-----------------------------------------------------------------------------
(* Every reachable state has the types of Payouts.                         *)
THEOREM TypeCorrect == Spec => []TypeOK
<1>1. IInv => TypeOK
  BY DEF IInv
<1> QED BY <1>1, Invariance, PTL

(* However calls overlap or die, a row names a transfer made for it and    *)
(* says "success" only of money that moved (record_transfer_result).       *)
THEOREM RowsTellTheTruth == Spec => []TransferRecordsAreTrue
<1>1. IInv => TransferRecordsAreTrue
  BY DEF IInv
<1> QED BY <1>1, Invariance, PTL

(* A paid request was paid, by Paystack or on an admin's word.             *)
THEOREM NothingPaidForFree == Spec => []PaidIsBacked
<1>1. IInv => PaidIsBacked
  BY DEF IInv
<1> QED BY <1>1, Invariance, PTL

(* Decided requests do not come back to the queue of pending ones.         *)
THEOREM SettledLeavesTheQueue == Spec => []PendingIsUnsettled
<1>1. IInv => PendingIsUnsettled
  BY DEF IInv
<1> QED BY <1>1, Invariance, PTL

(* While requests do not overlap, has_pending read at the start of one     *)
(* still holds when it inserts its row: one pending request at a time.     *)
OneAtATime == \A o, p \in Organizers : o = p
CheckedHolds == (\E o \in Organizers : req[o].stage # "idle") => ~has_pending

THEOREM SerialRequestsPendOnce ==
    ASSUME OneAtATime
    PROVE  Spec => []OnePendingRequest
<1> DEFINE OInv == IInv /\ CheckedHolds /\ OnePendingRequest
<1>1. Init => OInv
  BY InitIInv DEF Init, CheckedHolds, OnePendingRequest, NoPayout, IdleRequest, has_pending
<1>2. OInv /\ [Next]_vars => OInv'
  <2> SUFFICES ASSUME OInv, [Next]_vars PROVE CheckedHolds' /\ OnePendingRequest'
    BY StepIInv
  <2>1. ASSUME NEW o \in Organizers, request_payout(o)
        PROVE  CheckedHolds' /\ OnePendingRequest'
    <3>1. PICK r \in Rows : payout' = [payout EXCEPT ![r].status = "pending",
                                                  ![r].amount = req[o].amount]
      BY <2>1 DEF request_payout
    <3>2. req[o].stage = "create" /\ req' = [req EXCEPT ![o] = IdleRequest]
      BY <2>1 DEF request_payout
    <3>3. \A s \in Rows : payout[s].status # "pending"
      BY <3>2 DEF CheckedHolds, has_pending
    <3>4. \A s \in Rows \ {r} : payout'[s].status # "pending"
      BY <3>1, <3>3 DEF IInv, TypeOK
    <3>5. \A p \in Organizers : req'[p].stage = "idle"
      BY <3>2 DEF OneAtATime, IInv, TypeOK, IdleRequest
    <3> QED BY <3>4, <3>5 DEF CheckedHolds, OnePendingRequest
  <2>2. ASSUME NEW o \in Organizers, begin_request(o)
        PROVE  CheckedHolds' /\ OnePendingRequest'
    BY <2>2 DEF begin_request, CheckedHolds, OnePendingRequest, has_pending
  <2>3. ASSUME \A r \in Rows : payout'[r].status = "pending" => payout[r].status = "pending",
               (\E o \in Organizers : req'[o].stage # "idle") => \E o \in Organizers : req[o].stage # "idle"
        PROVE  CheckedHolds' /\ OnePendingRequest'
    BY <2>3 DEF CheckedHolds, OnePendingRequest, has_pending
  <2>4. ASSUME NEW o \in Organizers, resolve_requested_amount(o)
        PROVE  CheckedHolds' /\ OnePendingRequest'
    BY <2>4, <2>3 DEF resolve_requested_amount, OneAtATime, IInv, TypeOK
  <2>5. ASSUME NEW a \in Admins, record_transfer_result(a)
        PROVE  CheckedHolds' /\ OnePendingRequest'
    <3>1. pay[a].row \in Rows
      BY <2>5 DEF record_transfer_result, IInv, CallsAreTrue
    <3>2. \A r \in Rows : payout'[r].status = "pending" => payout[r].status = "pending"
      BY <2>5, <3>1 DEF record_transfer_result, IInv, TypeOK, Payout
    <3> QED BY <2>3, <2>5, <3>2 DEF record_transfer_result
  <2>6. ASSUME NEW r \in Rows, NEW verdict \in Verdicts, review(r, verdict)
        PROVE  CheckedHolds' /\ OnePendingRequest'
    <3>1. \A s \in Rows : payout'[s].status = "pending" => payout[s].status = "pending"
      BY <2>6, ConstantsAssumption DEF review, IInv, TypeOK, Payout
    <3> QED BY <2>3, <2>6, <3>1 DEF review
  <2>7. ASSUME UNCHANGED <<payout, req>>
        PROVE  CheckedHolds' /\ OnePendingRequest'
    BY <2>3, <2>7
  <2>8. ASSUME NEW a \in Admins, PayStep(a)
        PROVE  CheckedHolds' /\ OnePendingRequest'
    BY <2>5, <2>7, <2>8
    DEF PayStep, begin_transfer, set_recipient_code, initiate_transfer, roll_back
  <2> QED BY <2>1, <2>2, <2>4, <2>6, <2>7, <2>8
      DEF Next, Ask, sell, set_commission_override, transfer_ends, vars
<1>3. OInv => OnePendingRequest
  OBVIOUS
<1> HIDE DEF OInv
<1> QED BY <1>1, <1>2, <1>3, PTL DEF Spec
=============================================================================
