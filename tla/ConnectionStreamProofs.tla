----------------------- MODULE ConnectionStreamProofs -----------------------
(***************************************************************************)
(* The stream of replies never gets out of step with op_queue: StepInv is  *)
(* inductive under the hypothesis InStep, and what read_callback takes for *)
(* granted follows from it.  The lemmas follow what can happen to the      *)
(* stream: an operation is issued, the server answers, a unit is consumed  *)
(* that ends a reply or that does not.                                     *)
(***************************************************************************)
EXTENDS ConnectionControlProofs

-----------------------------------------------------------------------------
LEMMA OneOrMore == \A n \in Nat : n > 0 => n = 1 \/ n > 1
OBVIOUS

\* A step that changes neither ids nor types nor the stream keeps it aligned.
LEMMA AlignedFrame ==
  ASSUME Aligned,
         UNCHANGED <<op_queue, requests, served, command, replies, seqno,
                     read_state>>
  PROVE  Aligned'
BY DEF Aligned, QueueIds, RequestIds, StateFitsHead, RepliesFit,
       RepliesFollow, RepliesOrdered, FirstReply, LastReply

-----------------------------------------------------------------------------
(* An operation is issued.                                                 *)

LEMMA IssueAligned ==
  ASSUME TypeOK, Aligned,
         NEW type \in OpTypes, NEW n \in Nat \ {0}, IssueOp(type, n),
         read_state \notin {"INIT_READ", "WAITING_FOR_SASL"},
         read_state = "LOADING" => type = "SET",
         Binary => n = 1,
         UNCHANGED <<served, command, replies>>
  PROVE  Aligned'
<1> DEFINE Q == Len(op_queue)
           L == Len(requests)
           op == [id |-> seqno + 1, type |-> type, n_req |-> n, n_recv |-> 0]
           req == [id |-> seqno + 1, type |-> type, n_req |-> n]
<1>1. op \in Op /\ req \in Request
  BY DEF Op, Request, TypeOK
<1>2. /\ Q \in Nat /\ L \in Nat /\ seqno \in Nat /\ Len(replies) \in Nat
      /\ (op_queue = <<>> <=> Q = 0) /\ (requests = <<>> <=> L = 0)
      /\ (replies = <<>> <=> Len(replies) = 0)
  BY Elements
<1>a. \A i \in 1..Q : op_queue[i].id \in Nat
  BY Elements
<1>b. \A i \in 1..L : requests[i].id \in Nat
  BY Elements
<1>c. \A i \in 1..Len(replies) : replies[i].id \in Nat
  BY Elements
<1>3. /\ Len(op_queue') = Q + 1
      /\ op_queue'[Q + 1] = op
      /\ \A i \in 1..Q : op_queue'[i] = op_queue[i]
  BY <1>1, AppendProperties DEF IssueOp, TypeOK
<1>4. /\ Len(requests') = L + 1
      /\ requests'[L + 1] = req
      /\ \A i \in 1..L : requests'[i] = requests[i]
  BY <1>1, AppendProperties DEF IssueOp, TypeOK
<1>5. /\ seqno' = seqno + 1
      /\ read_state' = IF read_state = "IDLE" THEN WaitFor(type)
                                              ELSE read_state
      /\ served' = served /\ command' = command /\ replies' = replies
      /\ op_queue' # <<>> /\ requests' # <<>>
  <2>1. op_queue' # <<>> /\ requests' # <<>>
    BY <1>2, <1>3, <1>4, EmptySeq
  <2> QED
    BY <2>1 DEF IssueOp
<1>6. op.id = seqno + 1 /\ op.type = type /\ req.id = seqno + 1
      /\ req.type = type /\ req.n_req = n
  OBVIOUS
<1> HIDE DEF op, req
<1>7. QueueIds'
  <2>1. Len(op_queue') <= seqno'
    BY <1>2, <1>3, <1>5 DEF Aligned, QueueIds
  <2>2. ASSUME NEW i \in 1..Len(op_queue')
        PROVE  op_queue'[i].id + Len(op_queue') = seqno' + i
    <3>1. CASE i = Q + 1
      BY <3>1, <1>2, <1>3, <1>5, <1>6
    <3>2. CASE i # Q + 1
      <4>1. i \in 1..Q /\ op_queue'[i] = op_queue[i]
        BY <3>2, <1>2, <1>3
      <4>2. op_queue[i].id \in Nat /\ op_queue[i].id + Q = seqno + i
        BY <4>1, <1>2, <1>a DEF Aligned, QueueIds
      <4> QED
        BY <4>1, <4>2, <1>2, <1>3, <1>5
    <3> QED
      BY <3>1, <3>2
  <2> QED
    BY <2>1, <2>2 DEF QueueIds
<1>8. RequestIds'
  <2>1. ~command' /\ Len(requests') <= Len(op_queue')
    BY <1>2, <1>3, <1>4, <1>5 DEF Aligned, RequestIds
  <2>2. ASSUME NEW i \in 1..Len(requests')
        PROVE  /\ requests'[i].id + Len(requests') = seqno' + i
               /\ requests'[i].type
                    = op_queue'[i + (Len(op_queue') - Len(requests'))].type
               /\ Binary => requests'[i].n_req = 1
    <3>1. CASE i = L + 1
      <4>1. i + (Len(op_queue') - Len(requests')) = Q + 1
        BY <3>1, <1>2, <1>3, <1>4
      <4> QED
        BY <4>1, <3>1, <1>2, <1>3, <1>4, <1>5, <1>6
    <3>2. CASE i # L + 1
      <4>1. i \in 1..L /\ requests'[i] = requests[i]
        BY <3>2, <1>2, <1>4
      <4>2. /\ i + (Len(op_queue') - Len(requests')) = i + (Q - L)
            /\ i + (Q - L) \in 1..Q
        BY <4>1, <1>2, <1>3, <1>4 DEF Aligned, RequestIds
      <4>3. op_queue'[i + (Q - L)] = op_queue[i + (Q - L)]
        BY <4>2, <1>3
      <4>4. /\ requests[i].type = op_queue[i + (Q - L)].type
            /\ Binary => requests[i].n_req = 1
        BY <4>1, <1>2 DEF Aligned, RequestIds
      <4>5. requests[i].id \in Nat /\ requests[i].id + L = seqno + i
        BY <4>1, <1>2, <1>b DEF Aligned, RequestIds
      <4>6. requests[i].id + (L + 1) = (seqno + 1) + i
        <5>1. i \in Nat /\ L \in Nat /\ seqno \in Nat
          BY <4>1, <1>2
        <5> QED
          BY <4>5, <5>1
      <4> QED
        BY <4>1, <4>2, <4>3, <4>4, <4>6, <1>4, <1>5
    <3> QED
      BY <3>1, <3>2
  <2>3. served' > 0 => /\ requests' # <<>>
                       /\ requests'[1].type = "GET"
                       /\ ~Binary
    BY <1>2, <1>4, <1>5 DEF Aligned, RequestIds
  <2> QED
    BY <2>1, <2>2, <2>3 DEF RequestIds
<1>9. StateFitsHead'
  <2>1. CASE op_queue = <<>>
    <3>1. op_queue'[1].type = type /\ Q = 0
      BY <2>1, <1>2, <1>3, <1>6
    <3>2. read_state \in {"IDLE", "LOADING"}
      BY <2>1 DEF Aligned, StateFitsHead, TypeOK, ReadStates
    <3> QED
      BY <3>1, <3>2, <1>3, <1>5 DEF StateFitsHead, WaitFor, OpTypes
  <2>2. CASE op_queue # <<>>
    <3>1. op_queue'[1] = op_queue[1] /\ read_state' = read_state
      BY <2>2, <1>2, <1>3, <1>5 DEF Aligned, StateFitsHead
    <3>2. read_state = "LOADING" =>
            \A i \in 1..Len(op_queue') : op_queue'[i].type = "SET"
      BY <1>2, <1>3, <1>6 DEF Aligned, StateFitsHead
    <3> QED
      BY <2>2, <3>1, <3>2, <1>5 DEF Aligned, StateFitsHead
  <2> QED
    BY <2>1, <2>2
<1>10. RepliesFit'
  <2> SUFFICES ASSUME NEW i \in 1..Len(replies)
               PROVE  /\ replies[i].id + (Q + 1) > seqno + 1
                      /\ replies[i].id + (Q + 1) <= seqno + 1 + (Q + 1)
                      /\ Fits(replies[i].kind,
                              op_queue'[(replies[i].id + (Q + 1))
                                          - (seqno + 1)].type)
    BY <1>3, <1>5 DEF RepliesFit
  <2> DEFINE k == (replies[i].id + Q) - seqno
  <2>1. /\ k \in 1..Q
        /\ Fits(replies[i].kind, op_queue[k].type)
    BY <1>2, <1>c DEF Aligned, RepliesFit
  <2>a. replies[i].id \in Nat /\ Q \in Nat /\ seqno \in Nat
    BY <1>2, <1>c
  <2>2. (replies[i].id + (Q + 1)) - (seqno + 1) = k
    BY <2>a
  <2>3. op_queue'[k] = op_queue[k]
    BY <2>1, <1>3
  <2> QED
    <3>1. /\ replies[i].id + (Q + 1) > seqno + 1
          /\ replies[i].id + (Q + 1) <= seqno + 1 + (Q + 1)
      BY <2>1, <2>a
    <3> QED
      BY <3>1, <2>1, <2>2, <2>3
<1>11. RepliesFollow' /\ RepliesOrdered'
  BY <1>5 DEF Aligned, RepliesFollow, RepliesOrdered
<1>12. FirstReply'
  <2>1. (read_state = "WAITING_FOR_GET_DATA")
          <=> (read_state' = "WAITING_FOR_GET_DATA")
    BY <1>5 DEF WaitFor
  <2>2. replies # <<>> => replies[1].id \in Nat
    BY <1>2, <1>c
  <2> QED
    BY <2>1, <2>2, <1>2, <1>3, <1>5, SMTT(30) DEF Aligned, FirstReply
<1>13. LastReply'
  <2>1. (read_state = "WAITING_FOR_GET_DATA")
          <=> (read_state' = "WAITING_FOR_GET_DATA")
    BY <1>5 DEF WaitFor
  <2>2. (read_state = "WAITING_FOR_END") <=> (read_state' = "WAITING_FOR_END")
    BY <1>5 DEF WaitFor
  <2>3. CASE replies = <<>>
    BY <2>1, <2>2, <2>3, <1>2, <1>3, <1>4, <1>5 DEF Aligned, LastReply
  <2>4. CASE replies # <<>>
    <3>1. replies[Len(replies)].id \in Nat
      BY <2>4, <1>2, <1>c
    <3>2. IF IsLast(replies[Len(replies)].kind)
          THEN served = 0 /\ replies[Len(replies)].id + L = seqno
          ELSE /\ served > 0
               /\ replies[Len(replies)].kind = "DATA"
               /\ replies[Len(replies)].id + L = seqno + 1
      BY <2>4 DEF Aligned, LastReply
    <3>3. IF IsLast(replies[Len(replies)].kind)
          THEN replies[Len(replies)].id + (L + 1) = seqno + 1
          ELSE replies[Len(replies)].id + (L + 1) = (seqno + 1) + 1
      BY <3>1, <3>2, <1>2, SMTT(30)
    <3> QED
      BY <3>2, <3>3, <2>4, <1>4, <1>5 DEF LastReply
  <2> QED
    BY <2>3, <2>4
<1> QED
  BY <1>7, <1>8, <1>9, <1>10, <1>11, <1>12, <1>13 DEF Aligned
-----------------------------------------------------------------------------
(* The unit that ends a reply is consumed and its operation popped.        *)

\* Before the operation at the head is completed the server answered it.
LEMMA AnsweredHead ==
  ASSUME TypeOK, Aligned,
         NEW st, NEW kinds, Consume(st, kinds), IsLast(replies[1].kind)
  PROVE  Len(requests) <= Len(op_queue) - 1
<1> DEFINE Q == Len(op_queue)
           L == Len(requests)
           R == Len(replies)
<1>n. Q \in Nat /\ L \in Nat /\ R \in Nat /\ seqno \in Nat
  BY Elements
<1>c. \A i \in 1..R : replies[i].id \in Nat
  BY Elements
<1>1. replies # <<>> /\ R > 0
  BY ConsumeType, Elements
<1>2. replies[1].id \in Nat
  BY <1>1, <1>n, <1>c
<1>3. replies[1].id + Q = seqno + 1
  BY <1>1 DEF Aligned, FirstReply
<1>4. R > 1 => replies[2].id = replies[1].id + 1
  BY <1>n DEF Aligned, RepliesFollow, Follows
<1>5. CASE R = 1
  <2>1. replies[1].id + L = seqno
    BY <1>5, <1>1 DEF Aligned, LastReply
  <2> QED
    BY <2>1, <1>2, <1>3, <1>n
<1>6. CASE R > 1
  <2>1. /\ replies[R].id \in Nat /\ replies[2].id \in Nat
        /\ replies[2].id <= replies[R].id
    BY <1>6, <1>n, <1>c DEF Aligned, RepliesOrdered
  <2>2. replies[R].id + L <= seqno + 1
    <3>1. \/ replies[R].id + L = seqno
          \/ replies[R].id + L = seqno + 1
      BY <1>1 DEF Aligned, LastReply
    <3> QED
      BY <3>1, <2>1, <1>n
  <2> QED
    BY <1>6, <2>1, <2>2, <1>2, <1>3, <1>4, <1>n, SMTT(30)
<1>7. R = 1 \/ R > 1
  BY <1>1, <1>n, OneOrMore
<1> QED
  BY <1>5, <1>6, <1>7

LEMMA PopAligned ==
  ASSUME TypeOK, Aligned,
         NEW st, NEW kinds, Consume(st, kinds), IsLast(replies[1].kind),
         op_queue' = Tail(op_queue),
         UNCHANGED <<requests, served, command, seqno>>,
         StateFitsHead',
         read_state' \notin {"WAITING_FOR_GET_DATA", "WAITING_FOR_END"}
  PROVE  Aligned'
<1> DEFINE Q == Len(op_queue)
           L == Len(requests)
           R == Len(replies)
<1>n. Q \in Nat /\ L \in Nat /\ R \in Nat /\ seqno \in Nat
  BY Elements
<1>a. \A i \in 1..Q : op_queue[i].id \in Nat
  BY Elements
<1>b. \A i \in 1..L : requests[i].id \in Nat
  BY Elements
<1>c. \A i \in 1..R : replies[i].id \in Nat
  BY Elements
<1>1. replies # <<>> /\ R > 0
  BY ConsumeType, Elements
<1>r. R = 1 \/ R > 1
  <2>1. R \in Nat /\ R > 0
    BY <1>1, <1>n
  <2> QED
    BY <2>1, OneOrMore
<1>2. replies[1].id \in Nat
  BY <1>1, <1>n, <1>c
<1>3. replies[1].id + Q = seqno + 1 /\ replies[1].id <= seqno
  <2>1. replies[1].id + Q = seqno + 1
    BY <1>1 DEF Aligned, FirstReply
  <2>2. replies[1].id + Q <= seqno + Q
    BY <1>1, <1>n DEF Aligned, RepliesFit
  <2> QED
    BY <2>1, <2>2, <1>2, <1>n
<1>4. Q >= 1 /\ op_queue # <<>>
  <2>1. Q >= 1
    BY <1>2, <1>3, <1>n
  <2> QED
    BY <2>1, Elements
<1>5. /\ Len(op_queue') = Q - 1
      /\ \A i \in 1..Q - 1 : op_queue'[i] = op_queue[i + 1]
  BY <1>4, HeadTailProperties DEF TypeOK
<1>6. /\ replies' \in Seq(Reply)
      /\ Len(replies') = R - 1
      /\ \A i \in 1..R - 1 : replies'[i] = replies[i + 1]
  BY <1>1, HeadTailProperties DEF TypeOK, Consume
<1>7. /\ seqno' = seqno /\ requests' = requests /\ served' = served
      /\ command' = command
  OBVIOUS
<1>8. replies' = <<>> <=> R = 1
  BY <1>6, <1>n, EmptySeq, LenProperties
<1>9. R > 1 => replies[2].id = replies[1].id + 1 /\ replies[2].kind # "DATA"
  BY <1>n DEF Aligned, RepliesFollow, Follows
<1>10. L <= Q - 1
  BY AnsweredHead, <1>n
<1>11. QueueIds'
  <2>1. Q - 1 <= seqno
    BY <1>n DEF Aligned, QueueIds
  <2>2. ASSUME NEW i \in 1..Q - 1
        PROVE  op_queue[i + 1].id + (Q - 1) = seqno + i
    <3> DEFINE id == op_queue[i + 1].id
    <3>1. i + 1 \in 1..Q
      BY <1>n
    <3>2. id \in Nat /\ id + Q = seqno + (i + 1)
      BY <3>1, <1>a DEF Aligned, QueueIds
    <3>3. i \in Nat /\ Q \in Nat /\ seqno \in Nat
      BY <1>n
    <3>4. id + (Q - 1) = seqno + i
      <4> HIDE DEF id, Q
      <4> QED
        BY <3>2, <3>3
    <3> QED
      BY <3>4
  <2> QED
    BY <2>1, <2>2, <1>5, <1>7 DEF QueueIds
<1>12. RequestIds'
  <2>1. ASSUME NEW i \in 1..L
        PROVE  op_queue'[i + ((Q - 1) - L)] = op_queue[i + (Q - L)]
    <3>1. /\ i + ((Q - 1) - L) \in 1..Q - 1
          /\ (i + ((Q - 1) - L)) + 1 = i + (Q - L)
      BY <1>10, <1>n
    <3> QED
      BY <3>1, <1>5
  <2>2. /\ ~command
        /\ \A i \in 1..L : requests[i].id + L = seqno + i
        /\ \A i \in 1..L : requests[i].type = op_queue[i + (Q - L)].type
        /\ \A i \in 1..L : Binary => requests[i].n_req = 1
        /\ served > 0 => /\ requests # <<>>
                         /\ requests[1].type = "GET"
                         /\ ~Binary
    BY DEF Aligned, RequestIds
  <2> QED
    BY <2>1, <2>2, <1>5, <1>7, <1>10 DEF RequestIds
<1>13. RepliesFit'
  <2> SUFFICES ASSUME NEW i \in 1..R - 1
               PROVE  /\ replies[i + 1].id + (Q - 1) > seqno
                      /\ replies[i + 1].id + (Q - 1) <= seqno + (Q - 1)
                      /\ Fits(replies[i + 1].kind,
                              op_queue'[(replies[i + 1].id + (Q - 1))
                                          - seqno].type)
    BY <1>5, <1>6, <1>7 DEF RepliesFit
  <2> DEFINE r == replies[i + 1]
  <2>1. i + 1 \in 1..R /\ 2 \in 1..R /\ 2 <= i + 1 /\ R > 1
    BY <1>n
  <2>2. r.id \in Nat
    BY <2>1, <1>c
  <2>3. replies[2].id <= r.id
    BY <2>1 DEF Aligned, RepliesOrdered
  <2>4. /\ r.id + Q <= seqno + Q
        /\ Fits(r.kind, op_queue[(r.id + Q) - seqno].type)
    BY <2>1 DEF Aligned, RepliesFit
  <2>5. r.id >= replies[1].id + 1
    BY <2>1, <2>3, <1>9
  <2>6. /\ r.id + (Q - 1) > seqno
        /\ r.id + (Q - 1) <= seqno + (Q - 1)
        /\ (r.id + (Q - 1)) - seqno \in 1..Q - 1
        /\ ((r.id + (Q - 1)) - seqno) + 1 = (r.id + Q) - seqno
    <3>1. r.id + Q <= seqno + Q /\ Q \in Nat /\ seqno \in Nat
      BY <2>4, <1>n
    <3>2. r.id + Q > seqno + 1
      BY <3>1, <2>2, <2>5, <1>2, <1>3
    <3> DEFINE id == r.id
    <3>3. id \in Nat /\ id + Q <= seqno + Q /\ id + Q > seqno + 1
      BY <3>1, <3>2, <2>2
    <3>4. Q \in Nat /\ seqno \in Nat
      BY <3>1
    <3> HIDE DEF id, Q
    <3>5. id + (Q - 1) > seqno /\ id <= seqno
      BY <3>3, <3>4
    <3>6. id + (Q - 1) <= seqno + (Q - 1)
      BY <3>3, <3>4
    <3>7. (id + (Q - 1)) - seqno \in 1..Q - 1
      BY <3>3, <3>4
    <3>8. ((id + (Q - 1)) - seqno) + 1 = (id + Q) - seqno
      BY <3>3, <3>4
    <3> QED
      BY <3>5, <3>6, <3>7, <3>8 DEF id
  <2>7. op_queue'[(r.id + (Q - 1)) - seqno] = op_queue[(r.id + Q) - seqno]
    BY <2>6, <1>5
  <2> QED
    BY <2>4, <2>6, <2>7
<1>14. RepliesFollow'
  <2>1. ASSUME NEW i \in 1..(R - 1) - 1
        PROVE  Follows(replies'[i + 1], replies'[i])
    <3>1. /\ i \in 1..R - 1 /\ i + 1 \in 1..R - 1
      BY <1>n
    <3>2. /\ replies'[i] = replies[i + 1]
          /\ replies'[i + 1] = replies[(i + 1) + 1]
      BY <3>1, <1>6
    <3> QED
      BY <3>1, <3>2 DEF Aligned, RepliesFollow
  <2> QED
    BY <2>1, <1>6 DEF RepliesFollow, Follows
<1>15. RepliesOrdered'
  <2>1. ASSUME NEW i \in 1..R - 1, NEW j \in 1..R - 1, i <= j
        PROVE  replies'[i].id <= replies'[j].id
    <3>1. /\ i + 1 \in 1..R /\ j + 1 \in 1..R /\ i + 1 <= j + 1
      BY <2>1, <1>n
    <3>2. replies[i + 1].id <= replies[j + 1].id
      BY <3>1 DEF Aligned, RepliesOrdered
    <3> QED
      BY <3>2, <1>6
  <2> QED
    BY <2>1, <1>6 DEF RepliesOrdered
<1>16. FirstReply'
  <2>1. CASE R = 1
    BY <2>1, <1>8 DEF FirstReply
  <2>2. CASE R > 1
    <3>1. replies'[1] = replies[2]
      BY <2>2, <1>6, <1>n
    <3>2. replies[2].id + (Q - 1) = seqno + 1
      <4>1. replies[2].id = replies[1].id + 1
        BY <2>2, <1>9
      <4>2. replies[2].id \in Nat
        BY <4>1, <1>2
      <4> DEFINE a == replies[2].id
                 b == replies[1].id
      <4>3. a \in Nat /\ b \in Nat /\ Q \in Nat /\ seqno \in Nat
        BY <4>2, <1>2, <1>n
      <4>4. a = b + 1 /\ b + Q = seqno + 1
        BY <4>1, <1>3
      <4> HIDE DEF a, b, Q
      <4>5. a + (Q - 1) = seqno + 1
        BY <4>3, <4>4
      <4> QED
        BY <4>5 DEF a
    <3> QED
      BY <2>2, <3>1, <3>2, <1>5, <1>7, <1>9 DEF FirstReply
  <2> QED
    BY <2>1, <2>2, <1>r
<1>17. LastReply'
  <2>1. CASE R = 1
    <3>1. replies' = <<>>
      BY <2>1, <1>8
    <3>2. served = 0 /\ replies[1].id + L = seqno
      BY <2>1, <1>1 DEF Aligned, LastReply
    <3>3. L = Q - 1
      BY <3>2, <1>2, <1>3, <1>n
    <3> QED
      BY <3>1, <3>2, <3>3, <1>5, <1>7 DEF LastReply
  <2>2. CASE R > 1
    <3>1. replies'[Len(replies')] = replies[R] /\ replies' # <<>>
      BY <2>2, <1>6, <1>8, <1>n
    <3> QED
      BY <3>1, <1>1, <1>7 DEF Aligned, LastReply
  <2> QED
    BY <2>1, <2>2, <1>r
<1> QED
  BY <1>11, <1>12, <1>13, <1>14, <1>15, <1>16, <1>17 DEF Aligned
-----------------------------------------------------------------------------
(* A unit is consumed that does not end a reply.                           *)

LEMMA MidAligned ==
  ASSUME TypeOK, Aligned, op_queue' \in Seq(Op),
         NEW st, NEW kinds, Consume(st, kinds),
         replies[1].kind \in {"VALUE", "DATA"}, ~Binary,
         read_state \in {"WAITING_FOR_GET", "WAITING_FOR_GET_DATA",
                         "WAITING_FOR_END"},
         Len(op_queue') = Len(op_queue),
         \A i \in 1..Len(op_queue) : /\ op_queue'[i].id = op_queue[i].id
                                     /\ op_queue'[i].type = op_queue[i].type,
         UNCHANGED <<requests, served, command, seqno>>,
         read_state' = IF replies[1].kind = "DATA"
                       THEN "WAITING_FOR_END" ELSE "WAITING_FOR_GET_DATA"
  PROVE  Aligned'
<1> DEFINE Q == Len(op_queue)
           L == Len(requests)
           R == Len(replies)
<1>n. Q \in Nat /\ L \in Nat /\ R \in Nat /\ seqno \in Nat
  BY Elements
<1>c. \A i \in 1..R : replies[i].id \in Nat
  BY Elements
<1>1. replies # <<>> /\ R > 0
  BY ConsumeType, Elements
<1>r. R = 1 \/ R > 1
  <2>1. R \in Nat /\ R > 0
    BY <1>1, <1>n
  <2> QED
    BY <2>1, OneOrMore
<1>2. op_queue # <<>> /\ Q > 0 /\ op_queue[1].type = "GET"
  <2>1. op_queue # <<>> /\ op_queue[1].type = "GET"
    BY DEF Aligned, StateFitsHead
  <2> QED
    BY <2>1, Elements
<1>3. /\ Len(op_queue') = Q /\ op_queue' # <<>>
      /\ op_queue'[1].type = "GET"
  BY <1>2, <1>n, EmptySeq
<1>4. \A i \in 1..Q : /\ op_queue'[i].id = op_queue[i].id
                      /\ op_queue'[i].type = op_queue[i].type
  OBVIOUS
<1>6. /\ Len(replies') = R - 1
      /\ \A i \in 1..R - 1 : replies'[i] = replies[i + 1]
  BY <1>1, HeadTailProperties DEF TypeOK, Consume
<1>7. /\ seqno' = seqno /\ requests' = requests /\ served' = served
      /\ command' = command
  OBVIOUS
<1>8. replies' = <<>> <=> R = 1
  <2>1. replies' \in Seq(Reply)
    BY ConsumeType
  <2> QED
    BY <2>1, <1>6, <1>n, EmptySeq, LenProperties
<1>9. ~IsLast(replies[1].kind)
  BY DEF IsLast
<1>10. R > 1 => /\ replies[2].id = replies[1].id
                /\ replies[2].kind = "DATA" <=> replies[1].kind = "VALUE"
  BY <1>9, <1>n DEF Aligned, RepliesFollow, Follows
<1>11. QueueIds'
  BY <1>3, <1>4, <1>7 DEF Aligned, QueueIds
<1>12. RequestIds'
  <2>1. L <= Q
    BY DEF Aligned, RequestIds
  <2>2. ASSUME NEW i \in 1..L
        PROVE  op_queue'[i + (Q - L)].type = op_queue[i + (Q - L)].type
    <3>1. i + (Q - L) \in 1..Q
      BY <2>1, <1>n
    <3> QED
      BY <3>1, <1>4
  <2> QED
    BY <2>2, <1>3, <1>7 DEF Aligned, RequestIds
<1>13. StateFitsHead'
  BY <1>3 DEF StateFitsHead
<1>14. RepliesFit'
  <2> SUFFICES ASSUME NEW i \in 1..R - 1
               PROVE  /\ replies[i + 1].id + Q > seqno
                      /\ replies[i + 1].id + Q <= seqno + Q
                      /\ Fits(replies[i + 1].kind,
                              op_queue'[(replies[i + 1].id + Q)
                                          - seqno].type)
    BY <1>3, <1>6, <1>7 DEF RepliesFit
  <2> DEFINE r == replies[i + 1]
  <2>1. i + 1 \in 1..R
    BY <1>n
  <2>2. r.id \in Nat
    BY <2>1, <1>c
  <2>3. /\ r.id + Q > seqno /\ r.id + Q <= seqno + Q
        /\ Fits(r.kind, op_queue[(r.id + Q) - seqno].type)
    BY <2>1 DEF Aligned, RepliesFit
  <2>4. (r.id + Q) - seqno \in 1..Q
    BY <2>2, <2>3, <1>n
  <2> QED
    BY <2>3, <2>4, <1>4
<1>15. RepliesFollow'
  <2>1. ASSUME NEW i \in 1..(R - 1) - 1
        PROVE  Follows(replies'[i + 1], replies'[i])
    <3>1. /\ i \in 1..R - 1 /\ i + 1 \in 1..R - 1
      BY <1>n
    <3>2. /\ replies'[i] = replies[i + 1]
          /\ replies'[i + 1] = replies[(i + 1) + 1]
      BY <3>1, <1>6
    <3> QED
      BY <3>1, <3>2 DEF Aligned, RepliesFollow
  <2> QED
    BY <2>1, <1>6 DEF RepliesFollow, Follows
<1>16. RepliesOrdered'
  <2>1. ASSUME NEW i \in 1..R - 1, NEW j \in 1..R - 1, i <= j
        PROVE  replies'[i].id <= replies'[j].id
    <3>1. /\ i + 1 \in 1..R /\ j + 1 \in 1..R /\ i + 1 <= j + 1
      BY <2>1, <1>n
    <3>2. replies[i + 1].id <= replies[j + 1].id
      BY <3>1 DEF Aligned, RepliesOrdered
    <3> QED
      BY <3>2, <1>6
  <2> QED
    BY <2>1, <1>6 DEF RepliesOrdered
<1>17. FirstReply'
  <2>1. CASE R = 1
    BY <2>1, <1>8 DEF FirstReply
  <2>2. CASE R > 1
    <3>1. replies'[1] = replies[2]
      BY <2>2, <1>6, <1>n
    <3>2. replies[1].id + Q = seqno + 1
      BY <1>1 DEF Aligned, FirstReply
    <3>3. replies[2].kind = "DATA" <=> read_state' = "WAITING_FOR_GET_DATA"
      BY <2>2, <1>10
    <3> QED
      BY <2>2, <3>1, <3>2, <3>3, <1>3, <1>7, <1>10 DEF FirstReply
  <2> QED
    BY <2>1, <2>2, <1>r
<1>18. LastReply'
  <2>1. CASE R = 1
    <3>1. replies' = <<>>
      BY <2>1, <1>8
    <3>2. /\ served > 0 /\ replies[1].kind = "DATA"
          /\ replies[1].id + L = seqno + 1
      BY <2>1, <1>1, <1>9 DEF Aligned, LastReply
    <3>3. replies[1].id + Q = seqno + 1
      BY <1>1 DEF Aligned, FirstReply
    <3>4. replies[1].id \in Nat
      BY <1>1, <1>n, <1>c
    <3>5. L = Q
      BY <3>2, <3>3, <3>4, <1>n
    <3> QED
      BY <3>1, <3>2, <3>5, <1>3, <1>7 DEF LastReply
  <2>2. CASE R > 1
    <3>1. replies'[Len(replies')] = replies[R] /\ replies' # <<>>
      BY <2>2, <1>6, <1>8, <1>n
    <3> QED
      BY <3>1, <1>1, <1>7 DEF Aligned, LastReply
  <2> QED
    BY <2>1, <2>2, <1>r
<1> QED
  BY <1>11, <1>12, <1>13, <1>14, <1>15, <1>16, <1>17, <1>18 DEF Aligned

-----------------------------------------------------------------------------
(* The server answers.                                                     *)

\* One or two units answer the first request.
LEMMA SendAligned ==
  ASSUME TypeOK, Aligned, requests # <<>>,
         replies' \in Seq(Reply),
         NEW m \in {1, 2}, Len(replies') = Len(replies) + m,
         \A i \in 1..Len(replies) : replies'[i] = replies[i],
         \A i \in 1..m :
           /\ replies'[Len(replies) + i].id = requests[1].id
           /\ Fits(replies'[Len(replies) + i].kind, requests[1].type),
         replies'[Len(replies) + 1].kind # "DATA",
         m = 2 => /\ replies'[Len(replies) + 1].kind = "VALUE"
                  /\ replies'[Len(replies) + 2].kind = "DATA",
         UNCHANGED <<op_queue, seqno, read_state>>
  PROVE  RepliesFit' /\ RepliesFollow' /\ RepliesOrdered' /\ FirstReply'
<1> DEFINE Q == Len(op_queue)
           L == Len(requests)
           R == Len(replies)
           id == requests[1].id
<1>n. Q \in Nat /\ L \in Nat /\ R \in Nat /\ seqno \in Nat
  BY Elements
<1>c. \A i \in 1..R : replies[i].id \in Nat
  BY Elements
<1>1. L > 0 /\ id \in Nat
  BY Elements
<1>2. /\ id + L = seqno + 1 /\ L <= Q
      /\ requests[1].type = op_queue[1 + (Q - L)].type
  BY <1>1, <1>n DEF Aligned, RequestIds
<1>3. /\ id + Q > seqno /\ id + Q <= seqno + Q
      /\ (id + Q) - seqno = 1 + (Q - L)
  BY <1>1, <1>2, <1>n
<1>4. op_queue' = op_queue /\ seqno' = seqno /\ read_state' = read_state
  OBVIOUS
<1>5. Len(replies') = R + m /\ replies' # <<>>
  BY <1>n, EmptySeq
<1>6. \A i \in 1..R + m : i \in 1..R \/ (i = R + 1 \/ (m = 2 /\ i = R + 2))
  BY <1>n
<1>7. \A i \in 1..R : replies'[i] = replies[i]
  OBVIOUS
<1>8. /\ replies'[R + 1].id = id
      /\ m = 2 => replies'[R + 2].id = id
      /\ Fits(replies'[R + 1].kind, requests[1].type)
      /\ m = 2 => Fits(replies'[R + 2].kind, requests[1].type)
  BY <1>n
<1>9. RepliesFit'
  <2>1. ASSUME NEW i \in 1..R + m
        PROVE  /\ replies'[i].id + Q > seqno
               /\ replies'[i].id + Q <= seqno + Q
               /\ Fits(replies'[i].kind,
                       op_queue[(replies'[i].id + Q) - seqno].type)
    <3>1. CASE i \in 1..R
      BY <3>1, <1>7 DEF Aligned, RepliesFit
    <3>2. CASE i = R + 1
      BY <3>2, <1>2, <1>3, <1>8
    <3>3. CASE m = 2 /\ i = R + 2
      BY <3>3, <1>2, <1>3, <1>8
    <3> QED
      BY <3>1, <3>2, <3>3, <1>6
  <2> QED
    BY <2>1, <1>4, <1>5 DEF RepliesFit, Fits
\* The units sent before answer this request or earlier ones.
<1>10. R > 0 => /\ replies[R].id <= id
                /\ Follows(replies'[R + 1], replies[R])
  <2> SUFFICES ASSUME R > 0
               PROVE  /\ replies[R].id <= id
                      /\ Follows(replies'[R + 1], replies[R])
    OBVIOUS
  <2>1. replies # <<>> /\ replies[R].id \in Nat
    BY <1>n, <1>c, Elements
  <2>2. CASE IsLast(replies[R].kind)
    <3>1. replies[R].id + L = seqno
      BY <2>1, <2>2 DEF Aligned, LastReply
    <3>2. id = replies[R].id + 1
      <4>1. /\ id \in Nat /\ replies[R].id \in Nat /\ L \in Nat
            /\ seqno \in Nat /\ id + L = seqno + 1
        BY <2>1, <1>1, <1>2, <1>n
      <4> HIDE DEF id
      <4> QED
        BY <3>1, <4>1
    <3>3. replies[R].id <= id
      BY <3>2, <2>1
    <3> QED
      BY <3>2, <3>3, <2>2, <1>8 DEF Follows
  <2>3. CASE ~IsLast(replies[R].kind)
    <3>1. replies[R].kind = "DATA" /\ replies[R].id + L = seqno + 1
      BY <2>1, <2>3 DEF Aligned, LastReply
    <3>2. id = replies[R].id
      BY <3>1, <2>1, <1>1, <1>2, <1>n
    <3>3. replies[R].id <= id
      BY <3>2, <2>1
    <3> QED
      BY <3>1, <3>2, <3>3, <2>3, <1>8 DEF Follows
  <2> QED
    BY <2>2, <2>3
<1>11. RepliesFollow'
  <2>1. ASSUME NEW i \in 1..(R + m) - 1
        PROVE  Follows(replies'[i + 1], replies'[i])
    <3>1. CASE i \in 1..R - 1
      <4>1. replies'[i] = replies[i] /\ replies'[i + 1] = replies[i + 1]
        BY <3>1, <1>7, <1>n
      <4> QED
        BY <4>1, <3>1 DEF Aligned, RepliesFollow
    <3>2. CASE i = R
      BY <3>2, <1>7, <1>10, <1>n
    <3>3. CASE m = 2 /\ i = R + 1
      <4>1. replies'[i + 1] = replies'[R + 2] /\ replies'[i] = replies'[R + 1]
        BY <3>3, <1>n
      <4> QED
        BY <4>1, <3>3, <1>8 DEF Follows, IsLast
    <3> QED
      BY <3>1, <3>2, <3>3, <1>n
  <2> QED
    BY <2>1, <1>5 DEF RepliesFollow, Follows
<1>12. RepliesOrdered'
  <2>1. ASSUME NEW i \in 1..R PROVE replies[i].id <= id
    <3>1. replies[i].id <= replies[R].id /\ R \in 1..R
      BY <1>n DEF Aligned, RepliesOrdered
    <3>2. replies[i].id \in Nat /\ replies[R].id \in Nat /\ R > 0
      BY <3>1, <1>c, <1>n
    <3> QED
      BY <3>1, <3>2, <1>1, <1>10
  <2>2. ASSUME NEW i \in 1..R + m, NEW j \in 1..R + m, i <= j
        PROVE  replies'[i].id <= replies'[j].id
    <3>1. CASE j \in 1..R
      <4>1. i \in 1..R
        BY <2>2, <3>1, <1>n
      <4> QED
        BY <4>1, <3>1, <2>2, <1>7 DEF Aligned, RepliesOrdered
    <3>2. CASE j \notin 1..R
      <4>1. replies'[j].id = id
        BY <3>2, <1>6, <1>8
      <4>2. replies'[i].id <= id
        <5>1. CASE i \in 1..R
          BY <5>1, <2>1, <1>7
        <5>2. CASE i \notin 1..R
          BY <5>2, <1>1, <1>6, <1>8
        <5> QED
          BY <5>1, <5>2
      <4> QED
        BY <4>1, <4>2
    <3> QED
      BY <3>1, <3>2
  <2> QED
    BY <2>2, <1>5 DEF RepliesOrdered
<1>13. FirstReply'
  <2>1. CASE R = 0
    <3>1. replies = <<>>
      BY <2>1, Elements
    <3>2. L = Q /\ read_state # "WAITING_FOR_GET_DATA"
      BY <3>1 DEF Aligned, LastReply
    <3>3. replies'[1].id = id /\ replies'[1].kind # "DATA"
      BY <2>1, <1>8
    <3> QED
      BY <3>2, <3>3, <1>2, <1>4 DEF FirstReply
  <2>2. CASE R > 0
    <3>1. replies'[1] = replies[1] /\ replies # <<>>
      BY <2>2, <1>7, <1>n, Elements
    <3> QED
      BY <3>1, <1>4 DEF Aligned, FirstReply
  <2> QED
    BY <2>1, <2>2, <1>n
<1> QED
  BY <1>9, <1>11, <1>12, <1>13
LEMMA ServeValueAligned ==
  ASSUME TypeOK, Aligned, TypeOK', ServeValue
  PROVE  Aligned'
<1> DEFINE R == Len(replies)
           req == Head(requests)
           u == Unit("VALUE", req.id)
           w == Unit("DATA", req.id)
<1>n. R \in Nat /\ served \in Nat
  BY Elements DEF TypeOK
<1>1. requests # <<>> /\ Len(requests) > 0
  BY Elements DEF ServeValue
<1>2. req = requests[1] /\ req \in Request
  BY <1>1, HeadTailProperties DEF TypeOK
<1>3. req.type = "GET" /\ req.id \in Nat
  BY <1>2 DEF ServeValue, Request
<1>4. ~Binary
  <2>1. Binary => req.n_req = 1
    BY <1>1, <1>2, Elements DEF Aligned, RequestIds
  <2> QED
    BY <2>1 DEF ServeValue
<1>5. u \in Reply /\ w \in Reply
  BY <1>3, UnitType DEF ReplyKinds
<1>6. /\ u.kind = "VALUE" /\ u.id = req.id
      /\ w.kind = "DATA" /\ w.id = req.id
  BY DEF Unit
<1>7. replies' = Append(Append(replies, u), w)
  BY <1>4 DEF ServeValue
<1> HIDE DEF u, w
<1>8. /\ Append(replies, u) \in Seq(Reply)
      /\ Len(Append(replies, u)) = R + 1
      /\ Append(replies, u)[R + 1] = u
      /\ \A i \in 1..R : Append(replies, u)[i] = replies[i]
  BY <1>5, AppendProperties DEF TypeOK
<1>9. /\ replies' \in Seq(Reply)
      /\ Len(replies') = (R + 1) + 1
      /\ replies'[(R + 1) + 1] = w
      /\ \A i \in 1..R + 1 : replies'[i] = Append(replies, u)[i]
  BY <1>5, <1>7, <1>8, AppendProperties
<1>10. /\ Len(replies') = R + 2
       /\ replies'[R + 1] = u /\ replies'[R + 2] = w
       /\ \A i \in 1..R : replies'[i] = replies[i]
  BY <1>8, <1>9, <1>n
<1>11. UNCHANGED <<op_queue, seqno, read_state, requests, command>>
       /\ served' = served + 1
  BY DEF ServeValue, readVars, serverVars
<1>12. \A i \in 1..2 :
         /\ replies'[R + i].id = requests[1].id
         /\ Fits(replies'[R + i].kind, requests[1].type)
  <2>1. Fits("VALUE", requests[1].type) /\ Fits("DATA", requests[1].type)
    BY <1>2, <1>3, <1>4 DEF Fits
  <2> QED
    BY <2>1, <1>2, <1>6, <1>10
<1>13. RepliesFit' /\ RepliesFollow' /\ RepliesOrdered' /\ FirstReply'
  BY <1>1, <1>6, <1>9, <1>10, <1>11, <1>12, SendAligned
<1>14. QueueIds' /\ StateFitsHead'
  BY <1>11 DEF Aligned, QueueIds, StateFitsHead
<1>15. RequestIds'
  BY <1>1, <1>2, <1>3, <1>4, <1>11 DEF Aligned, RequestIds
<1>16. LastReply'
  <2>1. replies' # <<>> /\ replies'[Len(replies')] = w
    BY <1>9, <1>10, <1>n, EmptySeq
  <2>2. ~IsLast(w.kind) /\ served' > 0
    BY <1>6, <1>11, <1>n DEF IsLast
  <2>3. requests[1].id + Len(requests) = seqno + 1
    BY <1>1, Elements DEF Aligned, RequestIds
  <2> QED
    BY <2>1, <2>2, <2>3, <1>2, <1>6, <1>11 DEF LastReply
<1> QED
  BY <1>13, <1>14, <1>15, <1>16 DEF Aligned

LEMMA ServeLastAligned ==
  ASSUME TypeOK, Aligned, TypeOK', ServeLast
  PROVE  Aligned'
<1> DEFINE Q == Len(op_queue)
           L == Len(requests)
           R == Len(replies)
           req == Head(requests)
           u == Unit(LastKind(req.type), req.id)
<1>n. Q \in Nat /\ L \in Nat /\ R \in Nat /\ seqno \in Nat
  BY Elements
<1>1. requests # <<>> /\ L > 0
  BY Elements DEF ServeLast
<1>2. req = requests[1] /\ req \in Request
  BY <1>1, HeadTailProperties DEF TypeOK
<1>3. req.type \in OpTypes /\ req.id \in Nat
  BY <1>2 DEF Request
<1>4. /\ u.kind = LastKind(req.type) /\ u.id = req.id /\ u \in Reply
      /\ u.kind \in {"END", "STORED", "RESP"}
      /\ Fits(u.kind, req.type)
  <2>1. LastKind(req.type) \in {"END", "STORED", "RESP"}
    BY DEF LastKind
  <2>2. Fits(LastKind(req.type), req.type)
    BY <1>3 DEF LastKind, Fits, OpTypes
  <2>3. u \in Reply
    BY <2>1, <1>3, UnitType DEF ReplyKinds
  <2> QED
    BY <2>1, <2>2, <2>3 DEF Unit
<1>5. replies' = Append(replies, u)
  BY DEF ServeLast
<1>6. /\ UNCHANGED <<op_queue, seqno, read_state, command>>
      /\ served' = 0 /\ requests' = Tail(requests)
  BY DEF ServeLast, readVars
<1> HIDE DEF u
<1>7. /\ replies' \in Seq(Reply)
      /\ Len(replies') = R + 1
      /\ replies'[R + 1] = u
      /\ \A i \in 1..R : replies'[i] = replies[i]
  BY <1>4, <1>5, AppendProperties DEF TypeOK
<1>8. /\ Len(requests') = L - 1
      /\ \A i \in 1..L - 1 : requests'[i] = requests[i + 1]
  BY <1>1, <1>6, HeadTailProperties DEF TypeOK
<1>9. RepliesFit' /\ RepliesFollow' /\ RepliesOrdered' /\ FirstReply'
  <2>1. \A i \in 1..1 :
          /\ replies'[R + i].id = requests[1].id
          /\ Fits(replies'[R + i].kind, requests[1].type)
    BY <1>2, <1>4, <1>7
  <2>2. replies'[R + 1].kind # "DATA"
    BY <1>4, <1>7
  <2> QED
    BY <2>1, <2>2, <1>1, <1>6, <1>7, SendAligned
<1>10. QueueIds' /\ StateFitsHead'
  BY <1>6 DEF Aligned, QueueIds, StateFitsHead
<1>11. RequestIds'
  <2>1. L <= Q /\ ~command
    BY DEF Aligned, RequestIds
  <2>2. ASSUME NEW i \in 1..L - 1
        PROVE  /\ requests'[i].id + (L - 1) = seqno + i
               /\ requests'[i].type = op_queue[i + (Q - (L - 1))].type
               /\ Binary => requests'[i].n_req = 1
    <3>1. /\ i + 1 \in 1..L
          /\ (i + 1) + (Q - L) = i + (Q - (L - 1))
      BY <2>1, <1>n
    <3>2. requests[i + 1].id \in Nat
      BY <3>1, Elements
    <3>3. /\ requests[i + 1].id + L = seqno + (i + 1)
          /\ requests[i + 1].type = op_queue[(i + 1) + (Q - L)].type
      BY <3>1 DEF Aligned, RequestIds
    <3>4. Binary => requests[i + 1].n_req = 1
      BY <3>1 DEF Aligned, RequestIds
    <3>5. requests'[i] = requests[i + 1]
      BY <1>8
    <3>6. requests[i + 1].id + (L - 1) = seqno + i
      <4>1. i \in Nat /\ L \in Nat /\ seqno \in Nat
        BY <1>n
      <4> QED
        BY <3>2, <3>3, <4>1
    <3> QED
      BY <3>1, <3>3, <3>4, <3>5, <3>6
  <2>3. L - 1 <= Q
    BY <2>1, <1>n
  <2> QED
    BY <2>1, <2>2, <2>3, <1>6, <1>8 DEF RequestIds
<1>12. LastReply'
  <2>1. replies' # <<>> /\ replies'[Len(replies')] = u
    BY <1>7, <1>n, EmptySeq
  <2>2. requests[1].id + L = seqno + 1
    BY <1>1, <1>n DEF Aligned, RequestIds
  <2>3. u.id + (L - 1) = seqno
    BY <2>2, <1>2, <1>3, <1>4, <1>n
  <2> QED
    BY <2>1, <2>3, <1>4, <1>6, <1>8 DEF LastReply, IsLast
<1> QED
  BY <1>9, <1>10, <1>11, <1>12 DEF Aligned
-----------------------------------------------------------------------------
(* The actions.                                                            *)

\* Nothing is in the stream of a connection without operations.
LEMMA Drained ==
  ASSUME TypeOK, Aligned, op_queue = <<>>
  PROVE  requests = <<>> /\ replies = <<>> /\ ~command
<1>1. Len(op_queue) = 0
  BY Elements
<1>2. Len(requests) = 0
  BY <1>1, Elements DEF Aligned, RequestIds
<1>3. Len(replies) = 0
  <2>1. ASSUME 1 \in 1..Len(replies) PROVE FALSE
    <3>1. replies[1].id \in Nat /\ seqno \in Nat
      BY <2>1, Elements
    <3>2. replies[1].id + 0 > seqno /\ replies[1].id + 0 <= seqno + 0
      BY <2>1, <1>1 DEF Aligned, RepliesFit
    <3> QED
      BY <3>1, <3>2
  <2> QED
    BY <2>1, Elements
<1> QED
  BY <1>2, <1>3, Elements DEF Aligned, RequestIds

\* A connection without operations may become idle or start to load, and ids
\* may start again.
LEMMA EmptyAligned ==
  ASSUME TypeOK, Aligned, op_queue = <<>>,
         UNCHANGED <<op_queue, requests, served, replies>>,
         seqno' \in Nat, ~command',
         read_state \in {"INIT_READ", "WAITING_FOR_SASL", "IDLE"},
         read_state' \in {"INIT_READ", "WAITING_FOR_SASL", "IDLE", "LOADING"}
  PROVE  Aligned'
<1>1. /\ requests = <<>> /\ replies = <<>>
      /\ Len(op_queue) = 0 /\ Len(requests) = 0 /\ Len(replies) = 0
  BY Drained, Elements
<1>2. served = 0
  <2>1. ~(served > 0)
    BY <1>1 DEF Aligned, LastReply
  <2> QED
    BY <2>1 DEF TypeOK
<1>3. QueueIds' /\ StateFitsHead'
  BY <1>1 DEF QueueIds, StateFitsHead
<1>4. RequestIds'
  BY <1>1, <1>2 DEF RequestIds
<1>5. RepliesFit' /\ RepliesFollow' /\ RepliesOrdered' /\ FirstReply'
  BY <1>1 DEF RepliesFit, RepliesFollow, RepliesOrdered, FirstReply
<1>6. LastReply'
  BY <1>1, <1>2 DEF LastReply
<1> QED
  BY <1>3, <1>4, <1>5, <1>6 DEF Aligned

\* What the first unit is, for each state that waits for one.
LEMMA FirstUnit ==
  ASSUME TypeOK, Aligned, NEW st, NEW kinds, Consume(st, kinds),
         op_queue # <<>>
  PROVE  /\ Fits(replies[1].kind, op_queue[1].type)
         /\ replies[1].kind = "DATA" <=> read_state = "WAITING_FOR_GET_DATA"
<1>1. replies # <<>> /\ 1 \in 1..Len(replies)
  BY ConsumeType, Elements
<1>2. /\ replies[1].id \in Nat /\ seqno \in Nat /\ Len(op_queue) \in Nat
  BY <1>1, Elements
<1>3. replies[1].id + Len(op_queue) = seqno + 1
  BY <1>1 DEF Aligned, FirstReply
<1>4. (replies[1].id + Len(op_queue)) - seqno = 1
  BY <1>2, <1>3
<1> QED
  BY <1>1, <1>4 DEF Aligned, RepliesFit, FirstReply

\* Popping the head leaves the state that its successor waits in.
LEMMA PopState ==
  ASSUME TypeOK, Aligned, op_queue # <<>>, op_queue' = Tail(op_queue),
         read_state \in {"WAITING_FOR_GET", "WAITING_FOR_END",
                         "WAITING_FOR_SET"},
         read_state' = StateAfterPop
  PROVE  /\ StateFitsHead'
         /\ read_state' \notin {"WAITING_FOR_GET_DATA", "WAITING_FOR_END"}
<1>1. /\ op_queue' \in Seq(Op)
      /\ Len(op_queue') = Len(op_queue) - 1
      /\ \A i \in 1..Len(op_queue') : op_queue'[i] = op_queue[i + 1]
  BY HeadTailProperties DEF TypeOK
<1>2. Len(op_queue) \in Nat /\ Len(op_queue) > 0
  BY Elements
<1>3. CASE Len(op_queue) = 1
  <2>1. op_queue' = <<>>
    BY <1>1, <1>3, EmptySeq
  <2> QED
    BY <2>1, <1>3 DEF StateFitsHead, StateAfterPop
<1>4. CASE Len(op_queue) > 1
  <2>1. /\ op_queue' # <<>>
        /\ op_queue'[1] = op_queue[2]
    BY <1>1, <1>2, <1>4, EmptySeq
  <2>2. op_queue[2].type \in OpTypes
    BY <1>2, <1>4, Elements
  <2>3. read_state' = WaitFor(op_queue[2].type)
    BY <1>4, <1>2 DEF StateAfterPop
  <2> QED
    BY <2>1, <2>2, <2>3 DEF StateFitsHead, WaitFor, OpTypes
<1> QED
  BY <1>2, <1>3, <1>4, OneOrMore

\* Where an operation is completed, a unit that ends a reply was consumed.
LEMMA CompleteLast ==
  ASSUME TypeOK, Aligned, op_queue # <<>>,
         NEW st, NEW kinds, Consume(st, kinds),
         Binary \/ st \in {"WAITING_FOR_SET", "LOADING"} \/ kinds = {"END"}
  PROVE  IsLast(replies[1].kind)
<1>1. Fits(replies[1].kind, op_queue[1].type)
  BY FirstUnit
<1>2. CASE Binary
  BY <1>1, <1>2 DEF Fits, IsLast
<1>3. CASE ~Binary /\ st \in {"WAITING_FOR_SET", "LOADING"}
  <2>1. 1 \in 1..Len(op_queue) /\ read_state = st
    BY Elements DEF Consume
  <2>2. op_queue[1].type = "SET"
    BY <2>1, <1>3 DEF Aligned, StateFitsHead
  <2> QED
    BY <2>2, <1>1, <1>3 DEF Fits, IsLast
<1>4. CASE kinds = {"END"}
  BY <1>4 DEF Consume, IsLast
<1> QED
  BY <1>2, <1>3, <1>4

LEMMA CompleteAligned ==
  ASSUME TypeOK, Aligned, NEW st, NEW kinds, Consume(st, kinds), Complete,
         st \in {"WAITING_FOR_GET", "WAITING_FOR_END", "WAITING_FOR_SET"},
         Binary \/ st = "WAITING_FOR_SET" \/ kinds = {"END"}
  PROVE  Aligned'
<1>1. /\ op_queue # <<>> /\ op_queue' = Tail(op_queue)
      /\ read_state' = StateAfterPop /\ read_state = st
      /\ replies[1].kind \in kinds
      /\ UNCHANGED <<requests, served, command, seqno>>
  BY DEF Complete, PopOp, Consume, serverVars
<1>2. IsLast(replies[1].kind)
  BY <1>1, CompleteLast
<1>3. /\ StateFitsHead'
      /\ read_state' \notin {"WAITING_FOR_GET_DATA", "WAITING_FOR_END"}
  BY <1>1, PopState
<1> QED
  BY <1>1, <1>2, <1>3, PopAligned
\* Every step keeps the stream aligned with op_queue.
LEMMA AlignedStep ==
  ASSUME InStep, StepInv, TypeOK', [Next]_vars
  PROVE  Aligned'
<1>1. CASE ConnectedCallback
  <2>1. op_queue = <<>>
    BY <1>1 DEF ConnectedCallback, StepInv, Aligned, StateFitsHead
  <2>2. ~command
    BY DEF StepInv, Aligned, RequestIds
  <2> QED
    BY <2>1, <2>2, <1>1, EmptyAligned
       DEF ConnectedCallback, StepInv, serverVars, netVars, TypeOK
<1>2. CASE SaslResponse
  <2>1. op_queue = <<>>
    BY <1>2 DEF SaslResponse, StepInv, Aligned, StateFitsHead
  <2>2. ~command
    BY DEF StepInv, Aligned, RequestIds
  <2> QED
    BY <2>1, <2>2, <1>2, EmptyAligned
       DEF SaslResponse, StepInv, serverVars, netVars, TypeOK
<1>3. CASE StartLoading
  <2>1. op_queue = <<>>
    BY <1>3 DEF StartLoading, StepInv, Aligned, StateFitsHead
  <2>2. ~command
    BY DEF StepInv, Aligned, RequestIds
  <2> QED
    BY <2>1, <2>2, <1>3, EmptyAligned
       DEF StartLoading, StepInv, serverVars, netVars, TypeOK
<1>4. CASE SetupDone
  BY <1>4, AlignedFrame
     DEF SetupDone, StepInv, readVars, serverVars, netVars
<1>5. CASE Kick
  <2>1. read_state = "IDLE"
    BY <1>5 DEF Kick, StepInv, PhaseInv
  <2>2. op_queue = <<>>
    BY <2>1 DEF StepInv, Aligned, StateFitsHead
  <2>3. ~command'
    BY <1>5 DEF Kick, InStep, StepInv, Aligned, RequestIds
  <2>4. UNCHANGED <<op_queue, requests, served, replies, read_state>>
        /\ seqno' = 0
    BY <1>5 DEF Kick, readVars, netVars
  <2> QED
    BY <2>1, <2>2, <2>3, <2>4, EmptyAligned DEF StepInv
<1>6. CASE LoopAgain
  BY <1>6, AlignedFrame
     DEF LoopAgain, StepInv, readVars, serverVars, netVars
<1>7. CASE TimeOver
  BY <1>7, AlignedFrame
     DEF TimeOver, StepInv, readVars, serverVars, netVars
<1>8. CASE Reset
  BY <1>8, AlignedFrame
     DEF Reset, StepInv, readVars, serverVars, netVars
<1>9. CASE FailureCallback
  BY <1>9, AlignedFrame
     DEF FailureCallback, StepInv, readVars, serverVars, netVars
<1>10. CASE Tick
  BY <1>10, AlignedFrame
     DEF Tick, StepInv, readVars, serverVars, netVars
<1>11. CASE ServeValue
  BY <1>11, ServeValueAligned DEF StepInv
<1>12. CASE ServeLast
  BY <1>12, ServeLastAligned DEF StepInv
<1>13. CASE ServeCommand
  BY <1>13 DEF ServeCommand, StepInv, Aligned, RequestIds
<1>14. CASE BevRead
  BY <1>14, AlignedFrame
     DEF BevRead, StepInv, readVars, serverVars, netVars
<1>15. CASE TimerCallback
  BY <1>15, AlignedFrame
     DEF TimerCallback, StepInv, readVars, serverVars, netVars
<1>16. CASE ReadReturn
  BY <1>16, AlignedFrame
     DEF ReadReturn, StepInv, readVars, serverVars, netVars
<1>17. CASE ReadBinary
  <2>1. CASE Consume("WAITING_FOR_GET", ReplyKinds)
    BY <2>1, <1>17, CompleteAligned DEF ReadBinary, StepInv
  <2>2. CASE Consume("WAITING_FOR_SET", ReplyKinds)
    BY <2>2, <1>17, CompleteAligned DEF ReadBinary, StepInv
  <2> QED
    BY <2>1, <2>2, <1>17 DEF ReadBinary
<1>18. CASE ReadMiss
  BY <1>18, CompleteAligned DEF ReadMiss, StepInv
<1>19. CASE ReadValue
  <2>1. /\ Consume("WAITING_FOR_GET", {"VALUE"}) /\ ~Binary
        /\ read_state' = "WAITING_FOR_GET_DATA" /\ op_queue' = op_queue
        /\ UNCHANGED <<requests, served, command, seqno>>
    BY <1>19 DEF ReadValue, serverVars
  <2>2. replies[1].kind = "VALUE" /\ read_state = "WAITING_FOR_GET"
    BY <2>1 DEF Consume
  <2> QED
    BY <2>1, <2>2, MidAligned DEF StepInv, TypeOK
<1>20. CASE ReadNoise
  <2>1. /\ Consume("WAITING_FOR_GET", ReplyKinds \ {"END", "VALUE"})
        /\ ~Binary
    BY <1>20 DEF ReadNoise
  <2>2. /\ read_state = "WAITING_FOR_GET"
        /\ replies[1].kind \in ReplyKinds \ {"END", "VALUE"}
    BY <2>1 DEF Consume
  <2>3. op_queue # <<>> /\ op_queue[1].type = "GET"
    BY <2>2 DEF StepInv, Aligned, StateFitsHead
  <2>4. /\ Fits(replies[1].kind, op_queue[1].type)
        /\ replies[1].kind = "DATA" <=> read_state = "WAITING_FOR_GET_DATA"
    BY <2>1, <2>3, FirstUnit DEF StepInv
  <2> QED
    BY <2>1, <2>2, <2>3, <2>4 DEF Fits
<1>21. CASE ReadData
  <2>1. /\ Consume("WAITING_FOR_GET_DATA", {"DATA"})
        /\ read_state' = "WAITING_FOR_END" /\ op_queue # <<>>
        /\ UNCHANGED <<requests, served, command, seqno>>
    BY <1>21 DEF ReadData, serverVars
  <2>2. replies[1].kind = "DATA" /\ read_state = "WAITING_FOR_GET_DATA"
    BY <2>1 DEF Consume
  <2>3. ~Binary
    BY <2>2 DEF StepInv, Aligned, StateFitsHead
  <2>4. /\ Len(op_queue') = Len(op_queue)
        /\ \A i \in 1..Len(op_queue) :
             /\ op_queue'[i].id = op_queue[i].id
             /\ op_queue'[i].type = op_queue[i].type
    <3> DEFINE op == [op_queue[1] EXCEPT !.n_recv = @ + 1]
    <3>0. op_queue \in Seq(Op) /\ 1 \in 1..Len(op_queue)
      BY <2>1, Elements DEF StepInv, TypeOK
    <3>1. op_queue[1] \in Op
      BY <3>0, ElementOfSeq
    <3>2. op \in Op /\ op.id = op_queue[1].id /\ op.type = op_queue[1].type
      BY <3>1 DEF Op
    <3>3. op_queue' = [op_queue EXCEPT ![1] = op]
      BY <1>21 DEF ReadData, ReceiveValue
    <3> HIDE DEF op
    <3>4. /\ Len(op_queue') = Len(op_queue)
          /\ \A i \in 1..Len(op_queue) :
               op_queue'[i] = IF i = 1 THEN op ELSE op_queue[i]
      BY <3>0, <3>2, <3>3, ExceptSeq
    <3> QED
      BY <3>2, <3>4
  <2> QED
    BY <2>1, <2>2, <2>3, <2>4, MidAligned DEF StepInv, TypeOK
<1>22. CASE ReadNextValue
  <2>1. /\ Consume("WAITING_FOR_END", {"VALUE"})
        /\ read_state' = "WAITING_FOR_GET_DATA" /\ op_queue' = op_queue
        /\ UNCHANGED <<requests, served, command, seqno>>
    BY <1>22 DEF ReadNextValue, serverVars
  <2>2. replies[1].kind = "VALUE" /\ read_state = "WAITING_FOR_END"
    BY <2>1 DEF Consume
  <2>3. ~Binary
    BY <2>2 DEF StepInv, Aligned, StateFitsHead
  <2> QED
    BY <2>1, <2>2, <2>3, MidAligned DEF StepInv, TypeOK
<1>23. CASE ReadEnd
  BY <1>23, CompleteAligned DEF ReadEnd, StepInv
<1>24. CASE ReadSet
  BY <1>24, CompleteAligned DEF ReadSet, StepInv
<1>25. CASE ReadLoading
  <2>1. /\ Consume("LOADING", ReplyKinds)
        /\ op_queue # <<>> /\ op_queue' = Tail(op_queue)
        /\ UNCHANGED <<requests, served, command, seqno>>
        /\ read_state' = IF LoadFinished THEN "IDLE" ELSE "LOADING"
    BY <1>25 DEF ReadLoading, serverVars
  <2>2. read_state = "LOADING"
    BY <2>1 DEF Consume
  <2>3. \A i \in 1..Len(op_queue) : op_queue[i].type = "SET"
    BY <2>2 DEF StepInv, Aligned, StateFitsHead
  <2>4. /\ op_queue' \in Seq(Op)
        /\ Len(op_queue') = Len(op_queue) - 1
        /\ \A i \in 1..Len(op_queue') : op_queue'[i] = op_queue[i + 1]
    BY <2>1, HeadTailProperties DEF StepInv, TypeOK
  <2>5. Len(op_queue) \in Nat /\ Len(op_queue) > 0
    BY <2>1, Elements DEF StepInv
  <2>6. IsLast(replies[1].kind)
    BY <2>1, CompleteLast DEF StepInv
  <2>7. StateFitsHead'
    <3>1. CASE LoadFinished
      <4>1. /\ loader_completed + Len(op_queue) = loader_issued
            /\ loader_issued <= Records
            /\ loader_completed + 1 = Records
        BY <3>1, <2>2 DEF StepInv, LoaderInv, PhaseInv, LoadFinished
      <4>2. Records \in Nat /\ loader_completed \in Nat
        BY BoundsAssumption DEF StepInv, TypeOK
      <4>3. Len(op_queue') = 0
        BY <4>1, <4>2, <2>4, <2>5
      <4>4. op_queue' = <<>>
        BY <4>3, <2>4, EmptySeq
      <4> QED
        BY <4>4, <3>1, <2>1 DEF StateFitsHead
    <3>2. CASE ~LoadFinished
      <4>1. \A i \in 1..Len(op_queue') : op_queue'[i].type = "SET"
        BY <2>3, <2>4, <2>5
      <4> QED
        BY <4>1, <3>2, <2>1 DEF StateFitsHead
    <3> QED
      BY <3>1, <3>2
  <2> QED
    BY <2>1, <2>6, <2>7, PopAligned DEF StepInv
<1>26. CASE LoadIssue
  <2>1. /\ IssueOp("SET", 1) /\ UNCHANGED <<served, command, replies>>
    BY <1>26 DEF LoadIssue, netVars
  <2>2. read_state = "LOADING"
    BY <1>26 DEF LoadIssue, StepInv, PhaseInv
  <2> QED
    BY <2>1, <2>2, IssueAligned DEF StepInv, OpTypes
<1>27. CASE LoadReturn
  BY <1>27, AlignedFrame
     DEF LoadReturn, StepInv, readVars, serverVars, netVars
<1>28. CASE InitWrite
  BY <1>28, AlignedFrame
     DEF InitWrite, StepInv, readVars, serverVars, netVars
<1>29. CASE IssuingFull
  BY <1>29, AlignedFrame
     DEF IssuingFull, StepInv, readVars, serverVars, netVars
<1>30. CASE IssuingEarly
  BY <1>30, AlignedFrame
     DEF IssuingEarly, StepInv, readVars, serverVars, netVars
<1>31. CASE IssuingModerate
  BY <1>31, AlignedFrame
     DEF IssuingModerate, StepInv, readVars, serverVars, netVars
<1>32. CASE Issue
  <2>1. PICK w \in Workload : IssueOp(w.type, w.n_req)
    BY <1>32 DEF Issue, IssueSomething
  <2>2. w.type \in OpTypes /\ w.n_req \in Nat \ {0}
    BY WorkloadAssumption
  <2>3. Binary => w.n_req = 1
    BY DEF InStep
  <2>4. UNCHANGED <<served, command, replies>>
    BY <1>32 DEF Issue, netVars
  <2>5. read_state \notin {"INIT_READ", "WAITING_FOR_SASL", "LOADING"}
    BY <1>32 DEF Issue, StepInv, PhaseInv
  <2> QED
    BY <2>1, <2>2, <2>3, <2>4, <2>5, IssueAligned DEF StepInv
<1>33. CASE SkipOne
  BY <1>33, AlignedFrame
     DEF SkipOne, StepInv, readVars, serverVars, netVars
<1>34. CASE SkipReturn
  BY <1>34, AlignedFrame
     DEF SkipReturn, StepInv, readVars, serverVars, netVars
<1>35. CASE WaitForTime
  BY <1>35, AlignedFrame
     DEF WaitForTime, StepInv, readVars, serverVars, netVars
<1>36. CASE TimeReached
  BY <1>36, AlignedFrame
     DEF TimeReached, StepInv, readVars, serverVars, netVars
<1>37. CASE StillFull
  BY <1>37, AlignedFrame
     DEF StillFull, StepInv, readVars, serverVars, netVars
<1>38. CASE RoomAgain
  BY <1>38, AlignedFrame
     DEF RoomAgain, StepInv, readVars, serverVars, netVars
<1>39. CASE UNCHANGED vars
  BY <1>39, AlignedFrame
     DEF vars, StepInv, readVars, serverVars, netVars
<1> QED
  BY <1>1, <1>2, <1>3, <1>4, <1>5, <1>6, <1>7, <1>8, <1>9, <1>10, <1>11,
     <1>12, <1>13, <1>14, <1>15, <1>16, <1>17, <1>18, <1>19, <1>20, <1>21,
     <1>22, <1>23, <1>24, <1>25, <1>26, <1>27, <1>28, <1>29, <1>30, <1>31,
     <1>32, <1>33, <1>34, <1>35, <1>36, <1>37, <1>38, <1>39
     DEF Next, Driver, Server, ReadLoop, DriveLoop, Stopped

-----------------------------------------------------------------------------
(* The theorems.                                                           *)

LEMMA StepInvInductive == InStep => (Spec => []StepInv)
<1> SUFFICES ASSUME InStep PROVE Spec => []StepInv
  OBVIOUS
<1>1. Init => StepInv
  <2> SUFFICES ASSUME Init PROVE StepInv
    OBVIOUS
  <2>1. TypeOK
    BY InitType
  <2>2. /\ op_queue = <<>> /\ requests = <<>> /\ replies = <<>>
        /\ Len(op_queue) = 0 /\ Len(requests) = 0 /\ Len(replies) = 0
        /\ seqno = 0 /\ served = 0 /\ ~command /\ read_state = "INIT_READ"
    BY <2>1, Elements DEF Init
  <2>3. Aligned
    BY <2>2 DEF Aligned, QueueIds, RequestIds, StateFitsHead, RepliesFit,
               RepliesFollow, RepliesOrdered, FirstReply, LastReply
  <2>4. LoaderInv /\ PhaseInv
    BY DEF Init, LoaderInv, PhaseInv
  <2> QED
    BY <2>1, <2>3, <2>4 DEF StepInv
<1>2. StepInv /\ [Next]_vars => StepInv'
  <2> SUFFICES ASSUME StepInv, [Next]_vars PROVE StepInv'
    OBVIOUS
  <2>1. TypeOK'
    BY TypeStep DEF StepInv
  <2>2. ControlInv
    BY DEF StepInv, ControlInv, EmptyWhenIdle, Aligned, StateFitsHead
  <2> QED
    BY <2>1, <2>2, AlignedStep, PhaseStep, LoaderStep DEF StepInv
<1> QED
  BY <1>1, <1>2, PTL DEF Spec

\* read_callback never looks at the key of a reply, and need not: the next
\* unit of the stream is always one of the operation at the head of op_queue
\* and one its read state takes.
THEOREM RepliesMatch == InStep => (Spec => []ReplyMatchesHead)
<1> SUFFICES ASSUME InStep PROVE Spec => []ReplyMatchesHead
  OBVIOUS
<1>1. StepInv => ReplyMatchesHead
  <2> SUFFICES ASSUME StepInv, replies # <<>>
               PROVE  /\ op_queue # <<>>
                      /\ replies[1].id = op_queue[1].id
                      /\ replies[1].kind \in Accepted[read_state]
    BY DEF ReplyMatchesHead
  <2> USE DEF StepInv
  <2>n. /\ seqno \in Nat /\ Len(op_queue) \in Nat /\ Len(replies) > 0
        /\ replies[1].id \in Nat /\ Len(replies) \in Nat
    BY Elements
  <2>1. /\ replies[1].id + Len(op_queue) = seqno + 1
        /\ replies[1].kind = "DATA" <=> read_state = "WAITING_FOR_GET_DATA"
    BY DEF Aligned, FirstReply
  <2>2. op_queue # <<>> /\ Len(op_queue) > 0
    BY Drained, Elements
  <2>3. op_queue[1].id \in Nat /\ op_queue[1].id + Len(op_queue) = seqno + 1
    BY <2>2, <2>n, Elements DEF Aligned, QueueIds
  <2>4. Fits(replies[1].kind, op_queue[1].type)
    <3>1. (replies[1].id + Len(op_queue)) - seqno = 1
      BY <2>1, <2>n
    <3>2. 1 \in 1..Len(replies)
      BY <2>n
    <3>3. RepliesFit
      BY DEF Aligned
    <3>4. Fits(replies[1].kind,
               op_queue[(replies[1].id + Len(op_queue)) - seqno].type)
      <4> HIDE DEF StepInv
      <4> QED
        BY <3>2, <3>3 DEF RepliesFit
    <3> HIDE DEF StepInv
    <3> QED
      BY <3>1, <3>4
  <2>5. replies[1].id = op_queue[1].id
    BY <2>1, <2>3, <2>n
  <2>6. replies[1].kind \in Accepted[read_state]
    <3>1. read_state \in ReadStates
      BY DEF TypeOK
    <3>2. CASE read_state \in {"WAITING_FOR_GET", "WAITING_FOR_GET_DATA",
                              "WAITING_FOR_END"}
      BY <3>1, <3>2, <2>1, <2>4
         DEF Accepted, Fits, Aligned, StateFitsHead
    <3>3. CASE read_state \in {"WAITING_FOR_SET", "LOADING"}
      <4>1. op_queue[1].type = "SET"
        BY <3>3, <2>2, <2>n DEF Aligned, StateFitsHead
      <4> QED
        BY <3>1, <3>3, <4>1, <2>4 DEF Accepted, Fits
    <3>4. CASE read_state \in {"INIT_READ", "WAITING_FOR_SASL", "IDLE"}
      BY <3>4, <2>2 DEF Aligned, StateFitsHead
    <3> QED
      BY <3>1, <3>2, <3>3, <3>4 DEF ReadStates
  <2> QED
    BY <2>2, <2>5, <2>6
<1> QED
  BY <1>1, StepInvInductive, PTL

\* An idle connection is drained: no operation is queued, none is on its way
\* to the server and no reply is on its way back, so that do_mcperf may reset
\* it and start to measure.
THEOREM IdleDrained == InStep => (Spec => []IdleMeansDrained)
<1> SUFFICES ASSUME InStep PROVE Spec => []IdleMeansDrained
  OBVIOUS
<1>1. StepInv => IdleMeansDrained
  <2> SUFFICES ASSUME StepInv, read_state = "IDLE" PROVE IdleMeansDrained
    BY DEF IdleMeansDrained
  <2>1. op_queue = <<>>
    BY DEF StepInv, Aligned, StateFitsHead
  <2> QED
    BY <2>1, Drained DEF StepInv, IdleMeansDrained
<1> QED
  BY <1>1, StepInvInductive, PTL
=============================================================================
