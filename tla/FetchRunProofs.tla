--------------------------- MODULE FetchRunProofs ---------------------------
(***************************************************************************)
(* First the libfetch broker, for any hosts, ports and number of connects: *)
(* types, the pairing of answers with requests, and the port policy.  Then *)
(* fetch(1) over it: a run of fetch is a run of the broker's protocol, so  *)
(* what is proved of FetchBroker holds whatever fetch() does, and last     *)
(* FileWhole for any files and any number of passes.                       *)
(***************************************************************************)
EXTENDS FetchRun, SequenceTheorems, TLAPS

(* The packets of a queue carry consecutive request numbers after k.       *)
Numbered(q, k) == \A i \in 1..Len(q) : q[i].id = k + i

(* The packets in flight carry consecutive request numbers, oldest first:  *)
(* the queued answers, then the request being connected, then the queued   *)
(* requests, up to the last one sent.                                      *)
InFlight ==
    /\ Numbered(answers, received)
    /\ broker \in {"none", "running"} =>
         /\ Numbered(work, received + Len(answers))
         /\ Numbered(requests, received + Len(answers) + Len(work))
         /\ sent = received + Len(answers) + Len(work) + Len(requests)

(* Until the broker hangs up, every request was answered, given up, or is  *)
(* the one being waited for.                                               *)
Accounted ==
    /\ client \notin {"idle", "waiting", "dead"} =>
         sent = 0 /\ received = 0 /\ abandoned = 0 /\ ~hungup
    /\ client = "idle" /\ ~hungup => sent = received + abandoned
    /\ client = "waiting" => sent = received + abandoned + 1
    /\ hungup => broker = "gone" /\ client # "waiting"

(* The broker pins a custom port before it connects to it.                 *)
Pinned ==
    /\ \A i \in 1..Len(work) : work[i].port \notin broker_ports =>
                                  broker_first_port # NoPort
    /\ \A p \in opened \ broker_ports : p = broker_first_port

(* How far the start and its undoing have come, fetch knows of the broker: *)
(* it was killed before it is waited for, and it is gone before the end.   *)
Started == /\ client = "start" => broker = "none"
           /\ client \in {"allow_dir", "allow_tmp", "enter", "kill", "idle", "waiting"}
                => broker \in {"running", "gone"}
           /\ client = "reap" => broker \in {"killed", "gone"}
           /\ client = "closing" => broker = "reaped"
           /\ client = "failed" => broker \in {"none", "reaped"}

IInv == /\ TypeOK /\ InFlight /\ Accounted /\ AnswerSkewedByTimeouts
        /\ Pinned /\ Started

-----------------------------------------------------------------------------
(* What taking the oldest packet of a queue does.                          *)
LEMMA TakeFacts ==
    ASSUME NEW S, NEW q \in Seq(S), q # << >>
    PROVE  /\ Head(q) \in S /\ Head(q) = q[1] /\ Len(q) >= 1
           /\ Tail(q) \in Seq(S) /\ Len(Tail(q)) = Len(q) - 1
           /\ \A i \in 1..Len(Tail(q)) : Tail(q)[i] = q[i + 1]
OBVIOUS

(* The same for adding a packet at the end of a queue.                     *)
LEMMA AddFacts ==
    ASSUME NEW S, NEW q \in Seq(S), NEW x \in S
    PROVE  /\ Append(q, x) \in Seq(S) /\ Len(Append(q, x)) = Len(q) + 1
           /\ Append(q, x)[Len(q) + 1] = x
           /\ \A i \in 1..Len(q) : Append(q, x)[i] = q[i]
OBVIOUS

(* Queues of no and of one packet.                                         *)
LEMMA SmallFacts ==
    ASSUME NEW S, NEW x \in S
    PROVE  /\ << >> \in Seq(S) /\ Len(<< >>) = 0
           /\ <<x>> \in Seq(S) /\ Len(<<x>>) = 1 /\ <<x>>[1] = x
OBVIOUS

(* Numbering survives taking the oldest packet.                            *)
LEMMA NumberedTake ==
    ASSUME NEW S, NEW q \in Seq(S), NEW k \in Nat, q # << >>, Numbered(q, k)
    PROVE  q[1].id = k + 1 /\ Numbered(Tail(q), k + 1)
<1>1. /\ Len(q) \in Nat /\ Len(q) >= 1 /\ Len(Tail(q)) = Len(q) - 1
      /\ \A i \in 1..Len(Tail(q)) : Tail(q)[i] = q[i + 1]
  BY TakeFacts
<1>2. q[1].id = k + 1
  BY <1>1 DEF Numbered
<1>3. ASSUME NEW i \in 1..Len(Tail(q)) PROVE Tail(q)[i].id = k + 1 + i
  BY <1>1 DEF Numbered
<1> QED
  BY <1>2, <1>3 DEF Numbered

(* Numbering survives adding the next packet.                              *)
LEMMA NumberedAdd ==
    ASSUME NEW S, NEW q \in Seq(S), NEW x \in S, NEW k \in Nat,
           Numbered(q, k), x.id = k + Len(q) + 1
    PROVE  Numbered(Append(q, x), k)
<1> DEFINE r == Append(q, x)
<1>1. /\ Len(q) \in Nat /\ Len(r) = Len(q) + 1 /\ r[Len(q) + 1] = x
      /\ \A i \in 1..Len(q) : r[i] = q[i]
  BY AddFacts
<1> HIDE DEF r
<1>2. ASSUME NEW i \in 1..Len(r) PROVE r[i].id = k + i
  <2>1. CASE i = Len(q) + 1
    BY <1>1, <2>1
  <2>2. CASE i # Len(q) + 1
    <3>1. i \in 1..Len(q)
      BY <1>1, <2>2
    <3> QED
      BY <1>1, <3>1 DEF Numbered
  <2> QED
    BY <2>1, <2>2
<1> QED
  BY <1>2 DEF Numbered, r

(* An empty queue is numbered from anywhere.                               *)
LEMMA NumberedEmpty == ASSUME NEW k PROVE Numbered(<< >>, k)
BY DEF Numbered

(* The initial state satisfies the inductive invariant.                    *)
LEMMA InitIInv == Init => IInv
<1> SUFFICES ASSUME Init PROVE IInv
  OBVIOUS
<1>1. /\ requests \in Seq(Request) /\ work \in Seq(Request) /\ answers \in Seq(Answer)
      /\ got \in Seq(Accepted)
      /\ Len(requests) = 0 /\ Len(work) = 0 /\ Len(answers) = 0 /\ Len(got) = 0
  BY DEF Init
<1>2. TypeOK
  <2>1. /\ client \in Clients /\ broker \in Brokers
        /\ broker_first_port \in Ports \cup {NoPort}
        /\ hungup \in BOOLEAN /\ opened \subseteq Ports
    BY DEF Init, Clients, Brokers
  <2>2. sent \in Nat /\ received \in Nat /\ abandoned \in Nat /\ Len(work) <= 1
    BY <1>1 DEF Init
  <2> QED
    BY <1>1, <2>1, <2>2 DEF TypeOK
<1>3. InFlight
  BY <1>1, NumberedEmpty DEF Init, InFlight
<1>4. Accounted /\ Started
  BY DEF Init, Accounted, Started
<1>5. AnswerSkewedByTimeouts /\ Pinned
  BY <1>1 DEF Init, AnswerSkewedByTimeouts, Pinned
<1> QED
  BY <1>2, <1>3, <1>4, <1>5 DEF IInv

(* Every step of either process keeps the types.                           *)
LEMMA TypeStep == TypeOK /\ [Next]_vars => TypeOK'
<1> SUFFICES ASSUME TypeOK, [Next]_vars PROVE TypeOK'
  OBVIOUS
<1> USE BrokerAssumption DEF TypeOK, Clients, Brokers
<1>1. CASE Fork
  BY <1>1 DEF Fork
<1>2. CASE Confine
  BY <1>2 DEF Confine
<1>3. ASSUME NEW h \in Hosts, NEW p \in Ports, Send(h, p) PROVE TypeOK'
  <2> DEFINE new == [id |-> sent + 1, host |-> h, port |-> p]
  <2>1. new \in Request
    BY DEF Request
  <2> HIDE DEF new
  <2>2. Append(requests, new) \in Seq(Request)
    BY <2>1, AddFacts
  <2>3. requests' \in Seq(Request)
    BY <1>3, <2>2 DEF Send, new
  <2> QED
    BY <1>3, <2>3 DEF Send
<1>4. CASE Receive
  <2>1. answers # << >>
    BY <1>4 DEF Receive
  <2>2. Head(answers) \in Answer /\ Tail(answers) \in Seq(Answer)
    BY <2>1, TakeFacts
  <2> DEFINE new == [answer |-> Head(answers), want |-> sent, skew |-> abandoned]
  <2>3. new \in Accepted
    BY <2>2 DEF Accepted
  <2> HIDE DEF new
  <2>4. Append(got, new) \in Seq(Accepted)
    BY <2>3, AddFacts
  <2>5. got' \in Seq(Accepted)
    BY <1>4, <2>4 DEF Receive, new
  <2> QED
    BY <1>4, <2>2, <2>5 DEF Receive
<1>5. CASE ReceiveEof
  BY <1>5 DEF ReceiveEof
<1>6. CASE Alarm
  BY <1>6 DEF Alarm
<1>7. CASE BrokerTake
  <2>1. requests # << >>
    BY <1>7 DEF BrokerTake
  <2>2. Head(requests) \in Request /\ Tail(requests) \in Seq(Request)
    BY <2>1, TakeFacts
  <2>3. <<Head(requests)>> \in Seq(Request) /\ Len(<<Head(requests)>>) = 1
    BY <2>2, SmallFacts
  <2>4. Head(requests).port \in Ports
    BY <2>2 DEF Request
  <2> QED
    BY <1>7, <2>2, <2>3, <2>4 DEF BrokerTake
<1>8. ASSUME NEW ok \in BOOLEAN, BrokerAnswer(ok) PROVE TypeOK'
  <2>1. work # << >>
    BY <1>8 DEF BrokerAnswer
  <2>2. work[1] \in Request
    BY <2>1, TakeFacts
  <2>3. opened' \subseteq Ports
    BY <1>8, <2>2 DEF BrokerAnswer, Request
  <2> DEFINE new == [id |-> work[1].id, ok |-> ok, host |-> work[1].host,
                     port |-> work[1].port]
  <2>4. new \in Answer
    BY <2>2 DEF Request, Answer
  <2> HIDE DEF new
  <2>5. Append(answers, new) \in Seq(Answer)
    BY <2>4, AddFacts
  <2>6. answers' \in Seq(Answer)
    BY <1>8, <2>5 DEF BrokerAnswer, new
  <2>7. work' \in Seq(Request) /\ Len(work') <= 1
    BY <1>8 DEF BrokerAnswer
  <2> QED
    BY <1>8, <2>3, <2>6, <2>7 DEF BrokerAnswer
<1>9. CASE BrokerEof
  BY <1>9 DEF BrokerEof
<1>10. CASE ClientExit
  BY <1>10 DEF ClientExit
<1>11. CASE Interrupt
  BY <1>11 DEF Interrupt
<1>12. CASE BrokerKilled
  <2>1. work' \in Seq(Request) /\ Len(work') <= 1
    BY <1>12 DEF BrokerKilled
  <2> QED
    BY <1>12, <2>1 DEF BrokerKilled
<1>13. CASE KillBroker \/ ReapBroker \/ CloseFd \/ BrokerDies
  BY <1>13 DEF KillBroker, ReapBroker, CloseFd, BrokerDies
<1>14. CASE UNCHANGED vars
  BY <1>14 DEF vars
<1> QED
  BY <1>1, <1>2, <1>3, <1>4, <1>5, <1>6, <1>7, <1>8, <1>9, <1>10, <1>11,
     <1>12, <1>13, <1>14 DEF Next, ClientStep, BrokerStep

(* Every step of either process keeps the inductive invariant.             *)
LEMMA NextIInv == IInv /\ [Next]_vars => IInv'
<1> SUFFICES ASSUME IInv, [Next]_vars PROVE IInv'
  OBVIOUS
<1>0. TypeOK'
  BY TypeStep DEF IInv
<1>t. InFlight /\ Accounted /\ AnswerSkewedByTimeouts /\ Pinned /\ Started
  BY DEF IInv
<1>q. /\ requests \in Seq(Request) /\ work \in Seq(Request) /\ answers \in Seq(Answer)
      /\ got \in Seq(Accepted) /\ Len(work) <= 1
  BY DEF IInv, TypeOK
<1>n. /\ sent \in Nat /\ received \in Nat /\ abandoned \in Nat
      /\ Len(answers) \in Nat /\ Len(work) \in Nat /\ Len(requests) \in Nat
      /\ Len(got) \in Nat
  BY <1>q DEF IInv, TypeOK
<1>1. CASE Fork
  <2>1. InFlight' /\ Accounted' /\ Started'
    BY <1>1, <1>t DEF Fork, InFlight, Accounted, Started
  <2>2. AnswerSkewedByTimeouts' /\ Pinned'
    BY <1>1, <1>t DEF Fork, AnswerSkewedByTimeouts, Pinned
  <2> QED
    BY <1>0, <2>1, <2>2 DEF IInv
<1>2. CASE Confine
  <2>0. UNCHANGED <<broker, requests, work, answers, sent, received, abandoned, hungup>>
    BY <1>2 DEF Confine
  <2>a. InFlight'
    BY <1>t, <2>0 DEF InFlight
  <2>b. Accounted'
    BY <1>2, <1>t, <1>n, <2>0 DEF Confine, Accounted
  <2>c. Started'
    BY <1>2, <1>t, <2>0 DEF Confine, Started
  <2>1. InFlight' /\ Accounted' /\ Started'
    BY <2>a, <2>b, <2>c
  <2>2. AnswerSkewedByTimeouts' /\ Pinned'
    BY <1>2, <1>t DEF Confine, AnswerSkewedByTimeouts, Pinned
  <2> QED
    BY <1>0, <2>1, <2>2 DEF IInv
<1>3. ASSUME NEW h \in Hosts, NEW p \in Ports, Send(h, p) PROVE IInv'
  <2> DEFINE new == [id |-> sent + 1, host |-> h, port |-> p]
  <2>0. new \in Request /\ new.id = sent + 1
    BY <1>n DEF Request
  <2> HIDE DEF new
  <2>1. InFlight'
    <3>1. CASE broker = "running"
      <4>1. /\ requests' = Append(requests, new) /\ sent' = sent + 1
            /\ UNCHANGED <<broker, work, answers, received>>
        BY <1>3, <3>1 DEF Send, new
      <4>2. Len(requests') = Len(requests) + 1
        BY <1>q, <2>0, <4>1, AddFacts
      <4> DEFINE k == received + Len(answers) + Len(work)
      <4>3. k \in Nat /\ Numbered(requests, k) /\ sent = k + Len(requests)
        BY <1>t, <1>n, <3>1 DEF InFlight
      <4>4. new.id = k + Len(requests) + 1
        BY <2>0, <4>3
      <4> HIDE DEF k
      <4>5. Numbered(requests', k)
        BY <1>q, <2>0, <4>1, <4>3, <4>4, NumberedAdd
      <4> QED
        BY <1>t, <1>n, <3>1, <4>1, <4>2, <4>5 DEF InFlight, k
    <3>2. CASE broker # "running"
      BY <1>3, <1>t, <3>2 DEF Send, InFlight
    <3> QED
      BY <3>1, <3>2
  <2>2. Accounted' /\ Started'
    BY <1>3, <1>t, <1>n DEF Send, Accounted, Started
  <2>3. AnswerSkewedByTimeouts' /\ Pinned'
    BY <1>3, <1>t DEF Send, AnswerSkewedByTimeouts, Pinned
  <2> QED
    BY <1>0, <2>1, <2>2, <2>3 DEF IInv
<1>4. CASE Receive
  <2>0. /\ answers # << >> /\ answers' = Tail(answers) /\ received' = received + 1
        /\ UNCHANGED <<broker, work, requests, sent>>
    BY <1>4 DEF Receive
  <2>1. /\ Len(answers') = Len(answers) - 1 /\ Head(answers) = answers[1]
        /\ Head(answers) \in Answer
    BY <1>q, <2>0, TakeFacts
  <2>2. answers[1].id = received + 1 /\ Numbered(answers', received + 1)
    BY <1>q, <1>n, <1>t, <2>0, NumberedTake DEF InFlight
  <2>3. InFlight'
    <3>1. received' + Len(answers') = received + Len(answers)
      BY <1>n, <2>0, <2>1
    <3> QED
      BY <1>t, <2>0, <2>2, <3>1 DEF InFlight
  <2>4. Accounted' /\ Started'
    BY <1>4, <1>t, <1>n DEF Receive, Accounted, Started
  <2>5. answers[1].id + abandoned = sent
    <3>1. sent = received + abandoned + 1
      BY <1>4, <1>t DEF Receive, Accounted
    <3> QED
      BY <1>n, <2>2, <3>1
  <2>6. AnswerSkewedByTimeouts'
    <3>1. CASE ~Head(answers).ok
      BY <1>4, <1>t, <3>1 DEF Receive, AnswerSkewedByTimeouts
    <3>2. CASE Head(answers).ok
      <4> DEFINE new == [answer |-> Head(answers), want |-> sent, skew |-> abandoned]
      <4>1. got' = Append(got, new)
        BY <1>4, <3>2 DEF Receive
      <4>2. new.answer.id + new.skew = new.want
        BY <2>1, <2>5
      <4>3. new \in Accepted
        BY <1>n, <2>1 DEF Accepted
      <4> HIDE DEF new
      <4>4. /\ Len(got') = Len(got) + 1 /\ got'[Len(got) + 1] = new
            /\ \A i \in 1..Len(got) : got'[i] = got[i]
        BY <1>q, <4>1, <4>3, AddFacts
      <4>5. ASSUME NEW i \in 1..Len(got')
            PROVE  got'[i].answer.id + got'[i].skew = got'[i].want
        <5>1. i = Len(got) + 1 \/ i \in 1..Len(got)
          BY <1>n, <4>4
        <5> QED
          BY <1>t, <4>2, <4>4, <5>1 DEF AnswerSkewedByTimeouts
      <4> QED
        BY <4>5 DEF AnswerSkewedByTimeouts
    <3> QED
      BY <3>1, <3>2
  <2>7. Pinned'
    BY <1>4, <1>t DEF Receive, Pinned
  <2> QED
    BY <1>0, <2>3, <2>4, <2>6, <2>7 DEF IInv
<1>5. CASE ReceiveEof
  <2>1. InFlight' /\ Accounted' /\ Started'
    BY <1>5, <1>t DEF ReceiveEof, InFlight, Accounted, Started
  <2>2. AnswerSkewedByTimeouts' /\ Pinned'
    BY <1>5, <1>t DEF ReceiveEof, AnswerSkewedByTimeouts, Pinned
  <2> QED
    BY <1>0, <2>1, <2>2 DEF IInv
<1>6. CASE Alarm
  <2>1. InFlight' /\ Accounted' /\ Started'
    BY <1>6, <1>t, <1>n DEF Alarm, InFlight, Accounted, Started
  <2>2. AnswerSkewedByTimeouts' /\ Pinned'
    BY <1>6, <1>t DEF Alarm, AnswerSkewedByTimeouts, Pinned
  <2> QED
    BY <1>0, <2>1, <2>2 DEF IInv
<1>7. CASE BrokerTake
  <2>0. /\ requests # << >> /\ requests' = Tail(requests) /\ work = << >>
        /\ work' = <<Head(requests)>> /\ broker = "running"
        /\ UNCHANGED <<broker, answers, received, sent>>
    BY <1>7 DEF BrokerTake
  <2>1. /\ Len(requests') = Len(requests) - 1 /\ Head(requests) \in Request
        /\ Head(requests) = requests[1]
    BY <1>q, <2>0, TakeFacts
  <2>2. Len(work') = 1 /\ work'[1] = requests[1] /\ Len(work) = 0
    BY <2>0, <2>1, SmallFacts
  <2>3. InFlight'
    <3> DEFINE k == received + Len(answers)
    <3>1. k \in Nat /\ Numbered(requests, k)
      BY <1>t, <1>n, <2>0, <2>2 DEF InFlight
    <3>2. requests[1].id = k + 1 /\ Numbered(requests', k + 1)
      <4> HIDE DEF k
      <4> QED
        BY <1>q, <2>0, <3>1, NumberedTake
    <3>3. Numbered(work', k)
      BY <2>2, <3>1, <3>2 DEF Numbered
    <3> QED
      BY <1>t, <1>n, <2>0, <2>1, <2>2, <3>2, <3>3 DEF InFlight
  <2>4. Accounted' /\ AnswerSkewedByTimeouts' /\ Started'
    BY <1>7, <1>t DEF BrokerTake, Accounted, AnswerSkewedByTimeouts, Started
  <2>5. Pinned'
    <3>1. requests[1].port \in Ports
      BY <2>1 DEF Request
    <3>2. \A p \in opened : p # NoPort
      BY BrokerAssumption DEF IInv, TypeOK
    <3> QED
      BY <1>7, <1>t, <2>1, <2>2, <3>1, <3>2, BrokerAssumption DEF BrokerTake, Pinned
  <2> QED
    BY <1>0, <2>3, <2>4, <2>5 DEF IInv
<1>8. ASSUME NEW ok \in BOOLEAN, BrokerAnswer(ok) PROVE IInv'
  <2>0. /\ work # << >> /\ work' = << >> /\ broker = "running"
        /\ UNCHANGED <<requests, sent, received>>
    BY <1>8 DEF BrokerAnswer
  <2>1. Len(work) >= 1 /\ Head(work) \in Request /\ Head(work) = work[1]
    BY <1>q, <2>0, TakeFacts
  <2>2. Len(work) = 1 /\ Len(work') = 0
    <3>0. Len(work) \in Nat /\ Len(work) <= 1 /\ Len(work) >= 1
      BY <1>q, <1>n, <2>1
    <3> DEFINE n == Len(work)
    <3>a. n \in Nat /\ n <= 1 /\ n >= 1
      BY <3>0
    <3> HIDE DEF n
    <3>b. n = 1
      BY <3>a
    <3>1. Len(work) = 1
      BY <3>b DEF n
    <3>2. Len(work') = 0
      BY <2>0
    <3> QED
      BY <3>1, <3>2
  <2>3. InFlight'
    <3>1. CASE client \in {"dead", "failed"}
      BY <1>8, <1>t, <3>1 DEF BrokerAnswer, InFlight
    <3>2. CASE client \notin {"dead", "failed"}
      <4> DEFINE new == [id |-> work[1].id, ok |-> ok, host |-> work[1].host,
                         port |-> work[1].port]
      <4>1. answers' = Append(answers, new) /\ broker' = broker
        BY <1>8, <3>2 DEF BrokerAnswer
      <4>2. Numbered(work, received + Len(answers))
        BY <1>t, <2>0 DEF InFlight
      <4>3. new.id = received + Len(answers) + 1
        BY <1>n, <2>2, <4>2 DEF Numbered
      <4>4. new \in Answer
        BY <2>1 DEF Request, Answer
      <4> HIDE DEF new
      <4>5. Len(answers') = Len(answers) + 1
        BY <1>q, <4>1, <4>4, AddFacts
      <4>6. Numbered(answers', received)
        BY <1>q, <1>n, <1>t, <4>1, <4>3, <4>4, NumberedAdd DEF InFlight
      <4>7. received' + Len(answers') + Len(work') = received + Len(answers) + Len(work)
        BY <1>n, <2>0, <2>2, <4>5
      <4>8. Numbered(work', received' + Len(answers'))
        BY <2>0, NumberedEmpty
      <4> QED
        BY <1>t, <2>0, <4>1, <4>6, <4>7, <4>8 DEF InFlight
    <3> QED
      BY <3>1, <3>2
  <2>4. Accounted' /\ AnswerSkewedByTimeouts' /\ Started'
    BY <1>8, <1>t DEF BrokerAnswer, Accounted, AnswerSkewedByTimeouts, Started
  <2>5. Pinned'
    <3>1. ok /\ work[1].port \notin broker_ports => broker_first_port = work[1].port
      BY <1>8, <1>t, <2>2 DEF BrokerAnswer, broker_port_ok, Pinned
    <3> QED
      BY <1>8, <1>t, <2>2, <3>1 DEF BrokerAnswer, Pinned
  <2> QED
    BY <1>0, <2>3, <2>4, <2>5 DEF IInv
<1>9. CASE BrokerEof
  <2>1. InFlight' /\ Accounted' /\ Started'
    BY <1>9, <1>t DEF BrokerEof, InFlight, Accounted, Started
  <2>2. AnswerSkewedByTimeouts' /\ Pinned'
    BY <1>9, <1>t DEF BrokerEof, AnswerSkewedByTimeouts, Pinned
  <2> QED
    BY <1>0, <2>1, <2>2 DEF IInv
<1>10. CASE ClientExit
  <2>1. InFlight' /\ Accounted' /\ Started'
    BY <1>10, <1>t DEF ClientExit, InFlight, Accounted, Started
  <2>2. AnswerSkewedByTimeouts' /\ Pinned'
    BY <1>10, <1>t DEF ClientExit, AnswerSkewedByTimeouts, Pinned
  <2> QED
    BY <1>0, <2>1, <2>2 DEF IInv
<1>11. CASE Interrupt
  <2>1. InFlight' /\ Accounted' /\ Started'
    BY <1>11, <1>t DEF Interrupt, InFlight, Accounted, Started
  <2>2. AnswerSkewedByTimeouts' /\ Pinned'
    BY <1>11, <1>t DEF Interrupt, AnswerSkewedByTimeouts, Pinned
  <2> QED
    BY <1>0, <2>1, <2>2 DEF IInv
<1>12. CASE BrokerKilled
  <2>1. InFlight' /\ Accounted' /\ Started'
    BY <1>12, <1>t DEF BrokerKilled, InFlight, Accounted, Started
  <2>2. Len(work') = 0
    BY <1>12 DEF BrokerKilled
  <2>3. AnswerSkewedByTimeouts' /\ Pinned'
    BY <1>12, <1>t, <2>2 DEF BrokerKilled, AnswerSkewedByTimeouts, Pinned
  <2> QED
    BY <1>0, <2>1, <2>3 DEF IInv
<1>13. CASE KillBroker \/ ReapBroker \/ CloseFd
  <2>a. InFlight'
    BY <1>13, <1>t DEF KillBroker, ReapBroker, CloseFd, InFlight
  <2>b. Accounted'
    BY <1>13, <1>t DEF KillBroker, ReapBroker, CloseFd, Accounted
  <2>c. Started'
    BY <1>13, <1>t DEF KillBroker, ReapBroker, CloseFd, Started
  <2>1. InFlight' /\ Accounted' /\ Started'
    BY <2>a, <2>b, <2>c
  <2>2. AnswerSkewedByTimeouts' /\ Pinned'
    BY <1>13, <1>t DEF KillBroker, ReapBroker, CloseFd, AnswerSkewedByTimeouts, Pinned
  <2> QED
    BY <1>0, <2>1, <2>2 DEF IInv
<1>14. CASE BrokerDies
  <2>1. InFlight' /\ Accounted' /\ Started'
    BY <1>14, <1>t DEF BrokerDies, InFlight, Accounted, Started
  <2>2. AnswerSkewedByTimeouts' /\ Pinned'
    BY <1>14, <1>t DEF BrokerDies, AnswerSkewedByTimeouts, Pinned
  <2> QED
    BY <1>0, <2>1, <2>2 DEF IInv
<1>15. CASE UNCHANGED vars
  <2>1. InFlight' /\ Accounted' /\ Started'
    BY <1>15, <1>t DEF vars, InFlight, Accounted, Started
  <2>2. AnswerSkewedByTimeouts' /\ Pinned'
    BY <1>15, <1>t DEF vars, AnswerSkewedByTimeouts, Pinned
  <2> QED
    BY <1>0, <2>1, <2>2 DEF IInv
<1> QED
  BY <1>1, <1>2, <1>3, <1>4, <1>5, <1>6, <1>7, <1>8, <1>9, <1>10, <1>11,
     <1>12, <1>13, <1>14, <1>15 DEF Next, ClientStep, BrokerStep

-----------------------------------------------------------------------------
(* The inductive invariant holds in every reachable state.                 *)
THEOREM Invariance == Spec => []IInv
BY InitIInv, NextIInv, PTL DEF Spec

(* Both processes' state and the packets between them are well typed.      *)
THEOREM TypeCorrect == Spec => []TypeOK
<1>1. IInv => TypeOK
  BY DEF IInv
<1> QED
  BY <1>1, Invariance, PTL

(* An accepted answer is the answer to the request as many places earlier  *)
(* as waits were cut short, for any number of connects.                    *)
THEOREM AnswersPaired == Spec => []AnswerSkewedByTimeouts
<1>1. IInv => AnswerSkewedByTimeouts
  BY DEF IInv
<1> QED
  BY <1>1, Invariance, PTL

(* The broker opens at most one port that is not listed.                   *)
THEOREM PortsConfined == Spec => []PortPolicy
<1>1. IInv => PortPolicy
  BY DEF IInv, Pinned, PortPolicy
<1> QED
  BY <1>1, Invariance, PTL

(* A start that reports failure, at whichever of its steps, has ended and  *)
(* collected the broker; one that succeeded leaves it alone.               *)
THEOREM FailsClean == Spec => []CleanFailure
<1>1. IInv => CleanFailure
  BY DEF IInv, Started, CleanFailure
<1> QED
  BY <1>1, Invariance, PTL

(* No wait was ever cut short.                                             *)
NeverAbandoned == abandoned = 0 /\ \A i \in 1..Len(got) : got[i].skew = 0

(* With no timeout configured no step cuts a wait short.                   *)
LEMMA NoTimeoutStep ==
    ASSUME Timeouts = FALSE, TypeOK, NeverAbandoned, [Next]_vars
    PROVE  NeverAbandoned'
<1>1. CASE Receive
  <2> DEFINE new == [answer |-> Head(answers), want |-> sent, skew |-> abandoned]
  <2>1. answers # << >> /\ abandoned' = abandoned /\ got' \in {got, Append(got, new)}
    BY <1>1 DEF Receive
  <2>2. Head(answers) \in Answer
    BY <2>1, TakeFacts DEF TypeOK
  <2>3. new \in Accepted /\ new.skew = 0
    BY <2>2 DEF Accepted, TypeOK, NeverAbandoned
  <2> HIDE DEF new
  <2>4. got \in Seq(Accepted) /\ Len(got) \in Nat
    BY DEF TypeOK
  <2>5. /\ Len(Append(got, new)) = Len(got) + 1
        /\ Append(got, new)[Len(got) + 1] = new
        /\ \A i \in 1..Len(got) : Append(got, new)[i] = got[i]
    BY <2>3, <2>4, AddFacts
  <2>6. CASE got' = Append(got, new)
    <3>1. ASSUME NEW i \in 1..Len(got') PROVE got'[i].skew = 0
      <4>1. i = Len(got) + 1 \/ i \in 1..Len(got)
        BY <2>4, <2>5, <2>6
      <4> QED
        BY <2>3, <2>5, <2>6, <4>1 DEF NeverAbandoned
    <3> QED
      BY <2>1, <3>1 DEF NeverAbandoned
  <2> QED
    BY <2>1, <2>6 DEF NeverAbandoned
<1>2. CASE ~Receive
  BY <1>2 DEF Next, vars, Fork, Confine, Send, ClientStep, ReceiveEof, Alarm,
     BrokerStep, BrokerTake, BrokerAnswer, BrokerEof, ClientExit, Interrupt,
     BrokerKilled, KillBroker, ReapBroker, CloseFd, BrokerDies, NeverAbandoned
<1> QED
  BY <1>1, <1>2

(* With no timeout configured, "a TCP connection to the specified port on  *)
(* the specified host" is what fetch_connect always returns.               *)
THEOREM MatchesWithoutTimeouts ==
    ASSUME Timeouts = FALSE PROVE Spec => []AnswerMatchesRequest
<1>1. Init => NeverAbandoned
  BY DEF Init, NeverAbandoned
<1>2. TypeOK /\ NeverAbandoned /\ [Next]_vars => NeverAbandoned'
  BY NoTimeoutStep
<1>3. IInv /\ NeverAbandoned => AnswerMatchesRequest
  <2> SUFFICES ASSUME IInv, NeverAbandoned, NEW i \in 1..Len(got)
               PROVE  got[i].answer.id = got[i].want
    BY DEF AnswerMatchesRequest
  <2>1. got[i] \in Accepted
    BY DEF IInv, TypeOK
  <2>2. got[i].answer.id \in Nat
    BY SMTT(30), <2>1 DEF Accepted, Answer
  <2>3. got[i].answer.id + got[i].skew = got[i].want /\ got[i].skew = 0
    BY DEF IInv, AnswerSkewedByTimeouts, NeverAbandoned
  <2> QED
    BY <2>2, <2>3
<1> QED
  BY <1>1, <1>2, <1>3, Invariance, TypeCorrect, PTL DEF Spec

-----------------------------------------------------------------------------
(* fetch(1) over the broker.                                               *)

\* A step of fetch itself leaves the broker alone.
LEMMA FetchStepStutters == FetchStep => UNCHANGED vars
BY DEF FetchStep, again, AlarmInTransfer, GotStream, NoStream, TimedOutLate,
       Open, Create, Copy, NextUrl

\* Every step of the composition is a step of the broker or none.
LEMMA StepSimulates == FNext => [Next]_vars
<1> SUFFICES ASSUME FNext PROVE [Next]_vars
    OBVIOUS
<1>1. CASE FetchStep
    BY <1>1, FetchStepStutters
<1>2. CASE Crash
    BY <1>2 DEF Crash, Next
<1>3. CASE Fork \/ Confine
    BY <1>3 DEF Next
<1>4. CASE \E h \in Hosts, p \in Ports : Send(h, p)
    BY <1>4 DEF Next
<1>5. CASE ClientStep \/ Alarm \/ BrokerStep
    BY <1>5 DEF Next
<1>6. CASE ClientExit \/ Interrupt \/ BrokerKilled
    BY <1>6 DEF Next
<1> QED
    BY <1>1, <1>2, <1>3, <1>4, <1>5, <1>6 DEF FNext

(* Every step of the composition is one of the broker's protocol or does   *)
(* not touch it: the retry loop of fetch.c cannot break the protocol.      *)
THEOREM RunImplementsBroker == FSpec => Spec
<1>1. FInit => Init
    BY DEF FInit
<1>2. [FNext]_allvars => [Next]_vars
    BY StepSimulates DEF allvars
<1> QED
    BY <1>1, <1>2, PTL DEF FSpec, Spec

(* In a run of fetch(1), retries, resumes and stale alarms included, an    *)
(* accepted answer is off by exactly the waits that were cut short.        *)
THEOREM RunAnswersPaired == FSpec => []AnswerSkewedByTimeouts
BY RunImplementsBroker, AnswersPaired, PTL

(* In a run of fetch(1) at most one custom port is ever connected to.      *)
THEOREM RunPortsConfined == FSpec => []PortPolicy
BY RunImplementsBroker, PortsConfined, PTL

-----------------------------------------------------------------------------
(* What is in the files.                                                   *)

\* A file that is a part of the remote one.
Part(d, rem) == d \in Seq(Nat) /\ Len(d) <= Len(rem) /\ Agrees(d, rem)

\* What stat() sees of path, from fetch()'s variables and the closed file.
DiskOf(j, f) == IF j.of = "path" THEN SubSeq(j.out, 1, j.flushed) ELSE f.data
PrevOf(j, f) == IF f.exists \/ j.of = "path" THEN Len(DiskOf(j, f)) ELSE -1

\* All that was written is a part of the remote file.
JobOK(j, rem) ==
    /\ j.tries \in Nat \ {0} /\ j.count \in Nat /\ j.prev \in Int /\ j.offset \in Nat
    /\ j.of \in {"null", "path", "tmp"} /\ j.tmp = (j.of = "tmp")
    /\ j.of = "null" => j.count = 0
    /\ Part(j.out, rem) /\ j.pos \in 0 .. Len(j.out) /\ j.flushed \in 0 .. Len(j.out)

\* The file at path can be told from its time.
FileOK(f, rem) == f.data \in Seq(Nat) /\ (f.same => Agrees(f.data, rem))

Asking == {"get", "refetch", "late", "open", "create"}

\* Before a transfer: a first pass has nothing open, a later one goes on with
\* a file of its own or finds none, and prev is what stat() saw.
AskOK(ph, j, f, rem) ==
    /\ ph \in Asking \cup {"again"} =>
         /\ j.tries = 1 => j.of = "null"
         /\ j.tries # 1 /\ j.of = "null" => ~f.exists
         /\ j.tries # 1 /\ j.of = "tmp" => f.exists /\ Len(f.data) < Len(rem)
    /\ ph = "again" /\ j.tries = 1 => j.offset = 0
    /\ ph \in Asking => /\ j.prev = PrevOf(j, f)
                        /\ j.prev # -1 => j.offset <= j.prev
    /\ ph \in {"refetch", "create"} => j.offset = 0 /\ j.of = "null"
    /\ ph = "late" => j.stale

\* During it: the next byte of the stream is the next byte of the file.
CopyOK(ph, j, f) ==
    ph = "copy" => /\ j.pos = j.offset /\ j.of # "null"
                   /\ j.of = "tmp" => f.exists /\ j.prev = Len(f.data)

Held(ph, j, f, rem) ==
    JobOK(j, rem) /\ FileOK(f, rem) /\ AskOK(ph, j, f, rem) /\ CopyOK(ph, j, f)

\* job has fetch()'s variables.
Shape(j) == DOMAIN j = DOMAIN NewJob /\ j.dirty \in BOOLEAN

\* FileWhole speaks of the end only; on the way, as long as nothing made the
\* file dirty and fetch runs, what is written is a part of the remote file.
FileInv ==
    /\ remote \in Seq(Nat)
    /\ Shape(job)
    /\ result # "none" => phase = "done"
    /\ phase \notin {"gone", "crashed"} /\ ~job.dirty => Held(phase, job, file, remote)
    /\ FileWhole

\* The names of fetch()'s variables.
LEMMA Fields ==
    DOMAIN NewJob = {"tries", "offset", "count", "prev", "of", "tmp", "tmpdata", "out",
                     "pos", "flushed", "stale", "dirty"}
BY DEF NewJob

\* A new fetch() on files that agree.
LEMMA NewJobHeld ==
    ASSUME NEW f, NEW rem \in Seq(Nat), FileOK(f, rem)
    PROVE  Held("again", NewJob, f, rem)
<1>3. JobOK(NewJob, rem)
  <2>1. Part(<<>>, rem)
    BY DEF Part, Agrees
  <2>2. NewJob.tmp = (NewJob.of = "tmp")
    BY DEF NewJob
  <2>3. /\ NewJob.tries = 1 /\ NewJob.count = 0 /\ NewJob.prev = -1 /\ NewJob.offset = 0
        /\ NewJob.of = "null" /\ NewJob.out = <<>> /\ NewJob.pos = 0 /\ NewJob.flushed = 0
    BY DEF NewJob
  <2>4. 0 \in 0 .. Len(<<>>)
    OBVIOUS
  <2> QED BY <2>1, <2>2, <2>3, <2>4 DEF JobOK
<1> QED BY <1>3 DEF Held, AskOK, CopyOK, NewJob, Asking

\* What the assumption says of the files of a URL.
LEMMA FilesTold ==
    ASSUME NEW f \in Files, NEW rem \in Remotes
    PROVE  rem \in Seq(Nat) /\ FileOK(f, rem)
BY FilesAssumption DEF FileOK

\* A beginning of a part is a part.
LEMMA PartOfPart ==
    ASSUME NEW d, NEW rem \in Seq(Nat), Part(d, rem), NEW n \in 0 .. Len(d)
    PROVE  Part(SubSeq(d, 1, n), rem) /\ Len(SubSeq(d, 1, n)) = n
<1>0. d \in Seq(Nat) /\ Len(d) \in Nat /\ Len(rem) \in Nat /\ n \in Nat /\ n <= Len(d)
      /\ Len(d) <= Len(rem)
  BY DEF Part
<1>1. \A i \in 1 .. n : d[i] \in Nat
  BY SMTT(30), <1>0
<1>2. /\ SubSeq(d, 1, n) \in Seq(Nat) /\ Len(SubSeq(d, 1, n)) = n
      /\ \A i \in 1 .. n : SubSeq(d, 1, n)[i] = d[i]
  BY <1>0, <1>1, SubSeqProperties
<1>3. \A i \in 1 .. n : i <= Len(rem) => SubSeq(d, 1, n)[i] = rem[i]
  BY <1>0, <1>2 DEF Part, Agrees
<1> QED BY <1>0, <1>2, <1>3 DEF Part, Agrees

\* Bytes of the remote file written where the part before them ends, or
\* earlier, make a part; up to the end, they make the whole.
LEMMA OverlayPart ==
    ASSUME NEW d, NEW rem \in Seq(Nat), Part(d, rem), NEW at \in 0 .. Len(d),
           NEW k \in 0 .. Len(rem) - at
    PROVE  LET out == Overlay(d, at, SubSeq(rem, at + 1, at + k))
           IN /\ Part(out, rem) /\ at + k <= Len(out) /\ Len(d) <= Len(out)
              /\ at + k = Len(rem) => out = rem
<1> DEFINE new == SubSeq(rem, at + 1, at + k)
           n == IF at + Len(new) > Len(d) THEN at + Len(new) ELSE Len(d)
           out == Overlay(d, at, new)
<1>0. d \in Seq(Nat) /\ Len(d) \in Nat /\ Len(rem) \in Nat /\ Len(d) <= Len(rem)
      /\ at \in Nat /\ k \in Nat /\ at + k <= Len(rem) /\ at <= Len(d)
  BY DEF Part
<1>1. Len(new) = k /\ \A i \in 1 .. k : new[i] = rem[at + i]
  <2>1. \A i \in at + 1 .. at + k : rem[i] \in Nat
    BY <1>0
  <2>2. at + 1 \in Int /\ at + k \in Int /\ (at + k) - (at + 1) + 1 = k
    BY <1>0
  <2>3. \A i \in 1 .. k : (at + 1) + i - 1 = at + i
    BY <1>0
  <2> QED BY SMTT(30), <1>0, <2>1, <2>2, <2>3, SubSeqProperties
<1> HIDE DEF new
<1>2. n \in Nat /\ n <= Len(rem) /\ at + k <= n /\ Len(d) <= n
  BY <1>0, <1>1
<1>3. out = [i \in 1 .. n |-> IF i \in at + 1 .. at + Len(new) THEN new[i - at] ELSE d[i]]
  BY DEF Overlay
<1>4. ASSUME NEW i \in 1 .. n
      PROVE  (IF i \in at + 1 .. at + Len(new) THEN new[i - at] ELSE d[i]) = rem[i]
             /\ rem[i] \in Nat
  <2>1. rem[i] \in Nat /\ i \in Nat /\ i >= 1 /\ i <= n
    BY SMTT(30), <1>0, <1>2
  <2>2. CASE i \in at + 1 .. at + Len(new)
    <3>1. i - at \in 1 .. k /\ at + (i - at) = i
      BY <1>0, <1>1, <2>1, <2>2
    <3> QED BY <1>1, <2>1, <2>2, <3>1
  <2>3. CASE i \notin at + 1 .. at + Len(new)
    <3>1. i \in 1 .. Len(d) /\ i <= Len(rem)
      BY SMTT(30), <1>0, <1>1, <1>2, <2>1, <2>3
    <3> QED BY <2>1, <2>3, <3>1 DEF Part, Agrees
  <2> QED BY <2>2, <2>3
<1>5. out = [i \in 1 .. n |-> rem[i]]
  BY <1>3, <1>4
<1> HIDE DEF n, out
<1>6. out \in Seq(Nat) /\ Len(out) = n /\ \A i \in 1 .. n : out[i] = rem[i]
  BY <1>2, <1>4, <1>5
<1>7. Part(out, rem)
  BY <1>2, <1>6 DEF Part, Agrees
<1>8. ASSUME at + k = Len(rem) PROVE out = rem
  <2>1. n = Len(rem)
    BY <1>0, <1>2, <1>8
  <2> QED BY <1>6, <2>1, SeqEqual
<1> QED BY <1>2, <1>6, <1>7, <1>8 DEF out, new

\* The ends of fetch() leave a file that can be told from its time.
LEMMA EndHeld ==
    ASSUME NEW j, JobOK(j, remote), FileOK(file, remote), remote \in Seq(Nat),
           Success(j) \/ failure(j) \/ failure_keep(j)
    PROVE  Held(phase', job', file', remote) /\ job' = j /\ phase' = "done"
<1>1. phase' = "done" /\ job' = j
  BY DEF Success, failure, failure_keep
<1>2. FileOK(file', remote)
  <2>1. j.out \in Seq(Nat) /\ Agrees(j.out, remote)
    BY DEF JobOK, Part
  <2>2. FileOK(CloseOf(j), remote)
    BY <2>1 DEF CloseOf, FileOK
  <2>3. CASE Success(j)
    <3>1. j.tmp => j.of = "tmp"
      BY DEF JobOK
    <3> QED BY <2>1, <2>2, <2>3, <3>1 DEF Success, FileOK
  <2>4. CASE failure(j)
    BY <2>2, <2>4 DEF failure, FileOK, Agrees
  <2>5. CASE failure_keep(j)
    BY <2>2, <2>5 DEF failure_keep
  <2> QED BY <2>3, <2>4, <2>5
<1> QED BY <1>1, <1>2 DEF Held, AskOK, CopyOK, Asking

\* Another pass.
LEMMA AgainHeld ==
    ASSUME NEW j, Shape(j), JobOK(j, remote), FileOK(file, remote), Again(j),
           j.of = "null" => ~file.exists,
           j.of = "tmp" => file.exists /\ Len(file.data) < Len(remote)
    PROVE  /\ Held(phase', job', file', remote) /\ Shape(job')
           /\ job'.dirty = j.dirty /\ result' = result /\ phase' = "again"
<1>1. /\ phase' = "again" /\ file' = file /\ result' = result
      /\ job' = [j EXCEPT !.tries = @ + 1]
  BY DEF Again
<1>2. /\ DOMAIN job' = DOMAIN j
      /\ job'.tries = j.tries + 1 /\ job'.offset = j.offset /\ job'.count = j.count
      /\ job'.prev = j.prev /\ job'.of = j.of /\ job'.tmp = j.tmp /\ job'.out = j.out
      /\ job'.pos = j.pos /\ job'.flushed = j.flushed /\ job'.dirty = j.dirty
  BY <1>1, Fields DEF Shape
<1>3. j.tries + 1 \in Nat \ {0} /\ j.tries + 1 # 1
  BY DEF JobOK
<1>4. JobOK(job', remote) /\ Shape(job')
  BY <1>2, <1>3 DEF JobOK, Shape
<1>5. AskOK(phase', job', file', remote) /\ CopyOK(phase', job', file')
  BY <1>1, <1>2, <1>3 DEF AskOK, CopyOK, Asking
<1> QED BY <1>1, <1>2, <1>4, <1>5 DEF Held

\* The verdict on a transfer.
LEMMA VerdictHeld ==
    ASSUME NEW j, NEW timedout, Shape(j), JobOK(j, remote), FileOK(file, remote),
           remote \in Seq(Nat), Verdict(j, timedout),
           j.of = "null" /\ j.count > j.prev => ~file.exists,
           j.of = "tmp" /\ j.count > j.prev /\ j.count < Len(remote)
              => file.exists /\ Len(file.data) < Len(remote)
    PROVE  /\ Held(phase', job', file', remote) /\ Shape(job') /\ job'.dirty = j.dirty
           /\ \/ Success(j) /\ (us.size => ~(j.count < Len(remote)))
              \/ result' = "failed" /\ phase' = "done"
              \/ result' = result /\ phase' = "again"
<1>1. CASE Success(j) /\ ~(us.size /\ j.count < Len(remote))
  BY <1>1, EndHeld
<1>2. CASE failure_keep(j)
  <2>1. result' = "failed"
    BY <1>2 DEF failure_keep
  <2> QED BY <1>2, <2>1, EndHeld
<1>3. CASE Again(j) /\ us.size /\ j.count < Len(remote) /\ j.count > j.prev
  BY <1>3, AgainHeld
<1> QED BY <1>1, <1>2, <1>3 DEF Verdict

\* A success that has written the last byte leaves the whole file.
LEMMA SuccessWhole ==
    ASSUME NEW j, JobOK(j, remote), Success(j), j.of # "null", j.out = remote
    PROVE  file'.exists /\ file'.data = remote
<1>1. CASE j.of = "tmp"
  <2>1. j.tmp
    BY <1>1 DEF JobOK
  <2> QED BY <1>1, <2>1 DEF Success
<1>2. CASE j.of = "path"
  <2>1. ~j.tmp
    BY <1>2 DEF JobOK
  <2> QED BY <1>2, <2>1 DEF Success, CloseOf
<1> QED BY <1>1, <1>2 DEF JobOK

\* A step that changes none of fetch()'s files and variables, or ends fetch.
LEMMA IdleKept ==
    ASSUME FileInv, remote' = remote,
           \/ phase' = phase /\ job' = job /\ file' = file /\ result' = result /\ us' = us
           \/ phase' \in {"gone", "crashed"} /\ job' = NewJob /\ result' = "none"
    PROVE  FileInv'
<1>1. CASE phase' = phase /\ job' = job /\ file' = file /\ result' = result /\ us' = us
  BY <1>1 DEF FileInv, FileWhole, Shape, Held, JobOK, FileOK, AskOK, CopyOK, Part,
              PrevOf, DiskOf
<1>2. CASE phase' \in {"gone", "crashed"} /\ job' = NewJob /\ result' = "none"
  <2>1. Shape(NewJob)
    BY DEF Shape, NewJob
  <2> QED BY <1>2, <2>1 DEF FileInv, FileWhole, Shape
<1> QED BY <1>1, <1>2

\* What has to be shown of a step of fetch().
LEMMA StepKept ==
    ASSUME FileInv, remote' = remote, Shape(job'), result' # "none" => phase' = "done",
           phase' \notin {"gone", "crashed"} /\ ~job'.dirty
              => Held(phase', job', file', remote),
           result' = "ok" /\ us'.size /\ ~job'.dirty /\ ~job'.stale
              => file'.exists /\ file'.data = remote
    PROVE  FileInv'
<1>1. (phase' \notin {"gone", "crashed"} /\ ~job'.dirty
         => Held(phase', job', file', remote'))
  OBVIOUS
<1>2. FileWhole'
  BY DEF FileWhole
<1> QED BY <1>1, <1>2 DEF FileInv, Shape, Held, JobOK, FileOK, AskOK, CopyOK, Part,
                         PrevOf, DiskOf

\* The first lines of "again".
LEMMA againKept == FileInv /\ again => FileInv'
<1> SUFFICES ASSUME FileInv, again PROVE FileInv'
  OBVIOUS
<1>1. /\ phase = "again" /\ phase' = "get" /\ file' = file /\ remote' = remote
      /\ result' = result
      /\ job' = [job EXCEPT
                   !.prev = IF PathExists THEN Len(OnDisk) ELSE -1,
                   !.offset = IF PathExists /\ ("r" \in flags \/ job.tries > 1)
                              THEN Len(OnDisk) ELSE @]
  BY DEF again
<1>2. /\ DOMAIN job' = DOMAIN job
      /\ job'.tries = job.tries /\ job'.count = job.count
      /\ job'.prev = PrevOf(job, file)
      /\ job'.offset = IF PathExists /\ ("r" \in flags \/ job.tries > 1)
                       THEN Len(OnDisk) ELSE job.offset
      /\ job'.of = job.of /\ job'.tmp = job.tmp /\ job'.out = job.out
      /\ job'.pos = job.pos /\ job'.flushed = job.flushed /\ job'.dirty = job.dirty
  <2>1. PrevOf(job, file) = IF PathExists THEN Len(OnDisk) ELSE -1
    BY DEF PrevOf, DiskOf, PathExists, OnDisk
  <2> QED BY <1>1, <2>1, Fields DEF FileInv, Shape
<1>3. Shape(job') /\ result' = "none"
  BY <1>1, <1>2 DEF Shape, FileInv
<1>4. ASSUME ~job.dirty PROVE Held("get", job', file, remote)
  <2>1. Held("again", job, file, remote)
    BY <1>1, <1>4 DEF FileInv
  <2>2. OnDisk \in Seq(Nat)
    <3>1. CASE job.of = "path"
      BY <2>1, <3>1, PartOfPart DEF Held, JobOK, Part, OnDisk, FileInv
    <3>2. CASE job.of # "path"
      BY <2>1, <3>2 DEF Held, FileOK, OnDisk
    <3> QED BY <3>1, <3>2
  <2>3. Len(OnDisk) \in Nat
    BY <2>2
  <2>4. PrevOf(job', file) = PrevOf(job, file)
    BY <1>2 DEF PrevOf, DiskOf
  <2>5. PrevOf(job, file) = IF PathExists THEN Len(OnDisk) ELSE -1
    BY DEF PrevOf, DiskOf, PathExists, OnDisk
  <2>6. JobOK(job', remote)
    BY <1>2, <2>1, <2>3, <2>5 DEF Held, JobOK
  <2>7. job'.prev # -1 => job'.offset <= job'.prev
    BY <1>2, <2>1, <2>3, <2>5 DEF Held, AskOK, JobOK
  <2> QED BY <1>2, <2>1, <2>4, <2>6, <2>7 DEF Held, AskOK, CopyOK, Asking
<1> QED BY <1>1, <1>2, <1>3, <1>4, StepKept

\* A stream, with the offset or from the start.
LEMMA GotStreamKept == FileInv /\ GotStream => FileInv'
<1> SUFFICES ASSUME FileInv, GotStream PROVE FileInv'
  OBVIOUS
<1>1. PICK off \in 0 .. job.offset :
         IF sigalrm /\ phase = "get"
         THEN phase' = "late" /\ job' = [job EXCEPT !.offset = off, !.stale = TRUE]
         ELSE /\ phase' = IF phase = "get" THEN "open" ELSE "create"
              /\ job' = [job EXCEPT !.offset = off]
  BY DEF GotStream
<1>2. /\ phase \in {"get", "refetch"} /\ file' = file /\ remote' = remote /\ result' = result
      /\ \/ phase = "get" /\ phase' \in {"late", "open"}
         \/ phase = "refetch" /\ phase' = "create"
  BY <1>1 DEF GotStream
<1>3. /\ DOMAIN job' = DOMAIN job
      /\ job'.tries = job.tries /\ job'.count = job.count /\ job'.prev = job.prev
      /\ job'.offset = off
      /\ job'.of = job.of /\ job'.tmp = job.tmp /\ job'.out = job.out
      /\ job'.pos = job.pos /\ job'.flushed = job.flushed /\ job'.dirty = job.dirty
      /\ phase' = "late" => job'.stale
  BY <1>1, <1>2, Fields DEF FileInv, Shape
<1>4. Shape(job') /\ result' = "none"
  BY <1>2, <1>3 DEF Shape, FileInv
<1>5. ASSUME ~job.dirty PROVE Held(phase', job', file, remote)
  <2>1. Held(phase, job, file, remote)
    BY <1>2, <1>5 DEF FileInv
  <2>2. PrevOf(job', file) = PrevOf(job, file)
    BY <1>3 DEF PrevOf, DiskOf
  <2>3. JobOK(job', remote)
    BY <1>3, <2>1 DEF Held, JobOK
  <2>4. job.prev # -1 => job.offset <= job.prev /\ job.prev \in Int /\ job.offset \in Nat
    BY <1>2, <2>1 DEF Held, AskOK, JobOK, Asking
  <2>5. job'.prev # -1 => job'.offset <= job'.prev
    BY <1>3, <2>4
  <2>6. phase = "refetch" => job'.offset = 0
    BY <1>3, <2>1 DEF Held, AskOK
  <2>7. AskOK(phase', job', file, remote)
    BY <1>2, <1>3, <2>1, <2>2, <2>5, <2>6 DEF Held, AskOK, Asking
  <2> QED BY <1>2, <2>1, <2>3, <2>7 DEF Held, CopyOK
<1> QED BY <1>2, <1>3, <1>4, <1>5, StepKept

\* No stream.
LEMMA NoStreamKept == FileInv /\ NoStream => FileInv'
<1> SUFFICES ASSUME FileInv, NoStream PROVE FileInv'
  OBVIOUS
<1>1. /\ phase \in {"get", "refetch"} /\ failure(job) /\ remote' = remote
      /\ job' = job /\ phase' = "done" /\ result' = "failed"
  BY DEF NoStream, failure
<1>2. ASSUME ~job.dirty PROVE Held(phase', job', file', remote)
  BY <1>1, <1>2, EndHeld DEF FileInv, Held
<1>3. Shape(job')
  BY <1>1 DEF FileInv
<1> QED BY <1>1, <1>2, <1>3, StepKept

\* A stream and a stale sigalrm.
LEMMA TimedOutLateKept == FileInv /\ TimedOutLate => FileInv'
<1> SUFFICES ASSUME FileInv, TimedOutLate PROVE FileInv'
  OBVIOUS
<1> DEFINE j == [job EXCEPT !.flushed = IF us.mtime THEN Len(job.out) ELSE @]
<1>1. phase = "late" /\ Verdict(j, TRUE) /\ remote' = remote /\ us' = us
  BY DEF TimedOutLate
<1>2. /\ DOMAIN j = DOMAIN job
      /\ j.tries = job.tries /\ j.count = job.count /\ j.prev = job.prev
      /\ j.offset = job.offset /\ j.of = job.of /\ j.tmp = job.tmp /\ j.out = job.out
      /\ j.pos = job.pos /\ j.flushed \in {Len(job.out), job.flushed}
      /\ j.dirty = job.dirty /\ j.stale = job.stale
  BY Fields DEF FileInv, Shape
<1> HIDE DEF j
<1>3. Shape(j)
  BY <1>2 DEF FileInv, Shape
<1>4. result' # "none" => phase' = "done"
  BY <1>1 DEF Verdict, Again, failure_keep, Success, FileInv
<1>5. Shape(job') /\ job'.dirty = j.dirty /\ job'.stale = j.stale
  <2>1. job' = j \/ job' = [j EXCEPT !.tries = @ + 1]
    BY <1>1 DEF Verdict, Again, failure_keep, Success
  <2> QED BY <1>3, <2>1, Fields DEF Shape
<1>6. ASSUME ~job.dirty PROVE Held(phase', job', file', remote) /\ job.stale
  <2>1. Held("late", job, file, remote) /\ remote \in Seq(Nat)
    BY <1>1, <1>6 DEF FileInv
  <2>2. JobOK(j, remote)
    <3>1. Len(job.out) \in 0 .. Len(job.out) /\ job.flushed \in 0 .. Len(job.out)
      BY <2>1 DEF Held, JobOK, Part
    <3> QED BY <1>2, <2>1, <3>1 DEF Held, JobOK
  <2>3. /\ job.tries = 1 => job.of = "null"
        /\ job.tries # 1 /\ job.of = "tmp" => file.exists /\ Len(file.data) < Len(remote)
        /\ job.prev = PrevOf(job, file) /\ job.stale
        /\ job.of = "null" => job.count = 0
    BY <2>1 DEF Held, AskOK, Asking, JobOK
  <2>4. j.of = "null" /\ j.count > j.prev => ~file.exists
    <3>1. file.data \in Seq(Nat)
      BY <2>1 DEF Held, FileOK
    <3>2. Len(file.data) \in Nat
      BY <3>1
    <3>3. job.of = "null" /\ file.exists => job.prev = Len(file.data)
      BY <2>3 DEF PrevOf, DiskOf
    <3> QED BY <1>2, <2>3, <3>2, <3>3
  <2>5. j.of = "tmp" => file.exists /\ Len(file.data) < Len(remote)
    BY <1>2, <2>3
  <2>6. FileOK(file, remote)
    BY <2>1 DEF Held
  <2> QED BY <1>1, <1>3, <2>1, <2>2, <2>3, <2>4, <2>5, <2>6, VerdictHeld
<1> QED BY <1>1, <1>2, <1>4, <1>5, <1>6, StepKept

\* The first write.
LEMMA CreateKept == FileInv /\ Create => FileInv'
<1> SUFFICES ASSUME FileInv, Create PROVE FileInv'
  OBVIOUS
<1>1. /\ phase = "create" /\ phase' = "copy" /\ file' = file /\ remote' = remote
      /\ result' = result
      /\ job' = [job EXCEPT !.of = IF job.prev # -1 THEN "tmp" ELSE "path",
                            !.tmp = job.prev # -1, !.out = <<>>, !.pos = 0, !.flushed = 0]
  BY DEF Create
<1>2. /\ DOMAIN job' = DOMAIN job
      /\ job'.tries = job.tries /\ job'.count = job.count /\ job'.prev = job.prev
      /\ job'.offset = job.offset
      /\ job'.of = (IF job.prev # -1 THEN "tmp" ELSE "path")
      /\ job'.out = <<>> /\ job'.pos = 0 /\ job'.flushed = 0
      /\ job'.dirty = job.dirty
  BY <1>1, Fields DEF FileInv, Shape
<1>3. job'.tmp = (job.prev # -1)
  BY <1>1, Fields DEF FileInv, Shape
<1>4. Shape(job') /\ result' = "none"
  BY <1>1, <1>2 DEF Shape, FileInv
<1>5. ASSUME ~job.dirty PROVE Held("copy", job', file, remote)
  <2>1. Held("create", job, file, remote) /\ remote \in Seq(Nat)
    BY <1>1, <1>5 DEF FileInv
  <2>2. job.offset = 0 /\ job.of = "null" /\ job.prev = PrevOf(job, file)
    BY <2>1 DEF Held, AskOK, Asking
  <2>3. job.prev # -1 => file.exists /\ job.prev = Len(file.data)
    BY <2>2 DEF PrevOf, DiskOf
  <2>4. Part(<<>>, remote)
    BY <2>1 DEF Part, Agrees
  <2>5. job'.tmp = (job'.of = "tmp")
    BY <1>2, <1>3
  <2>6. 0 \in 0 .. Len(<<>>) /\ job'.of \in {"path", "tmp"}
    BY <1>2
  <2>7. JobOK(job', remote)
    BY <1>2, <2>1, <2>4, <2>5, <2>6 DEF Held, JobOK
  <2>8. CopyOK("copy", job', file)
    BY <1>2, <2>2, <2>3 DEF CopyOK
  <2>9. AskOK("copy", job', file, remote)
    BY DEF AskOK, Asking
  <2> QED BY <2>1, <2>7, <2>8, <2>9 DEF Held
<1> QED BY <1>1, <1>2, <1>4, <1>5, StepKept

\* A transfer: however far it got, what it wrote is a part of the remote file,
\* and if it got to the end, all of it.
LEMMA CopyKept == FileInv /\ Copy => FileInv'
<1> SUFFICES ASSUME FileInv, Copy PROVE FileInv'
  OBVIOUS
<1>0. phase = "copy" /\ remote' = remote /\ us' = us
  BY DEF Copy
<1>1. PICK k \in 0 .. Len(remote) - job.offset, how \in {"end", "error", "timeout"} :
         \E n \in IF us.mtime
                  THEN {Len(Overlay(job.out, job.pos,
                                    SubSeq(remote, job.offset + 1, job.offset + k)))}
                  ELSE job.flushed .. Len(Overlay(job.out, job.pos,
                                    SubSeq(remote, job.offset + 1, job.offset + k))) :
           LET j == [job EXCEPT !.out = Overlay(job.out, job.pos,
                                          SubSeq(remote, job.offset + 1, job.offset + k)),
                                !.pos = @ + k, !.flushed = n, !.count = job.offset + k]
           IN IF how = "error" THEN failure(j) ELSE Verdict(j, how = "timeout")
  BY DEF Copy
<1> DEFINE out == Overlay(job.out, job.pos, SubSeq(remote, job.offset + 1, job.offset + k))
<1>2. PICK n \in IF us.mtime THEN {Len(out)} ELSE job.flushed .. Len(out) :
         LET j == [job EXCEPT !.out = out, !.pos = @ + k, !.flushed = n,
                              !.count = job.offset + k]
         IN IF how = "error" THEN failure(j) ELSE Verdict(j, how = "timeout")
  BY <1>1
<1> DEFINE j == [job EXCEPT !.out = out, !.pos = @ + k, !.flushed = n,
                            !.count = job.offset + k]
<1>3. failure(j) \/ Verdict(j, how = "timeout")
  BY <1>2
<1> HIDE DEF out
<1>4. /\ DOMAIN j = DOMAIN job
      /\ j.tries = job.tries /\ j.count = job.offset + k /\ j.prev = job.prev
      /\ j.offset = job.offset /\ j.of = job.of /\ j.tmp = job.tmp /\ j.out = out
      /\ j.pos = job.pos + k /\ j.flushed = n
      /\ j.dirty = job.dirty /\ j.stale = job.stale
  BY Fields DEF FileInv, Shape
<1> HIDE DEF j
<1>5. Shape(j)
  BY <1>4 DEF FileInv, Shape
<1>6. result' # "none" => phase' = "done"
  BY <1>0, <1>3 DEF Verdict, Again, failure_keep, failure, Success, FileInv
<1>7. Shape(job') /\ job'.dirty = j.dirty /\ job'.stale = j.stale
  <2>1. job' = j \/ job' = [j EXCEPT !.tries = @ + 1]
    BY <1>3 DEF Verdict, Again, failure_keep, failure, Success
  <2> QED BY <1>5, <2>1, Fields DEF Shape
<1>8. ASSUME ~job.dirty
      PROVE  /\ Held(phase', job', file', remote)
             /\ result' = "ok" /\ us.size => file'.exists /\ file'.data = remote
  <2>1. Held("copy", job, file, remote) /\ remote \in Seq(Nat) /\ result = "none"
    BY <1>0, <1>8 DEF FileInv
  <2>2. /\ job.pos = job.offset /\ job.of # "null" /\ Part(job.out, remote)
        /\ job.pos \in 0 .. Len(job.out) /\ job.flushed \in 0 .. Len(job.out)
        /\ job.of = "tmp" => file.exists /\ job.prev = Len(file.data)
    BY <2>1 DEF Held, CopyOK, JobOK
  <2>3. k \in 0 .. Len(remote) - job.pos
    BY <2>2
  <2>4. /\ Part(out, remote) /\ job.pos + k <= Len(out) /\ Len(job.out) <= Len(out)
        /\ job.pos + k = Len(remote) => out = remote
    BY SMTT(30), <2>1, <2>2, <2>3, OverlayPart DEF out
  <2>5. /\ Len(out) \in Nat /\ Len(remote) \in Nat /\ Len(job.out) \in Nat
        /\ job.pos \in Nat /\ k \in Nat /\ job.flushed \in Nat
        /\ job.flushed <= Len(job.out) /\ job.pos + k <= Len(remote)
    BY <2>1, <2>2, <2>3, <2>4 DEF Part
  <2>6. j.pos \in 0 .. Len(out) /\ n \in 0 .. Len(out) /\ j.count \in Nat
    BY <1>4, <2>2, <2>4, <2>5
  <2>7. JobOK(j, remote)
    BY <1>4, <2>1, <2>2, <2>4, <2>6 DEF Held, JobOK
  <2>8. FileOK(file, remote)
    BY <2>1 DEF Held
  <2>9. CASE failure(j)
    BY <2>1, <2>7, <2>8, <2>9, EndHeld DEF failure
  <2>10. CASE Verdict(j, how = "timeout")
    <3>1. j.of = "tmp" /\ j.count > j.prev /\ j.count < Len(remote)
             => file.exists /\ Len(file.data) < Len(remote)
      <4>1. file.data \in Seq(Nat)
        BY <2>8 DEF FileOK
      <4>2. Len(file.data) \in Nat
        BY <4>1
      <4> QED BY <1>4, <2>2, <2>5, <2>6, <4>2
    <3>2. j.of # "null"
      BY <1>4, <2>2
    <3>3. /\ Held(phase', job', file', remote)
          /\ \/ Success(j) /\ (us.size => ~(j.count < Len(remote)))
             \/ result' = "failed" \/ result' = result
      BY <1>5, <2>1, <2>7, <2>8, <2>10, <3>1, <3>2, VerdictHeld
    <3>4. CASE Success(j) /\ (us.size => ~(j.count < Len(remote)))
      <4>1. us.size => j.out = remote
        BY <1>4, <2>2, <2>4, <2>5, <3>4
      <4> QED BY <2>7, <3>2, <3>3, <3>4, <4>1, SuccessWhole
    <3> QED BY <2>1, <3>3, <3>4
  <2> QED BY <1>3, <2>9, <2>10
<1> QED BY <1>0, <1>4, <1>6, <1>7, <1>8, StepKept

\* What "open output file" finds at path, when -r goes on with it knowing the
\* time or in a later pass: a part of the remote file.
LEMMA FoundPart ==
    ASSUME Held("open", job, file, remote), remote \in Seq(Nat), job.prev # -1,
           ~Mismatch, ~Untold, job.prev <= Len(remote)
    PROVE  /\ job.of # "tmp" => Part(OnDisk, remote) /\ Len(OnDisk) = job.prev
           /\ job.of = "tmp" => job.prev < Len(remote)
           /\ job.of = "null" => file.exists
<1>1. /\ job.tries = 1 => job.of = "null"
      /\ job.tries # 1 /\ job.of = "null" => ~file.exists
      /\ job.tries # 1 /\ job.of = "tmp" => file.exists /\ Len(file.data) < Len(remote)
      /\ job.prev = PrevOf(job, file)
      /\ job.of \in {"null", "path", "tmp"}
  BY DEF Held, AskOK, Asking, JobOK
<1>2. CASE job.of = "path"
  <2>1. Part(job.out, remote) /\ job.flushed \in 0 .. Len(job.out)
    BY DEF Held, JobOK
  <2>2. OnDisk = SubSeq(job.out, 1, job.flushed) /\ job.prev = Len(OnDisk)
    BY <1>1, <1>2 DEF OnDisk, PrevOf, DiskOf
  <2>3. Part(OnDisk, remote)
    BY <2>1, <2>2, PartOfPart
  <2> QED BY <1>2, <2>2, <2>3
<1>3. CASE job.of = "tmp"
  BY <1>1, <1>3 DEF PrevOf, DiskOf
<1>4. CASE job.of = "null"
  <2>1. file.exists /\ job.prev = Len(file.data) /\ OnDisk = file.data
    BY <1>1, <1>4 DEF PrevOf, DiskOf, OnDisk
  <2>2. job.tries = 1
    BY <1>1, <1>4, <2>1
  <2>3. file.same
    BY <2>2 DEF Mismatch, Untold
  <2> QED BY <1>4, <2>1, <2>3 DEF Held, FileOK, Part
<1> QED BY <1>1, <1>2, <1>3, <1>4

\* "open output file".
LEMMA OpenKept == FileInv /\ Open => FileInv'
<1> SUFFICES ASSUME FileInv, Open PROVE FileInv'
  OBVIOUS
<1> DEFINE resume == "r" \in flags /\ job.prev # -1
           fresh == phase' = (IF job.offset > 0 THEN "refetch" ELSE "create")
                    /\ job' = [job EXCEPT !.offset = 0]
<1>0. phase = "open" /\ remote' = remote /\ us' = us /\ result = "none"
      /\ remote \in Seq(Nat) /\ Shape(job)
      /\ (~job.dirty => Held("open", job, file, remote))
  BY DEF Open, FileInv
<1>1. ASSUME fresh, file' = file, result' = result, ~job.dirty => job.of = "null"
      PROVE  FileInv'
  <2>1. /\ DOMAIN job' = DOMAIN job
        /\ job'.tries = job.tries /\ job'.count = job.count /\ job'.prev = job.prev
        /\ job'.offset = 0 /\ job'.of = job.of /\ job'.tmp = job.tmp
        /\ job'.out = job.out /\ job'.pos = job.pos /\ job'.flushed = job.flushed
        /\ job'.dirty = job.dirty
    BY <1>0, <1>1, Fields DEF Shape
  <2>2. Shape(job') /\ phase' \in {"refetch", "create"}
    BY <1>0, <1>1, <2>1 DEF Shape
  <2>3. ASSUME ~job.dirty PROVE Held(phase', job', file, remote)
    <3>1. Held("open", job, file, remote) /\ job.of = "null"
      BY <1>0, <1>1, <2>3
    <3>2. JobOK(job', remote)
      BY <2>1, <3>1 DEF Held, JobOK
    <3>3. PrevOf(job', file) = PrevOf(job, file)
      BY <2>1 DEF PrevOf, DiskOf
    <3>4. job.prev # -1 => 0 <= job.prev
      BY <3>1 DEF Held, AskOK, Asking, JobOK
    <3>5. AskOK(phase', job', file, remote)
      BY <2>1, <2>2, <3>1, <3>3, <3>4 DEF Held, AskOK, Asking
    <3> QED BY <2>2, <3>1, <3>2, <3>5 DEF Held, CopyOK
  <2> QED BY <1>0, <1>1, <2>1, <2>2, <2>3, StepKept
<1>2. CASE /\ resume /\ Mismatch /\ job.offset > 0
           /\ fresh /\ UNCHANGED <<file, result>>
  <2>1. ~job.dirty => job.of = "null"
    BY <1>0, <1>2 DEF Mismatch, Held, AskOK, Asking
  <2> HIDE DEF fresh
  <2> QED BY <1>1, <1>2, <2>1
<1>3. CASE /\ resume /\ ~Mismatch /\ us.size /\ Len(remote) = job.prev
           /\ Success([job EXCEPT !.dirty = @ \/ Untold])
  <2> DEFINE j == [job EXCEPT !.dirty = @ \/ Untold]
  <2>1. /\ DOMAIN j = DOMAIN job
        /\ j.tries = job.tries /\ j.count = job.count /\ j.prev = job.prev
        /\ j.offset = job.offset /\ j.of = job.of /\ j.tmp = job.tmp /\ j.out = job.out
        /\ j.pos = job.pos /\ j.flushed = job.flushed
    BY <1>0, Fields DEF Shape
  <2>2. j.dirty = (job.dirty \/ Untold)
    BY <1>0, Fields DEF Shape
  <2>3. Success(j)
    BY <1>3
  <2> HIDE DEF j
  <2>4. Shape(j) /\ job' = j /\ phase' = "done"
    BY <1>0, <2>1, <2>2, <2>3 DEF Shape, Untold, Success
  <2>5. ASSUME ~j.dirty
        PROVE  /\ Held(phase', job', file', remote)
               /\ file'.exists /\ file'.data = remote
    <3>1. ~Untold /\ Held("open", job, file, remote)
      BY <1>0, <2>2, <2>5
    <3>2. JobOK(j, remote) /\ FileOK(file, remote)
      BY <2>1, <3>1 DEF Held, JobOK
    <3>3. Held(phase', job', file', remote)
      BY <1>0, <2>3, <3>2, EndHeld
    <3>4. Len(remote) \in Nat /\ job.prev = Len(remote) /\ job.prev # -1
      BY <1>0, <1>3
    <3>5. /\ job.of # "tmp" => Part(OnDisk, remote) /\ Len(OnDisk) = job.prev
          /\ job.of = "tmp" => job.prev < Len(remote)
          /\ job.of = "null" => file.exists
      BY <1>0, <1>3, <3>1, <3>4, FoundPart
    <3>6. job.of # "tmp"
      BY <3>4, <3>5
    <3>7. OnDisk = remote
      <4>1. OnDisk \in Seq(Nat) /\ Len(OnDisk) = Len(remote)
            /\ \A i \in 1 .. Len(OnDisk) : OnDisk[i] = remote[i]
        BY <3>4, <3>5, <3>6 DEF Part, Agrees
      <4> QED BY <1>0, <4>1, SeqEqual
    <3>8. CASE job.of = "null"
      <4>1. ~j.tmp /\ j.of # "path"
        BY <2>1, <3>8, <3>2 DEF JobOK
      <4>2. file' = file
        BY <2>3, <4>1 DEF Success, CloseOf
      <4> QED BY <3>3, <3>5, <3>7, <3>8, <4>2 DEF OnDisk
    <3>9. CASE job.of = "path"
      <4>1. /\ Part(job.out, remote) /\ job.flushed \in 0 .. Len(job.out)
            /\ OnDisk = SubSeq(job.out, 1, job.flushed)
        BY <3>1, <3>9 DEF Held, JobOK, OnDisk
      <4>2. Len(OnDisk) = job.flushed
        BY <1>0, <4>1, PartOfPart
      <4>3. /\ job.out \in Seq(Nat) /\ Len(job.out) = Len(remote)
            /\ \A i \in 1 .. Len(job.out) : job.out[i] = remote[i]
        BY <3>4, <3>7, <4>1, <4>2 DEF Part, Agrees
      <4>4. job.out = remote
        BY <1>0, <4>3, SeqEqual
      <4> QED BY <2>1, <2>3, <3>2, <3>3, <3>9, <4>4, SuccessWhole
    <3> QED BY <3>1, <3>6, <3>8, <3>9 DEF Held, JobOK
  <2> QED BY <1>0, <2>4, <2>5, StepKept
<1>4. CASE /\ resume /\ ~Mismatch /\ us.size /\ Len(remote) < job.prev
           /\ failure(job)
  <2>1. job' = job /\ phase' = "done" /\ result' = "failed"
    BY <1>4 DEF failure
  <2>2. ASSUME ~job.dirty PROVE Held(phase', job', file', remote)
    BY <1>0, <1>4, <2>2, EndHeld DEF Held
  <2> QED BY <1>0, <2>1, <2>2, StepKept
<1>5. CASE /\ resume /\ ~Mismatch /\ us.size /\ Len(remote) > job.prev
           /\ phase' = "copy"
           /\ job' = [job EXCEPT !.of = "path", !.out = OnDisk, !.pos = job.offset,
                                 !.flushed = Len(OnDisk),
                                 !.tmpdata = IF job.of = "tmp" THEN job.out ELSE @,
                                 !.dirty = @ \/ job.tmp \/ Untold]
           /\ UNCHANGED <<file, result>>
  <2>1. /\ DOMAIN job' = DOMAIN job
        /\ job'.tries = job.tries /\ job'.count = job.count /\ job'.prev = job.prev
        /\ job'.offset = job.offset /\ job'.of = "path" /\ job'.tmp = job.tmp
        /\ job'.out = OnDisk /\ job'.pos = job.offset /\ job'.flushed = Len(OnDisk)
    BY <1>0, <1>5, Fields DEF Shape
  <2>2. job'.dirty = (job.dirty \/ job.tmp \/ Untold)
    BY <1>0, <1>5, Fields DEF Shape
  <2>3. job'.dirty \in BOOLEAN
    BY <2>2
  <2>4. Shape(job')
    BY <1>0, <2>1, <2>3 DEF Shape
  <2>5. ASSUME ~job'.dirty PROVE Held("copy", job', file, remote)
    <3>1. ~job.dirty /\ ~job.tmp /\ ~Untold
      BY <2>2, <2>5
    <3>2. Held("open", job, file, remote)
      BY <1>0, <3>1
    <3>3. /\ job.of # "tmp" /\ job.prev \in Int /\ job.offset \in Nat
          /\ job.offset <= job.prev
      BY <1>5, <3>1, <3>2 DEF Held, JobOK, AskOK, Asking
    <3>4. job.prev <= Len(remote)
      BY <1>0, <1>5, <3>3
    <3>5. Part(OnDisk, remote) /\ Len(OnDisk) = job.prev
      BY <1>0, <1>5, <3>1, <3>2, <3>3, <3>4, FoundPart
    <3>6. job.offset \in 0 .. Len(OnDisk) /\ Len(OnDisk) \in 0 .. Len(OnDisk)
      BY <3>3, <3>5
    <3>7. job'.tmp = (job'.of = "tmp")
      BY <2>1, <3>2, <3>3 DEF Held, JobOK
    <3>8. JobOK(job', remote)
      BY <2>1, <3>2, <3>5, <3>6, <3>7 DEF Held, JobOK
    <3> QED BY <2>1, <3>2, <3>8 DEF Held, AskOK, CopyOK, Asking
  <2> QED BY <1>0, <1>5, <2>4, <2>5, StepKept
<1>6. CASE /\ ~resume \/ (~Mismatch /\ ~us.size)
           /\ IF job.of = "null" THEN fresh
              ELSE /\ phase' = "copy"
                   /\ job' = [job EXCEPT !.pos = IF resume THEN job.offset ELSE @,
                                         !.dirty = @ \/ job.pos # job.offset]
           /\ UNCHANGED <<file, result>>
  <2>1. CASE job.of = "null"
    <3>1. fresh
      BY <1>6, <2>1
    <3> HIDE DEF fresh
    <3> QED BY <1>1, <1>6, <2>1, <3>1
  <2>2. CASE job.of # "null"
    <3>1. /\ phase' = "copy"
          /\ job' = [job EXCEPT !.pos = IF resume THEN job.offset ELSE @,
                                !.dirty = @ \/ job.pos # job.offset]
      BY <1>6, <2>2
    <3> HIDE DEF resume
    <3>2. /\ DOMAIN job' = DOMAIN job
          /\ job'.tries = job.tries /\ job'.count = job.count /\ job'.prev = job.prev
          /\ job'.offset = job.offset /\ job'.of = job.of /\ job'.tmp = job.tmp
          /\ job'.out = job.out /\ job'.pos \in {job.pos, job.offset}
          /\ job'.flushed = job.flushed
      BY <1>0, <3>1, Fields DEF Shape
    <3>3. job'.dirty = (job.dirty \/ job.pos # job.offset)
      BY <1>0, <3>1, Fields DEF Shape
    <3>4. job'.dirty \in BOOLEAN
      BY <3>3
    <3>5. Shape(job')
      BY <1>0, <3>2, <3>4 DEF Shape
    <3>6. ASSUME ~job'.dirty PROVE Held("copy", job', file, remote)
      <4>1. ~job.dirty /\ job.pos = job.offset /\ job'.pos = job.pos
        BY <3>2, <3>3, <3>6
      <4>2. Held("open", job, file, remote)
        BY <1>0, <4>1
      <4>3. JobOK(job', remote)
        BY <3>2, <4>1, <4>2 DEF Held, JobOK
      <4>4. job.of = "tmp" => file.exists /\ job.prev = Len(file.data)
        BY <4>2 DEF Held, AskOK, Asking, PrevOf, DiskOf
      <4> QED BY <2>2, <3>2, <4>1, <4>2, <4>3, <4>4 DEF Held, AskOK, CopyOK, Asking
    <3> QED BY <1>0, <1>6, <3>1, <3>5, <3>6, StepKept
  <2> QED BY <2>1, <2>2
<1> HIDE DEF fresh
<1> QED BY <1>2, <1>3, <1>4, <1>5, <1>6 DEF Open, fresh

\* main() goes on: the same URL again after a failure, or the next one.
LEMMA NextUrlKept == FileInv /\ NextUrl => FileInv'
<1> SUFFICES ASSUME FileInv, NextUrl PROVE FileInv'
  OBVIOUS
<1>1. phase = "done" /\ phase' = "again" /\ result' = "none"
  BY DEF NextUrl
<1>2. Shape(NewJob) /\ NewJob.dirty = FALSE
  BY DEF Shape, NewJob
<1>3. CASE job' = [NewJob EXCEPT !.dirty = job.dirty] /\ file' = file /\ remote' = remote
  <2>1. Shape(job') /\ job'.dirty = job.dirty
    BY <1>2, <1>3, Fields DEF FileInv, Shape
  <2>2. ASSUME ~job.dirty PROVE Held("again", job', file, remote)
    <3>1. job' = NewJob
      BY <1>3, <2>2 DEF NewJob, FileInv, Shape
    <3>2. FileOK(file, remote) /\ remote \in Seq(Nat)
      BY <1>1, <2>2 DEF FileInv, Held
    <3> QED BY <3>1, <3>2, NewJobHeld
  <2> QED BY <1>1, <1>3, <2>1, <2>2, StepKept
<1>4. CASE job' = NewJob /\ file' \in Files /\ remote' \in Remotes
  <2>1. remote' \in Seq(Nat) /\ FileOK(file', remote')
    BY <1>4, FilesTold
  <2>2. Held(phase', job', file', remote')
    BY <1>1, <1>4, <2>1, NewJobHeld
  <2>3. Shape(job')
    BY <1>2, <1>4
  <2>4. FileWhole'
    BY <1>1 DEF FileWhole
  <2> QED BY <1>1, <2>1, <2>2, <2>3, <2>4
          DEF FileInv, Shape, Held, JobOK, FileOK, AskOK, CopyOK, Part, PrevOf, DiskOf
<1> QED BY <1>3, <1>4 DEF NextUrl

\* Every step keeps what is in the files.
LEMMA FNextFileInv == FileInv /\ [FNext]_allvars => FileInv'
<1> SUFFICES ASSUME FileInv, [FNext]_allvars PROVE FileInv'
  OBVIOUS
<1>1. CASE UNCHANGED allvars
  BY <1>1, IdleKept DEF allvars, fvars
<1>2. CASE FetchStep
  <2>1. CASE AlarmInTransfer
    BY <2>1, IdleKept DEF AlarmInTransfer
  <2> QED BY <1>2, <2>1, againKept, GotStreamKept, NoStreamKept, TimedOutLateKept,
             OpenKept, CreateKept, CopyKept, NextUrlKept DEF FetchStep
<1>3. CASE \E how \in {"gone", "crashed"} : Gone(how)
  BY <1>3, IdleKept DEF Gone
<1>4. CASE UNCHANGED <<phase, us, remote, file, job, result>>
  BY <1>4, IdleKept
<1> QED BY <1>1, <1>2, <1>3, <1>4 DEF FNext, Crash, fvars

\* FileWhole: for any remote files and any local ones of which those with the
\* remote time agree with it, and any number of URLs and passes, when fetch()
\* returns success and knew the size, path holds the remote file byte for byte.
THEOREM FilesWhole == FSpec => []FileWhole
<1>1. FInit => FileInv
  <2> SUFFICES ASSUME FInit PROVE FileInv
    OBVIOUS
  <2>1. remote \in Remotes /\ file \in Files /\ job = NewJob /\ phase = "again"
        /\ result = "none"
    BY DEF FInit
  <2>2. remote \in Seq(Nat) /\ FileOK(file, remote)
    BY <2>1, FilesTold
  <2>3. Held("again", job, file, remote)
    BY <2>1, <2>2, NewJobHeld
  <2>4. Shape(job)
    BY <2>1 DEF Shape, NewJob
  <2> QED BY <2>1, <2>2, <2>3, <2>4 DEF FileInv, FileWhole
<1>2. FileInv => FileWhole
  BY DEF FileInv
<1> QED BY <1>1, <1>2, FNextFileInv, PTL DEF FSpec
=============================================================================
