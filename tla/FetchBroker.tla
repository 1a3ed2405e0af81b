---------------------------- MODULE FetchBroker ----------------------------
(***************************************************************************)
(* The privilege-separated connect of libfetch/sandbox.c: fetch(1) forks a *)
(* broker, confines itself, and from then on obtains every TCP connection  *)
(* by a request and an answer over one SEQPACKET socket pair.              *)
(*                                                                         *)
(* The two processes interleave freely.  fetch(1) arms an alarm around its *)
(* connects (fetch.c, alarm(timeout)) and its SIGALRM handler has no       *)
(* SA_RESTART, so a blocked recvmsg may be interrupted; an interrupted     *)
(* connect is given up and the run goes on with the next URL or retry.     *)
(***************************************************************************)
EXTENDS Integers, Sequences

CONSTANTS
    Hosts,        \* hosts a URL, redirect or PASV answer may name
    Ports,        \* ports likewise
    broker_ports, \* the ports that are always allowed
    MaxConnects,  \* bound: connects of one run
    Timeouts,     \* TRUE if the run has a -T or *_TIMEOUT value
    NoPort        \* broker_first_port = 0

ASSUME BrokerAssumption ==
    /\ broker_ports \subseteq Ports
    /\ NoPort \notin Ports
    /\ MaxConnects \in Nat
    /\ Timeouts \in BOOLEAN

VARIABLES
    client,     \* where fetch is: see Clients
    broker,     \* see Brokers
    requests,   \* packets from fetch to the broker
    work,       \* the request the broker is connecting, if any
    answers,    \* packets from the broker to fetch
    broker_first_port,
    sent,       \* requests sent
    received,   \* answers read
    abandoned,  \* waits cut short by a signal
    hungup,     \* a wait ended because the broker was gone
    got,        \* the answers accepted as connections, oldest first
    opened      \* ports the broker has opened connections to

vars == <<client, broker, requests, work, answers, broker_first_port,
          sent, received, abandoned, hungup, got, opened>>

\* Before the fork; the three steps of confining itself; the three of undoing
\* a failed start; then confined, between connects or in one; and its ends.
Clients == {"start", "allow_dir", "allow_tmp", "enter", "kill", "reap", "closing",
            "idle", "waiting", "dead", "failed"}

\* "killed": SIGKILL was sent and no instruction of it runs any more; "gone":
\* it has ended; "reaped": fetch has collected it.
Brokers == {"none", "running", "killed", "gone", "reaped"}

Request == [id : Nat, host : Hosts, port : Ports]
Answer  == [id : Nat, ok : BOOLEAN, host : Hosts, port : Ports]

\* A connection fetch accepted: the answer, the request it was waiting for
\* and how many waits had been cut short by then.
Accepted == [answer : Answer, want : Nat, skew : Nat]

Init ==
    /\ client = "start" /\ broker = "none"
    /\ requests = << >> /\ work = << >> /\ answers = << >>
    /\ broker_first_port = NoPort
    /\ sent = 0 /\ received = 0 /\ abandoned = 0
    /\ hungup = FALSE /\ got = << >> /\ opened = {}

-----------------------------------------------------------------------------
(* fetch_sandbox_begin.                                                    *)

\* socketpair and fork; either may fail, and fetch(1) then exits.
Fork ==
    /\ client = "start"
    /\ \/ client' = "allow_dir" /\ broker' = "running"
       \/ client' = "failed" /\ broker' = broker
    /\ UNCHANGED <<requests, work, answers, broker_first_port, sent, received,
                   abandoned, hungup, got, opened>>

\* caph_allow_path(dir), caph_allow_path(tmp), caph_enter_paths(): the first
\* that fails leads to the cleanup.
\* Faulty: a missing TMPDIR is reported at once.
ConfineReturnsEarly ==
    /\ \/ client = "allow_dir" /\ client' \in {"allow_tmp", "kill"}
       \/ client = "allow_tmp" /\ client' \in {"enter", "failed"}
       \/ client = "enter" /\ client' \in {"idle", "kill"}
    /\ UNCHANGED <<broker, requests, work, answers, broker_first_port, sent,
                   received, abandoned, hungup, got, opened>>
Confine ==
    /\ \/ client = "allow_dir" /\ client' \in {"allow_tmp", "kill"}
       \/ client = "allow_tmp" /\ client' \in {"enter", "kill"}
       \/ client = "enter" /\ client' \in {"idle", "kill"}
    /\ UNCHANGED <<broker, requests, work, answers, broker_first_port, sent,
                   received, abandoned, hungup, got, opened>>

\* kill(broker_pid, SIGKILL); a broker that has ended stays as it is.
\* Faulty: the broker is only waited for.
KillBrokerNot ==
    /\ client = "kill" /\ client' = "reap"
    /\ UNCHANGED <<broker, requests, work, answers, broker_first_port, sent,
                   received, abandoned, hungup, got, opened>>
KillBroker ==
    /\ client = "kill" /\ client' = "reap"
    /\ broker' = IF broker = "running" THEN "killed" ELSE broker
    /\ UNCHANGED <<requests, work, answers, broker_first_port, sent, received,
                   abandoned, hungup, got, opened>>

\* waitpid() blocks until the broker has ended.
ReapBroker ==
    /\ client = "reap" /\ broker = "gone"
    /\ client' = "closing" /\ broker' = "reaped"
    /\ UNCHANGED <<requests, work, answers, broker_first_port, sent, received,
                   abandoned, hungup, got, opened>>

\* close(broker_fd) and the error is returned: fetch(1) exits.
CloseFd ==
    /\ client = "closing" /\ client' = "failed"
    /\ UNCHANGED <<broker, requests, work, answers, broker_first_port, sent,
                   received, abandoned, hungup, got, opened>>

-----------------------------------------------------------------------------
(* fetch_sandbox_connect.                                                  *)

\* send(): with the broker gone the write raises SIGPIPE, which fetch(1)
\* does not catch.
Send(h, p) ==
    /\ client = "idle" /\ sent < MaxConnects
    /\ IF broker = "running"
         THEN /\ client' = "waiting"
              /\ requests' = Append(requests, [id |-> sent + 1, host |-> h, port |-> p])
              /\ sent' = sent + 1
         ELSE /\ client' = "dead"
              /\ UNCHANGED <<requests, sent>>
    /\ UNCHANGED <<broker, work, answers, broker_first_port, received,
                   abandoned, hungup, got, opened>>

\* A broker that closes its end with packets unread leaves an error on
\* fetch's end, which recvmsg() reports before anything queued.
Reset == broker = "gone" /\ requests # << >>

\* recvmsg() with a packet queued: the oldest one is the answer.
\* Faulty: it stays queued.
ReceivePeek ==
    /\ client = "waiting" /\ answers # << >> /\ ~Reset
    /\ client' = "idle"
    /\ received' = received + 1
    /\ got' = IF Head(answers).ok
                THEN Append(got, [answer |-> Head(answers), want |-> sent,
                                  skew |-> abandoned])
                ELSE got
    /\ UNCHANGED <<broker, requests, work, answers, broker_first_port, sent,
                   abandoned, hungup, opened>>
Receive ==
    /\ client = "waiting" /\ answers # << >> /\ ~Reset
    /\ client' = "idle"
    /\ answers' = Tail(answers)
    /\ received' = received + 1
    /\ got' = IF Head(answers).ok
                THEN Append(got, [answer |-> Head(answers), want |-> sent,
                                  skew |-> abandoned])
                ELSE got
    /\ UNCHANGED <<broker, requests, work, broker_first_port, sent, abandoned,
                   hungup, opened>>

\* recvmsg() at end of file or with an error pending: n <= 0, EPIPE.
\* Faulty: only an orderly end of file ends the wait.
ReceiveEofOnly ==
    /\ client = "waiting" /\ broker = "gone"
    /\ answers = << >> /\ ~Reset
    /\ client' = "idle"
    /\ hungup' = TRUE
    /\ UNCHANGED <<broker, requests, work, answers, broker_first_port, sent,
                   received, abandoned, got, opened>>
ReceiveEof ==
    /\ client = "waiting" /\ broker = "gone"
    /\ answers = << >> \/ Reset
    /\ client' = "idle"
    /\ hungup' = TRUE
    /\ UNCHANGED <<broker, requests, work, answers, broker_first_port, sent,
                   received, abandoned, got, opened>>

\* recvmsg() interrupted by SIGALRM while blocked: n < 0, EPIPE.
Alarm ==
    /\ Timeouts
    /\ client = "waiting" /\ answers = << >> /\ broker = "running"
    /\ client' = "idle"
    /\ abandoned' = abandoned + 1
    /\ UNCHANGED <<broker, requests, work, answers, broker_first_port, sent,
                   received, hungup, got, opened>>

-----------------------------------------------------------------------------
(* broker_loop.                                                            *)

\* Faulty: any port passes once one is pinned.
PortOkOncePinned(p) == p \in broker_ports \/ broker_first_port # NoPort
broker_port_ok(p) ==
    p \in broker_ports \/ broker_first_port \in {NoPort, p}

\* recv() and the port test of broker_connect_one, which pins the port.
\* Faulty: the next request is read while one is being connected.
BrokerTakeMore ==
    /\ broker = "running" /\ requests # << >>
    /\ work' = Append(work, Head(requests))
    /\ requests' = Tail(requests)
    /\ broker_first_port' =
         IF Head(requests).port \notin broker_ports /\ broker_first_port = NoPort
           THEN Head(requests).port ELSE broker_first_port
    /\ UNCHANGED <<client, broker, answers, sent, received, abandoned, hungup,
                   got, opened>>
BrokerTake ==
    /\ broker = "running" /\ work = << >> /\ requests # << >>
    /\ work' = <<Head(requests)>>
    /\ requests' = Tail(requests)
    /\ broker_first_port' =
         IF Head(requests).port \notin broker_ports /\ broker_first_port = NoPort
           THEN Head(requests).port ELSE broker_first_port
    /\ UNCHANGED <<client, broker, answers, sent, received, abandoned, hungup,
                   got, opened>>

\* The rest of broker_connect_one and broker_send_result.  With fetch gone
\* the answer raises SIGPIPE and ends the broker.
BrokerAnswer(ok) ==
    /\ broker = "running" /\ work # << >>
    /\ ok => broker_port_ok(work[1].port)
    /\ opened' = IF ok THEN opened \cup {work[1].port} ELSE opened
    /\ work' = << >>
    /\ IF client \in {"dead", "failed"}
         THEN broker' = "gone" /\ UNCHANGED answers
         ELSE /\ broker' = broker
              /\ answers' = Append(answers, [id |-> work[1].id, ok |-> ok,
                                   host |-> work[1].host, port |-> work[1].port])
    /\ UNCHANGED <<client, requests, broker_first_port, sent, received,
                   abandoned, hungup, got>>

\* recv() returns 0 once fetch has gone: _exit(0).
\* Faulty: the end of a confined fetch is not seen.
BrokerEofMissed ==
    /\ broker = "running" /\ work = << >> /\ requests = << >>
    /\ client = "failed"
    /\ broker' = "gone"
    /\ UNCHANGED <<client, requests, work, answers, broker_first_port, sent,
                   received, abandoned, hungup, got, opened>>
BrokerEof ==
    /\ broker = "running" /\ work = << >> /\ requests = << >>
    /\ client \in {"dead", "failed"}
    /\ broker' = "gone"
    /\ UNCHANGED <<client, requests, work, answers, broker_first_port, sent,
                   received, abandoned, hungup, got, opened>>

-----------------------------------------------------------------------------
(* Ends of either process.                                                 *)

\* fetch(1) exits after its last URL, or is killed at any point.
ClientExit ==
    /\ client \notin {"start", "dead", "failed"}
    /\ client' = "dead"
    /\ UNCHANGED <<broker, requests, work, answers, broker_first_port, sent,
                   received, abandoned, hungup, got, opened>>

\* SIGINT from the terminal reaches both.  fetch(1) notes it, gives up the
\* transfer and kills itself, which is one step here: no connection it
\* could still obtain is used.  A broker blocked in recv() leaves its loop;
\* one inside connect() reports the interrupted connect as a failure.
\* During the start fetch only notes it, so all it does then is to end the
\* broker, as BrokerKilled does; but it cuts the waitpid() of a failed start
\* short, and fetch exits with the broker uncollected.
Interrupt ==
    /\ client \in {"reap", "idle", "waiting"}
    /\ client' = "dead"
    /\ broker' = IF broker = "running" /\ work = << >> /\ requests = << >>
                   THEN "gone" ELSE broker
    /\ UNCHANGED <<requests, work, answers, broker_first_port, sent, received,
                   abandoned, hungup, got, opened>>

\* The broker is killed from outside; what it was connecting is lost.
BrokerKilled ==
    /\ broker = "running"
    /\ broker' = "gone"
    /\ work' = << >>
    /\ UNCHANGED <<client, requests, answers, broker_first_port, sent, received,
                   abandoned, hungup, got, opened>>

\* SIGKILL takes effect.
BrokerDies ==
    /\ broker = "killed"
    /\ broker' = "gone"
    /\ UNCHANGED <<client, requests, work, answers, broker_first_port, sent,
                   received, abandoned, hungup, got, opened>>

BrokerStep == \/ BrokerTake \/ (\E ok \in BOOLEAN : BrokerAnswer(ok)) \/ BrokerEof
              \/ BrokerDies

ClientStep == Receive \/ ReceiveEof \/ KillBroker \/ ReapBroker \/ CloseFd

Next ==
    \/ Fork \/ Confine
    \/ \E h \in Hosts, p \in Ports : Send(h, p)
    \/ ClientStep
    \/ Alarm
    \/ BrokerStep
    \/ ClientExit \/ Interrupt \/ BrokerKilled

Spec == Init /\ [][Next]_vars

(* Both processes keep running, and a connect(2) or a name lookup ends on  *)
(* its own (the kernel and the resolver time out), so a broker that can    *)
(* take a step takes one.  Nothing forces signals or exits to happen.      *)
FairSpec == Spec /\ WF_vars(BrokerStep) /\ WF_vars(ClientStep)

-----------------------------------------------------------------------------
(* The types of both processes' state and of the packets between them.     *)
TypeOK ==
    /\ client \in Clients /\ broker \in Brokers
    /\ requests \in Seq(Request) /\ work \in Seq(Request) /\ Len(work) <= 1
    /\ answers \in Seq(Answer)
    /\ broker_first_port \in Ports \cup {NoPort}
    /\ sent \in Nat /\ received \in Nat /\ abandoned \in Nat
    /\ hungup \in BOOLEAN
    /\ got \in Seq(Accepted)
    /\ opened \subseteq Ports

(* Nothing is lost, duplicated or reordered between the processes: the     *)
(* answer fetch accepts for a request is the answer to the request as many *)
(* places earlier as waits were cut short before; with none cut short it   *)
(* is the request's own.                                                   *)
AnswerSkewedByTimeouts ==
    \A i \in 1..Len(got) : got[i].answer.id + got[i].skew = got[i].want

(* "Establish a TCP connection to the specified port on the specified      *)
(* host" (common.c, above fetch_connect): every connection fetch accepts   *)
(* answers the request it was asked for.                                   *)
AnswerMatchesRequest ==
    \A i \in 1..Len(got) : got[i].answer.id = got[i].want

(* In one run the broker opens connections to the listed ports and to at   *)
(* most one other, whatever the requests: "redirects off that host's port  *)
(* to another custom port fail closed" (broker_port_ok).                   *)
PortPolicy ==
    \A p, q \in opened \ broker_ports : p = q

(* "The first connect pins its port" (broker_port_ok): only the first      *)
(* request of a run decides which port that is not listed is opened.       *)
FirstConnectPins ==
    [][broker_first_port' # broker_first_port => Head(requests).id = 1]_vars

(* Whichever of its three steps fails, a fetch_sandbox_begin that reports  *)
(* failure has ended and collected the broker it had started, although it  *)
(* holds the other end open and the broker may die on its own meanwhile;   *)
(* and a start that succeeds does not touch it.                            *)
CleanFailure ==
    /\ client = "failed" => broker \in {"none", "reaped"}
    /\ client \in {"idle", "waiting"} => broker \in {"running", "gone"}

(* Every wait of fetch for the broker ends: that for an answer, and that   *)
(* of a failed start for its end, which does not come by itself as long as *)
(* fetch holds its end of the socket pair.                                 *)
WaitEnds ==
    /\ (client = "waiting") ~> (client # "waiting")
    /\ (client = "reap") ~> (client # "reap")

(* The broker does not outlive fetch: "the broker _exit()s on socketpair   *)
(* EOF when the parent dies" (fetch_sandbox_begin).                        *)
BrokerLeaves == (client = "dead") ~> (broker \notin {"running", "killed"})
=============================================================================
