--------------------------- MODULE TelnetOptions ---------------------------
(***************************************************************************)
(* Option negotiation of the telnet client:                                *)
(* src.freebsd/telnet/telnet/telnet.c, lines 247-568, with the commands    *)
(* that start it.  The client and its peer exchange DO, DONT, WILL and     *)
(* WONT over the two directions of the connection; both may ask at any     *)
(* time, so requests cross.                                                *)
(*                                                                         *)
(* The peer is not part of this repository.  It is a server that follows   *)
(* RFC 854: it answers a request that would change its state and no other, *)
(* and has at most one request of its own open per option and direction.   *)
(*                                                                         *)
(* This is the build without libcrypto, talking to a telnet server: the    *)
(* options of authentication and encryption are like any unknown one.      *)
(* With telnetport < 0 (a port given as "+port") nothing is negotiated:    *)
(* the send_* functions count and send nothing, and telrcv() takes no IAC  *)
(* for one (telnet.c:257, 1718).  Such a connection is left out.           *)
(***************************************************************************)
EXTENDS Naturals, Sequences

CONSTANTS
    Options,       \* the options negotiated
    eight,         \* of the command line: 3 for -8, 2 for -L, else 0
    MaxRequests,   \* bound: requests of the user
    MaxOffers,     \* bound: requests of the peer
    MaxFlushes,    \* bound: commands that flush output
    MaxSessions    \* bound: connections made

\* Options the peer may perform, and those the client will.  XDISPLOC is
\* left out: it depends on DISPLAY.
AcceptWill == {"ECHO", "BINARY", "SGA", "STATUS"}
AcceptDo == {"BINARY", "NAWS", "TSPEED", "LFLOW", "TTYPE", "SGA", "NEW_ENVIRON"}

ASSUME OptionsAssumption ==
    /\ Options \subseteq AcceptWill \cup AcceptDo \cup {"TM", "LINEMODE", "UNKNOWN"}
    /\ {"SGA", "TM"} \subseteq Options
    /\ eight \in {0, 2, 3}
    /\ {MaxRequests, MaxOffers, MaxFlushes, MaxSessions} \subseteq Nat

Verbs == {"DO", "DONT", "WILL", "WONT"}

VARIABLES
    me,        \* the client: options[], the two response counts, flushout
               \* and what it has sent and the peer has not read
    peer,      \* the peer: what it performs, what it lets the client perform,
               \* what it has asked for, and what the client has not read
    nreq, noffer, nflush, session,   \* how often so far
    hasty,     \* the user asked again for an option before the answer
    uncounted, \* a DO of SGA went out that no response count knows of
    markAsked, \* the user asked for the TM option
    stale      \* a connection ended before all answers were in

vars == <<me, peer, nreq, noffer, nflush, session, hasty, uncounted, markAsked, stale>>

-----------------------------------------------------------------------------
(* Sending.                                                                *)

Emit(s, verb, o) == [s EXCEPT !.out = Append(@, <<verb, o>>)]

send_do(s, c, init) ==
    IF init /\ ((s.ddr[c] = 0 /\ s.do[c]) \/ s.wantdo[c]) THEN s
    ELSE Emit(IF init THEN [s EXCEPT !.wantdo[c] = TRUE, !.ddr[c] = @ + 1] ELSE s,
              "DO", c)

send_dont(s, c, init) ==
    IF init /\ ((s.ddr[c] = 0 /\ ~s.do[c]) \/ ~s.wantdo[c]) THEN s
    ELSE Emit(IF init THEN [s EXCEPT !.wantdo[c] = FALSE, !.ddr[c] = @ + 1] ELSE s,
              "DONT", c)

send_will(s, c, init) ==
    IF init /\ ((s.wwr[c] = 0 /\ s.will[c]) \/ s.wantwill[c]) THEN s
    ELSE Emit(IF init THEN [s EXCEPT !.wantwill[c] = TRUE, !.wwr[c] = @ + 1] ELSE s,
              "WILL", c)

send_wont(s, c, init) ==
    IF init /\ ((s.wwr[c] = 0 /\ ~s.will[c]) \/ ~s.wantwill[c]) THEN s
    ELSE Emit(IF init THEN [s EXCEPT !.wantwill[c] = FALSE, !.wwr[c] = @ + 1] ELSE s,
              "WONT", c)

-----------------------------------------------------------------------------
(* Receiving.                                                              *)

\* Faulty: an answer that changes nothing counts for one.
AnsweredOnce(count, nochange) == IF count = 0 THEN 0 ELSE count - 1

\* What is left of a response count: an answer that changes nothing stands
\* for two, since the request in between was answered by silence.
Answered(count, nochange) ==
    IF count = 0 THEN 0
    ELSE IF count > 1 /\ nochange THEN count - 2 ELSE count - 1

\* Faulty: a WILL of TM is answered by state alone, flushing goes on.
willoptionFlushing(t, o) ==
    LET s == [t EXCEPT !.ddr[o] = Answered(@, t.do[o])]
        asked == s.ddr[o] = 0 /\ ~s.wantdo[o]
    IN IF asked /\ o = "TM"
       THEN [s EXCEPT !.wantdo[o] = FALSE, !.do[o] = FALSE]
       ELSE LET r == IF ~asked THEN s
                     ELSE IF o \in AcceptWill
                     THEN send_do([s EXCEPT !.wantdo[o] = TRUE], o, FALSE)
                     ELSE send_dont([s EXCEPT !.ddr[o] = @ + 1], o, FALSE)
            IN [r EXCEPT !.do[o] = TRUE]

willoption(t, o) ==
    LET s == [t EXCEPT !.ddr[o] = Answered(@, t.do[o])]
        asked == s.ddr[o] = 0 /\ ~s.wantdo[o]
    IN IF asked /\ o = "TM"
       THEN [s EXCEPT !.flushout = FALSE, !.wantdo[o] = FALSE, !.do[o] = FALSE]
       ELSE LET r == IF ~asked THEN s
                     ELSE IF o \in AcceptWill
                     THEN send_do([s EXCEPT !.wantdo[o] = TRUE], o, FALSE)
                     ELSE send_dont([s EXCEPT !.ddr[o] = @ + 1], o, FALSE)
            IN [r EXCEPT !.do[o] = TRUE]

wontoption(t, o) ==
    LET s == [t EXCEPT !.ddr[o] = Answered(@, ~t.do[o])]
        asked == s.ddr[o] = 0 /\ s.wantdo[o]
    IN IF o = "TM"
       THEN [s EXCEPT !.flushout = FALSE, !.wantdo[o] = FALSE, !.do[o] = FALSE]
       ELSE LET w == [s EXCEPT !.wantdo[o] = FALSE]
                r == IF ~asked THEN s
                     ELSE IF s.do[o] THEN send_dont(w, o, FALSE) ELSE w
            IN [r EXCEPT !.do[o] = FALSE]

\* A DO of LINEMODE also asks for SGA.
dooption(t, o) ==
    LET s == [t EXCEPT !.wwr[o] = Answered(@, t.will[o])]
        settled == s.wwr[o] = 0
        sga == send_do(s, "SGA", TRUE)
    IN IF settled /\ ~s.wantwill[o] /\ o = "TM"
       THEN [send_will(s, o, FALSE) EXCEPT !.wantwill[o] = FALSE, !.will[o] = FALSE]
       ELSE LET r == IF settled /\ ~s.wantwill[o]
                     THEN IF o = "LINEMODE"
                          THEN send_will([sga EXCEPT !.wantwill[o] = TRUE], o, FALSE)
                          ELSE IF o \in AcceptDo
                          THEN send_will([s EXCEPT !.wantwill[o] = TRUE], o, FALSE)
                          ELSE send_wont([s EXCEPT !.wwr[o] = @ + 1], o, FALSE)
                     ELSE IF settled /\ o = "LINEMODE"
                     THEN send_do(sga, "SGA", FALSE)
                     ELSE s
            IN [r EXCEPT !.will[o] = TRUE]

\* Faulty: every DONT is answered.
dontoptionAnswering(t, o) ==
    LET s == [t EXCEPT !.wwr[o] = Answered(@, ~t.will[o])]
        r == IF s.wwr[o] = 0
             THEN send_wont([s EXCEPT !.wantwill[o] = FALSE], o, FALSE) ELSE s
    IN [r EXCEPT !.will[o] = FALSE]

dontoption(t, o) ==
    LET s == [t EXCEPT !.wwr[o] = Answered(@, ~t.will[o])]
        asked == s.wwr[o] = 0 /\ s.wantwill[o]
        w == [s EXCEPT !.wantwill[o] = FALSE]
        r == IF ~asked THEN s
             ELSE IF s.will[o] THEN send_wont(w, o, FALSE) ELSE w
    IN [r EXCEPT !.will[o] = FALSE]

Handler(s, m) ==
    CASE m[1] = "WILL" -> willoption(s, m[2])
      [] m[1] = "WONT" -> wontoption(s, m[2])
      [] m[1] = "DO"   -> dooption(s, m[2])
      [] m[1] = "DONT" -> dontoption(s, m[2])

\* A request of the user's: the "send" and "mode" commands.
Request(s, verb, o) ==
    CASE verb = "DO"   -> send_do(s, o, TRUE)
      [] verb = "DONT" -> send_dont(s, o, TRUE)
      [] verb = "WILL" -> send_will(s, o, TRUE)
      [] verb = "WONT" -> send_wont(s, o, TRUE)

-----------------------------------------------------------------------------
No == [o \in Options |-> FALSE]
Zero == [o \in Options |-> 0]

\* init_telnet() clears options[]; the response counts and flushout it leaves.
init_telnet(s) ==
    [s EXCEPT !.will = No, !.wantwill = No, !.do = No, !.wantdo = No, !.out = <<>>]

FirstMe == [will |-> No, wantwill |-> No, do |-> No, wantdo |-> No,
            wwr |-> Zero, ddr |-> Zero, flushout |-> FALSE, out |-> <<>>]
NewPeer == [will |-> [o \in Options |-> "no"], do |-> [o \in Options |-> "no"],
            out |-> <<>>]

\* Requests for an option, if it is one of those there are here.
AskDo(s, o) == IF o \in Options THEN send_do(s, o, TRUE) ELSE s
AskWill(s, o) == IF o \in Options THEN send_will(s, o, TRUE) ELSE s

tel_enter_binary(s, rw) ==
    LET in == IF rw \in {1, 3} THEN AskDo(s, "BINARY") ELSE s
    IN IF rw \in {2, 3} THEN AskWill(in, "BINARY") ELSE in

\* What telnet() asks for first.
Opening(s) ==
    LET terminal == AskWill(AskDo(s, "SGA"), "TTYPE")
        line == AskWill(AskWill(AskWill(terminal, "NAWS"), "TSPEED"), "LFLOW")
        rest == AskDo(AskWill(AskWill(line, "LINEMODE"), "NEW_ENVIRON"), "STATUS")
    IN tel_enter_binary(rest, eight)

\* telnetport > 0 or telnetport = 0: only the first kind opens with requests.
Init ==
    /\ me \in {FirstMe, Opening(FirstMe)}
    /\ peer = NewPeer
    /\ nreq = 0 /\ noffer = 0 /\ nflush = 0 /\ session = 1
    /\ hasty = FALSE /\ uncounted = FALSE /\ markAsked = FALSE /\ stale = FALSE

\* telrcv() has read a negotiation.
Receive ==
    /\ peer.out # <<>>
    /\ me' = Handler(me, Head(peer.out))
    /\ peer' = [peer EXCEPT !.out = Tail(@)]
    /\ uncounted' = (uncounted \/ (Head(peer.out) = <<"DO", "LINEMODE">>
                                   /\ Len(me'.out) > Len(me.out)
                                   /\ me.wantwill["LINEMODE"]))
    /\ UNCHANGED <<nreq, noffer, nflush, session, hasty, markAsked, stale>>

send_tncmd(verb, o) ==
    /\ nreq < MaxRequests
    /\ nreq' = nreq + 1
    /\ me' = Request(me, verb, o)
    /\ hasty' = (hasty \/ (IF verb \in {"DO", "DONT"} THEN me.ddr[o] ELSE me.wwr[o]) > 0)
    /\ markAsked' = (markAsked \/ (verb = "DO" /\ o = "TM"))
    /\ UNCHANGED <<peer, noffer, nflush, session, uncounted, stale>>

\* intp() and its like with autoflush: DO TM, and output goes nowhere.
doflush ==
    /\ nflush < MaxFlushes
    /\ nflush' = nflush + 1
    /\ me' = Emit([me EXCEPT !.flushout = TRUE], "DO", "TM")
    /\ UNCHANGED <<peer, nreq, noffer, session, hasty, uncounted, markAsked, stale>>

\* The user closes the connection and opens the next.
bye ==
    /\ session < MaxSessions
    /\ session' = session + 1
    /\ stale' = (stale \/ me.ddr # Zero \/ me.wwr # Zero \/ me.flushout)
    /\ me' \in {init_telnet(me), Opening(init_telnet(me))}
    /\ peer' = NewPeer
    /\ UNCHANGED <<nreq, noffer, nflush, hasty, uncounted, markAsked>>

-----------------------------------------------------------------------------
(* The peer.                                                               *)

Say(p, verb, o) == [p EXCEPT !.out = Append(@, <<verb, o>>)]

\* The peer's side of an option, after a positive or a negative word of the
\* client's: the states it may go to, each with what it says, if anything.
PeerTurns(state, positive) ==
    CASE state = "no" -> IF positive THEN {<<"yes", "agree">>, <<"no", "refuse">>}
                         ELSE {<<"no", "silence">>}
      [] state = "yes" -> IF positive THEN {<<"yes", "silence">>} ELSE {<<"no", "refuse">>}
      [] state = "wantno" -> {<<"no", "silence">>}
      [] state = "wantyes" -> {<<IF positive THEN "yes" ELSE "no", "silence">>}

PeerAnswers(p, m) ==
    LET o == m[2]
        word(w, yes, no) == CASE w = "agree" -> <<<<yes, o>>>>
                              [] w = "refuse" -> <<<<no, o>>>>
                              [] w = "silence" -> <<>>
    IN IF m = <<"DO", "TM">> THEN {Say(p, "WILL", o), Say(p, "WONT", o)}
       ELSE IF m[1] \in {"DO", "DONT"}
       THEN {[p EXCEPT !.will[o] = t[1], !.out = @ \o word(t[2], "WILL", "WONT")] :
               t \in PeerTurns(p.will[o], m[1] = "DO")}
       ELSE {[p EXCEPT !.do[o] = t[1], !.out = @ \o word(t[2], "DO", "DONT")] :
               t \in PeerTurns(p.do[o], m[1] = "WILL")}

PeerReceive ==
    /\ me.out # <<>>
    /\ peer' \in PeerAnswers(peer, Head(me.out))
    /\ me' = [me EXCEPT !.out = Tail(@)]
    /\ UNCHANGED <<nreq, noffer, nflush, session, hasty, uncounted, markAsked, stale>>

PeerOffer(o) ==
    /\ noffer < MaxOffers
    /\ noffer' = noffer + 1
    /\ \/ /\ peer.will[o] = "no" /\ o # "TM"
          /\ peer' = Say([peer EXCEPT !.will[o] = "wantyes"], "WILL", o)
       \/ /\ peer.will[o] = "yes"
          /\ peer' = Say([peer EXCEPT !.will[o] = "wantno"], "WONT", o)
       \/ /\ peer.do[o] = "no"
          /\ peer' = Say([peer EXCEPT !.do[o] = "wantyes"], "DO", o)
       \/ /\ peer.do[o] = "yes"
          /\ peer' = Say([peer EXCEPT !.do[o] = "wantno"], "DONT", o)
    /\ UNCHANGED <<me, nreq, nflush, session, hasty, uncounted, markAsked, stale>>

-----------------------------------------------------------------------------
Next ==
    \/ Receive
    \/ \E verb \in Verbs, o \in Options : send_tncmd(verb, o)
    \/ doflush
    \/ bye
    \/ PeerReceive
    \/ \E o \in Options : PeerOffer(o)

Spec == Init /\ [][Next]_vars

\* Both sides read what arrives.
FairSpec == Spec /\ WF_vars(Receive) /\ WF_vars(PeerReceive)

-----------------------------------------------------------------------------
\* Nothing is on its way.
Quiet == me.out = <<>> /\ peer.out = <<>>

InForce(want, state) == IF want /\ state THEN "yes" ELSE "no"

\* Whatever requests crossed, once nothing is on its way the two sides agree
\* (willoption, wontoption, dooption, dontoption): the peer has an answer to
\* each of its requests, an option is in force at the client exactly if it is
\* at the peer, and for an option the client accepts its want state, which
\* sets the terminal mode, says the same.  Two cases are left out:
\* for an option the client refuses, the user asking for it
\* in spite of the response count the refusal left (telnet.c:366, 511), and
\* counts of an earlier connection (telnet.c:178).
Agree ==
    (Quiet /\ ~stale) => \A o \in Options \ {"TM"} :
        /\ (o \in AcceptWill \/ ~hasty) =>
              peer.will[o] = InForce(me.wantdo[o], me.do[o])
        /\ (o \in AcceptDo \/ ~hasty) =>
              peer.do[o] = InForce(me.wantwill[o], me.will[o])
        /\ o \in AcceptWill => me.wantdo[o] = me.do[o]
        /\ o \in AcceptDo => me.wantwill[o] = me.will[o]

\* Negotiation ends: neither side answers answers for ever (the response
\* counts, telnet.c:320-324 and its like).  Two requests the
\* counts do not cover can start a loop that never ends: a user's who asks
\* again before the answer is in, and the DO of SGA that follows an
\* acknowledged LINEMODE (telnet.c:527).
Quiesces == <>[](Quiet \/ hasty \/ uncounted)

\* Output thrown away after doflush() is thrown away only until the peer
\* acknowledges the timing mark (telnet.c:345-354, 418-422), unless the user
\* negotiated TM by hand, or the connection it was sent on has ended.
FlushEnds == me.flushout ~> (~me.flushout \/ markAsked \/ stale)

=============================================================================
