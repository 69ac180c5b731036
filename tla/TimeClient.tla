----------------------------- MODULE TimeClient -----------------------------
(***************************************************************************)
(* task4 and what runs in it: the search that asks the time server (port   *)
(* 2200) for the time every five seconds until it has come, the callbacks  *)
(* of that client and of the server on port 1200, and the part of lwIP     *)
(* that calls them.  lwIP is built without a system: every callback runs   *)
(* to its end inside tcp_input or the slow timer, so a segment, or a timer *)
(* at one connection, is one step.                                         *)
(*                                                                         *)
(* Left out: sequence numbers (a segment acknowledges some of what was     *)
(* written, and brings nothing, one command or the end), windows, and      *)
(* exhausted memory other than that tcp_close may find.  What is lost on   *)
(* the wire is sent again, until Limit gives up.  A segment with both a    *)
(* command and the end counts as two.                                      *)
(***************************************************************************)
EXTENDS Integers, FiniteSets, Sequences, SequencesExt

CONSTANTS
    MaxServed,      \* connections from outside at a time
    SndQueue,       \* TCP_SND_QUEUELEN: writes that may wait for their acknowledgment
    CloseMayFail    \* whether tcp_close may find no segment for its FIN

ASSUME ClientAssumption ==
    MaxServed \in Nat /\ SndQueue \in Nat \ {0} /\ CloseMayFail \in BOOLEAN

VARIABLES
    active,             \* tcp_active_pcbs, its head first
    time_update_status,
    searching,          \* the search of lwip_eth_poll goes in a circle
    twice               \* mem_free was given an argument block it already had

vars == <<active, time_update_status, searching, twice>>

Status == {"NEED_SYN", "SYNING", "SYN_SUL", "SYN_FAIL"}
TcpStates == {"SYN_SENT", "SYN_RCVD", "ESTABLISHED", "FIN_WAIT_1", "FIN_WAIT_2",
              "CLOSE_WAIT", "CLOSING", "LAST_ACK"}
AppStates == {"WAITING_FOR_CONNECTION", "WELCOME", "WAITING_FOR_CMD", "CLOSE", "ERROR"}
Gone == {"TIME_WAIT", "FREED"}      \* no longer in tcp_active_pcbs

\* A connection: rx is TF_RXCLOSED, queued what was written and not yet
\* acknowledged; app and live are the argument block's state and whether it
\* is still the connection's own.
Connections == [role   : {"client", "server"},
                state  : TcpStates,
                rx     : BOOLEAN,
                queued : 0 .. SndQueue,
                app    : AppStates,
                live   : BOOLEAN]

Commands == {"bye", "time", "badTime", "text"}
FinSent == {"FIN_WAIT_1", "CLOSING", "LAST_ACK"}
Open == {"ESTABLISHED", "CLOSE_WAIT"}

TypeOK ==
    /\ active \in Seq(Connections)
    /\ time_update_status \in Status
    /\ searching \in BOOLEAN /\ twice \in BOOLEAN

\* What main leaves: a request made before the kernel starts.
Request == [role |-> "client", state |-> "SYN_SENT", rx |-> FALSE, queued |-> 0,
            app |-> "WAITING_FOR_CONNECTION", live |-> TRUE]

Init ==
    /\ active = <<Request>> /\ time_update_status = "NEED_SYN"
    /\ searching = FALSE /\ twice = FALSE

-----------------------------------------------------------------------------
(* What a callback finds and leaves: the connection c, the two globals, and *)
(* whether the segment's contents are still to be taken (rcv_wnd).  Each    *)
(* operator gives the set of what it may leave.                             *)

Here(c) == [c |-> c, status |-> time_update_status, twice |-> twice, unread |-> FALSE]

tcp_write(w) ==
    IF w.c.state \in Open /\ w.c.queued < SndQueue THEN [w EXCEPT !.c.queued = @ + 1] ELSE w

mem_free(w) == [w EXCEPT !.c.live = FALSE, !.twice = @ \/ ~w.c.live]

\* A block that was given back may hold anything, and what is written to it
\* is not the connection's any more.
AppState(w) == IF w.c.live THEN {w.c.app} ELSE AppStates
SetState(w, s) == IF w.c.live THEN [w EXCEPT !.c.app = s] ELSE w

tcp_close(w) ==
    LET v == [w EXCEPT !.c.rx = TRUE]
    IN  IF w.c.state \notin Open THEN {v}
        ELSE IF w.unread
        THEN {[v EXCEPT !.c.state = IF w.c.state = "ESTABLISHED" THEN "TIME_WAIT" ELSE "FREED"]}
        ELSE {[v EXCEPT !.c.state = IF w.c.state = "ESTABLISHED" THEN "FIN_WAIT_1" ELSE "LAST_ACK"]}
             \cup (IF CloseMayFail THEN {v} ELSE {})

\* Mutant: any error asks for the time again.
errfAsks(w, err) == [SetState(w, "ERROR") EXCEPT !.status = "NEED_SYN"]
tcp_client_errf(w, err) ==
    [SetState(w, "ERROR") EXCEPT !.status = IF @ \in {"SYNING", "SYN_FAIL"} THEN "NEED_SYN" ELSE @]

tcp_server_errf(w, err) ==
    LET v == SetState(w, "ERROR") IN IF err = "ABRT" THEN mem_free(v) ELSE v

tcp_client_connected(w) ==
    [tcp_write(w) EXCEPT !.c.app = "WELCOME", !.status = "SYNING"]

tcp_server_accept(w) == [tcp_write(w) EXCEPT !.c.app = "WAITING_FOR_CMD", !.c.live = TRUE]

Listens(w) == w.c.app = "WAITING_FOR_CMD"

\* Mutant: a calibration is not answered.
recvSilent(w, cmd) ==
    IF Listens(w) /\ cmd = "time"
    THEN [w EXCEPT !.c.app = "CLOSE", !.status = "SYN_SUL"]
    ELSE tcp_write(w)

tcp_client_recv(w, cmd) ==
    IF ~Listens(w) THEN tcp_write(w)
    ELSE CASE cmd = "bye"     -> [w EXCEPT !.c.app = "CLOSE"]
           [] cmd = "time"    -> tcp_write([w EXCEPT !.c.app = "CLOSE", !.status = "SYN_SUL"])
           [] cmd = "badTime" -> tcp_write([w EXCEPT !.status = "SYN_FAIL"])
           [] OTHER           -> tcp_write(w)

tcp_server_recv(w, cmd) ==
    IF Listens(w) /\ cmd = "bye" THEN [w EXCEPT !.c.app = "CLOSE"] ELSE tcp_write(w)

\* The far end has closed: both sides of the program do the same.
RecvEnd(w) == tcp_close(mem_free(w))

tcp_client_sent(w) ==
    UNION {IF s = "CLOSE" THEN tcp_close(mem_free(w)) ELSE {w} : s \in AppState(w)}

tcp_client_poll(w) ==
    {CASE s = "WAITING_FOR_CMD" -> tcp_write(w)
       [] s = "WELCOME"         -> SetState(tcp_write(w), "WAITING_FOR_CMD")
       [] OTHER                 -> w : s \in AppState(w)}

tcp_server_poll(w) ==
    UNION {CASE s = "WAITING_FOR_CMD" -> {tcp_write(w)}
             [] s = "CLOSE"           -> tcp_close(mem_free(w))
             [] OTHER                 -> {w} : s \in AppState(w)}

-----------------------------------------------------------------------------
(* lwIP.  The callbacks but connected and accept are registered in those.   *)

Client(w) == w.c.role = "client"
Registered(c) == c.state \notin {"SYN_SENT", "SYN_RCVD"}

EventErr(w, err) ==
    IF ~Registered(w.c) THEN w
    ELSE IF Client(w) THEN tcp_client_errf(w, err) ELSE tcp_server_errf(w, err)
EventSent(w) == IF Client(w) THEN tcp_client_sent(w) ELSE {w}
EventRecv(w, cmd) == IF Client(w) THEN tcp_client_recv(w, cmd) ELSE tcp_server_recv(w, cmd)
EventPoll(w) == IF Client(w) THEN tcp_client_poll(w) ELSE tcp_server_poll(w)

Drop(w, err) == [EventErr(w, err) EXCEPT !.c.state = "FREED"]
tcp_abort(w) == IF w.c.state \in Gone THEN [w EXCEPT !.c.state = "FREED"] ELSE Drop(w, "ABRT")

\* A segment: how many writes it acknowledges, whether our FIN too, and what
\* it brings.  Nothing is taken after the far end's FIN.
Segments(c) ==
    {seg \in [acked : 0 .. c.queued, fin : BOOLEAN, brings : Commands \cup {"nothing", "end"}] :
        seg.fin => c.state \in FinSent /\ seg.acked = c.queued}
Taken(c, seg) ==
    IF c.state \in {"ESTABLISHED", "FIN_WAIT_1", "FIN_WAIT_2"} THEN seg.brings ELSE "nothing"

NextState(state, end, fin) ==
    CASE state \in Open         -> IF end THEN "CLOSE_WAIT" ELSE state
      [] state = "FIN_WAIT_1"   -> CASE end /\ fin  -> "TIME_WAIT"
                                     [] end /\ ~fin -> "CLOSING"
                                     [] OTHER       -> IF fin THEN "FIN_WAIT_2" ELSE state
      [] state = "FIN_WAIT_2"   -> IF end THEN "TIME_WAIT" ELSE state
      [] state = "CLOSING"      -> IF fin THEN "TIME_WAIT" ELSE state
      [] state = "LAST_ACK"     -> IF fin THEN "FREED" ELSE state

tcp_process(c, seg) ==
    [Here([c EXCEPT !.state = NextState(c.state, Taken(c, seg) = "end", seg.fin),
                    !.queued = @ - seg.acked])
        EXCEPT !.unread = Taken(c, seg) # "nothing"]

\* The events of one segment, in the order of tcp_input: sent, received, closed.
AfterSent(c, seg, w) ==
    CASE Taken(c, seg) = "nothing" -> {w}
      [] Taken(c, seg) = "end"     -> RecvEnd([w EXCEPT !.unread = FALSE])
      [] OTHER -> {IF w.c.rx THEN tcp_abort(w)
                   ELSE EventRecv([w EXCEPT !.unread = FALSE], seg.brings)}
tcp_input(c, seg) ==
    LET w == tcp_process(c, seg)
    IN  IF w.c.state = "FREED" THEN {w}
        ELSE UNION {AfterSent(c, seg, v) : v \in IF seg.acked > 0 THEN EventSent(w) ELSE {w}}

Listed(w) == IF w.c.state \in Gone THEN <<>> ELSE <<w.c>>
Globals(w) == time_update_status' = w.status /\ twice' = w.twice /\ UNCHANGED searching

\* tcp_input moves the connection it finds to the head of the list.
Served(i, w) == active' = Listed(w) \o RemoveAt(active, i) /\ Globals(w)
InPlace(i, w) ==
    /\ active' = SubSeq(active, 1, i - 1) \o Listed(w) \o SubSeq(active, i + 1, Len(active))
    /\ Globals(w)

-----------------------------------------------------------------------------
(* task4 *)

Active == 1 .. Len(active)

SynAck(i) ==
    /\ active[i].state = "SYN_SENT"
    /\ Served(i, tcp_client_connected(Here([active[i] EXCEPT !.state = "ESTABLISHED"])))

\* tcp_listen_input
Syn ==
    /\ Cardinality({i \in Active : active[i].role = "server"}) < MaxServed
    /\ active' = <<[role |-> "server", state |-> "SYN_RCVD", rx |-> FALSE, queued |-> 0,
                    app |-> "ERROR", live |-> FALSE]>> \o active
    /\ UNCHANGED <<time_update_status, searching, twice>>

Accept(i) ==
    /\ active[i].state = "SYN_RCVD"
    /\ Served(i, tcp_server_accept(Here([active[i] EXCEPT !.state = "ESTABLISHED"])))

Segment(i, seg) ==
    /\ Registered(active[i])
    /\ \E w \in tcp_input(active[i], seg) : Served(i, w)

Rst(i) == Served(i, Drop(Here(active[i]), "RST"))

\* The slow timer gives up what is not acknowledged, and what stays too long
\* in a state that waits for the far end.
Overdue(c) ==
    \/ c.queued > 0 \/ c.state \in FinSent
    \/ c.state \in {"SYN_SENT", "SYN_RCVD", "FIN_WAIT_2"}
Limit(i) == Overdue(active[i]) /\ InPlace(i, Drop(Here(active[i]), "ABRT"))

Poll(i) ==
    /\ Registered(active[i])
    /\ \E w \in EventPoll(Here(active[i])) : InPlace(i, w)

IsServer(i) == i \in Active /\ active[i].role = "server"

\* Mutant: only the head of the list is looked at.
FoundAtHead == active # <<>> /\ ~IsServer(1)

\* The search asks the head of the list and then its successor, over and over.
Found == \E i \in Active \cap {1, 2} : ~IsServer(i)
Circles == IsServer(1) /\ IsServer(2)

\* Mutant: the time is asked for only when it has never been asked for.
TickOnce ==
    /\ ~searching /\ time_update_status = "NEED_SYN" /\ ~Circles /\ ~Found
    /\ active' = <<Request>> \o active
    /\ UNCHANGED <<time_update_status, searching, twice>>

\* The part of lwip_eth_poll that runs every ARP_TMR_INTERVAL.
ArpTick ==
    /\ ~searching /\ time_update_status # "SYN_SUL"
    /\ searching' = (Circles /\ ~Found)
    /\ active' = IF Found \/ Circles THEN active ELSE <<Request>> \o active
    /\ UNCHANGED <<time_update_status, twice>>

Step(i) ==
    \/ SynAck(i) \/ Accept(i) \/ Rst(i) \/ Limit(i) \/ Poll(i)
    \/ \E seg \in Segments(active[i]) : Segment(i, seg)

Next ==
    \/ ArpTick
    \/ ~searching /\ (Syn \/ \E i \in Active : Step(i))

Spec == Init /\ [][Next]_vars

\* The timers of task4 go on; what is sent is acknowledged in the end, or
\* given up.
Settle(i) ==
    \/ Limit(i)
    \/ \E seg \in Segments(active[i]) :
          /\ seg.acked = active[i].queued /\ seg.fin = (active[i].state \in FinSent)
          /\ seg.acked > 0 \/ seg.fin
          /\ Segment(i, seg)
Fairness ==
    /\ WF_vars(ArpTick)
    /\ WF_vars(~searching /\ \E i \in Active : active[i].role = "client" /\ Settle(i))

\* A host that has said "bye", and not given the time, ends the connection itself.
SaidBye(c) ==
    /\ time_update_status # "SYN_SUL"
    /\ c.role = "client" /\ c.app = "CLOSE" /\ c.state = "ESTABLISHED" /\ c.queued = 0
HostEnds ==
    \E i \in Active :
       /\ SaidBye(active[i])
       /\ \/ Rst(i)
          \/ \E seg \in Segments(active[i]) : seg.brings = "end" /\ Segment(i, seg)

FairSpec == Spec /\ Fairness
PoliteSpec == FairSpec /\ WF_vars(~searching /\ HostEnds)

-----------------------------------------------------------------------------
(* Properties *)

Clients == {i \in Active : active[i].role = "client"}

\* However connections come, move in the list and end, the search finds the
\* client that is there: there are never two (netconf.c:172-187).
OneClient == \A i, j \in Clients : i = j

\* A time that has come is kept: whatever ends the connection later, and
\* with whatever error, it is not asked for again (tcp_client.c:60, 169, 283).
SuccessKept == [][time_update_status = "SYN_SUL" => time_update_status' = "SYN_SUL"]_vars

\* Until the time has come the program always comes back to asking for it: it
\* calls the server, or polls it (tcp_client.c:243, netconf.c:186).  Where the
\* search goes in a circle nothing does any more; SearchEnds is about that.
Asks(c) == \/ c.state = "SYN_SENT"
           \/ c.state = "ESTABLISHED" /\ ~c.rx /\ c.app \in {"WELCOME", "WAITING_FOR_CMD"}
RetryGoesOn ==
    []<>(\/ time_update_status = "SYN_SUL" \/ searching
         \/ \E i \in Clients : Asks(active[i]))

\* Once the time has come the client takes its connection down, whatever the
\* far end does (tcp_client.c:171, 222).
ClientLeaves == time_update_status = "SYN_SUL" ~> Clients = {}

\* mem_free is given a block only once (mem.c: a freed block "has to be in a
\* used state").
FreedOnce == ~twice

\* The search for a connection ends (netconf.c:174).
SearchEnds == ~searching
=============================================================================
