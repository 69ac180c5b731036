------------------------- MODULE TimeClient_proofs -------------------------
(***************************************************************************)
(* Proofs about TimeClient, for every number of served connections, every  *)
(* length of the send queue and whether or not tcp_close may fail.         *)
(***************************************************************************)
EXTENDS TimeClient, SequenceTheorems, FiniteSetTheorems, TLAPS

\* A request is the client's, a connection that waits to be accepted is not.
Roles ==
    \A i \in Active : /\ active[i].state = "SYN_SENT" => active[i].role = "client"
                      /\ active[i].state = "SYN_RCVD" => active[i].role = "server"

\* Once the time has come the client only waits to be closed.
Quiet(c) == c.role = "client" => c.app = "CLOSE"
Kept == time_update_status = "SYN_SUL" =>
            \A i \in Clients : active[i].state # "SYN_SENT" /\ Quiet(active[i])

Inv == TypeOK /\ OneClient /\ Roles /\ Kept

\* What a callback may find and leave of an established connection.
Works == [c : [role : {"client", "server"}, state : TcpStates \cup Gone, rx : BOOLEAN,
               queued : 0 .. SndQueue, app : AppStates, live : BOOLEAN],
          status : Status, twice : BOOLEAN, unread : BOOLEAN]
Good(w) == w \in Works /\ Registered(w.c) /\ (w.status = "SYN_SUL" => Quiet(w.c))
Follows(w, v) ==
    /\ v.c.role = w.c.role
    /\ w.status = "SYN_SUL" => v.status = "SYN_SUL"
    /\ v.c.role = "server" => v.status = w.status

-----------------------------------------------------------------------------
(* The callbacks *)

LEMMA WriteGood == ASSUME NEW w, Good(w) PROVE Good(tcp_write(w)) /\ Follows(w, tcp_write(w))
BY ClientAssumption DEF Good, Follows, tcp_write, Works, Registered, Quiet, Open, TcpStates, Gone

LEMMA FreeGood == ASSUME NEW w, Good(w) PROVE Good(mem_free(w)) /\ Follows(w, mem_free(w))
BY DEF Good, Follows, mem_free, Works, Registered, Quiet

LEMMA StateGood ==
    ASSUME NEW w, Good(w), NEW s \in (TcpStates \cup Gone) \ {"SYN_SENT", "SYN_RCVD"}
    PROVE  LET v == [w EXCEPT !.c.state = s] IN Good(v) /\ Follows(w, v)
BY DEF Good, Follows, Works, Registered, Quiet

LEMMA RxGood ==
    ASSUME NEW w, Good(w)
    PROVE  LET v == [w EXCEPT !.c.rx = TRUE] IN Good(v) /\ Follows(w, v)
BY DEF Good, Follows, Works, Registered, Quiet

LEMMA FollowsOn ==
    ASSUME NEW u, NEW v, NEW w, Follows(u, v), Follows(v, w)
    PROVE  Follows(u, w)
BY DEF Follows

LEMMA CloseGood ==
    ASSUME NEW w, Good(w), NEW v \in tcp_close(w) PROVE Good(v) /\ Follows(w, v)
<1> DEFINE u == [w EXCEPT !.c.rx = TRUE]
<1>1. Good(u) /\ Follows(w, u)
  BY RxGood
<1>2. \/ v = u
      \/ \E s \in (TcpStates \cup Gone) \ {"SYN_SENT", "SYN_RCVD"} : v = [u EXCEPT !.c.state = s]
  BY DEF tcp_close, TcpStates, Gone
<1> HIDE DEF u
<1>3. Good(v) /\ Follows(u, v)
  <2>1. CASE v = u
    BY <1>1, <2>1 DEF Follows
  <2>2. CASE \E s \in (TcpStates \cup Gone) \ {"SYN_SENT", "SYN_RCVD"} : v = [u EXCEPT !.c.state = s]
    BY <1>1, <2>2, StateGood
  <2> QED
    BY <1>2, <2>1, <2>2
<1> QED
  BY <1>1, <1>3, FollowsOn

LEMMA EndGood ==
    ASSUME NEW w, Good(w), NEW v \in RecvEnd(w) PROVE Good(v) /\ Follows(w, v)
BY FreeGood, CloseGood, FollowsOn DEF RecvEnd

\* A command that sets the status also marks the connection for closing.
LEMMA RecvGood ==
    ASSUME NEW w, Good(w), NEW cmd \in Commands
    PROVE  LET v == tcp_client_recv(w, cmd)
           IN  w.c.role = "client" => Good(v) /\ Follows(w, v)
<1> SUFFICES ASSUME w.c.role = "client", Listens(w)
             PROVE  Good(tcp_client_recv(w, cmd)) /\ Follows(w, tcp_client_recv(w, cmd))
  BY WriteGood DEF tcp_client_recv
<1>1. w \in Works /\ Registered(w.c) /\ w.status # "SYN_SUL"
  BY DEF Good, Quiet, Listens
<1> DEFINE bye == [w EXCEPT !.c.app = "CLOSE"]
           done == [w EXCEPT !.c.app = "CLOSE", !.status = "SYN_SUL"]
           failed == [w EXCEPT !.status = "SYN_FAIL"]
<1>2. Good(bye) /\ Follows(w, bye)
  BY <1>1 DEF Good, Follows, Works, Registered, Quiet, AppStates
<1>3. Good(done) /\ Follows(w, done)
  BY <1>1 DEF Good, Follows, Works, Registered, Quiet, AppStates, Status
<1>4. Good(failed) /\ Follows(w, failed)
  BY <1>1 DEF Good, Follows, Works, Registered, Quiet, Status
<1>5. tcp_client_recv(w, cmd) \in {bye, tcp_write(done), tcp_write(failed), tcp_write(w)}
  BY DEF tcp_client_recv, Commands
<1> HIDE DEF bye, done, failed
<1> QED
  BY <1>2, <1>3, <1>4, <1>5, WriteGood, FollowsOn

LEMMA ServerRecvGood ==
    ASSUME NEW w, Good(w), w.c.role = "server", NEW cmd \in Commands
    PROVE  Good(tcp_server_recv(w, cmd)) /\ Follows(w, tcp_server_recv(w, cmd))
<1>1. LET v == [w EXCEPT !.c.app = "CLOSE"] IN Good(v) /\ Follows(w, v)
  BY DEF Good, Follows, Works, Registered, Quiet, AppStates
<1> QED
  BY <1>1, WriteGood DEF tcp_server_recv

LEMMA SentGood ==
    ASSUME NEW w, Good(w), NEW v \in EventSent(w) PROVE Good(v) /\ Follows(w, v)
<1>1. v = w \/ v \in tcp_close(mem_free(w))
  BY DEF EventSent, tcp_client_sent
<1>2. Follows(w, w)
  BY DEF Follows
<1> QED
  BY <1>1, <1>2, FreeGood, CloseGood, FollowsOn

LEMMA PollGood ==
    ASSUME NEW w, Good(w), NEW v \in EventPoll(w) PROVE Good(v) /\ Follows(w, v)
<1>1. CASE w.c.role = "client"
  <2>1. PICK s \in AppState(w) :
           v = CASE s = "WAITING_FOR_CMD" -> tcp_write(w)
                 [] s = "WELCOME"         -> SetState(tcp_write(w), "WAITING_FOR_CMD")
                 [] OTHER                 -> w
    BY <1>1 DEF EventPoll, Client, tcp_client_poll
  <2>2. CASE s = "WELCOME" /\ w.c.live
    <3>1. w.status # "SYN_SUL"
      BY <1>1, <2>2 DEF AppState, Good, Quiet
    <3>2. tcp_write(w).status # "SYN_SUL" /\ Good(tcp_write(w)) /\ Follows(w, tcp_write(w))
      BY <3>1, WriteGood DEF tcp_write, Good, Works
    <3> DEFINE u == tcp_write(w)
    <3> HIDE DEF u
    <3>3. ASSUME Good(u), u.status # "SYN_SUL"
          PROVE  Good(SetState(u, "WAITING_FOR_CMD")) /\ Follows(u, SetState(u, "WAITING_FOR_CMD"))
      BY <3>3 DEF SetState, Good, Follows, Works, Registered, Quiet, AppStates
    <3> QED
      BY <2>1, <2>2, <3>2, <3>3, FollowsOn DEF u
  <2>3. CASE s = "WELCOME" /\ ~w.c.live
    <3>1. tcp_write(w).c.live = w.c.live
      BY DEF tcp_write, Good, Works
    <3> QED
      BY <2>1, <2>3, <3>1, WriteGood DEF SetState
  <2>4. CASE s # "WELCOME"
    BY <2>1, <2>4, WriteGood DEF Follows
  <2> QED
    BY <2>2, <2>3, <2>4 DEF Good, Works
<1>2. CASE w.c.role # "client"
  <2>1. v \in {w, tcp_write(w)} \cup tcp_close(mem_free(w))
    BY <1>2 DEF EventPoll, Client, tcp_server_poll
  <2>2. Follows(w, w)
    BY DEF Follows
  <2> QED
    BY <2>1, <2>2, WriteGood, FreeGood, CloseGood, FollowsOn
<1> QED
  BY <1>1, <1>2

-----------------------------------------------------------------------------
(* A segment, and the end of a connection *)

\* What a step may leave of the connection at i: gone, or good.
Left(c, v) ==
    /\ v.status \in Status /\ v.twice \in BOOLEAN
    /\ v.c.role = c.role
    /\ \/ v.c.state \in Gone
       \/ /\ v.c \in Connections /\ Registered(v.c)
          /\ v.status = "SYN_SUL" => Quiet(v.c)
    /\ time_update_status = "SYN_SUL" => v.status = "SYN_SUL"
    /\ c.role = "server" => v.status = time_update_status

LEMMA GoodLeft ==
    ASSUME NEW c, NEW w, NEW v, w.c.role = c.role, w.status = time_update_status,
           Good(v), Follows(w, v)
    PROVE  Left(c, v)
BY DEF Good, Follows, Left, Works, Connections

\* An error handler never takes the success back.
LEMMA ErrLeft ==
    ASSUME NEW w \in Works, NEW err, NEW c, w.c.role = c.role,
           time_update_status = "SYN_SUL" => w.status = "SYN_SUL",
           c.role = "server" => w.status = time_update_status
    PROVE  Left(c, Drop(w, err))
<1> DEFINE e == EventErr(w, err)
<1>1. /\ e.status \in Status /\ e.twice \in BOOLEAN /\ e.c.role = c.role
      /\ w.status = "SYN_SUL" => e.status = "SYN_SUL"
      /\ c.role = "server" => e.status = w.status
      /\ DOMAIN e = {"c", "status", "twice", "unread"}
      /\ DOMAIN e.c = {"role", "state", "rx", "queued", "app", "live"}
  <2>1. CASE ~Registered(w.c)
    BY <2>1 DEF EventErr, Works
  <2>2. CASE Registered(w.c) /\ w.c.role = "client"
    BY <2>2 DEF Works, EventErr, Client, tcp_client_errf, SetState, Status
  <2>3. CASE Registered(w.c) /\ w.c.role # "client"
    BY <2>3 DEF Works, EventErr, Client, tcp_server_errf, SetState, mem_free
  <2> QED
    BY <2>1, <2>2, <2>3
<1> HIDE DEF e
<1>2. Drop(w, err) = [e EXCEPT !.c.state = "FREED"]
  BY DEF Drop, e
<1> QED
  BY <1>1, <1>2 DEF Left, Gone

LEMMA ProcessGood ==
    ASSUME Inv, NEW i \in Active, Registered(active[i]), NEW seg \in Segments(active[i])
    PROVE  LET w == tcp_process(active[i], seg)
           IN  Good(w) /\ w.c.role = active[i].role /\ w.status = time_update_status
<1> DEFINE c == active[i]
           t == NextState(c.state, Taken(c, seg) = "end", seg.fin)
<1>1. /\ c \in Connections /\ time_update_status \in Status /\ twice \in BOOLEAN
      /\ time_update_status = "SYN_SUL" => Quiet(c)
  BY DEF Inv, TypeOK, Active, Kept, Clients, Quiet
<1>2. t \in (TcpStates \cup Gone) \ {"SYN_SENT", "SYN_RCVD"}
  <2>1. c.state \in TcpStates \ {"SYN_SENT", "SYN_RCVD"}
    BY <1>1 DEF Connections, Registered
  <2> QED
    BY <2>1 DEF NextState, Open, TcpStates, Gone
<1>3. c.queued - seg.acked \in 0 .. SndQueue
  BY <1>1, ClientAssumption DEF Segments, Connections
<1>4. tcp_process(c, seg)
        = [c |-> [c EXCEPT !.state = t, !.queued = @ - seg.acked], status |-> time_update_status,
           twice |-> twice, unread |-> Taken(c, seg) # "nothing"]
  BY DEF tcp_process, Here
<1> DEFINE p == tcp_process(c, seg)
<1> HIDE DEF t, c, p
<1>5. /\ p.c \in [role : {"client", "server"}, state : {t}, rx : BOOLEAN,
                  queued : 0 .. SndQueue, app : AppStates, live : BOOLEAN]
      /\ p.c.role = c.role /\ p.c.app = c.app
  <2>1. p.c = [c EXCEPT !.state = t, !.queued = @ - seg.acked]
    BY <1>4 DEF p, c
  <2>2. c \in [role : {"client", "server"}, state : TcpStates, rx : BOOLEAN,
               queued : 0 .. SndQueue, app : AppStates, live : BOOLEAN]
    BY <1>1 DEF Connections
  <2> QED
    BY <1>3, <2>1, <2>2
<1>6. /\ p.status = time_update_status /\ p.twice = twice /\ p.unread \in BOOLEAN
      /\ p = [c |-> p.c, status |-> p.status, twice |-> p.twice, unread |-> p.unread]
  BY <1>4 DEF p
<1>7. p \in Works
  BY <1>1, <1>2, <1>5, <1>6 DEF Works
<1> QED
  BY <1>1, <1>2, <1>5, <1>6, <1>7 DEF Good, Registered, Quiet, c, p

LEMMA InputLeft ==
    ASSUME Inv, NEW i \in Active, Registered(active[i]), NEW seg \in Segments(active[i]),
           NEW w \in tcp_input(active[i], seg)
    PROVE  Left(active[i], w)
<1> DEFINE c == active[i]
           p == tcp_process(c, seg)
<1>1. Good(p) /\ p.c.role = c.role /\ p.status = time_update_status
  BY ProcessGood
<1> HIDE DEF p
<1>2. CASE p.c.state = "FREED"
  <2>1. w = p /\ Follows(p, p)
    BY <1>2 DEF tcp_input, p, Follows
  <2> QED
    BY <1>1, <2>1, GoodLeft
<1>3. CASE p.c.state # "FREED"
  <2>1. PICK v \in (IF seg.acked > 0 THEN EventSent(p) ELSE {p}) : w \in AfterSent(c, seg, v)
    BY <1>3 DEF tcp_input, p
  <2>2. Good(v) /\ Follows(p, v)
    BY <1>1, <2>1, SentGood DEF Follows
  <2>3. CASE Taken(c, seg) = "nothing"
    BY <1>1, <2>1, <2>2, <2>3, GoodLeft DEF AfterSent
  <2> DEFINE u == [v EXCEPT !.unread = FALSE]
  <2>4. Good(u) /\ Follows(p, u) /\ u \in Works
    BY <2>2 DEF Good, Follows, Works, Registered, Quiet
  <2> HIDE DEF u
  <2>5. CASE Taken(c, seg) = "end"
    <3>1. w \in RecvEnd(u)
      BY <2>1, <2>5 DEF AfterSent, u
    <3> QED
      BY <1>1, <2>4, <3>1, EndGood, FollowsOn, GoodLeft
  <2>6. CASE Taken(c, seg) \in Commands
    <3>1. Taken(c, seg) = seg.brings
      BY <2>6 DEF Taken, Commands
    <3>2. CASE v.c.rx
      <4>1. w = tcp_abort(v)
        BY <2>1, <2>6, <3>2 DEF AfterSent, Commands
      <4>2. CASE v.c.state \in Gone
        BY <1>1, <2>2, <4>1, <4>2 DEF tcp_abort, Left, Gone, Good, Follows, Works
      <4>3. CASE v.c.state \notin Gone
        BY <1>1, <2>2, <4>1, <4>3, ErrLeft DEF tcp_abort, Good, Follows
      <4> QED
        BY <4>2, <4>3
    <3>3. CASE ~v.c.rx
      <4>1. w = EventRecv(u, seg.brings)
        BY <2>1, <2>6, <3>3 DEF AfterSent, Commands, u
      <4>2. u.c.role \in {"client", "server"}
        BY <2>4 DEF Works
      <4>3. Good(w) /\ Follows(u, w)
        BY <2>4, <2>6, <3>1, <4>1, <4>2, RecvGood, ServerRecvGood DEF EventRecv, Client
      <4> QED
        BY <1>1, <2>4, <4>3, FollowsOn, GoodLeft
    <3> QED
      BY <2>2, <3>2, <3>3 DEF Good, Works
  <2>7. Taken(c, seg) \in Commands \cup {"nothing", "end"}
    BY DEF Taken, Segments
  <2> QED
    BY <2>3, <2>5, <2>6, <2>7
<1> QED
  BY <1>2, <1>3

-----------------------------------------------------------------------------
(* The list: a connection is replaced, moved to the head or taken out *)

LEMMA Halves ==
    ASSUME NEW S, NEW s \in Seq(S), NEW i \in 1 .. Len(s)
    PROVE  LET head == SubSeq(s, 1, i - 1)
               rest == SubSeq(s, i + 1, Len(s))
           IN  /\ head \in Seq(S) /\ Len(head) = i - 1
               /\ \A k \in 1 .. i - 1 : head[k] = s[k]
               /\ rest \in Seq(S) /\ Len(rest) = Len(s) - i
               /\ \A k \in 1 .. Len(s) - i : rest[k] = s[k + i]
<1>1. \A k \in 1 .. Len(s) : s[k] \in S
  BY ElementOfSeq
<1>2. Len(s) \in Nat
  BY LenProperties
<1>3. /\ SubSeq(s, 1, i - 1) \in Seq(S)
      /\ Len(SubSeq(s, 1, i - 1)) = IF 1 <= i - 1 THEN i - 1 - 1 + 1 ELSE 0
      /\ \A k \in 1 .. i - 1 - 1 + 1 : SubSeq(s, 1, i - 1)[k] = s[1 + k - 1]
  <2>1. 1 \in Int /\ i - 1 \in Int /\ \A k \in 1 .. i - 1 : s[k] \in S
    BY <1>1, <1>2
  <2> QED
    BY <2>1, SubSeqProperties
<1>4. /\ SubSeq(s, i + 1, Len(s)) \in Seq(S)
      /\ Len(SubSeq(s, i + 1, Len(s))) = IF i + 1 <= Len(s) THEN Len(s) - (i + 1) + 1 ELSE 0
      /\ \A k \in 1 .. Len(s) - (i + 1) + 1 : SubSeq(s, i + 1, Len(s))[k] = s[i + 1 + k - 1]
  <2>1. i + 1 \in Int /\ Len(s) \in Int /\ \A k \in i + 1 .. Len(s) : s[k] \in S
    BY <1>1, <1>2
  <2> QED
    BY <2>1, SubSeqProperties
<1> DEFINE head == SubSeq(s, 1, i - 1)
           rest == SubSeq(s, i + 1, Len(s))
<1> HIDE DEF head, rest
<1>5. Len(head) = i - 1 /\ \A k \in 1 .. i - 1 : head[k] = s[k]
  BY <1>2, <1>3 DEF head
<1>6. Len(rest) = Len(s) - i /\ \A k \in 1 .. Len(s) - i : rest[k] = s[k + i]
  BY <1>2, <1>4 DEF rest
<1> QED
  BY <1>3, <1>4, <1>5, <1>6 DEF head, rest

\* from says where each connection of the new list was in the old one.
Origin(from, i, v) ==
    /\ from \in [1 .. Len(active') -> Active]
    /\ \A k, l \in 1 .. Len(active') : from[k] = from[l] => k = l
    /\ \A k \in 1 .. Len(active') :
          /\ active'[k] = IF from[k] = i THEN v.c ELSE active[from[k]]
          /\ from[k] = i => v.c.state \notin Gone

LEMMA Replaced ==
    ASSUME active \in Seq(Connections), NEW i \in Active, NEW v,
           v.c.state \in Gone \/ v.c \in Connections,
           Served(i, v) \/ InPlace(i, v)
    PROVE  active' \in Seq(Connections) /\ \E from : Origin(from, i, v)
<1> DEFINE n == Len(active)
           head == SubSeq(active, 1, i - 1)
           rest == SubSeq(active, i + 1, n)
           g == v.c.state \in Gone
<1>1. n \in Nat /\ i \in 1 .. n
  BY LenProperties DEF Active
<1>2. /\ head \in Seq(Connections) /\ Len(head) = i - 1
      /\ \A k \in 1 .. i - 1 : head[k] = active[k]
      /\ rest \in Seq(Connections) /\ Len(rest) = n - i
      /\ \A k \in 1 .. n - i : rest[k] = active[k + i]
  BY <1>1, Halves
<1>3. /\ g => Listed(v) = <<>>
      /\ ~g => v.c \in Connections /\ Listed(v) = <<v.c>>
  BY DEF Listed
<1>4. Served(i, v) => active' = Listed(v) \o (head \o rest)
  BY DEF Served, RemoveAt
<1>5. InPlace(i, v) => active' = (head \o Listed(v)) \o rest
  BY DEF InPlace
<1> HIDE DEF head, rest
<1>6. /\ head \o rest \in Seq(Connections) /\ Len(head \o rest) = n - 1
      /\ \A k \in 1 .. n - 1 : (head \o rest)[k] = IF k < i THEN active[k] ELSE active[k + 1]
  <2>1. /\ head \o rest \in Seq(Connections) /\ Len(head \o rest) = Len(head) + Len(rest)
        /\ \A k \in 1 .. Len(head) + Len(rest) :
              (head \o rest)[k] = IF k <= Len(head) THEN head[k] ELSE rest[k - Len(head)]
    BY <1>2, ConcatProperties
  <2>2. \A k \in 1 .. n - 1 : (head \o rest)[k] = IF k < i THEN active[k] ELSE active[k + 1]
    <3> TAKE k \in 1 .. n - 1
    <3>1. CASE k < i
      BY <1>1, <1>2, <2>1, <3>1
    <3>2. CASE ~(k < i)
      <4>1. (head \o rest)[k] = rest[k - (i - 1)] /\ k - (i - 1) \in 1 .. n - i
        BY <1>1, <1>2, <2>1, <3>2
      <4>2. rest[k - (i - 1)] = active[(k - (i - 1)) + i]
        BY <1>2, <4>1
      <4>3. (k - (i - 1)) + i = k + 1
        BY <1>1
      <4> QED
        BY <3>2, <4>1, <4>2, <4>3
    <3> QED
      BY <3>1, <3>2
  <2> QED
    BY <1>1, <1>2, <2>1, <2>2
<1>7. CASE g
  <2> DEFINE from == [k \in 1 .. n - 1 |-> IF k < i THEN k ELSE k + 1]
  <2>1. active' = head \o rest
    BY <1>2, <1>3, <1>4, <1>5, <1>7, ConcatEmptySeq, <1>6
  <2>2. Origin(from, i, v)
    BY <1>1, <1>6, <1>7, <2>1 DEF Origin, Active
  <2> QED
    BY <1>6, <2>1, <2>2
<1>8. CASE ~g /\ Served(i, v)
  <2> DEFINE from == [k \in 1 .. n |-> IF k = 1 THEN i ELSE IF k <= i THEN k - 1 ELSE k]
             one == <<v.c>>
             others == head \o rest
  <2>1. one \in Seq(Connections) /\ Len(one) = 1 /\ one[1] = v.c
    BY <1>3, <1>8
  <2>2. active' = one \o others
    BY <1>3, <1>4, <1>8
  <2> HIDE DEF one, others
  <2>3. /\ one \o others \in Seq(Connections) /\ Len(one \o others) = 1 + (n - 1)
        /\ \A k \in 1 .. 1 + (n - 1) :
              (one \o others)[k] = IF k <= 1 THEN one[k] ELSE others[k - 1]
    <3>1. others \in Seq(Connections) /\ Len(others) = n - 1
      BY <1>6 DEF others
    <3>2. /\ one \o others \in Seq(Connections) /\ Len(one \o others) = Len(one) + Len(others)
          /\ \A k \in 1 .. Len(one) + Len(others) :
                (one \o others)[k] = IF k <= Len(one) THEN one[k] ELSE others[k - Len(one)]
      BY <2>1, <3>1, ConcatProperties
    <3> QED
      BY <2>1, <3>1, <3>2
  <2>4. Len(active') = n
    BY <1>1, <2>2, <2>3
  <2>5. \A k \in 1 .. n : active'[k] = IF k = 1 THEN v.c ELSE IF k <= i THEN active[k - 1] ELSE active[k]
    <3> TAKE k \in 1 .. n
    <3>1. CASE k = 1
      BY <1>1, <2>1, <2>2, <2>3, <3>1
    <3>2. CASE k # 1
      <4>1. active'[k] = others[k - 1] /\ k - 1 \in 1 .. n - 1 /\ (k - 1) + 1 = k
        BY <1>1, <2>2, <2>3, <3>2
      <4>2. others[k - 1] = IF k - 1 < i THEN active[k - 1] ELSE active[(k - 1) + 1]
        BY <1>6, <4>1 DEF others
      <4> QED
        BY <1>1, <3>2, <4>1, <4>2
    <3> QED
      BY <3>1, <3>2
  <2>6. Origin(from, i, v)
    BY <1>1, <1>8, <2>4, <2>5 DEF Origin, Active
  <2> QED
    BY <2>2, <2>3, <2>6
<1>9. CASE ~g /\ InPlace(i, v)
  <2> DEFINE from == [k \in 1 .. n |-> k]
             one == <<v.c>>
             upto == head \o one
  <2>1. one \in Seq(Connections) /\ Len(one) = 1 /\ one[1] = v.c
    BY <1>3, <1>9
  <2>2. active' = upto \o rest
    BY <1>3, <1>5, <1>9
  <2> HIDE DEF one
  <2>3. /\ upto \in Seq(Connections) /\ Len(upto) = (i - 1) + 1
        /\ \A k \in 1 .. (i - 1) + 1 : upto[k] = IF k <= i - 1 THEN head[k] ELSE one[k - (i - 1)]
    <3>1. /\ head \o one \in Seq(Connections) /\ Len(head \o one) = Len(head) + Len(one)
          /\ \A k \in 1 .. Len(head) + Len(one) :
                (head \o one)[k] = IF k <= Len(head) THEN head[k] ELSE one[k - Len(head)]
      BY <1>2, <2>1, ConcatProperties
    <3> QED
      BY <1>2, <2>1, <3>1
  <2> HIDE DEF upto
  <2>4. /\ upto \o rest \in Seq(Connections) /\ Len(upto \o rest) = Len(upto) + (n - i)
        /\ \A k \in 1 .. Len(upto) + (n - i) :
              (upto \o rest)[k] = IF k <= Len(upto) THEN upto[k] ELSE rest[k - Len(upto)]
    <3>1. /\ upto \o rest \in Seq(Connections) /\ Len(upto \o rest) = Len(upto) + Len(rest)
          /\ \A k \in 1 .. Len(upto) + Len(rest) :
                (upto \o rest)[k] = IF k <= Len(upto) THEN upto[k] ELSE rest[k - Len(upto)]
      BY <1>2, <2>3, ConcatProperties
    <3> QED
      BY <1>2, <3>1
  <2>5. Len(upto) = i /\ Len(active') = n
    BY <1>1, <2>2, <2>3, <2>4
  <2>6. \A k \in 1 .. n : active'[k] = IF k = i THEN v.c ELSE active[k]
    <3> TAKE k \in 1 .. n
    <3>1. CASE k < i
      <4>1. active'[k] = upto[k]
        BY <1>1, <2>2, <2>4, <2>5, <3>1
      <4>2. upto[k] = head[k] /\ head[k] = active[k]
        BY <1>1, <1>2, <2>3, <3>1
      <4> QED
        BY <1>1, <3>1, <4>1, <4>2
    <3>2. CASE k = i
      BY <1>1, <2>1, <2>2, <2>3, <2>4, <2>5, <3>2
    <3>3. CASE k > i
      <4>1. active'[k] = rest[k - i] /\ k - i \in 1 .. n - i /\ (k - i) + i = k
        BY <1>1, <2>2, <2>4, <2>5, <3>3
      <4> QED
        BY <1>1, <1>2, <3>3, <4>1
    <3> QED
      BY <1>1, <3>1, <3>2, <3>3
  <2>7. Origin(from, i, v)
    BY <1>1, <1>9, <2>5, <2>6 DEF Origin, Active
  <2> QED
    BY <2>2, <2>4, <2>7
<1> QED
  BY <1>7, <1>8, <1>9

-----------------------------------------------------------------------------
(* The invariant *)

\* A step of one connection keeps the invariant, whatever its place becomes:
\* the others are as they were, and there is no second client.
LEMMA OneStep ==
    ASSUME Inv, NEW i \in Active, NEW v, Left(active[i], v),
           Served(i, v) \/ InPlace(i, v)
    PROVE  /\ Inv' /\ (time_update_status = "SYN_SUL" => time_update_status' = "SYN_SUL")
<1>1. /\ active \in Seq(Connections) /\ active[i] \in Connections
      /\ time_update_status \in Status /\ searching \in BOOLEAN
  BY ElementOfSeq DEF Inv, TypeOK, Active
<1>2. time_update_status' = v.status /\ twice' = v.twice /\ searching' = searching
  BY DEF Served, InPlace, Globals
<1>3. active' \in Seq(Connections) /\ \E from : Origin(from, i, v)
  BY <1>1, Replaced DEF Left
<1>4. PICK from : Origin(from, i, v)
  BY <1>3
<1>5. \A k \in Active' : /\ from[k] \in Active
                         /\ active'[k] = IF from[k] = i THEN v.c ELSE active[from[k]]
                         /\ from[k] = i => v.c.state \notin Gone
                         /\ active'[k].role = active[from[k]].role
  BY <1>4 DEF Origin, Active, Left
<1>6. TypeOK'
  BY <1>1, <1>2, <1>3 DEF TypeOK, Left
<1>7. OneClient'
  <2> SUFFICES ASSUME NEW k \in Active', NEW l \in Active',
                      active'[k].role = "client", active'[l].role = "client"
               PROVE  k = l
    BY DEF OneClient, Clients
  <2>1. from[k] \in Clients /\ from[l] \in Clients
    BY <1>5 DEF Clients
  <2>2. from[k] = from[l]
    BY <2>1 DEF Inv, OneClient
  <2> QED
    BY <1>4, <2>2 DEF Origin, Active
<1>8. Roles'
  BY <1>5 DEF Roles, Left, Registered, Inv
<1>9. Kept'
  <2> SUFFICES ASSUME v.status = "SYN_SUL", NEW k \in Active', active'[k].role = "client"
               PROVE  active'[k].state # "SYN_SENT" /\ Quiet(active'[k])
    BY <1>2 DEF Kept, Clients
  <2>1. CASE from[k] = i
    BY <1>5, <2>1 DEF Left, Registered
  <2>2. CASE from[k] # i
    <3>1. active'[k] = active[from[k]] /\ from[k] \in Clients
      BY <1>5, <2>2 DEF Clients
    <3>2. active[i].role = "server"
      BY <1>1, <2>2, <3>1 DEF Inv, OneClient, Clients, Connections
    <3>3. time_update_status = "SYN_SUL"
      BY <3>2 DEF Left
    <3> QED
      BY <3>1, <3>3 DEF Inv, Kept
  <2> QED
    BY <2>1, <2>2
<1> QED
  BY <1>2, <1>6, <1>7, <1>8, <1>9 DEF Inv, Left

\* A connection that is added at the head.
LEMMA Added ==
    ASSUME active \in Seq(Connections), NEW c \in Connections, active' = <<c>> \o active
    PROVE  /\ active' \in Seq(Connections) /\ Len(active') = Len(active) + 1
           /\ active'[1] = c
           /\ \A k \in Active' \ {1} : k - 1 \in Active /\ active'[k] = active[k - 1]
<1> DEFINE one == <<c>>
<1>1. one \in Seq(Connections) /\ Len(one) = 1 /\ one[1] = c
  OBVIOUS
<1>2. active' = one \o active /\ Len(active) \in Nat
  BY LenProperties
<1> HIDE DEF one
<1>3. /\ one \o active \in Seq(Connections) /\ Len(one \o active) = Len(one) + Len(active)
      /\ \A k \in 1 .. Len(one) + Len(active) :
            (one \o active)[k] = IF k <= Len(one) THEN one[k] ELSE active[k - Len(one)]
  BY <1>1, ConcatProperties
<1> QED
  BY <1>1, <1>2, <1>3 DEF Active

\* Where the search ends without finding, there is no client: it has looked
\* at every connection of a list that short.
LEMMA NobodyFound ==
    ASSUME Inv, ~Found, ~Circles
    PROVE  \A i \in Active : active[i].role = "server"
<1>1. Len(active) \in Nat /\ \A i \in Active : active[i] \in Connections
  BY LenProperties, ElementOfSeq DEF Inv, TypeOK, Active
<1>2. \A i \in Active \cap {1, 2} : IsServer(i)
  BY DEF Found
<1>3. 2 \notin Active
  <2> SUFFICES ASSUME 2 \in Active PROVE FALSE
    OBVIOUS
  <2>1. 1 \in Active
    BY <1>1 DEF Active
  <2> QED
    BY <1>2, <2>1 DEF Circles
<1>4. \A i \in Active : i = 1
  BY <1>1, <1>3 DEF Active
<1> QED
  BY <1>2, <1>4 DEF IsServer

LEMMA Initially == Init => Inv
<1> SUFFICES ASSUME Init PROVE Inv
  OBVIOUS
<1>1. Request \in Connections
  BY ClientAssumption DEF Request, Connections, TcpStates, AppStates
<1>2. TypeOK
  <2>1. <<Request>> \in Seq(Connections)
    BY <1>1
  <2> QED
    BY <2>1 DEF Init, TypeOK, Status
<1>3. Active = {1} /\ active[1] = Request
  BY DEF Init, Active
<1> QED
  BY <1>2, <1>3 DEF Init, Inv, OneClient, Clients, Roles, Kept, Request

LEMMA AskKeeps ==
    ASSUME Inv, ArpTick
    PROVE  Inv' /\ (time_update_status = "SYN_SUL" => time_update_status' = "SYN_SUL")
<1>1. CASE Found \/ Circles
  <2>1. active' = active /\ Active' = Active
    BY <1>1 DEF ArpTick, Active
  <2> QED
    BY <2>1 DEF ArpTick, Inv, TypeOK, OneClient, Clients, Roles, Kept
<1>2. CASE ~Found /\ ~Circles
  <2>1. active \in Seq(Connections) /\ Request \in Connections /\ active' = <<Request>> \o active
    BY <1>2, ClientAssumption
       DEF ArpTick, Inv, TypeOK, Request, Connections, TcpStates, AppStates
  <2>2. /\ active' \in Seq(Connections) /\ active'[1] = Request
        /\ \A k \in Active' \ {1} : k - 1 \in Active /\ active'[k] = active[k - 1]
    BY <2>1, Added
  <2>3. \A k \in Active' : active'[k].role = "client" => k = 1
    BY <1>2, <2>2, NobodyFound
  <2>4. TypeOK' /\ OneClient'
    BY <2>2, <2>3 DEF ArpTick, Inv, TypeOK, OneClient, Clients
  <2>5. Roles'
    BY <2>2 DEF Roles, Inv, Request
  <2> QED
    BY <2>4, <2>5 DEF ArpTick, Inv, Kept
<1> QED
  BY <1>1, <1>2

LEMMA SynKeeps == ASSUME Inv, Syn PROVE Inv' /\ time_update_status' = time_update_status
<1> DEFINE c == [role |-> "server", state |-> "SYN_RCVD", rx |-> FALSE, queued |-> 0,
                 app |-> "ERROR", live |-> FALSE]
<1>1. active \in Seq(Connections) /\ c \in Connections /\ active' = <<c>> \o active
  BY ClientAssumption DEF Syn, Inv, TypeOK, Connections, TcpStates, AppStates
<1>2. /\ active' \in Seq(Connections) /\ active'[1] = c
      /\ \A k \in Active' \ {1} : k - 1 \in Active /\ active'[k] = active[k - 1]
  BY <1>1, Added
<1>3. c.role = "server" /\ c.state = "SYN_RCVD"
  OBVIOUS
<1> HIDE DEF c
<1>4. UNCHANGED <<time_update_status, searching, twice>>
  BY DEF Syn
<1>5. TypeOK'
  BY <1>2, <1>4 DEF Inv, TypeOK
<1>6. \A k \in Clients' : k # 1 /\ k - 1 \in Clients /\ active'[k] = active[k - 1]
  BY <1>2, <1>3 DEF Clients
<1>7. OneClient'
  <2> SUFFICES ASSUME NEW k \in Clients', NEW l \in Clients' PROVE k = l
    BY DEF OneClient
  <2>1. k - 1 = l - 1 /\ k \in Int /\ l \in Int
    BY <1>6 DEF Inv, OneClient, Clients, Active
  <2> QED
    BY <2>1
<1>8. Roles' /\ Kept'
  BY <1>2, <1>3, <1>4, <1>6 DEF Roles, Kept, Inv
<1> QED
  BY <1>4, <1>5, <1>7, <1>8 DEF Inv

LEMMA HereGood ==
    ASSUME Inv, NEW i \in Active
    PROVE  /\ active[i] \in Connections /\ Here(active[i]) \in Works
           /\ Registered(active[i]) => Good(Here(active[i]))
<1>1. active[i] \in Connections /\ time_update_status \in Status /\ twice \in BOOLEAN
  BY ElementOfSeq DEF Inv, TypeOK, Active
<1>2. Here(active[i]) \in Works
  BY <1>1 DEF Here, Works, Connections
<1> QED
  BY <1>1, <1>2 DEF Inv, Kept, Clients, Good, Quiet, Here

LEMMA DropLeft ==
    ASSUME Inv, NEW i \in Active, NEW err PROVE Left(active[i], Drop(Here(active[i]), err))
BY HereGood, ErrLeft DEF Here

LEMMA StepKeeps ==
    ASSUME Inv, NEW i \in Active, Step(i)
    PROVE  /\ Inv' /\ (time_update_status = "SYN_SUL" => time_update_status' = "SYN_SUL")
<1> DEFINE c == active[i]
<1>1. c \in Connections
  BY HereGood
<1>2. CASE SynAck(i)
  <2> DEFINE u == [c EXCEPT !.state = "ESTABLISHED"]
             v == tcp_client_connected(Here(u))
  <2>1. c.role = "client" /\ time_update_status # "SYN_SUL"
    BY <1>2 DEF SynAck, Inv, Roles, Kept, Clients
  <2>2. u \in Connections /\ u.role = c.role /\ u.state = "ESTABLISHED"
    BY <1>1 DEF Connections, TcpStates
  <2> HIDE DEF u
  <2>3. Good(Here(u))
    BY <2>1, <2>2, HereGood DEF Good, Works, Here, Connections, Registered, Inv, TypeOK
  <2>4. Good(tcp_write(Here(u))) /\ Follows(Here(u), tcp_write(Here(u)))
    BY <2>3, WriteGood
  <2>5. tcp_write(Here(u)).c.state = "ESTABLISHED"
    BY <2>2, <2>3 DEF tcp_write, Here, Good, Works
  <2> DEFINE w == tcp_write(Here(u))
  <2>6. v = [w EXCEPT !.c.app = "WELCOME", !.status = "SYNING"]
    BY DEF tcp_client_connected
  <2>7. w \in Works /\ w.c.role = c.role /\ w.c.state = "ESTABLISHED"
    BY <2>2, <2>4, <2>5 DEF Good, Follows, Here
  <2> HIDE DEF w, v
  <2>8. Left(c, v)
    BY <2>1, <2>6, <2>7 DEF Left, Works, Connections, Registered, Quiet, Status, AppStates, TcpStates
  <2> QED
    BY <1>2, <2>8, OneStep DEF SynAck, v, u
<1>3. CASE Accept(i)
  <2> DEFINE u == [c EXCEPT !.state = "ESTABLISHED"]
             v == tcp_server_accept(Here(u))
  <2>1. c.role = "server"
    BY <1>3 DEF Accept, Inv, Roles
  <2>2. u \in Connections /\ u.role = c.role /\ u.state = "ESTABLISHED"
    BY <1>1 DEF Connections, TcpStates
  <2> HIDE DEF u
  <2>3. Good(Here(u))
    BY <2>1, <2>2, HereGood DEF Good, Works, Here, Connections, Registered, Quiet, Inv, TypeOK
  <2>4. Good(tcp_write(Here(u))) /\ Follows(Here(u), tcp_write(Here(u)))
    BY <2>3, WriteGood
  <2>5. tcp_write(Here(u)).c.state = "ESTABLISHED"
    BY <2>2, <2>3 DEF tcp_write, Here, Good, Works
  <2> DEFINE w == tcp_write(Here(u))
  <2>6. v = [w EXCEPT !.c.app = "WAITING_FOR_CMD", !.c.live = TRUE]
    BY DEF tcp_server_accept
  <2>7. /\ w \in Works /\ w.c.role = "server" /\ w.c.state = "ESTABLISHED"
        /\ w.status = time_update_status
    BY <2>1, <2>2, <2>4, <2>5 DEF Good, Follows, Here
  <2> HIDE DEF w, v
  <2>8. Left(c, v)
    BY <2>1, <2>6, <2>7 DEF Left, Works, Connections, Registered, Quiet, AppStates, TcpStates
  <2> QED
    BY <1>3, <2>8, OneStep DEF Accept, v, u
<1>4. CASE Rst(i)
  BY <1>4, DropLeft, OneStep DEF Rst
<1>5. CASE Limit(i)
  BY <1>5, DropLeft, OneStep DEF Limit
<1>6. CASE Poll(i)
  <2>1. PICK v \in EventPoll(Here(c)) : InPlace(i, v)
    BY <1>6 DEF Poll
  <2>2. Good(Here(c))
    BY <1>6, HereGood DEF Poll
  <2>3. Left(c, v)
    BY <2>1, <2>2, PollGood, GoodLeft DEF Here
  <2> QED
    BY <2>1, <2>3, OneStep
<1>7. CASE \E seg \in Segments(c) : Segment(i, seg)
  BY <1>7, InputLeft, OneStep DEF Segment
<1> QED
  BY <1>2, <1>3, <1>4, <1>5, <1>6, <1>7 DEF Step

LEMMA NextKeeps ==
    ASSUME Inv, [Next]_vars
    PROVE  Inv' /\ (time_update_status = "SYN_SUL" => time_update_status' = "SYN_SUL")
<1>1. CASE UNCHANGED vars
  BY <1>1 DEF vars, Inv, TypeOK, OneClient, Clients, Active, Roles, Kept
<1>2. CASE ArpTick
  BY <1>2, AskKeeps
<1>3. CASE Syn
  BY <1>3, SynKeeps
<1>4. CASE \E i \in Active : Step(i)
  BY <1>4, StepKeeps
<1> QED
  BY <1>1, <1>2, <1>3, <1>4 DEF Next

LEMMA Invariance == Spec => []Inv
<1>1. Init => Inv
  BY Initially
<1>2. Inv /\ [Next]_vars => Inv'
  BY NextKeeps
<1> QED
  BY <1>1, <1>2, PTL DEF Spec

\* Every connection, the status and the ghosts keep their types (tcp.c,
\* tcp_client.c, tcp_server.c: no callback leaves a state lwIP does not have
\* in its active list).
THEOREM TypeCorrect == Spec => []TypeOK
<1>1. Inv => TypeOK
  BY DEF Inv
<1> QED
  BY <1>1, Invariance, PTL

\* The search never asks while a request is under way (netconf.c:172-187),
\* although it looks at two connections only, however many are served.
THEOREM AtMostOneClient == Spec => []OneClient
<1>1. Inv => OneClient
  BY DEF Inv
<1> QED
  BY <1>1, Invariance, PTL

\* No error handler, repeated command or late connection takes back that the
\* time has come (tcp_client.c:60, 169, 283).
THEOREM SuccessStays == Spec => SuccessKept
<1>1. Inv /\ [Next]_vars
        => [time_update_status = "SYN_SUL" => time_update_status' = "SYN_SUL"]_vars
  BY NextKeeps
<1> QED
  BY <1>1, Invariance, PTL DEF Spec, SuccessKept

=============================================================================
