------------------------------ MODULE WebServer ------------------------------
(***************************************************************************)
(* The web server (webserver.cpp, without the asynchronous one that nothing  *)
(* starts) and the pages whose stages depend on each other: webserver_loop   *)
(* visits one client after the other; a client is read, answered in stages   *)
(* of which every one queues some texts, and sent as much of the queue in a  *)
(* visit as fits in a packet, in chunks whose length is announced first.     *)
(* Web sockets get the lines of the log and are kept alive by pings.         *)
(*                                                                         *)
(* A text is [item, size]: what a peer must get whole and in its place.  How *)
(* a header is parsed is left out: a request is a number of pieces, each one *)
(* read in a visit.  External: the TCP peers, and that a write takes all or  *)
(* the connection is lost.                                                   *)
(***************************************************************************)
EXTENDS Integers, Sequences, FiniteSets, SequencesExt

CONSTANTS
  Peer, NoPeer,
  Asks,                       \* what the peers may ask for: functions from some peers to Page
  WEBSERVER_MAX_CLIENTS,
  Room,                       \* MTU_SIZE less 16
  WEBSERVER_CLIENT_TIMEOUT, WEBSERVER_CLIENT_PING_INTERVAL,   \* in ticks
  NUMBER_OF_TOPICS, NUMBER_OF_TOPICS_EXTRA, NUMBER_OF_OPT_TOPICS,
  RulesSize, BUFFER_SIZE,     \* the rules file and the pieces it is shown in
  MaxLines                    \* BOUND: lines of the log

\* "silent" connects and asks nothing.
Page == {"json", "rules", "command", "saverules", "socket", "silent"}

VARIABLES
  asks,      \* asks[p]: what p asks for
  net,       \* net[p]: the connection of p, the pieces it has to send and those not yet read
  got,       \* got[p]: what p has received
  slot,      \* clients[]
  at,        \* the client the pass is at; 0: the rest of loop()
  lines

wsvars == <<asks, net, got, slot, at, lines>>

\* The peers of this behaviour.
Peers == DOMAIN asks

Slots == 1 .. WEBSERVER_MAX_CLIENTS
Pieces(page) ==
  CASE page = "silent" -> 0 [] page \in {"socket", "json"} -> 1 [] OTHER -> 2
HeaderPieces(page) == IF page = "saverules" THEN 1 ELSE Pieces(page)

\* webserver_reset_client
FreeSlot ==
  [step |-> "FREE", peer |-> NoPeer, socket |-> FALSE, age |-> 0, pingAge |-> 0, content |-> 0,
   list |-> <<>>, ptr |-> 0, chunked |-> FALSE, fed |-> 0, userdata |-> FALSE]

WebInit ==
  /\ asks \in Asks
  /\ net = [p \in Peers |-> [state |-> "waiting", todo |-> Pieces(asks[p]), unread |-> 0]]
  /\ got = [p \in Peers |-> [items |-> <<>>, part |-> 0, framed |-> TRUE, ended |-> FALSE]]
  /\ slot = [i \in Slots |-> FreeSlot]
  /\ at = 0 /\ lines = 0
-----------------------------------------------------------------------------
(* What a peer receives. *)

Text(item, size) == [item |-> item, size |-> size]

\* A header or a handshake is written at once.
Direct(g, item) == [g EXCEPT !.items = Append(@, item), !.framed = @ /\ g.part = 0]

\* n bytes of the first text in a queue, the last of them or not
Bytes(g, text, ptr, n) ==
  IF n = 0 /\ text.size > 0 THEN g
  ELSE [g EXCEPT !.items = IF ptr + n = text.size THEN Append(@, text.item) ELSE @,
                 !.part = IF ptr + n = text.size THEN 0 ELSE ptr + n,
                 !.framed = @ /\ g.part = ptr /\ ~(g.ended /\ n > 0)]

\* The zero of the last chunk.
Zero(g) == [g EXCEPT !.ended = TRUE]
-----------------------------------------------------------------------------
(* The stages of the pages (webserver_cb in step WRITE): what stage "content" queues, the content *)
(* that is next, less the one the server adds itself, and what becomes of userdata.              *)

Stage(texts, next, userdata, ok) == [texts |-> texts, next |-> next, userdata |-> userdata, ok |-> ok, head |-> FALSE]
Headed(stage) == [stage EXCEPT !.head = TRUE]

Topics(kind, from, to) == [i \in 1 .. to - from + 1 |-> Text(<<kind, from + i - 1>>, 2)]
Least(a, b) == IF a < b THEN a ELSE b

\* handleJsonOutput, with both of the optional blocks
JsonStage(content) ==
  LET extra == NUMBER_OF_TOPICS_EXTRA
      opt == NUMBER_OF_OPT_TOPICS
      block(kind, from, maxTopics, n) ==
        LET last == Least(maxTopics, n) - 1
        IN Stage(Topics(kind, from, last), content + last - from, FALSE, TRUE)
  IN CASE content = 0 -> Headed(Stage(<<Text("begin", 1)>>, 0, FALSE, TRUE))
       [] content # 0 /\ content - 1 < NUMBER_OF_TOPICS ->
            block("TOP", content - 1, content + 4, NUMBER_OF_TOPICS)
       [] content - 1 >= NUMBER_OF_TOPICS /\ content - NUMBER_OF_TOPICS - 1 < extra ->
            block("XTOP", content - NUMBER_OF_TOPICS - 1, content - NUMBER_OF_TOPICS + 4, extra)
       [] content - NUMBER_OF_TOPICS - 1 >= extra /\ content - NUMBER_OF_TOPICS - extra - 1 < opt ->
            block("OPT", content - NUMBER_OF_TOPICS - extra - 1, content - NUMBER_OF_TOPICS + extra + 4, opt)
       [] content = NUMBER_OF_TOPICS + extra + opt + 1 -> Stage(<<Text("end", 1)>>, content, FALSE, TRUE)
       [] OTHER -> Stage(<<>>, content, FALSE, TRUE)

\* showRules: the file in pieces; the text behind it goes out with the last one.
IsLast(len1, content) == len1 < BUFFER_SIZE \/ content * BUFFER_SIZE = RulesSize

RulesStage(content, userdata) ==
  LET behind == <<Text("page2", 1)>>
      len1 == IF content * BUFFER_SIZE <= RulesSize THEN BUFFER_SIZE
              ELSE IF content * BUFFER_SIZE <= RulesSize + BUFFER_SIZE
                THEN RulesSize - (content - 1) * BUFFER_SIZE
              ELSE 0
      piece == <<Text(<<"rules", content, len1>>, len1)>>
  IN IF content = 0 THEN Headed(Stage(<<Text("page1", 3)>>, 0, TRUE, TRUE))
     ELSE IF ~userdata
       THEN Stage(IF content = 1 THEN behind ELSE <<>>, content, FALSE, TRUE)
     ELSE IF RulesSize = 0 \/ len1 = 0
       THEN Stage(IF content = 1 THEN behind ELSE <<>>, content, content # 1, TRUE)
     ELSE IF IsLast(len1, content)
       THEN Stage(piece \o behind, content, FALSE, TRUE)
       ELSE Stage(piece, content, TRUE, TRUE)

\* Routes 20, 160, 100 and 170.
StageOf(page, content, userdata) ==
  CASE page = "json" -> JsonStage(content)
    [] page = "rules" -> RulesStage(content, userdata)
    [] page = "command" ->
         IF content = 0 THEN Headed(Stage(<<Text("log", 3)>>, 0, FALSE, TRUE)) ELSE Stage(<<>>, content, userdata, TRUE)
    [] page = "saverules" -> Headed(Stage(<<>>, content, FALSE, FALSE))
-----------------------------------------------------------------------------
PageAt(i) == asks[slot[i].peer]
Connected(p) == net[p].state = "open" \/ net[p].unread > 0
Closing(c) == [c EXCEPT !.step = "CLOSE"]

\* A slot without a client is passed by.
NextTaken(n) ==
  LET taken == {i \in Slots : i > n /\ slot[i].step # "FREE"}
  IN IF taken = {} THEN WEBSERVER_MAX_CLIENTS + 1 ELSE CHOOSE i \in taken : \A j \in taken : i <= j

\* The client of this visit and what its peer gets; then on to the next one.
Visit(c, g) ==
  /\ slot' = [slot EXCEPT ![at] = c]
  /\ got' = IF c.peer = NoPeer THEN got ELSE [got EXCEPT ![c.peer] = g]
  /\ at' = NextTaken(at)
  /\ UNCHANGED <<asks, lines>>
Kept(c) == Visit(c, got[c.peer])

\* A stage is queued for client c; what the header changes is written at once.
Queued(c, stage) ==
  [c EXCEPT !.list = @ \o stage.texts, !.content = stage.next, !.userdata = stage.userdata,
            !.chunked = @ \/ stage.head, !.age = IF stage.head THEN 0 ELSE @]
Written(g, stage) == IF stage.head THEN Direct(g, "head") ELSE g
-----------------------------------------------------------------------------
(* webserver_process_send. *)

\* What is left of the room after every text of the queue: first to announce the length, then to send.
Left(list, ptr, room) ==
  LET f[k \in 0 .. Len(list)] ==
        IF k = 0 THEN room
        ELSE LET size == list[k].size - (IF k = 1 THEN ptr ELSE 0)
             IN IF f[k - 1] >= size THEN f[k - 1] - size ELSE 0
  IN f

\* Variant: what the packet before has sent of the first text is announced again.
AnnouncedAgain(list, ptr, room) == room - Left(list, 0, room)[Len(list)]

Announced(list, ptr, room) == room - Left(list, ptr, room)[Len(list)]

\* How many texts leave the queue: while there is room left a text is begun; it leaves when
\* its rest fits.
Sent(list, ptr, room) ==
  LET left == Left(list, ptr, room)
      fits(k) == left[k - 1] > 0 /\ left[k - 1] >= list[k].size - (IF k = 1 THEN ptr ELSE 0)
  IN IF \A k \in 1 .. Len(list) : fits(k) THEN Len(list)
     ELSE (CHOOSE k \in 1 .. Len(list) : ~fits(k) /\ \A j \in 1 .. k - 1 : fits(j)) - 1

\* What the peer gets of the queue, and the offset into the first text that stays.
Receives(g, list, ptr, room, n) ==
  LET left == Left(list, ptr, room)
      f[k \in 0 .. n] == IF k = 0 THEN g
                         ELSE LET p == IF k = 1 THEN ptr ELSE 0
                              IN Bytes(f[k - 1], list[k], p, list[k].size - p)
      rest == IF n < Len(list) THEN left[n] ELSE 0
  IN IF rest > 0 THEN Bytes(f[n], list[n + 1], IF n = 0 THEN ptr ELSE 0, rest) ELSE f[n]
OffsetAfter(list, ptr, room, n) ==
  IF n = Len(list) THEN 0 ELSE (IF n = 0 THEN ptr ELSE 0) + Left(list, ptr, room)[n]

\* A chunk is well formed when what follows its length is as long.
Chunk(g, before, c) ==
  IF ~c.chunked THEN g
  ELSE LET bytes == Announced(c.list, c.ptr, Room)
           sent == Room - Left(c.list, c.ptr, Room)[Len(c.list)]
       IN [g EXCEPT !.framed = @ /\ bytes = sent, !.ended = @ \/ bytes = 0]

\* The queue is empty: the next stage, or the end.
Drained(c, g) ==
  IF c.socket THEN Visit([c EXCEPT !.content = @ + 1, !.step = "WEBSOCKET"], g)
  ELSE LET stage == StageOf(PageAt(at), c.content + 1, c.userdata)
           next == Queued(c, stage)
       IN IF next.list = <<>>
            THEN Visit([next EXCEPT !.step = "CLOSE", !.userdata = FALSE, !.ptr = 0, !.content = 0],
                       Zero(Written(g, stage)))
            ELSE Visit([next EXCEPT !.step = IF stage.ok THEN "SENDING" ELSE "CLOSE"],
                       Written(g, stage))

Rest(list, n) == SubSeq(list, n + 1, Len(list))

SendFrom(c, n) ==
  LET g == Chunk(Receives(got[c.peer], c.list, c.ptr, Room, n), got[c.peer], c)
      sent == [c EXCEPT !.list = Rest(c.list, n), !.ptr = OffsetAfter(c.list, c.ptr, Room, n),
                        !.age = IF c.socket THEN @ ELSE 0]
  IN IF sent.list = <<>> THEN Drained(sent, g) ELSE Visit(sent, g)
Send(c) == SendFrom(c, Sent(c.list, c.ptr, Room))
-----------------------------------------------------------------------------
(* webserver_sync_receive: the piece that was read goes to the parser of the client. *)

\* With the URI, in the first piece: what the page needs until it is written.
Routed(c, page) == IF page \in {"command", "saverules"} THEN [c EXCEPT !.userdata = TRUE] ELSE c

Parsed(c, page) ==
  LET n == c.fed + 1
      fed == [(IF n = 1 THEN Routed(c, page) ELSE c) EXCEPT !.fed = n, !.age = 0]
  IN IF c.step = "WEBSOCKET" THEN [c EXCEPT !.age = 0]   \* a pong
     ELSE IF n < HeaderPieces(page) THEN fed
     ELSE IF page = "socket" THEN [fed EXCEPT !.step = "WEBSOCKET", !.socket = TRUE, !.pingAge = 0]
     ELSE IF n < Pieces(page) THEN [fed EXCEPT !.step = "ARGS"]
     ELSE [fed EXCEPT !.step = "WRITE"]

Receive(c) ==
  IF net[c.peer].unread = 0 THEN Kept(c) /\ UNCHANGED net
  ELSE LET next == Parsed(c, asks[c.peer])
       IN /\ net' = [net EXCEPT ![c.peer].unread = @ - 1]
          /\ Visit(next, IF next.step = "WEBSOCKET" /\ c.step # "WEBSOCKET"
                           THEN Direct(got[c.peer], "handshake") ELSE got[c.peer])

\* The first answer is queued in two visits; then it is sent.
Write(c) ==
  LET stage == StageOf(asks[c.peer], c.content, c.userdata)
      next == Queued(c, stage)
  IN Visit(IF ~stage.ok THEN Closing([next EXCEPT !.ptr = 0])
           ELSE IF next.content > 0 THEN [next EXCEPT !.step = "SENDING", !.ptr = 0]
           ELSE [next EXCEPT !.content = 1, !.ptr = 0],
           Written(got[c.peer], stage))

\* stop(), webserver_reset_client
Close(c) ==
  /\ net' = [net EXCEPT ![c.peer] = [@ EXCEPT !.state = IF @ = "open" THEN "closed" ELSE @, !.unread = 0, !.todo = 0]]
  /\ Visit(FreeSlot, got[c.peer])

\* What webserver_loop does before it looks at the step: ping, timeout, connection lost.
Ping == Text("ping", 1)

\* Variant: only a lost connection ends a client.
NeverTimedOut(c) == FALSE

TimedOut(c) == c.age > WEBSERVER_CLIENT_TIMEOUT

Checked(c) ==
  LET pinged == IF c.socket /\ c.pingAge > WEBSERVER_CLIENT_PING_INTERVAL
                  THEN [c EXCEPT !.list = Append(@, Ping), !.pingAge = 0]
                  ELSE c
  IN IF TimedOut(c) \/ ~Connected(c.peer) THEN Closing(pinged) ELSE pinged

Step(c) ==
  /\ \/ c.step = "CONNECTING"
        /\ Kept(IF net[c.peer].unread > 0 THEN [c EXCEPT !.step = "READ_HEADER"] ELSE c)
     \/ c.step = "WRITE" /\ Write(c)
     \/ c.step = "SENDING" /\ Send(c)
  /\ UNCHANGED net

Service ==
  /\ at \in Slots
  /\ LET c == Checked(slot[at])
     IN \/ Step(c)
        \/ c.step \in {"READ_HEADER", "ARGS", "WEBSOCKET"} /\ Receive(c)
        \/ c.step = "CLOSE" /\ Close(c)

\* A connection that waits is taken into the first free slot, one in a pass.
Accept ==
  /\ at = WEBSERVER_MAX_CLIENTS + 1
  /\ LET free == {i \in Slots : slot[i].step = "FREE"}
         waiting == {p \in Peers : net[p].state = "waiting"}
     IN IF free = {} \/ waiting = {} THEN UNCHANGED <<net, slot>>
        ELSE LET i == CHOOSE i \in free : \A j \in free : i <= j
             IN \E p \in waiting :
                  /\ slot' = [slot EXCEPT ![i] = [FreeSlot EXCEPT !.step = "CONNECTING", !.peer = p]]
                  /\ net' = [net EXCEPT ![p].state = "open"]
  /\ at' = 0
  /\ UNCHANGED <<asks, got, lines>>
-----------------------------------------------------------------------------
(* The rest of the main loop, and the peers.  What a peer does matters when its own client is *)
(* visited: to let them act between two passes leaves nothing out.                            *)

\* The next call of webserver_loop, and the time since the last one: a tick.
Pass ==
  /\ at = 0 /\ at' = NextTaken(0)
  /\ slot' = [i \in Slots |->
                IF slot[i].step = "FREE" THEN slot[i]
                ELSE [slot[i] EXCEPT !.age = Least(@ + 1, WEBSERVER_CLIENT_TIMEOUT + 1),
                                     !.pingAge = Least(@ + 1, WEBSERVER_CLIENT_PING_INTERVAL + 1)]]
  /\ UNCHANGED <<asks, net, got, lines>>

\* log_message: websocket_write_all
Log ==
  /\ at = 0 /\ lines < MaxLines
  /\ lines' = lines + 1
  /\ slot' = [i \in Slots |->
                IF slot[i].socket /\ slot[i].step # "CLOSE"
                  THEN [slot[i] EXCEPT !.list = @ \o <<Text("header", 1), Text("line", 2)>>, !.step = "SENDING"]
                  ELSE slot[i]]
  /\ UNCHANGED <<asks, net, got, at>>

\* A piece of the request arrives.
Arrive(p) ==
  /\ net[p].state = "open" /\ net[p].todo > 0
  /\ net' = [net EXCEPT ![p].todo = @ - 1, ![p].unread = @ + 1]
  /\ UNCHANGED <<asks, got, slot, at, lines>>

\* A ping is answered.
Pong(p) ==
  /\ net[p].state = "open" /\ net[p].unread = 0
  /\ got[p].items # <<>> /\ Last(got[p].items) = "ping"
  /\ net' = [net EXCEPT ![p].unread = 1]
  /\ got' = [got EXCEPT ![p].items = Append(@, "pong")]
  /\ UNCHANGED <<asks, slot, at, lines>>

Leave(p) ==
  /\ net[p].state = "open"
  /\ net' = [net EXCEPT ![p].state = "left", ![p].todo = 0]
  /\ UNCHANGED <<asks, got, slot, at, lines>>

webserver_loop == Service \/ Accept
WebNext ==
  \/ webserver_loop \/ Pass \/ Log
  \/ at = 0 /\ \E p \in Peers : Arrive(p) \/ Pong(p) \/ Leave(p)

\* loop() comes round.
WebFairness == WF_wsvars(webserver_loop \/ Pass)
WebSpec == WebInit /\ [][WebNext]_wsvars /\ WebFairness
-----------------------------------------------------------------------------
\* The whole answer.
Expected(page) ==
  LET numbered(kind, n) == [i \in 1 .. n |-> <<kind, i - 1>>]
      pieces == (RulesSize + BUFFER_SIZE - 1) \div BUFFER_SIZE
  IN CASE page = "json" ->
            <<"head", "begin">> \o numbered("TOP", NUMBER_OF_TOPICS) \o numbered("XTOP", NUMBER_OF_TOPICS_EXTRA)
            \o numbered("OPT", NUMBER_OF_OPT_TOPICS) \o <<"end">>
       [] page = "rules" ->
            <<"head", "page1">>
            \o [k \in 1 .. pieces |-> <<"rules", k, Least(BUFFER_SIZE, RulesSize - (k - 1) * BUFFER_SIZE)>>]
            \o <<"page2">>
       [] page = "command" -> <<"head", "log">>
       [] page = "saverules" -> <<"head">>
       [] OTHER -> <<>>

\* Chunks are as long as announced; an answer that was begun is sent to its end and in its
\* order, each text once, unless the peer leaves (webserver.cpp:1365, webfunctions.cpp:1276,
\* 1450); a socket gets whole messages.
RepliesWhole ==
  \A p \in Peers :
    /\ got[p].framed
    /\ asks[p] # "socket" => IsPrefix(got[p].items, Expected(asks[p]))
    /\ asks[p] # "socket" /\ net[p].state = "closed" /\ got[p].items # <<>> => got[p].items = Expected(asks[p])
    /\ asks[p] = "socket" =>
         \A n \in DOMAIN got[p].items :
           /\ (n = 1) <=> (got[p].items[n] = "handshake")
           /\ got[p].items[n] = "line" => got[p].items[n - 1] = "header"

\* Who connects does not wait for ever, and nobody holds a slot for ever who neither asks, nor
\* reads, nor answers pings (webserver.cpp:2376).
EveryoneLeaves == <>(\A p \in Peers : net[p].state \in {"closed", "left"})
=============================================================================
