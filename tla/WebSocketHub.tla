---------------------------- MODULE WebSocketHub ----------------------------
(***************************************************************************)
(* The hub that pushes updates to open pages.  Broadcasters put messages   *)
(* in the hub's buffer; the hub's loop moves each to the buffer of every   *)
(* client; a client's writePump sends what is buffered, its readPump       *)
(* answers pings and reports that the page has left.  A full buffer loses  *)
(* its oldest message, in three steps: try, drop one, try again.           *)
(*                                                                         *)
(* Messages are numbered in the order they enter the hub's buffer; 0 is a  *)
(* pong.                                                                   *)
(***************************************************************************)
EXTENDS Integers, Sequences, FiniteSets, SequencesExt

CONSTANTS Clients, Producers, NoClient,
          Origins, Host, Allowed, \* origins a page may have, and those let in
          wsBroadcastBuffer, wsClientSendBuffer,
          MaxMessages, MaxPings

VARIABLES broadcast,  \* the hub's buffer
          newest,     \* the last message put in it
          producer,   \* each broadcaster: idle, full (about to drop) or retry
          started,    \* broadcasts begun
          hub,        \* the loop: where it is, and the message it is moving
          clients,    \* the registered clients
          send,       \* client -> its buffer and whether it is closed
          reader, writer, open, \* client -> its two pumps and its connection
          expected, shown, \* history: the last message moved to it, and seen
          overtaken,  \* a pong took the place made for a message
          pings, crashed

hubVars == <<broadcast, newest, producer, started, hub, clients, send, reader, writer, open, expected, shown, overtaken, pings, crashed>>

Waiting == [pc |-> "wait", n |-> 0, last |-> 0]
Loop == [pc |-> "select", msg |-> 0, todo |-> {}, at |-> NoClient]

HubInit ==
    /\ broadcast = <<>> /\ newest = 0 /\ started = 0
    /\ producer = [p \in Producers |-> "idle"]
    /\ hub = Loop /\ clients = {}
    /\ send = [c \in Clients |-> [queue |-> <<>>, closed |-> FALSE]]
    /\ reader = [c \in Clients |-> "none"] /\ writer = [c \in Clients |-> Waiting]
    /\ open = [c \in Clients |-> FALSE]
    /\ expected = [c \in Clients |-> 0] /\ shown = [c \in Clients |-> 0]
    /\ overtaken = {} /\ pings = 0 /\ crashed = FALSE

------------------------------------------------ \* Broadcast, by any goroutine
Put == broadcast' = Append(broadcast, newest + 1) /\ newest' = newest + 1
Producer(p, pc) == producer' = [producer EXCEPT ![p] = pc]

Broadcast(p) ==
    /\ producer[p] = "idle" /\ started < MaxMessages
    /\ started' = started + 1
    /\ IF Len(broadcast) < wsBroadcastBuffer THEN Put /\ UNCHANGED producer
       ELSE Producer(p, "full") /\ UNCHANGED <<broadcast, newest>>
    /\ UNCHANGED <<hub, clients, send, reader, writer, open, expected, shown, overtaken, pings, crashed>>

BroadcastDrop(p) ==
    /\ producer[p] = "full"
    /\ Producer(p, "retry")
    /\ broadcast' = IF broadcast = <<>> THEN <<>> ELSE Tail(broadcast)
    /\ UNCHANGED <<newest, started, hub, clients, send, reader, writer, open, expected, shown, overtaken, pings, crashed>>

\* The place may have gone to another broadcaster: then this message is lost.
BroadcastRetry(p) ==
    /\ producer[p] = "retry"
    /\ Producer(p, "idle")
    /\ IF Len(broadcast) < wsBroadcastBuffer THEN Put ELSE UNCHANGED <<broadcast, newest>>
    /\ UNCHANGED <<started, hub, clients, send, reader, writer, open, expected, shown, overtaken, pings, crashed>>

------------------------------------------------------------ \* the hub's loop
Take == /\ hub.pc = "select" /\ broadcast # <<>>
        /\ broadcast' = Tail(broadcast)
        /\ hub' = IF clients = {} THEN Loop ELSE [Loop EXCEPT !.pc = "moving", !.msg = Head(broadcast), !.todo = clients]
        /\ expected' = [c \in Clients |-> IF c \in clients THEN Head(broadcast) ELSE expected[c]]
        /\ UNCHANGED <<newest, producer, started, clients, send, reader, writer, open, shown, overtaken, pings, crashed>>

Room(c) == Len(send[c].queue) < wsClientSendBuffer
Enqueue(c, msg) == send' = [send EXCEPT ![c].queue = Append(@, msg)]
Moved(c) == hub' = IF hub.todo = {c} THEN Loop ELSE [hub EXCEPT !.pc = "moving", !.todo = @ \ {c}, !.at = NoClient]

\* enqueueDropOldest to a client: the first try.
Move(c) ==
    /\ hub.pc = "moving" /\ c \in hub.todo
    /\ IF Room(c) THEN Enqueue(c, hub.msg) /\ Moved(c) /\ overtaken' = overtaken \ {c}
       ELSE hub' = [hub EXCEPT !.pc = "full", !.at = c] /\ UNCHANGED <<send, overtaken>>
    /\ UNCHANGED <<broadcast, newest, producer, started, clients, reader, writer, open, expected, shown, pings, crashed>>

MoveDrop == /\ hub.pc = "full"
            /\ hub' = [hub EXCEPT !.pc = "retry"]
            /\ send' = [send EXCEPT ![hub.at].queue = IF @ = <<>> THEN @ ELSE Tail(@)]
            /\ UNCHANGED <<broadcast, newest, producer, started, clients, reader, writer, open, expected, shown, overtaken, pings, crashed>>

\* readPump may have put a pong where the old message was.
MoveRetry == /\ hub.pc = "retry"
             /\ IF Room(hub.at)
                THEN Enqueue(hub.at, hub.msg) /\ overtaken' = overtaken \ {hub.at}
                ELSE overtaken' = overtaken \cup {hub.at} /\ UNCHANGED send
             /\ Moved(hub.at)
             /\ UNCHANGED <<broadcast, newest, producer, started, clients, reader, writer, open, expected, shown, pings, crashed>>

\* The loop meets ServeWS at register and readPump at unregister; neither has
\* a buffer, so both wait for ever once the loop has returned.
Register(c) == /\ hub.pc = "select" /\ reader[c] = "register"
               /\ clients' = clients \cup {c}
               /\ reader' = [reader EXCEPT ![c] = "reading"]
               /\ UNCHANGED <<broadcast, newest, producer, started, hub, send, writer, open, expected, shown, overtaken, pings, crashed>>

Unregister(c) == /\ hub.pc = "select" /\ reader[c] = "leaving"
                 /\ clients' = clients \ {c}
                 /\ send' = [send EXCEPT ![c].closed = TRUE]
                 /\ reader' = [reader EXCEPT ![c] = "gone"]
                 /\ open' = [open EXCEPT ![c] = FALSE]
                 /\ UNCHANGED <<broadcast, newest, producer, started, hub, writer, expected, shown, overtaken, pings, crashed>>

StopHub == /\ hub.pc = "select"
           /\ hub' = [Loop EXCEPT !.pc = "stopped"]
           /\ send' = [c \in Clients |-> IF c \in clients THEN [send[c] EXCEPT !.closed = TRUE] ELSE send[c]]
           /\ clients' = {}
           /\ UNCHANGED <<broadcast, newest, producer, started, reader, writer, open, expected, shown, overtaken, pings, crashed>>

----------------------------------------------------- \* a client's connection
\* An origin is absent, or a scheme and a host: the server's own, or one of
\* the list, where a closing slash makes no difference.
checkOrigin(o) ==
    \/ o.scheme = "none"
    \/ /\ o.scheme \in {"http", "https"} /\ o.host # ""
       /\ \/ o.host = Host /\ o.scheme = IF o.tls THEN "https" ELSE "http"
          \/ \E a \in Allowed : a.scheme = o.scheme /\ a.host = o.host

ServeWS(c) == /\ reader[c] = "none"
              /\ \E o \in Origins : checkOrigin(o)
              /\ reader' = [reader EXCEPT ![c] = "register"]
              /\ open' = [open EXCEPT ![c] = TRUE]
              /\ UNCHANGED <<broadcast, newest, producer, started, hub, clients, send, writer, expected, shown, overtaken, pings, crashed>>

\* A ping from the page.  A send on a buffer the stopping hub has closed is a
\* panic, and the process ends.
Ping(c) == /\ reader[c] = "reading" /\ open[c] /\ pings < MaxPings
           /\ pings' = pings + 1
           /\ IF send[c].closed THEN crashed' = TRUE /\ UNCHANGED send
              ELSE (IF Room(c) THEN Enqueue(c, 0) ELSE UNCHANGED send) /\ UNCHANGED crashed
           /\ UNCHANGED <<broadcast, newest, producer, started, hub, clients, reader, writer, open, expected, shown, overtaken>>

\* The page leaves or falls silent, or its connection has been closed here.
Leave(c) == /\ reader[c] = "reading"
            /\ reader' = [reader EXCEPT ![c] = "leaving"]
            /\ UNCHANGED <<broadcast, newest, producer, started, hub, clients, send, writer, open, expected, shown, overtaken, pings, crashed>>
ReadFails(c) == ~open[c] /\ Leave(c)

Write(c, w) == writer' = [writer EXCEPT ![c] = w]
Started(c) == reader[c] \notin {"none", "register"}
Newer(msg, last) == IF msg = 0 THEN last ELSE msg

WriteTake(c) ==
    /\ Started(c) /\ writer[c].pc = "wait" /\ send[c].queue # <<>>
    /\ Write(c, [writer[c] EXCEPT !.pc = "count", !.last = Newer(Head(send[c].queue), @)])
    /\ send' = [send EXCEPT ![c].queue = Tail(@)]
    /\ UNCHANGED <<broadcast, newest, producer, started, hub, clients, reader, open, expected, shown, overtaken, pings, crashed>>

\* Mutant of WriteCount: the batch is of the buffer's size, and not of what it holds.
WriteCountCap(c) ==
    /\ writer[c].pc = "count"
    /\ Write(c, [writer[c] EXCEPT !.pc = "batch", !.n = wsClientSendBuffer])
    /\ UNCHANGED <<broadcast, newest, producer, started, hub, clients, send, reader, open, expected, shown, overtaken, pings, crashed>>

\* As many messages go with the first as are buffered now: the hub may still
\* add to them, and take the oldest away.
WriteCount(c) ==
    /\ writer[c].pc = "count"
    /\ Write(c, [writer[c] EXCEPT !.pc = "batch", !.n = Len(send[c].queue)])
    /\ UNCHANGED <<broadcast, newest, producer, started, hub, clients, send, reader, open, expected, shown, overtaken, pings, crashed>>

WriteBatch(c) ==
    /\ writer[c].pc = "batch" /\ writer[c].n > 0
    /\ send[c].queue # <<>> \/ send[c].closed
    /\ LET queue == send[c].queue
       IN  IF queue = <<>> THEN Write(c, [writer[c] EXCEPT !.n = @ - 1]) /\ UNCHANGED send
           ELSE /\ Write(c, [writer[c] EXCEPT !.n = @ - 1, !.last = Newer(Head(queue), @)])
                /\ send' = [send EXCEPT ![c].queue = Tail(queue)]
    /\ UNCHANGED <<broadcast, newest, producer, started, hub, clients, reader, open, expected, shown, overtaken, pings, crashed>>

WriteFlush(c) ==
    /\ writer[c].pc = "batch" /\ writer[c].n = 0
    /\ IF open[c]
       THEN /\ Write(c, [writer[c] EXCEPT !.pc = "wait"])
            /\ shown' = [shown EXCEPT ![c] = writer[c].last]
       ELSE Write(c, [writer[c] EXCEPT !.pc = "done"]) /\ UNCHANGED shown
    /\ UNCHANGED <<broadcast, newest, producer, started, hub, clients, send, reader, open, expected, overtaken, pings, crashed>>

\* The buffer is closed and empty, or the write of a batch failed.
WriteStop(c) ==
    /\ \/ Started(c) /\ writer[c].pc = "wait" /\ send[c] = [queue |-> <<>>, closed |-> TRUE]
       \/ writer[c].pc = "batch" /\ writer[c].n = 0
    /\ Write(c, [writer[c] EXCEPT !.pc = "done"])
    /\ open' = [open EXCEPT ![c] = FALSE]
    /\ UNCHANGED <<broadcast, newest, producer, started, hub, clients, send, reader, expected, shown, overtaken, pings, crashed>>

HubStep == /\ ~crashed
           /\ \/ Take \/ MoveDrop \/ MoveRetry
              \/ \E p \in Producers : BroadcastDrop(p) \/ BroadcastRetry(p)
              \/ \E c \in Clients : \/ Move(c) \/ Register(c) \/ Unregister(c) \/ ReadFails(c)
                                    \/ WriteTake(c) \/ WriteCount(c) \/ WriteBatch(c) \/ WriteFlush(c)
              \/ \E c \in Clients : send[c].closed /\ WriteStop(c)
HubNext == \/ HubStep
           \/ /\ ~crashed
              /\ \/ StopHub \/ (\E p \in Producers : Broadcast(p))
                 \/ \E c \in Clients : ServeWS(c) \/ Ping(c) \/ Leave(c) \/ WriteStop(c)

\* The hub, the pumps and a broadcast begun go on; pages and broadcasters need not.
HubFairness == WF_hubVars(HubStep)
----------------------------------------------------------------- \* properties
\* Through full buffers, pongs, batches counted before they are written and
\* pages that come and go: what is broadcast is moved on, a page that stays
\* ends up showing the last message moved to it (unless a pong took its
\* place), and a hub that stops leaves no registered page connected.
NewestArrives ==
    <>[](\/ crashed
         \/ /\ hub.pc = "stopped" => \A c \in Clients : Started(c) => ~open[c]
            /\ hub.pc # "stopped" =>
                   /\ broadcast = <<>>
                   /\ \A c \in clients \ overtaken : open[c] => shown[c] = expected[c])
=============================================================================
