----------------------------- MODULE Transport ------------------------------
(***************************************************************************)
(* The sockets of one process, a server or a client, by the numbers the    *)
(* operating system knows them by: how Listen and Connect acquire one step *)
(* by step (bt_linux.go, l2cap_linux.go, bt_windows.go), and what the      *)
(* accept loop, the eviction of the oldest and the deferred Close of each  *)
(* handler (server.go) do to them.                                         *)
(*                                                                         *)
(* The two platforms differ in Close.  On Linux a connection is an os.File *)
(* on a blocking descriptor: it is closed once, when no read is under way, *)
(* and later calls fail.  On Windows it is a bare handle: every call goes  *)
(* to whatever socket has that number now.  And on Windows syscall.Accept, *)
(* which winsockListener.Accept calls, is a stub of Go that always fails:  *)
(* a server there listens, and its loop logs errors without a pause.       *)
(*                                                                         *)
(* A connection is numbered by its place in the backlog (server) or by its *)
(* attempt (client).  A query of the adapter, which opens and closes an    *)
(* HCI socket of its own, is one step, as is a write.                      *)
(***************************************************************************)
EXTENDS Naturals, Sequences

CONSTANTS N,         \* bound: connections
          Numbers,   \* the socket numbers the process may have in use
          MaxClients \* --max-clients; 0 = unlimited

ASSUME TransportAssumption == N \in Nat /\ MaxClients \in Nat /\ Numbers \subseteq Nat \ {0}

VARIABLES platform, \* "linux" or "windows"
          role,     \* "server" or "client"
          names,    \* names[d]: the socket numbered d, Free if there is none
          stage,    \* where ListenAndServe is, or the user's connect command
          last,     \* connections taken from the backlog, or attempts to connect
          number,   \* number[c]: the number c was given, 0 before
          conn,     \* conn[c]: c's Conn: "none" yet, "open", or "closed" once called
          handler,  \* handler[c]: where the goroutine of connection c is
          target,   \* target[c]: the socket c's handler is in a read on
          peer,     \* peer[c]: the other end
          table,    \* activeConns
          evicted,  \* connections dropped for a newer one
          current,  \* the client's c.conn, 0 if nil
          crossed   \* <<c, t>>: a call on connection c reached the socket of t

sockets == <<names, number, conn>>
vars == <<platform, role, sockets, stage, last, handler, target, peer, table,
          evicted, current, crossed>>

Conns == 1..N
Listening == N + 1
Free == 0
FreeNumbers == {d \in Numbers : names[d] = Free}

Linux == platform = "linux"
Opening == IF role = "server" THEN Listening ELSE last

Init ==
  /\ platform \in {"linux", "windows"} /\ role \in {"server", "client"}
  /\ names = [d \in Numbers |-> Free]
  /\ stage = IF role = "client" THEN "prompt" ELSE IF Linux THEN "adapter" ELSE "socket"
  /\ last = 0 /\ current = 0
  /\ number = [c \in 1..N + 1 |-> 0]
  /\ conn = [c \in Conns |-> "none"] /\ handler = [c \in Conns |-> "off"]
  /\ target = [c \in Conns |-> Free] /\ peer = [c \in Conns |-> "away"]
  /\ table = << >> /\ evicted = {} /\ crossed = {}

-----------------------------------------------------------------------------
(* Opening a socket: Listen on the server, Connect on the client.          *)

(* The lowest free descriptor on Linux, any free handle on Windows. *)
Allocate(s) ==
  \E d \in FreeNumbers :
    /\ Linux => \A e \in FreeNumbers : d <= e
    /\ names' = [names EXCEPT ![d] = s]
    /\ number' = [number EXCEPT ![s] = d]

Release(d) == names' = [names EXCEPT ![d] = Free]

(* Listen's error ends the server; Connect's returns to the prompt. *)
GiveUp == stage' = IF role = "server" THEN "exited" ELSE "prompt"

(* ensureAdapterUp, resolveAdapter and the parsing of the address. *)
QueryAdapter ==
  /\ stage = "adapter"
  /\ \/ FreeNumbers # {} /\ stage' = "socket"
     \/ GiveUp
  /\ UNCHANGED <<platform, role, sockets, last, handler, target, peer, table, evicted,
                 current, crossed>>

OpenSocket ==
  /\ stage = "socket"
  /\ \/ Allocate(Opening) /\ stage' = "bind"
     \/ GiveUp /\ UNCHANGED <<names, number>>
  /\ UNCHANGED <<platform, role, conn, last, handler, target, peer, table, evicted,
                 current, crossed>>

(* bind, then listen or connect; the step that fails closes the socket. *)
FinishOpenForgets ==                          \* a seeded fault: connect's error keeps it
  /\ stage \in {"bind", "establish"}
  /\ \/ /\ stage' = IF stage = "bind" THEN "establish"
                    ELSE IF role = "server" THEN "accept" ELSE "login"
        /\ IF role = "client" /\ stage = "establish"
           THEN current' = last /\ conn' = [conn EXCEPT ![last] = "open"]
           ELSE UNCHANGED <<current, conn>>
        /\ UNCHANGED names
     \/ /\ GiveUp /\ UNCHANGED <<current, conn>>
        /\ IF stage = "bind" THEN Release(number[Opening]) ELSE UNCHANGED names
  /\ UNCHANGED <<platform, role, number, last, handler, target, peer, table, evicted,
                 crossed>>
FinishOpen ==
  /\ stage \in {"bind", "establish"}
  /\ \/ /\ stage' = IF stage = "bind" THEN "establish"
                    ELSE IF role = "server" THEN "accept" ELSE "login"
        /\ IF role = "client" /\ stage = "establish"
           THEN current' = last /\ conn' = [conn EXCEPT ![last] = "open"]
           ELSE UNCHANGED <<current, conn>>
        /\ UNCHANGED names
     \/ GiveUp /\ Release(number[Opening]) /\ UNCHANGED <<current, conn>>
  /\ UNCHANGED <<platform, role, number, last, handler, target, peer, table, evicted,
                 crossed>>

-----------------------------------------------------------------------------
(* Calls on a connection.                                                  *)

(* The socket a call on connection c reaches; a closed os.File refuses.    *)
Reached(c) == IF Linux /\ conn[c] = "closed" THEN Free ELSE names[number[c]]
Reach(c) == crossed' = IF Reached(c) \in {c, Free} THEN crossed
                       ELSE crossed \cup {<<c, Reached(c)>>}

CloseUnguarded(c) ==                          \* a seeded fault: a bare descriptor on Linux
  /\ conn' = [conn EXCEPT ![c] = "closed"]
  /\ Release(number[c])
  /\ crossed' = IF names[number[c]] \in {c, Free} THEN crossed
                ELSE crossed \cup {<<c, names[number[c]]>>}
  /\ UNCHANGED number

(* Conn.Close. *)
Close(c) ==
  /\ conn' = [conn EXCEPT ![c] = "closed"]
  /\ IF Reached(c) # Free /\ ~(Linux /\ handler[c] = "reading")
     THEN Release(number[c]) ELSE UNCHANGED names
  /\ Reach(c)
  /\ UNCHANGED number

-----------------------------------------------------------------------------
(* The client's connect and disconnect commands.                           *)

(* connect does not look at c.conn; a new attempt starts with the adapter. *)
Connect ==
  /\ role = "client" /\ stage = "prompt" /\ last < N
  /\ last' = last + 1
  /\ stage' = IF Linux THEN "adapter" ELSE "socket"
  /\ UNCHANGED <<platform, role, sockets, handler, target, peer, table, evicted,
                 current, crossed>>

(* MTU, login and handshake; a failed login closes the connection. *)
Login ==
  /\ stage = "login" /\ stage' = "prompt"
  /\ \/ UNCHANGED <<sockets, current, crossed>>
     \/ Close(current) /\ current' = 0
  /\ UNCHANGED <<platform, role, last, handler, target, peer, table, evicted>>

Disconnect ==
  /\ role = "client" /\ stage = "prompt" /\ current # 0
  /\ Close(current) /\ current' = 0
  /\ UNCHANGED <<platform, role, stage, last, handler, target, peer, table, evicted>>

(* The finalizer of an os.File that nothing refers to. *)
Collect(c) ==
  /\ role = "client" /\ Linux /\ c # current /\ conn[c] = "open"
  /\ Close(c)
  /\ UNCHANGED <<platform, role, stage, last, handler, target, peer, table, evicted, current>>

-----------------------------------------------------------------------------
(* The accept loop.                                                        *)

Waiting == {c \in Conns : peer[c] \in {"here", "gone"} /\ c > last}

Arrive(c) ==
  /\ role = "server" /\ stage \in {"accept", "track"}
  /\ peer[c] = "away" /\ \A b \in 1..c - 1 : peer[b] # "away"
  /\ peer' = [peer EXCEPT ![c] = "here"]
  /\ UNCHANGED <<platform, role, sockets, stage, last, handler, target, table, evicted,
                 current, crossed>>

Leave(c) ==
  /\ peer[c] = "here"
  /\ peer' = [peer EXCEPT ![c] = "gone"]
  /\ UNCHANGED <<platform, role, sockets, stage, last, handler, target, table, evicted,
                 current, crossed>>

Accept ==
  /\ Linux /\ role = "server" /\ stage = "accept" /\ Waiting # {}
  /\ last' = last + 1
  /\ Allocate(last')
  /\ conn' = [conn EXCEPT ![last'] = "open"]
  /\ stage' = "track"
  /\ UNCHANGED <<platform, role, handler, target, peer, table, evicted, current, crossed>>

AcceptFailsReturns ==                         \* a seeded fault: the loop ends
  /\ role = "server" /\ stage = "accept"
  /\ \/ ~Linux /\ UNCHANGED last
     \/ Linux /\ Waiting # {} /\ FreeNumbers = {} /\ UNCHANGED last
     \/ Linux /\ Waiting # {} /\ peer[last + 1] = "gone" /\ last' = last + 1
  /\ stage' = "exited"
  /\ UNCHANGED <<platform, role, sockets, handler, target, peer, table, evicted,
                 current, crossed>>

(* The call is not supported (bt_windows.go:226); or no number is free, or *)
(* the client at the head of the backlog gave up.  The loop logs the error *)
(* and goes on.                                                            *)
AcceptFails ==
  /\ role = "server" /\ stage = "accept"
  /\ \/ ~Linux /\ UNCHANGED last
     \/ Linux /\ Waiting # {} /\ FreeNumbers = {} /\ UNCHANGED last
     \/ Linux /\ Waiting # {} /\ peer[last + 1] = "gone" /\ last' = last + 1
  /\ UNCHANGED <<platform, role, sockets, stage, handler, target, peer, table, evicted,
                 current, crossed>>

TrackKeepsOldest ==                           \* a seeded fault: dropped but not closed
  /\ stage = "track" /\ stage' = "accept"
  /\ handler' = [handler EXCEPT ![last] = "running"]
  /\ IF MaxClients > 0 /\ Len(table) >= MaxClients
     THEN evicted' = evicted \cup {Head(table)} /\ table' = Append(Tail(table), last)
     ELSE table' = Append(table, last) /\ UNCHANGED evicted
  /\ UNCHANGED <<platform, role, sockets, last, target, peer, current, crossed>>

(* trackConn, and the handler's goroutine. *)
Track ==
  /\ stage = "track" /\ stage' = "accept"
  /\ handler' = [handler EXCEPT ![last] = "running"]
  /\ IF MaxClients > 0 /\ Len(table) >= MaxClients
     THEN /\ Close(Head(table))
          /\ evicted' = evicted \cup {Head(table)}
          /\ table' = Append(Tail(table), last)
     ELSE table' = Append(table, last) /\ UNCHANGED <<sockets, evicted, crossed>>
  /\ UNCHANGED <<platform, role, last, target, peer, current>>

-----------------------------------------------------------------------------
(* A handler: read a message, answer it, and at the end close and untrack. *)

Moves(c, h) == handler' = [handler EXCEPT ![c] = h]

BeginRead(c) ==
  /\ handler[c] = "running"
  /\ IF Reached(c) = Free THEN Moves(c, "returned") /\ UNCHANGED target
     ELSE Moves(c, "reading") /\ target' = [target EXCEPT ![c] = Reached(c)]
  /\ Reach(c)
  /\ UNCHANGED <<platform, role, sockets, stage, last, peer, table, evicted, current>>

IsOpen(t) == names[number[t]] = t

(* The read ends with data, or because the other end or the socket is      *)
(* gone; on Linux it was the last to hold a descriptor closed meanwhile.   *)
EndRead(c) ==
  /\ handler[c] = "reading"
  /\ \/ IsOpen(target[c]) /\ peer[target[c]] = "here" /\ Moves(c, "answering")
     \/ (~IsOpen(target[c]) \/ peer[target[c]] = "gone") /\ Moves(c, "returned")
  /\ target' = [target EXCEPT ![c] = Free]
  /\ IF Linux /\ conn[c] = "closed" THEN Release(number[c]) ELSE UNCHANGED names
  /\ UNCHANGED <<platform, role, number, conn, stage, last, peer, table, evicted,
                 current, crossed>>

(* A write; any handler may also return, after an error of the protocol.   *)
Answer(c) ==
  /\ handler[c] = "answering"
  /\ \/ Reached(c) # Free /\ Moves(c, "running")
     \/ Moves(c, "returned")
  /\ Reach(c)
  /\ UNCHANGED <<platform, role, sockets, stage, last, target, peer, table, evicted, current>>

(* defer conn.Close() *)
Finish(c) ==
  /\ handler[c] = "returned" /\ Moves(c, "closed")
  /\ Close(c)
  /\ UNCHANGED <<platform, role, stage, last, target, peer, table, evicted, current>>

(* defer s.untrackConn(c) *)
Untrack(c) ==
  /\ handler[c] = "closed" /\ Moves(c, "ended")
  /\ \/ \E i \in DOMAIN table :
          table[i] = c /\ table' = SubSeq(table, 1, i - 1) \o SubSeq(table, i + 1, Len(table))
     \/ (\A i \in DOMAIN table : table[i] # c) /\ UNCHANGED table
  /\ UNCHANGED <<platform, role, sockets, stage, last, target, peer, evicted, current, crossed>>

Handler(c) == BeginRead(c) \/ EndRead(c) \/ Answer(c) \/ Finish(c) \/ Untrack(c)

Next == \/ QueryAdapter \/ OpenSocket \/ FinishOpen
        \/ Connect \/ Login \/ Disconnect
        \/ Accept \/ AcceptFails \/ Track
        \/ \E c \in Conns : Collect(c) \/ Arrive(c) \/ Leave(c) \/ Handler(c)

(* The loop and the handlers run; nobody has to come, speak or leave.      *)
Spec == /\ Init /\ [][Next]_vars
        /\ WF_vars(Accept) /\ WF_vars(Track) /\ \A c \in Conns : WF_vars(Handler(c))

-----------------------------------------------------------------------------
(* No read, write or close of a connection ever reaches the socket of      *)
(* another connection, although numbers are reused at once and a dropped   *)
(* connection is closed twice (trackConn, handleConnection;                *)
(* rfcommConn.Close, winsockConn.Close).                                   *)
OwnSocket == crossed = {}

(* Every socket in use belongs to somebody who will close it: the opening  *)
(* under way, the listener, a connection whose handler has not ended, the  *)
(* client's connection.  Only connecting twice leaves one behind, until    *)
(* the collector finds it, and on Windows for good (Connect, client.go:45).*)
Owned(d, s) ==
  /\ number[s] = d
  /\ \/ role = "server" /\ s = Listening /\ stage # "exited"
     \/ role = "server" /\ s \in Conns /\ handler[s] \notin {"closed", "ended"}
     \/ role = "client" /\ (s = current \/ (s = last /\ stage \in {"bind", "establish"}))
Replaced(s) == role = "client" /\ s < last /\ conn[s] = "open"
NothingLeaks == \A d \in Numbers : names[d] # Free => Owned(d, names[d]) \/ Replaced(names[d])

(* Why.  Every number in use is the number of the socket it names, and the *)
(* socket of an opening or of a handler that has not closed it.            *)
Kinds ==
  /\ platform \in {"linux", "windows"} /\ role \in {"server", "client"}
  /\ names \in [Numbers -> 0..N + 1]
  /\ number \in [1..N + 1 -> Numbers \cup {0}]
  /\ conn \in [Conns -> {"none", "open", "closed"}]
  /\ handler \in [Conns -> {"off", "running", "reading", "answering", "returned",
                            "closed", "ended"}]
  /\ last \in 0..N /\ current \in 0..N
  /\ table \in Seq({c \in Conns : conn[c] # "none"})

(* The stages of each role, and what exists in them. *)
Stages ==
  /\ stage \in {"adapter", "socket", "bind", "establish"}
       \cup IF role = "server" THEN {"accept", "track", "exited"} ELSE {"prompt", "login"}
  /\ stage \in {"adapter", "socket", "bind", "establish"} =>
       IF role = "server" THEN last = 0 ELSE last > 0 /\ conn[last] = "none"
  /\ stage \in {"bind", "establish"} => number[Opening] # 0
  /\ stage = "track" => last > 0 /\ conn[last] = "open" /\ handler[last] = "off"
  /\ stage = "login" => current # 0
  /\ ~Linux => stage # "track" /\ \A c \in Conns : handler[c] = "off"
  /\ current # 0 => role = "client" /\ conn[current] = "open"
  /\ \A c \in Conns :
       /\ c > last => conn[c] = "none" /\ handler[c] = "off"
       /\ handler[c] # "off" => role = "server" /\ conn[c] # "none"
       /\ (role = "server" /\ conn[c] = "open" /\ handler[c] = "off") =>
            (stage = "track" /\ c = last)
       /\ handler[c] \in {"closed", "ended"} => conn[c] = "closed"
       /\ conn[c] # "none" => number[c] # 0
       /\ (role = "client" /\ conn[c] = "open") => (c = current \/ c < last)

Held(c) == conn[c] = "open" \/ (platform = "linux" /\ conn[c] = "closed" /\ handler[c] = "reading")
Named ==
  \A d \in Numbers : names[d] # Free =>
    /\ number[names[d]] = d
    /\ \/ names[d] = Opening /\ stage \in {"bind", "establish"}
       \/ names[d] = Listening /\ role = "server" /\ stage \in {"accept", "track"}
       \/ names[d] \in Conns /\ Held(names[d])

(* No close goes astray: what is open keeps its number. *)
Straight ==
  /\ crossed = {}
  /\ \A c \in Conns : Held(c) => names[number[c]] = c
  /\ stage \in {"bind", "establish"} => names[number[Opening]] = Opening

IInv == Kinds /\ Stages /\ Named /\ Straight

(* A dropped connection is closed on the spot, so that the limit bounds    *)
(* the connections that are open, except that one whose handler            *)
(* is in a read stays open until its client speaks or leaves (README:      *)
(* "oldest dropped when exceeded").                                        *)
EvictedCloses == \A c \in evicted : IsOpen(c) => handler[c] = "reading"

(* On Linux a client in the backlog is accepted as soon as a number is     *)
(* free: no failed Accept ends the loop (server.go:83-98).  On Windows     *)
(* nobody is ever accepted.                                                *)
Served == Linux /\ Waiting # {} ~> Waiting = {} \/ FreeNumbers = {}
=============================================================================
