----------------------------- MODULE Connection -----------------------------
(***************************************************************************)
(* Connections to one server: the accept loop with its table of at most    *)
(* MaxClients connections, and, on each connection, the start of           *)
(* Client.Connect against the start of handleConnection: MTU negotiation,  *)
(* login, key exchange, then requests.                                     *)
(*                                                                         *)
(* Connections are numbered in the order they are dialled, which is the    *)
(* order the listener's backlog hands them to Accept.  A receive and the   *)
(* sends that follow it are one step.                                      *)
(***************************************************************************)
EXTENDS Naturals, Sequences, FiniteSets

CONSTANTS N,           \* bound: connections dialled
          MaxClients,  \* --max-clients; 0 = unlimited
          MaxLost,     \* bound: links lost
          Profiles,    \* Profiles[c]: what the client of c may be configured with
          ServerAcl    \* the ACL MTU and packets of the server's adapter

Logins == {"none", "right", "wrong", "empty"}  \* "empty": right, and the password is ""
Acls == Nat \X Nat

ASSUME BoundAssumption == N \in Nat /\ MaxClients \in Nat /\ MaxLost \in Nat
ASSUME ProfilesAssumption ==
  \A c \in 1..N : Profiles[c] # {} /\ Profiles[c] \subseteq [login : Logins, mtu : BOOLEAN, acl : Acls]
ASSUME ServerAclAssumption == ServerAcl \in Acls

VARIABLES hasUsers,  \* s.Users.HasUsers()
          dialled,   \* connections dialled
          accepted,  \* connections Accept has returned
          profile,   \* profile[c]: the client's configuration
          client,    \* client[c]: what Connect or the user waits for
          handler,   \* handler[c]: what handleConnection waits for
          cmode,     \* cmode[c]: the client's chunk size, and whether rw is encrypted
          smode,     \* smode[c]: the same of the handler
          toServer,  \* toServer[c], toClient[c]: the frames in flight
          toClient,
          socket,    \* socket[c], of the server: "closing" is closed while a read
                     \* holds it
          lost,      \* connections whose link is lost
          evicted,   \* connections dropped for a newer one
          table      \* activeConns

net == <<toServer, toClient, lost>>
vars == <<hasUsers, dialled, accepted, profile, client, handler, cmode, smode,
          net, socket, evicted, table>>

Conns == 1..N

DefaultChunkSize == 1024
MaxChunkSize == 65536

ComputeChunkSize(acl) ==
  LET preferred == (acl[1] * acl[2]) \div 2
  IN CASE acl[1] = 0 \/ acl[2] = 0 \/ preferred < DefaultChunkSize -> DefaultChunkSize
       [] preferred > MaxChunkSize -> MaxChunkSize
       [] OTHER -> preferred

(* Seeded faults, here and below, stand before the definition they break.  *)
AgreedOnMine(mine, theirs) == mine

Agreed(mine, theirs) == IF theirs > 0 /\ theirs < mine THEN theirs ELSE mine

(* A frame: a message in the clear ("plain") or encrypted ("sealed"), or   *)
(* the bare 32 bytes of a nonce ("raw").                                   *)
Frame(k, l, n) == [kind |-> k, layer |-> l, chunk |-> n]
Plain(k) == Frame(k, "plain", 0)
Nonce == Frame("nonce", "raw", 0)
Mode(n, l) == [chunk |-> n, layer |-> l]

Connecting == {"mtu", "auth", "nonce"}
Waiting == Connecting \cup {"asking"}
Reading == {"first", "auth", "nonce", "serving"}

Tracked == {c \in Conns : handler[c] \notin {"off", "ended"}} \ evicted

Init ==
  /\ hasUsers \in BOOLEAN
  /\ dialled = 0 /\ accepted = 0
  /\ profile = [c \in Conns |-> CHOOSE p \in Profiles[c] : TRUE]
  /\ client = [c \in Conns |-> "off"] /\ handler = [c \in Conns |-> "off"]
  /\ cmode = [c \in Conns |-> Mode(DefaultChunkSize, "plain")]
  /\ smode = [c \in Conns |-> Mode(DefaultChunkSize, "plain")]
  /\ toServer = [c \in Conns |-> << >>] /\ toClient = [c \in Conns |-> << >>]
  /\ socket = [c \in Conns |-> "open"]
  /\ lost = {} /\ evicted = {} /\ table = << >>

-----------------------------------------------------------------------------
(* The client.                                                             *)

Send(c, m) == toServer' = [toServer EXCEPT ![c] = Append(@, m)]
Take(c) == toClient' = [toClient EXCEPT ![c] = Tail(@)]

(* After negotiateMTU: Connect sends the credentials if there are any.     *)
LoginOrUp(c, p, q) ==
  /\ client' = [client EXCEPT ![c] = IF p.login = "none" THEN "up" ELSE "auth"]
  /\ toServer' = [toServer EXCEPT ![c] = q \o IF p.login = "none" THEN << >> ELSE <<Plain("auth")>>]

Dial(c, p) ==
  /\ c = dialled + 1
  /\ dialled' = c
  /\ profile' = [profile EXCEPT ![c] = p]
  /\ IF p.mtu
     THEN /\ client' = [client EXCEPT ![c] = "mtu"]
          /\ Send(c, Frame("mtu", "plain", ComputeChunkSize(p.acl)))
     ELSE LoginOrUp(c, p, << >>)
  /\ UNCHANGED <<hasUsers, accepted, handler, cmode, smode, toClient, lost,
                 socket, evicted, table>>

ReadMTU(c) ==
  /\ client[c] = "mtu" /\ toClient[c] # << >>
  /\ LET m == Head(toClient[c])
         mine == ComputeChunkSize(profile[c].acl)
     IN cmode' = [cmode EXCEPT ![c].chunk = IF m.kind = "mtu" THEN Agreed(mine, m.chunk)
                                            ELSE DefaultChunkSize]
  /\ LoginOrUp(c, profile[c], toServer[c]) /\ Take(c)
  /\ UNCHANGED <<hasUsers, dialled, accepted, profile, handler, smode, lost,
                 socket, evicted, table>>

ReadAuth(c) ==
  /\ client[c] = "auth" /\ toClient[c] # << >>
  /\ client' = [client EXCEPT ![c] = IF Head(toClient[c]).kind = "ok" THEN "nonce" ELSE "closed"]
  /\ Take(c)
  /\ UNCHANGED <<hasUsers, dialled, accepted, profile, handler, cmode, smode,
                 toServer, lost, socket, evicted, table>>

ReadNonceKeepsConn(c) ==
  /\ client[c] = "nonce" /\ toClient[c] # << >>
  /\ client' = [client EXCEPT ![c] = "up"]
  /\ Take(c) /\ Send(c, Nonce)
  /\ UNCHANGED <<hasUsers, dialled, accepted, profile, handler, cmode, smode, lost,
                 socket, evicted, table>>

(* ClientHandshake *)
ReadNonce(c) ==
  /\ client[c] = "nonce" /\ toClient[c] # << >>
  /\ client' = [client EXCEPT ![c] = "up"]
  /\ cmode' = [cmode EXCEPT ![c].layer = "sealed"]
  /\ Take(c) /\ Send(c, Nonce)
  /\ UNCHANGED <<hasUsers, dialled, accepted, profile, handler, smode, lost,
                 socket, evicted, table>>

(* Any request of the user and its answer.                                 *)
Command(c) ==
  /\ client[c] = "up"
  /\ client' = [client EXCEPT ![c] = "asking"]
  /\ Send(c, Frame("request", cmode[c].layer, 0))
  /\ UNCHANGED <<hasUsers, dialled, accepted, profile, handler, cmode, smode,
                 toClient, lost, socket, evicted, table>>

Answered(c) ==
  /\ client[c] = "asking" /\ toClient[c] # << >>
  /\ client' = [client EXCEPT ![c] = "up"]
  /\ Take(c)
  /\ UNCHANGED <<hasUsers, dialled, accepted, profile, handler, cmode, smode,
                 toServer, lost, socket, evicted, table>>

Disconnect(c) ==
  /\ client[c] = "up"
  /\ client' = [client EXCEPT ![c] = "closed"]
  /\ UNCHANGED <<hasUsers, dialled, accepted, profile, handler, cmode, smode,
                 net, socket, evicted, table>>

(* A read of the client fails; negotiateMTU goes on with the default.      *)
ClientReadFails(c) ==
  /\ client[c] \in Waiting
  /\ socket[c] = "closed" \/ c \in lost
  /\ client' = [client EXCEPT ![c] = IF @ = "mtu" /\ profile[c].login = "none" THEN "up"
                                     ELSE "closed"]
  /\ UNCHANGED <<hasUsers, dialled, accepted, profile, handler, cmode, smode,
                 net, socket, evicted, table>>

ClientStep(c) == ReadMTU(c) \/ ReadAuth(c) \/ ReadNonce(c) \/ Answered(c) \/ ClientReadFails(c)

-----------------------------------------------------------------------------
(* The accept loop and the table.                                          *)

ClosedNever(s, h) == {s}

(* What Close by another goroutine does to a connection.  On Linux its     *)
(* file is a blocking descriptor, and a read under way keeps it open until *)
(* that read returns; on Windows, and between two reads, it closes.        *)
Closed(s, h) == IF s = "open" /\ h # "returned" THEN {"closing", "closed"} ELSE {"closed"}

EvictsEarly == MaxClients > 0 /\ Len(table) + 1 >= MaxClients

(* trackConn, then the handler's goroutine starts. *)
Evicts == MaxClients > 0 /\ Len(table) >= MaxClients

TrackConn(c) ==
  IF Evicts
  THEN LET oldest == Head(table) IN
       /\ \E s \in Closed(socket[oldest], handler[oldest]) :
            socket' = [socket EXCEPT ![oldest] = s]
       /\ evicted' = evicted \cup {oldest}
       /\ table' = Append(Tail(table), c)
  ELSE /\ table' = Append(table, c)
       /\ UNCHANGED <<socket, evicted>>

Accept ==
  LET c == accepted + 1 IN
  /\ c <= dialled
  /\ accepted' = c
  /\ TrackConn(c)
  /\ handler' = [handler EXCEPT ![c] = "first"]
  /\ UNCHANGED <<hasUsers, dialled, profile, client, cmode, smode, net>>

Position(c) == CHOOSE i \in DOMAIN table : table[i] = c

UntrackOldest(c) == table' = IF table = << >> THEN table ELSE Tail(table)

UntrackConn(c) ==
  table' = IF \E i \in DOMAIN table : table[i] = c
           THEN SubSeq(table, 1, Position(c) - 1) \o SubSeq(table, Position(c) + 1, Len(table))
           ELSE table

Untrack(c) ==
  /\ handler[c] = "returned"
  /\ UntrackConn(c)
  /\ handler' = [handler EXCEPT ![c] = "ended"]
  /\ UNCHANGED <<hasUsers, dialled, accepted, profile, client, cmode, smode,
                 net, socket, evicted>>

-----------------------------------------------------------------------------
(* The handler.                                                            *)

Reads(c, h) == handler[c] = h /\ socket[c] = "open" /\ toServer[c] # << >>
Incoming(c) == Head(toServer[c])

(* The frame read is replaced by what is sent for it. *)
Reply(c, q) ==
  /\ toServer' = [toServer EXCEPT ![c] = Tail(@)]
  /\ toClient' = [toClient EXCEPT ![c] = @ \o q]

Goes(c, h) ==
  /\ handler' = [handler EXCEPT ![c] = h]
  /\ socket' = IF h = "returned" THEN [socket EXCEPT ![c] = "closed"] ELSE socket

AuthenticateWaitsForNonce(c, m) ==
  /\ IF m.kind = "auth" /\ profile[c].login \in {"right", "empty"}
     THEN Reply(c, <<Plain("ok")>>) /\ Goes(c, "nonce")
     ELSE Reply(c, <<Plain("error")>>) /\ Goes(c, "returned")
  /\ UNCHANGED smode

(* authenticateMsg, and the nonce of ServerHandshake if the password is not empty. *)
Authenticate(c, m) ==
  /\ IF m.kind = "auth" /\ profile[c].login \in {"right", "empty"}
     THEN IF profile[c].login = "right"
          THEN Reply(c, <<Plain("ok"), Nonce>>) /\ Goes(c, "nonce")
          ELSE Reply(c, <<Plain("ok")>>) /\ Goes(c, "serving")
     ELSE Reply(c, <<Plain("error")>>) /\ Goes(c, "returned")
  /\ UNCHANGED smode

(* One turn of the loop: a frame that is not encrypted as rw expects is no message. *)
Dispatch(c, m) ==
  /\ IF m.layer = smode[c].layer
     THEN /\ Reply(c, <<Frame(IF m.kind = "request" THEN "answer" ELSE "error", m.layer, 0)>>)
          /\ Goes(c, "serving")
     ELSE Reply(c, << >>) /\ Goes(c, "returned")
  /\ UNCHANGED smode

NegotiateMTU(c, m) ==
  LET mine == ComputeChunkSize(ServerAcl) IN
  /\ smode' = [smode EXCEPT ![c].chunk = Agreed(mine, m.chunk)]
  /\ Reply(c, <<Frame("mtu", "plain", mine)>>)
  /\ Goes(c, IF hasUsers THEN "auth" ELSE "serving")

HandleFirst(c) ==
  /\ Reads(c, "first")
  /\ LET m == Incoming(c) IN
       \/ m.kind = "mtu" /\ NegotiateMTU(c, m)
       \/ m.kind # "mtu" /\ hasUsers /\ Authenticate(c, m)
       \/ m.kind # "mtu" /\ ~hasUsers /\ Dispatch(c, m)
  /\ UNCHANGED <<hasUsers, dialled, accepted, profile, client, cmode, lost,
                 evicted, table>>

HandleAuth(c) ==
  /\ Reads(c, "auth")
  /\ Authenticate(c, Incoming(c))
  /\ UNCHANGED <<hasUsers, dialled, accepted, profile, client, cmode, lost,
                 evicted, table>>

HandleNonce(c) ==
  /\ Reads(c, "nonce")
  /\ Reply(c, << >>) /\ Goes(c, "serving")
  /\ smode' = [smode EXCEPT ![c].layer = "sealed"]
  /\ UNCHANGED <<hasUsers, dialled, accepted, profile, client, cmode, lost,
                 evicted, table>>

HandleMessage(c) ==
  /\ Reads(c, "serving")
  /\ Dispatch(c, Incoming(c))
  /\ UNCHANGED <<hasUsers, dialled, accepted, profile, client, cmode, lost,
                 evicted, table>>

(* A read of the handler fails: its connection is closed, the link lost or *)
(* the client gone; a read that began before an eviction gets its data     *)
(* first, and the next one fails.                                          *)
HandlerReadFails(c) ==
  /\ handler[c] \in Reading
  /\ \/ socket[c] = "closed" \/ c \in lost
     \/ socket[c] = "closing" /\ toServer[c] # << >>
     \/ client[c] = "closed" /\ toServer[c] = << >>
  /\ Goes(c, "returned")
  /\ UNCHANGED <<hasUsers, dialled, accepted, profile, client, cmode, smode,
                 net, evicted, table>>

HandlerStep(c) ==
  HandleFirst(c) \/ HandleAuth(c) \/ HandleNonce(c) \/ HandleMessage(c)
    \/ HandlerReadFails(c) \/ Untrack(c)

-----------------------------------------------------------------------------
LinkLost(c) ==
  /\ c <= dialled /\ handler[c] # "ended" /\ c \notin lost /\ Cardinality(lost) < MaxLost
  /\ lost' = lost \cup {c}
  /\ toServer' = [toServer EXCEPT ![c] = << >>]
  /\ toClient' = [toClient EXCEPT ![c] = << >>]
  /\ UNCHANGED <<hasUsers, dialled, accepted, profile, client, handler, cmode,
                 smode, socket, evicted, table>>

Next ==
  \/ Accept
  \/ \E c \in Conns : \/ \E p \in Profiles[c] : Dial(c, p)
                      \/ ClientStep(c) \/ HandlerStep(c)
                      \/ Command(c) \/ Disconnect(c) \/ LinkLost(c)

(* Both programs run; nobody has to dial, ask, hang up or lose the link.   *)
Fairness ==
  /\ WF_vars(Accept)
  /\ \A c \in Conns : WF_vars(ClientStep(c)) /\ WF_vars(HandlerStep(c))

Spec == Init /\ [][Next]_vars /\ Fairness

-----------------------------------------------------------------------------
(* Properties.                                                             *)

ChunkSizes == DefaultChunkSize..MaxChunkSize

(* activeConns holds each connection whose handler has not been untracked  *)
(* and that was not evicted, once, the oldest first, and never more than   *)
(* MaxClients, whatever the order of arrivals, evictions and ends          *)
(* (trackConn, untrackConn).                                               *)
TableExact ==
  /\ {table[i] : i \in DOMAIN table} = Tracked
  /\ \A i, j \in DOMAIN table : i < j => table[i] < table[j]
  /\ MaxClients > 0 => Len(table) <= MaxClients

(* Why TableExact survives every step: connections are accepted in order,  *)
(* so that a new one belongs at the end, and only accepted ones have a     *)
(* handler or can be evicted (ListenAndServe).                             *)
TableInv ==
  /\ dialled \in 0..N /\ accepted \in 0..dialled
  /\ \A c \in Conns : handler[c] = "off" <=> c > accepted
  /\ evicted \subseteq 1..accepted
  /\ TableExact

(* A connection is dropped for a newer one only when MaxClients others are *)
(* tracked, and it is the oldest of them (README: "oldest dropped when     *)
(* exceeded").                                                             *)
EvictsOldestWhenFull ==
  [][\A c \in evicted' \ evicted :
       Cardinality(Tracked) >= MaxClients /\ \A d \in Tracked : c <= d]_vars

(* Once the client is through Connect and the handler in its loop, both    *)
(* use the same layer and the same chunk size, the smaller of what they    *)
(* prefer if they negotiated (README: "min(client_preferred,               *)
(* server_preferred)"), and never outside the default and the maximum.     *)
ModesAgree ==
  \A c \in Conns :
    handler[c] = "serving" /\ client[c] \in {"up", "asking"}
      /\ socket[c] = "open" /\ c \notin lost
    => /\ smode[c] = cmode[c] /\ smode[c].chunk \in ChunkSizes
       /\ profile[c].mtu =>
            smode[c].chunk = LET sizes == {ComputeChunkSize(ServerAcl),
                                           ComputeChunkSize(profile[c].acl)}
                             IN CHOOSE n \in sizes : \A k \in sizes : n <= k

(* A server with users answers no request in the clear, and a client with  *)
(* a name sends it none (README: "all data after login is encrypted").     *)
NothingInTheClear ==
  hasUsers => \A c \in Conns :
    \A q \in {toServer[c], toClient[c]} : \A i \in DOMAIN q :
      q[i].kind = "answer" \/ (q[i].kind = "request" /\ profile[c].login # "none")
        => q[i].layer = "sealed"

(* Connect and every request return, whatever is dropped or lost, unless   *)
(* the password is empty: then the server goes on without encryption while *)
(* the client waits for a nonce that never comes.                          *)
CallReturns ==
  \A c \in Conns :
    client[c] \in Waiting
      ~> client[c] \notin Waiting \/ (hasUsers /\ profile[c].login = "empty")

(* The handler of an evicted connection ends, unless it sits in a read     *)
(* that the close does not interrupt and its client stays silent.          *)
EvictedEnds ==
  \A c \in Conns :
    <>[](c \in evicted => \/ handler[c] = "ended"
                          \/ /\ socket[c] = "closing" /\ toServer[c] = << >>
                             /\ client[c] # "closed" /\ c \notin lost)
=============================================================================
