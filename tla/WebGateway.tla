----------------------------- MODULE WebGateway -----------------------------
(***************************************************************************)
(* The web server: one goroutine per HTTP request, all on one Client and   *)
(* so on one connection, under btMu.  A call of the client is one message  *)
(* to the server and one answer; modules Session and RemoteShell have the  *)
(* messages of a transfer and of a command apart.                          *)
(***************************************************************************)
EXTENDS Naturals, Sequences

CONSTANTS Requests,   \* bound: the HTTP requests, each by its goroutine
          MaxConns,   \* bound: connections the client opens
          None        \* not a request

ASSUME GatewayAssumption == MaxConns \in Nat \ {0} /\ None \notin Requests

VARIABLES
  kind, pc,     \* of each request: its handler, and where that is
  temps,        \* the requests whose temporary file or directory exists
  answer,       \* what a handler answers the browser
  mu,           \* who holds btMu
  login,        \* the client has a user name
  conn, rw,     \* the client's connection, 0 for nil, and what it reads and writes
  link,         \* the state of each connection
  toServer, toClient, \* messages in flight, by the request they belong to
  hung          \* the server serves a command that never ends

handlers == <<kind, pc, temps, answer, mu>>
client == <<login, conn, rw>>
wires == <<link, toServer, toClient, hung>>
vars == <<handlers, client, wires>>

Conns == 1..MaxConns

(* "call" stands for ls, mkdir, rm and exec. *)
Calls == {"call", "download", "upload"}
Kinds == Calls \cup {"status", "connect", "disconnect"}

(* An answer passes on what the server said to some request, if it did. *)
Answer(status, of) == [status |-> status, of |-> of]
NoAnswer == Answer("none", None)
Error == Answer("error", None)
Ok == Answer("ok", None)

(* runWeb serves once connectOneShot has connected. *)
Init ==
  /\ kind = [r \in Requests |-> "status"] /\ pc = [r \in Requests |-> "new"]
  /\ temps = {} /\ answer = [r \in Requests |-> NoAnswer] /\ mu = None
  /\ login \in BOOLEAN /\ conn = 1 /\ rw = 1
  /\ link = [c \in Conns |-> IF c = 1 THEN "up" ELSE "new"]
  /\ toServer = [c \in Conns |-> << >>] /\ toClient = [c \in Conns |-> << >>]
  /\ hung = [c \in Conns |-> FALSE]

-----------------------------------------------------------------------------
(* A handler up to btMu. *)

Goes(r, from, to) == pc[r] = from /\ pc' = [pc EXCEPT ![r] = to]
Says(r, a) == answer' = [answer EXCEPT ![r] = a]

Arrive(r) ==
  /\ \E k \in Kinds \ {"status"} :
       /\ kind' = [kind EXCEPT ![r] = k]
       /\ Goes(r, "new", IF k \in {"download", "upload"} THEN "prepare" ELSE "lock")
  /\ UNCHANGED <<temps, answer, mu, client, wires>>

(* Wrong password, method or arguments, or no file in an upload. *)
Reject(r) ==
  /\ Goes(r, "new", "done") /\ Says(r, Error)
  /\ UNCHANGED <<kind, temps, mu, client, wires>>

(* handleStatus does not take btMu. *)
Status(r) ==
  /\ Goes(r, "new", "done")
  /\ Says(r, Answer(IF conn # 0 THEN "connected" ELSE "disconnected", None))
  /\ UNCHANGED <<kind, temps, mu, client, wires>>

(* MkdirTemp of a download; CreateTemp of an upload, whose body the        *)
(* goroutine then saves.                                                   *)
MakeTemp(r) ==
  /\ Goes(r, "prepare", IF kind[r] = "upload" THEN "save" ELSE "lock")
  /\ temps' = temps \cup {r}
  /\ UNCHANGED <<kind, answer, mu, client, wires>>

MakeTempFails(r) ==
  /\ Goes(r, "prepare", "done") /\ Says(r, Error)
  /\ UNCHANGED <<kind, temps, mu, client, wires>>

Save(r) ==
  /\ Goes(r, "save", "lock")
  /\ UNCHANGED <<kind, temps, answer, mu, client, wires>>

SaveFails(r) ==
  /\ Goes(r, "save", "done") /\ Says(r, Error) /\ temps' = temps \ {r}
  /\ UNCHANGED <<kind, mu, client, wires>>

MayLockAlways == TRUE   \* a seeded fault: a handler without the lock
MayLock == mu = None
Lock(r) ==
  /\ MayLock /\ Goes(r, "lock", "locked") /\ mu' = r
  /\ UNCHANGED <<kind, temps, answer, client, wires>>

-----------------------------------------------------------------------------
(* Under btMu. *)

UnlockIfOk(a) == IF a.status = "ok" THEN None ELSE mu   \* a seeded fault
Unlock(a) == None
Return(r, from, a) ==
  Goes(r, from, "finish") /\ Says(r, a) /\ mu' = Unlock(a) /\ UNCHANGED <<kind, temps>>

Send(r) ==
  /\ kind[r] \in Calls /\ link[rw] = "up" /\ Goes(r, "locked", "wait")
  /\ toServer' = [toServer EXCEPT ![rw] = Append(@, r)]
  /\ UNCHANGED <<kind, temps, answer, mu, client, link, toClient, hung>>

SendFails(r) ==
  /\ kind[r] \in Calls /\ link[rw] # "up" /\ Return(r, "locked", Error)
  /\ UNCHANGED <<client, wires>>

(* The server's answer, be it an error, and what a call makes of it. *)
Receive(r) ==
  /\ toClient[rw] # << >>
  /\ \E status \in {"ok", "error"} : Return(r, "wait", Answer(status, Head(toClient[rw])))
  /\ toClient' = [toClient EXCEPT ![rw] = Tail(@)]
  /\ UNCHANGED <<client, link, toServer, hung>>

ReceiveFails(r) ==
  /\ toClient[rw] = << >> /\ link[rw] # "up" /\ Return(r, "wait", Error)
  /\ UNCHANGED <<client, wires>>

CloseLink(c) == link' = [link EXCEPT ![c] = "closed"]

Disconnect(r) ==
  /\ kind[r] = "disconnect" /\ \E a \in {Ok, Error} : Return(r, "locked", a)
  /\ IF conn = 0 THEN UNCHANGED link ELSE CloseLink(conn)
  /\ conn' = 0 /\ UNCHANGED <<login, rw, toServer, toClient, hung>>

IsConnectedNever == FALSE   \* a seeded fault: no check before a new connection
IsConnected == conn # 0

AlreadyConnected(r) ==
  /\ kind[r] = "connect" /\ IsConnected /\ Return(r, "locked", Ok)
  /\ UNCHANGED <<client, wires>>

(* Connect: the connection is the client's before it is logged in. *)
Dial(r) ==
  /\ kind[r] = "connect" /\ ~IsConnected /\ Goes(r, "locked", "login")
  /\ \E c \in Conns :
       /\ link[c] = "new" /\ \A d \in 1..c - 1 : link[d] # "new"
       /\ link' = [link EXCEPT ![c] = "up"] /\ conn' = c /\ rw' = c
  /\ UNCHANGED <<kind, temps, answer, mu, login, toServer, toClient, hung>>

DialFails(r) ==
  /\ kind[r] = "connect" /\ ~IsConnected /\ Return(r, "locked", Error)
  /\ UNCHANGED <<client, wires>>

(* Without a user name there is only the MTU exchange, whose failure       *)
(* leaves the default.                                                     *)
LogIn(r) ==
  /\ Return(r, "login", Ok) /\ (login => link[conn] = "up")
  /\ UNCHANGED <<client, wires>>

LogInFails(r) ==
  /\ Return(r, "login", Error) /\ login /\ CloseLink(conn) /\ conn' = 0
  /\ UNCHANGED <<login, rw, toServer, toClient, hung>>

(* After btMu: a downloaded file goes to the browser unless it is a        *)
(* directory or cannot be read; deferred removal.                          *)
Finish(r) ==
  /\ Goes(r, "finish", "done") /\ temps' = temps \ {r}
  /\ \/ UNCHANGED answer
     \/ kind[r] = "download" /\ Says(r, [answer[r] EXCEPT !.status = "error"])
  /\ UNCHANGED <<kind, mu, client, wires>>

-----------------------------------------------------------------------------
(* The other side of the connection. *)

Serve(c) ==
  /\ link[c] = "up" /\ ~hung[c] /\ toServer[c] # << >>
  /\ toClient' = [toClient EXCEPT ![c] = Append(@, Head(toServer[c]))]
  /\ toServer' = [toServer EXCEPT ![c] = Tail(@)]
  /\ UNCHANGED <<handlers, client, link, hung>>

(* exec of a command that does not end *)
Hang(c) ==
  /\ link[c] = "up" /\ toServer[c] # << >> /\ kind[Head(toServer[c])] = "call"
  /\ ~hung[c] /\ hung' = [hung EXCEPT ![c] = TRUE]
  /\ UNCHANGED <<handlers, client, link, toServer, toClient>>

LoseLink(c) ==
  /\ link[c] = "up" /\ link' = [link EXCEPT ![c] = "lost"]
  /\ toServer' = [toServer EXCEPT ![c] = << >>]
  /\ \E n \in 0..Len(toClient[c]) :
       toClient' = [toClient EXCEPT ![c] = SubSeq(@, 1, n)]
  /\ UNCHANGED <<handlers, client, hung>>

-----------------------------------------------------------------------------
Prepare(r) == MakeTemp(r) \/ MakeTempFails(r) \/ Save(r) \/ SaveFails(r)
Call(r) == Send(r) \/ SendFails(r) \/ Receive(r) \/ ReceiveFails(r)
Connect(r) == AlreadyConnected(r) \/ Dial(r) \/ DialFails(r) \/ LogIn(r) \/ LogInFails(r)
Handler(r) == Prepare(r) \/ Lock(r) \/ Call(r) \/ Disconnect(r) \/ Connect(r) \/ Finish(r)

Next ==
  \/ \E r \in Requests : Arrive(r) \/ Reject(r) \/ Status(r) \/ Handler(r)
  \/ \E c \in Conns : Serve(c) \/ Hang(c) \/ LoseLink(c)

(* Goroutines run, and the server answers unless it hangs. *)
Fairness == /\ \A r \in Requests : WF_vars(Handler(r))
            /\ \A c \in Conns : WF_vars(Serve(c))
Spec == Init /\ [][Next]_vars /\ Fairness

-----------------------------------------------------------------------------
Locations == {"new", "prepare", "save", "lock", "locked", "wait", "login", "finish", "done"}

LockOK == /\ mu \in Requests \cup {None}
          /\ \A r \in Requests : mu = r <=> pc[r] \in {"locked", "wait", "login"}

(* Types; who holds btMu, and the client's two references. *)
TypeOK ==
  /\ kind \in [Requests -> Kinds] /\ pc \in [Requests -> Locations] /\ temps \subseteq Requests
  /\ answer \in [Requests -> [status : {"none", "ok", "error", "connected", "disconnected"},
                              of : Requests \cup {None}]]
  /\ login \in BOOLEAN /\ conn \in 0..MaxConns /\ rw \in Conns /\ conn \in {0, rw}
  /\ link \in [Conns -> {"new", "up", "lost", "closed"}]
  /\ toServer \in [Conns -> Seq(Requests)] /\ toClient \in [Conns -> Seq(Requests)]
  /\ hung \in [Conns -> BOOLEAN] /\ LockOK

(* Many browsers share one connection whose answers carry no number: what  *)
(* a request is answered is what the server said to that very request,     *)
(* also after errors, lost answers and reconnections.  (What a local       *)
(* failure inside a transfer leaves unread is the matter of Session.)      *)
OwnAnswer == \A r \in Requests : answer[r].of \in {r, None}

(* A handler that has returned leaves no temporary file behind, and a      *)
(* connection that is still open is the one the client refers to: no       *)
(* sequence of connects, disconnects and losses leaves another one open.   *)
NothingLeft ==
  /\ \A r \in temps : pc[r] # "done"
  /\ \A c \in Conns : link[c] = "up" => c = conn

(* Every request ends.  The exception is a command that does not: its      *)
(* handler holds btMu, and every other one but status waits for it, that   *)
(* of disconnect included.                                                 *)
Stuck == \E c \in Conns : hung[c] /\ link[c] = "up"
RequestEnds ==
  []<>~Stuck => \A r \in Requests : pc[r] # "new" ~> pc[r] = "done"
=============================================================================
