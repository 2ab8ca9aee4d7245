------------------------------ MODULE WebProofs ------------------------------
(* Why requests that share one connection without numbers get their own     *)
(* answers, and nothing is left open; and why the page they come from, whose *)
(* handlers wait for answers in any order, keeps a batch in one directory   *)
(* and shows what the server holds.                                        *)
EXTENDS WebGateway, WebPage, SequenceTheorems, TLAPS

(* At most one message is on its way, on the client's connection, for the   *)
(* request that holds btMu and waits; none on its way to the server over a  *)
(* connection that is down.                                                 *)
Waits(r, c) == pc[r] = "wait" /\ mu = r /\ c = rw

OneInFlight ==
  \A c \in Conns :
    /\ Len(toServer[c]) + Len(toClient[c]) <= 1
    /\ Len(toServer[c]) > 0 => link[c] = "up" /\ Waits(toServer[c][1], c)
    /\ Len(toClient[c]) > 0 => Waits(toClient[c][1], c)

(* A temporary file belongs to a handler that has made one. *)
TempsMade == \A r \in temps : pc[r] \in {"save", "lock", "locked", "wait", "login", "finish"}

IInv == TypeOK /\ OwnAnswer /\ NothingLeft /\ OneInFlight /\ TempsMade

-----------------------------------------------------------------------------
(* What the sequences of at most one message do.                            *)
LEMMA TakeOnly ==
  ASSUME NEW S, NEW s \in Seq(S), s # << >>, Len(s) <= 1
  PROVE  Len(s) = 1 /\ Head(s) = s[1] /\ Head(s) \in S /\ Tail(s) \in Seq(S) /\ Len(Tail(s)) = 0
OBVIOUS

LEMMA CutOff ==
  ASSUME NEW S, NEW s \in Seq(S), NEW n \in 0..Len(s)
  PROVE  /\ SubSeq(s, 1, n) \in Seq(S) /\ Len(SubSeq(s, 1, n)) = n
         /\ n > 0 => SubSeq(s, 1, n)[1] = s[1]
OBVIOUS

LEMMA InitInv == Init => IInv
BY GatewayAssumption
DEF Init, IInv, TypeOK, LockOK, OwnAnswer, NothingLeft, OneInFlight, TempsMade, Waits,
    Kinds, Calls, Locations, Conns, NoAnswer, Answer

-----------------------------------------------------------------------------
LEMMA ArriveInv == ASSUME IInv, NEW r \in Requests, Arrive(r) PROVE IInv'
<1> USE DEF IInv, Arrive, Goes, client, wires
<1>1. LockOK'
  BY DEF TypeOK, LockOK
<1>2. TypeOK'
  BY <1>1 DEF TypeOK, Locations
<1>3. OwnAnswer'
  BY DEF OwnAnswer
<1>4. NothingLeft' /\ TempsMade'
  BY DEF NothingLeft, TempsMade
<1>5. OneInFlight'
  BY DEF TypeOK, OneInFlight, Waits
<1> QED BY <1>2, <1>3, <1>4, <1>5

LEMMA RejectInv == ASSUME IInv, NEW r \in Requests, Reject(r) PROVE IInv'
<1> USE DEF IInv, Reject, Goes, Says, Error, Answer, client, wires
<1>1. LockOK'
  BY DEF TypeOK, LockOK
<1>2. TypeOK'
  BY <1>1 DEF TypeOK, Locations
<1>3. OwnAnswer'
  BY DEF OwnAnswer
<1>4. NothingLeft' /\ TempsMade'
  BY DEF NothingLeft, TempsMade
<1>5. OneInFlight'
  BY DEF TypeOK, OneInFlight, Waits
<1> QED BY <1>2, <1>3, <1>4, <1>5

LEMMA StatusInv == ASSUME IInv, NEW r \in Requests, Status(r) PROVE IInv'
<1> USE DEF IInv, Status, Goes, Says, Answer, client, wires
<1>1. LockOK'
  BY DEF TypeOK, LockOK
<1>2. TypeOK'
  BY <1>1 DEF TypeOK, Locations
<1>3. OwnAnswer'
  BY DEF OwnAnswer
<1>4. NothingLeft' /\ TempsMade'
  BY DEF NothingLeft, TempsMade
<1>5. OneInFlight'
  BY DEF TypeOK, OneInFlight, Waits
<1> QED BY <1>2, <1>3, <1>4, <1>5

LEMMA MakeTempInv == ASSUME IInv, NEW r \in Requests, MakeTemp(r) PROVE IInv'
<1> USE DEF IInv, MakeTemp, Goes, client, wires
<1>1. LockOK'
  BY DEF TypeOK, LockOK
<1>2. TypeOK'
  BY <1>1 DEF TypeOK, Locations
<1>3. OwnAnswer'
  BY DEF OwnAnswer
<1>4. NothingLeft' /\ TempsMade'
  BY DEF TypeOK, NothingLeft, TempsMade
<1>5. OneInFlight'
  BY DEF TypeOK, OneInFlight, Waits
<1> QED BY <1>2, <1>3, <1>4, <1>5

LEMMA MakeTempFailsInv == ASSUME IInv, NEW r \in Requests, MakeTempFails(r) PROVE IInv'
<1> USE DEF IInv, MakeTempFails, Goes, Says, Error, Answer, client, wires
<1>1. LockOK'
  BY DEF TypeOK, LockOK
<1>2. TypeOK'
  BY <1>1 DEF TypeOK, Locations
<1>3. OwnAnswer'
  BY DEF OwnAnswer
<1>4. NothingLeft' /\ TempsMade'
  BY DEF NothingLeft, TempsMade
<1>5. OneInFlight'
  BY DEF TypeOK, OneInFlight, Waits
<1> QED BY <1>2, <1>3, <1>4, <1>5

LEMMA SaveInv == ASSUME IInv, NEW r \in Requests, Save(r) PROVE IInv'
<1> USE DEF IInv, Save, Goes, client, wires
<1>1. LockOK'
  BY DEF TypeOK, LockOK
<1>2. TypeOK'
  BY <1>1 DEF TypeOK, Locations
<1>3. OwnAnswer'
  BY DEF OwnAnswer
<1>4. NothingLeft' /\ TempsMade'
  BY DEF NothingLeft, TempsMade
<1>5. OneInFlight'
  BY DEF TypeOK, OneInFlight, Waits
<1> QED BY <1>2, <1>3, <1>4, <1>5

LEMMA SaveFailsInv == ASSUME IInv, NEW r \in Requests, SaveFails(r) PROVE IInv'
<1> USE DEF IInv, SaveFails, Goes, Says, Error, Answer, client, wires
<1>1. LockOK'
  BY DEF TypeOK, LockOK
<1>2. TypeOK'
  BY <1>1 DEF TypeOK, Locations
<1>3. OwnAnswer'
  BY DEF OwnAnswer
<1>4. NothingLeft' /\ TempsMade'
  BY DEF NothingLeft, TempsMade
<1>5. OneInFlight'
  BY DEF TypeOK, OneInFlight, Waits
<1> QED BY <1>2, <1>3, <1>4, <1>5

LEMMA LockInv == ASSUME IInv, NEW r \in Requests, Lock(r) PROVE IInv'
<1> USE DEF IInv, Lock, Goes, MayLock, client, wires
<1>1. LockOK'
  BY GatewayAssumption DEF TypeOK, LockOK
<1>2. TypeOK'
  BY <1>1 DEF TypeOK, Locations
<1>3. OwnAnswer'
  BY DEF OwnAnswer
<1>4. NothingLeft' /\ TempsMade'
  BY DEF NothingLeft, TempsMade
<1>5. OneInFlight'
  BY <1>2 DEF TypeOK, LockOK, OneInFlight, Waits
<1> QED BY <1>2, <1>3, <1>4, <1>5

LEMMA SendInv == ASSUME IInv, NEW r \in Requests, Send(r) PROVE IInv'
<1> USE DEF IInv, Send, Goes, Calls, client
<1>1. LockOK'
  BY DEF TypeOK, LockOK
<1>2. TypeOK'
  BY <1>1 DEF TypeOK, Locations
<1>3. OwnAnswer'
  BY DEF OwnAnswer
<1>4. NothingLeft' /\ TempsMade'
  BY DEF NothingLeft, TempsMade
<1>5. OneInFlight'
  BY DEF TypeOK, LockOK, OneInFlight, Waits
<1> QED BY <1>2, <1>3, <1>4, <1>5

LEMMA SendFailsInv == ASSUME IInv, NEW r \in Requests, SendFails(r) PROVE IInv'
<1> USE DEF IInv, SendFails, Return, Unlock, Goes, Says, Error, Answer, Calls, client, wires
<1>1. LockOK'
  BY GatewayAssumption DEF TypeOK, LockOK
<1>2. TypeOK'
  BY <1>1 DEF TypeOK, Locations
<1>3. OwnAnswer'
  BY DEF OwnAnswer
<1>4. NothingLeft' /\ TempsMade'
  BY DEF NothingLeft, TempsMade
<1>5. OneInFlight'
  BY DEF TypeOK, LockOK, OneInFlight, Waits
<1> QED BY <1>2, <1>3, <1>4, <1>5

LEMMA ReceiveInv == ASSUME IInv, NEW r \in Requests, Receive(r) PROVE IInv'
<1> USE DEF IInv, Receive, Return, Unlock, Goes, Says, Answer, client
<1>1. LockOK'
  BY GatewayAssumption DEF TypeOK, LockOK
<1>2. TypeOK'
  BY <1>1 DEF TypeOK, Locations
<1>3. OwnAnswer'
  BY DEF TypeOK, LockOK, OwnAnswer, OneInFlight, Waits
<1>4. NothingLeft' /\ TempsMade'
  BY DEF NothingLeft, TempsMade
<1>5. OneInFlight'
  BY DEF TypeOK, OneInFlight, Waits
<1> QED BY <1>2, <1>3, <1>4, <1>5

LEMMA ReceiveFailsInv == ASSUME IInv, NEW r \in Requests, ReceiveFails(r) PROVE IInv'
<1> USE DEF IInv, ReceiveFails, Return, Unlock, Goes, Says, Error, Answer, client, wires
<1>1. LockOK'
  BY GatewayAssumption DEF TypeOK, LockOK
<1>2. TypeOK'
  BY <1>1 DEF TypeOK, Locations
<1>3. OwnAnswer'
  BY DEF OwnAnswer
<1>4. NothingLeft' /\ TempsMade'
  BY DEF NothingLeft, TempsMade
<1>5. OneInFlight'
  BY DEF TypeOK, OneInFlight, Waits
<1> QED BY <1>2, <1>3, <1>4, <1>5

LEMMA DisconnectInv == ASSUME IInv, NEW r \in Requests, Disconnect(r) PROVE IInv'
<1> USE DEF IInv, Disconnect, Return, Unlock, Goes, Says, CloseLink, Error, Ok, Answer
<1>1. LockOK'
  BY GatewayAssumption DEF TypeOK, LockOK
<1>2. TypeOK'
  <2>1. link' \in [Conns -> {"new", "up", "lost", "closed"}]
    BY DEF TypeOK
  <2>2. pc' \in [Requests -> Locations] /\ conn' \in 0..MaxConns /\ conn' \in {0, rw'}
    BY GatewayAssumption DEF TypeOK, Locations
  <2>3. answer' \in [Requests -> [status : {"none", "ok", "error", "connected", "disconnected"},
                                 of : Requests \cup {None}]]
    BY DEF TypeOK
  <2> QED BY <1>1, <2>1, <2>2, <2>3 DEF TypeOK
<1>3. OwnAnswer'
  BY DEF OwnAnswer
<1>4. NothingLeft' /\ TempsMade'
  BY DEF TypeOK, NothingLeft, TempsMade
<1>5. OneInFlight'
  BY DEF TypeOK, LockOK, OneInFlight, Waits
<1> QED BY <1>2, <1>3, <1>4, <1>5

LEMMA AlreadyConnectedInv == ASSUME IInv, NEW r \in Requests, AlreadyConnected(r) PROVE IInv'
<1> USE DEF IInv, AlreadyConnected, Return, Unlock, Goes, Says, IsConnected, Ok, Answer,
            client, wires
<1>1. LockOK'
  BY GatewayAssumption DEF TypeOK, LockOK
<1>2. TypeOK'
  BY <1>1 DEF TypeOK, Locations
<1>3. OwnAnswer'
  BY DEF OwnAnswer
<1>4. NothingLeft' /\ TempsMade'
  BY DEF NothingLeft, TempsMade
<1>5. OneInFlight'
  BY DEF TypeOK, LockOK, OneInFlight, Waits
<1> QED BY <1>2, <1>3, <1>4, <1>5

LEMMA DialInv == ASSUME IInv, NEW r \in Requests, Dial(r) PROVE IInv'
<1> USE DEF IInv, Dial, Goes, IsConnected
<1>1. LockOK'
  BY DEF TypeOK, LockOK
<1>2. TypeOK'
  BY <1>1 DEF TypeOK, Locations, Conns
<1>3. OwnAnswer'
  BY DEF OwnAnswer
<1>4. NothingLeft' /\ TempsMade'
  BY DEF NothingLeft, TempsMade, Conns
<1>5. OneInFlight'
  BY GatewayAssumption DEF TypeOK, LockOK, OneInFlight, Waits
<1> QED BY <1>2, <1>3, <1>4, <1>5

LEMMA DialFailsInv == ASSUME IInv, NEW r \in Requests, DialFails(r) PROVE IInv'
<1> USE DEF IInv, DialFails, Return, Unlock, Goes, Says, IsConnected, Error, Answer,
            client, wires
<1>1. LockOK'
  BY GatewayAssumption DEF TypeOK, LockOK
<1>2. TypeOK'
  BY <1>1 DEF TypeOK, Locations
<1>3. OwnAnswer'
  BY DEF OwnAnswer
<1>4. NothingLeft' /\ TempsMade'
  BY DEF NothingLeft, TempsMade
<1>5. OneInFlight'
  BY DEF TypeOK, LockOK, OneInFlight, Waits
<1> QED BY <1>2, <1>3, <1>4, <1>5

LEMMA LogInInv == ASSUME IInv, NEW r \in Requests, LogIn(r) PROVE IInv'
<1> USE DEF IInv, LogIn, Return, Unlock, Goes, Says, Ok, Answer, client, wires
<1>1. LockOK'
  BY GatewayAssumption DEF TypeOK, LockOK
<1>2. TypeOK'
  BY <1>1 DEF TypeOK, Locations
<1>3. OwnAnswer'
  BY DEF OwnAnswer
<1>4. NothingLeft' /\ TempsMade'
  BY DEF NothingLeft, TempsMade
<1>5. OneInFlight'
  BY DEF TypeOK, LockOK, OneInFlight, Waits
<1> QED BY <1>2, <1>3, <1>4, <1>5

LEMMA LogInFailsInv == ASSUME IInv, NEW r \in Requests, LogInFails(r) PROVE IInv'
<1> USE DEF IInv, LogInFails, Return, Unlock, Goes, Says, CloseLink, Error, Answer
<1>1. LockOK'
  BY GatewayAssumption DEF TypeOK, LockOK
<1>2. TypeOK'
  <2>1. link' \in [Conns -> {"new", "up", "lost", "closed"}]
    BY DEF TypeOK
  <2>2. pc' \in [Requests -> Locations] /\ conn' \in 0..MaxConns /\ conn' \in {0, rw'}
    BY GatewayAssumption DEF TypeOK, Locations
  <2>3. answer' \in [Requests -> [status : {"none", "ok", "error", "connected", "disconnected"},
                                 of : Requests \cup {None}]]
    BY DEF TypeOK
  <2> QED BY <1>1, <2>1, <2>2, <2>3 DEF TypeOK
<1>3. OwnAnswer'
  BY DEF OwnAnswer
<1>4. NothingLeft' /\ TempsMade'
  BY DEF TypeOK, NothingLeft, TempsMade
<1>5. OneInFlight'
  BY DEF TypeOK, LockOK, OneInFlight, Waits
<1> QED BY <1>2, <1>3, <1>4, <1>5

LEMMA FinishInv == ASSUME IInv, NEW r \in Requests, Finish(r) PROVE IInv'
<1> USE DEF IInv, Finish, Goes, Says, client, wires
<1>1. LockOK'
  BY DEF TypeOK, LockOK
<1>0. \A q \in Requests : answer'[q].of = answer[q].of
  <2>1. CASE UNCHANGED answer
    BY <2>1
  <2>2. CASE answer' = [answer EXCEPT ![r] = [answer[r] EXCEPT !.status = "error"]]
    BY <2>2 DEF TypeOK
  <2> QED BY <2>1, <2>2
<1>2. TypeOK'
  <2>2. answer' \in [Requests -> [status : {"none", "ok", "error", "connected", "disconnected"},
                                 of : Requests \cup {None}]]
    <3>1. CASE UNCHANGED answer
      BY <3>1 DEF TypeOK
    <3>2. CASE answer' = [answer EXCEPT ![r] = [answer[r] EXCEPT !.status = "error"]]
      <4> DEFINE AnswerType == [status : {"none", "ok", "error", "connected", "disconnected"},
                                of : Requests \cup {None}]
      <4>1. answer \in [Requests -> AnswerType]
        BY DEF TypeOK
      <4>2. [answer[r] EXCEPT !.status = "error"] \in AnswerType
        BY <4>1
      <4> HIDE DEF AnswerType
      <4>3. answer' \in [Requests -> AnswerType]
        BY <3>2, <4>1, <4>2
      <4> QED BY <4>3 DEF AnswerType
    <3> QED BY <3>1, <3>2
  <2>3. pc' \in [Requests -> Locations] /\ temps' \subseteq Requests
    BY DEF TypeOK, Locations
  <2> QED BY <1>1, <2>2, <2>3 DEF TypeOK
<1>3. OwnAnswer'
  BY <1>0 DEF OwnAnswer
<1>4. NothingLeft' /\ TempsMade'
  BY DEF NothingLeft, TempsMade
<1>5. OneInFlight'
  BY DEF TypeOK, OneInFlight, Waits
<1> QED BY <1>2, <1>3, <1>4, <1>5

LEMMA ServeInv == ASSUME IInv, NEW c \in Conns, Serve(c) PROVE IInv'
<1> USE DEF IInv, Serve, handlers, client
<1>1. LockOK'
  BY DEF TypeOK, LockOK
<1>2. TypeOK'
  <2>1. Head(toServer[c]) \in Requests /\ Tail(toServer[c]) \in Seq(Requests)
    BY TakeOnly DEF TypeOK, OneInFlight
  <2>2. Append(toClient[c], Head(toServer[c])) \in Seq(Requests)
    BY <2>1 DEF TypeOK
  <2>3. toServer' \in [Conns -> Seq(Requests)] /\ toClient' \in [Conns -> Seq(Requests)]
    BY <2>1, <2>2 DEF TypeOK
  <2> QED BY <1>1, <2>3 DEF TypeOK
<1>3. OwnAnswer'
  BY DEF OwnAnswer
<1>4. NothingLeft' /\ TempsMade'
  BY DEF NothingLeft, TempsMade
<1>5. OneInFlight'
  BY DEF TypeOK, OneInFlight, Waits
<1> QED BY <1>2, <1>3, <1>4, <1>5

LEMMA HangInv == ASSUME IInv, NEW c \in Conns, Hang(c) PROVE IInv'
<1> USE DEF IInv, Hang, handlers, client
<1>1. LockOK'
  BY DEF TypeOK, LockOK
<1>2. TypeOK'
  BY <1>1 DEF TypeOK
<1>3. OwnAnswer'
  BY DEF OwnAnswer
<1>4. NothingLeft' /\ TempsMade'
  BY DEF NothingLeft, TempsMade
<1>5. OneInFlight'
  BY DEF OneInFlight, Waits
<1> QED BY <1>2, <1>3, <1>4, <1>5

LEMMA LoseLinkInv == ASSUME IInv, NEW c \in Conns, LoseLink(c) PROVE IInv'
<1> USE DEF IInv, LoseLink, handlers, client
<1>1. LockOK'
  BY DEF TypeOK, LockOK
<1>2. TypeOK'
  BY <1>1, CutOff DEF TypeOK
<1>3. OwnAnswer'
  BY DEF OwnAnswer
<1>4. NothingLeft' /\ TempsMade'
  BY DEF NothingLeft, TempsMade
<1>5. OneInFlight'
  BY CutOff DEF TypeOK, OneInFlight, Waits
<1> QED BY <1>2, <1>3, <1>4, <1>5

-----------------------------------------------------------------------------
(* The invariant is inductive: one lemma for each action. *)
LEMMA StepInv == IInv /\ [Next]_vars => IInv'
<1> SUFFICES ASSUME IInv, [Next]_vars PROVE IInv'
  OBVIOUS
<1>1. CASE UNCHANGED vars
  BY <1>1 DEF IInv, vars, handlers, client, wires, TypeOK, LockOK, OwnAnswer, NothingLeft,
     OneInFlight, TempsMade, Waits
<1>2. ASSUME NEW r \in Requests, Arrive(r) \/ Reject(r) \/ Status(r) PROVE IInv'
  BY <1>2, ArriveInv, RejectInv, StatusInv
<1>3. ASSUME NEW r \in Requests, Prepare(r) PROVE IInv'
  BY <1>3, MakeTempInv, MakeTempFailsInv, SaveInv, SaveFailsInv DEF Prepare
<1>4. ASSUME NEW r \in Requests, Call(r) PROVE IInv'
  BY <1>4, SendInv, SendFailsInv, ReceiveInv, ReceiveFailsInv DEF Call
<1>5. ASSUME NEW r \in Requests, Connect(r) PROVE IInv'
  BY <1>5, AlreadyConnectedInv, DialInv, DialFailsInv, LogInInv, LogInFailsInv DEF Connect
<1>6. ASSUME NEW r \in Requests, Handler(r) PROVE IInv'
  BY <1>3, <1>4, <1>5, <1>6, LockInv, DisconnectInv, FinishInv DEF Handler
<1>7. ASSUME NEW c \in Conns, Serve(c) \/ Hang(c) \/ LoseLink(c) PROVE IInv'
  BY <1>7, ServeInv, HangInv, LoseLinkInv
<1> QED BY <1>1, <1>2, <1>6, <1>7 DEF Next

(* The gateway's invariant holds in every state its handlers reach. *)
THEOREM Inductive == Spec => []IInv
<1> QED BY InitInv, StepInv, PTL DEF Spec

(* Every variable of the gateway keeps its type, and btMu is held by the    *)
(* one handler that is inside a call of the client.                         *)
THEOREM TypeCorrect == Spec => []TypeOK
<1>1. IInv => TypeOK
  BY DEF IInv
<1> QED BY <1>1, Inductive, PTL

(* For any number of requests and connections: no request is answered with  *)
(* what the server said to another one.                                     *)
THEOREM AlwaysOwnAnswer == Spec => []OwnAnswer
<1>1. IInv => OwnAnswer
  BY DEF IInv
<1> QED BY <1>1, Inductive, PTL

(* For any number of requests and connections: no temporary file of a       *)
(* handler that returned, no open connection the client does not refer to.  *)
THEOREM AlwaysNothingLeft == Spec => []NothingLeft
<1>1. IInv => NothingLeft
  BY DEF IInv
<1> QED BY <1>1, Inductive, PTL

-----------------------------------------------------------------------------
(* The page. *)

Transfers == {"upload", "download"}
Changes == {"rm", "mkdir", "upload"}
AnyFlight ==
  [kind : {"none", "ls", "connect", "disconnect", "status"} \cup Transfers \cup Changes,
   path : {Root, Sub}, name : Names \cup {NoName},
   step : {"sent", "ok", "failed"}, got : SUBSET Names, on : BOOLEAN]
Flights == {r \in AnyFlight : r.kind \in Changes => r.name \in Names}

PageTypeOK ==
  /\ content \in [{Root, Sub} -> SUBSET Names] /\ connected \in BOOLEAN
  /\ flight \in [AllSlots -> Flights] /\ awaited \in AllSlots \cup {NoSlot}
  /\ currentPath \in {Root, Sub} /\ shown \in SUBSET Names
  /\ current \in BOOLEAN /\ btConnected \in BOOLEAN /\ overlay \in BOOLEAN
  /\ batch \in Seq(Names) /\ transfer \in {"none", "saved", "pause"} \cup Transfers

(* The card covers the page as long as there is a transfer: so there is    *)
(* one, and the user begins no other.                                      *)
OneTransfer ==
  /\ overlay = (transfer # "none")
  /\ \A i \in AllSlots : flight[i].kind \in Transfers => transfer = flight[i].kind
  /\ \A i, j \in AllSlots : flight[i].kind \in Transfers /\ flight[j].kind \in Transfers => i = j

(* While a batch is under way, whatever may set currentPath asks for the   *)
(* directory it began in.                                                  *)
InBatch == transfer \in {"upload", "pause"}
SamePath ==
  InBatch /\ alone =>
    /\ currentPath = start
    /\ \A i \in AllSlots : flight[i].kind \in {"ls", "upload"} => flight[i].path = start

(* After a change a listing is asked for: until then it is under way.      *)
Unsettled == InBatch \/ \E i \in AllSlots : flight[i].kind \in Changes
UpToDate ==
  /\ current => Unsettled \/ shown = content[currentPath]
  /\ awaited # NoSlot /\ flight[awaited].kind = "ls" /\ flight[awaited].step = "ok" =>
       Unsettled \/ flight[awaited].got = content[flight[awaited].path]

PageInv == PageTypeOK /\ OneTransfer /\ SamePath /\ UpToDate

LEMMA Slots01 == 1 \in AllSlots /\ NoSlot \notin AllSlots
BY PageAssumption DEF AllSlots, NoSlot

LEMMA AskIs ==
  ASSUME NEW k \in {"ls", "connect", "disconnect", "status"} \cup Transfers \cup Changes,
         NEW d \in {Root, Sub}, NEW n \in Names \cup {NoName}, k \in Changes => n \in Names
  PROVE  /\ Ask(k, d, n) \in Flights
         /\ Ask(k, d, n).kind = k /\ Ask(k, d, n).path = d /\ Ask(k, d, n).step = "sent"
BY DEF Ask, Flights, AnyFlight

LEMMA IdleIs == Idle \in Flights /\ Idle.kind = "none" /\ Idle.step = "sent"
BY DEF Ask, Idle, Flights, AnyFlight, Changes

(* One slot gets another request, or another answer. *)
LEMMA PutIs ==
  ASSUME PageTypeOK, NEW i \in AllSlots, NEW r \in Flights, Put(i, r)
  PROVE  /\ flight' \in [AllSlots -> Flights] /\ flight'[i] = r
         /\ \A j \in AllSlots : j # i => flight'[j] = flight[j]
BY DEF PageTypeOK, Put

LEMMA PageInitInv == PageInit => PageInv
<1> SUFFICES ASSUME PageInit PROVE PageInv
  OBVIOUS
<1> USE Slots01 DEF PageInit
<1>1. \A i \in AllSlots : /\ flight[i] \in Flights
                          /\ flight[i].kind =
                               (IF i = 1 THEN "ls" ELSE "none")
                          /\ flight[i].step = "sent"
  BY IdleIs DEF Ask, Flights, AnyFlight, Changes
<1>2. flight \in [AllSlots -> Flights]
  BY <1>1
<1>3. PageTypeOK
  BY <1>1, <1>2, EmptySeq DEF PageTypeOK
<1>4. OneTransfer /\ SamePath /\ UpToDate
  BY <1>1 DEF OneTransfer, SamePath, UpToDate, Transfers, InBatch
<1> QED BY <1>3, <1>4 DEF PageInv

(* What a request does to the directory it names. *)
LEMMA EffectIs ==
  ASSUME PageTypeOK, NEW r \in Flights
  PROVE  /\ Effect(r) \in [{Root, Sub} -> SUBSET Names]
         /\ r.kind \notin Changes => Effect(r) = content
<1> USE DEF PageTypeOK, Flights, AnyFlight, Changes
<1>1. CASE r.kind = "rm"
  <2>1. Effect(r) = [content EXCEPT ![r.path] = @ \ {r.name}]
    BY <1>1 DEF Effect
  <2> QED BY <1>1, <2>1
<1>2. CASE r.kind \in {"mkdir", "upload"}
  <2>1. Effect(r) = [content EXCEPT ![r.path] = @ \cup {r.name}]
    BY <1>2 DEF Effect
  <2>2. r.name \in Names
    BY <1>2
  <2> QED BY <1>2, <2>1, <2>2
<1>3. CASE r.kind \notin Changes
  BY <1>3 DEF Effect
<1> QED BY <1>1, <1>2, <1>3

(* An answer, or none, is put with the request. *)
LEMMA AnsweredInv ==
  ASSUME PageInv, NEW i \in AllSlots, NEW a \in Flights, Put(i, a),
         flight[i].kind # "none", flight[i].step = "sent",
         a.kind = flight[i].kind, a.path = flight[i].path,
         a.kind = "ls" /\ a.step = "ok" => a.got = content[a.path],
         content' \in [{Root, Sub} -> SUBSET Names], connected' \in BOOLEAN,
         a.kind \notin Changes => content' = content,
         UNCHANGED <<listing, button, card>>
  PROVE  PageInv'
<1>1. PageTypeOK
  BY DEF PageInv
<1>2. /\ flight' \in [AllSlots -> Flights] /\ flight'[i] = a
      /\ \A j \in AllSlots : j # i => flight'[j] = flight[j]
  BY <1>1, PutIs
<1>3. PageTypeOK'
  BY <1>1, <1>2, Slots01 DEF PageTypeOK, listing, button, card
<1>4. OneTransfer' /\ SamePath'
  BY <1>2 DEF PageInv, OneTransfer, SamePath, InBatch, listing, card
<1>5. UpToDate'
  BY <1>1, <1>2 DEF PageInv, PageTypeOK, UpToDate, Unsettled, InBatch, Changes, listing, card
<1> QED BY <1>3, <1>4, <1>5 DEF PageInv

LEMMA ProcessInv == ASSUME PageInv, NEW i \in AllSlots, Process(i) PROVE PageInv'
<1> DEFINE r == flight[i]
           a == [r EXCEPT !.step = "ok", !.got = IF r.kind = "ls" THEN content[r.path] ELSE {},
                          !.on = r.kind = "status" /\ connected]
<1>1. r \in Flights /\ r.kind # "none" /\ r.step = "sent" /\ PageTypeOK
  BY DEF Process, PageInv, PageTypeOK
<1>2. /\ a \in Flights /\ a.kind = r.kind /\ a.path = r.path /\ a.step = "ok"
      /\ r.kind = "ls" => a.got = content[r.path]
  BY <1>1 DEF Flights, AnyFlight, PageTypeOK
<1>3. /\ content' \in [{Root, Sub} -> SUBSET Names]
      /\ r.kind \notin Changes => content' = content
  BY <1>1, EffectIs DEF Process
<1>4. connected' \in BOOLEAN
  BY <1>1 DEF Process, PageTypeOK
<1>5. Put(i, a) /\ UNCHANGED <<listing, button, card>>
  BY DEF Process
<1> HIDE DEF a
<1> QED BY <1>1, <1>2, <1>3, <1>4, <1>5, AnsweredInv

LEMMA RefuseInv == ASSUME PageInv, NEW i \in AllSlots, Refuse(i) PROVE PageInv'
<1> DEFINE a == [flight[i] EXCEPT !.step = "failed"]
<1>1. flight[i] \in Flights /\ PageTypeOK
  BY DEF PageInv, PageTypeOK
<1>2. /\ a \in Flights /\ a.kind = flight[i].kind /\ a.path = flight[i].path /\ a.step = "failed"
  BY <1>1 DEF Flights, AnyFlight
<1>3. /\ flight[i].kind # "none" /\ flight[i].step = "sent" /\ Put(i, a)
      /\ UNCHANGED <<gateway, listing, button, card>>
  BY DEF Refuse
<1>4. content' = content /\ content' \in [{Root, Sub} -> SUBSET Names] /\ connected' \in BOOLEAN
  BY <1>1, <1>3 DEF gateway, PageTypeOK
<1> HIDE DEF a
<1> QED BY <1>1, <1>2, <1>3, <1>4, AnsweredInv

LEMMA FailsInv == ASSUME PageInv, NEW i \in AllSlots, Fails(i) PROVE PageInv'
<1> DEFINE a == [flight[i] EXCEPT !.step = "failed"]
<1>1. flight[i] \in Flights /\ PageTypeOK
  BY DEF PageInv, PageTypeOK
<1>2. /\ a \in Flights /\ a.kind = flight[i].kind /\ a.path = flight[i].path /\ a.step = "failed"
  BY <1>1 DEF Flights, AnyFlight
<1>3. /\ flight[i].kind # "none" /\ flight[i].step = "sent" /\ Put(i, a)
      /\ UNCHANGED <<connected, listing, button, card>>
  BY DEF Fails
<1>4. /\ content' \in [{Root, Sub} -> SUBSET Names] /\ connected' \in BOOLEAN
      /\ flight[i].kind \notin Changes => content' = content
  BY <1>1, <1>3, EffectIs DEF Fails, PageTypeOK
<1> HIDE DEF a
<1> QED BY <1>1, <1>2, <1>3, <1>4, AnsweredInv

LEMMA OtherInv == ASSUME PageInv, Other \/ HideTransfer \/ UNCHANGED pageVars PROVE PageInv'
<1> USE DEF Other, HideTransfer, pageVars, gateway, listing, button, card
<1>1. PageTypeOK'
  BY DEF PageInv, PageTypeOK
<1>2. OneTransfer'
  BY DEF PageInv, OneTransfer, Transfers
<1>3. SamePath' /\ UpToDate'
  BY DEF PageInv, SamePath, UpToDate, Unsettled, InBatch
<1> QED BY <1>1, <1>2, <1>3 DEF PageInv

(* A slot is put to another use, but not to a listing or a transfer, or is *)
(* free again.                                                             *)
LEMMA PutInv ==
  ASSUME PageInv, NEW i \in AllSlots, NEW r \in Flights, Put(i, r),
         r.kind \notin {"ls"} \cup Transfers,
         flight[i].kind \notin Changes \cup Transfers, UNCHANGED <<gateway, listing, card>>,
         btConnected' \in BOOLEAN
  PROVE  PageInv'
<1>1. PageTypeOK
  BY DEF PageInv
<1>2. /\ flight' \in [AllSlots -> Flights] /\ flight'[i] = r
      /\ \A j \in AllSlots : j # i => flight'[j] = flight[j]
  BY <1>1, PutIs
<1>3. PageTypeOK'
  BY <1>1, <1>2, Slots01 DEF PageTypeOK, gateway, listing, card
<1>4. OneTransfer'
  BY <1>2 DEF PageInv, OneTransfer, card
<1>5. SamePath'
  BY <1>2 DEF PageInv, SamePath, InBatch, listing, card, Transfers
<1>6. UpToDate'
  BY <1>1, <1>2
  DEF PageInv, PageTypeOK, UpToDate, Unsettled, InBatch, Changes, gateway, listing, card
<1> QED BY <1>3, <1>4, <1>5, <1>6 DEF PageInv

(* A listing is asked for: of the directory the page shows, or when no     *)
(* batch is under way.                                                     *)
LEMMA LoadDirInv ==
  ASSUME PageInv, NEW i \in AllSlots, NEW d \in {Root, Sub}, LoadDir(i, d),
         flight[i].kind \notin Transfers, d = currentPath \/ ~InBatch,
         UNCHANGED <<gateway, card>>, btConnected' \in BOOLEAN
  PROVE  PageInv'
<1> DEFINE r == Ask("ls", d, NoName)
<1>1. PageTypeOK
  BY DEF PageInv
<1>a. "ls" \notin Changes
  BY DEF Changes
<1>2. r \in Flights /\ r.kind = "ls" /\ r.step = "sent" /\ r.path = d
  BY <1>a, AskIs
<1>3. Put(i, r) /\ awaited' = i /\ current' = FALSE /\ UNCHANGED <<currentPath, shown>>
  BY DEF LoadDir
<1> HIDE DEF r
<1>4. /\ flight' \in [AllSlots -> Flights] /\ flight'[i] = r
      /\ \A j \in AllSlots : j # i => flight'[j] = flight[j]
  BY <1>1, <1>2, <1>3, PutIs
<1>5. PageTypeOK'
  BY <1>1, <1>3, <1>4, Slots01 DEF PageTypeOK, gateway, card
<1>6. OneTransfer'
  BY <1>2, <1>4 DEF PageInv, OneTransfer, card, Transfers
<1>7. SamePath'
  BY <1>2, <1>3, <1>4 DEF PageInv, SamePath, InBatch, card
<1>8. UpToDate'
  BY <1>2, <1>3, <1>4 DEF UpToDate
<1> QED BY <1>5, <1>6, <1>7, <1>8 DEF PageInv

(* The timer's requests change the button. *)
LEMMA PollInv ==
  ASSUME PageInv, \/ Tick \/ PollServed \/ PollFails
                  \/ \E on \in BOOLEAN : PollAnswered(on)
  PROVE  PageInv'
<1>1. UNCHANGED <<gateway, flight, listing, card>> /\ btConnected' \in BOOLEAN
  BY DEF Tick, PollServed, PollFails, PollAnswered, Learn, button, PageInv, PageTypeOK
<1> USE DEF gateway, listing, card
<1>2. PageTypeOK' /\ OneTransfer'
  BY <1>1 DEF PageInv, PageTypeOK, OneTransfer
<1>3. SamePath' /\ UpToDate'
  BY <1>1 DEF PageInv, SamePath, UpToDate, Unsettled, InBatch
<1> QED BY <1>2, <1>3 DEF PageInv

(* The user reaches the page only when no transfer is under way.           *)
LEMMA ClickIs ==
  ASSUME PageInv, NEW i \in AllSlots, Click(i)
  PROVE  /\ flight[i].kind = "none" /\ UNCHANGED gateway
         /\ transfer = "none" /\ \A j \in AllSlots : flight[j].kind \notin Transfers
BY IdleIs DEF PageInv, OneTransfer, Click, Transfers

LEMMA OpenInv ==
  ASSUME PageInv, NEW i \in AllSlots, NEW d \in {Root, Sub, currentPath}, Open(i, d)
  PROVE  PageInv'
<1>1. /\ i \in AllSlots /\ flight[i].kind \notin Transfers /\ ~InBatch
      /\ LoadDir(i, d) /\ UNCHANGED <<gateway, card>>
  BY ClickIs DEF Open, Transfers, InBatch
<1>2. d \in {Root, Sub} /\ btConnected' \in BOOLEAN
  BY DEF Open, PageInv, PageTypeOK, button
<1> QED BY <1>1, <1>2, LoadDirInv

LEMMA ChangeInv ==
  ASSUME PageInv, NEW i \in AllSlots, NEW n \in Names, Remove(i, n) \/ Mkdir(i, n)
  PROVE  PageInv'
<1>1. PICK k \in {"rm", "mkdir"} : Put(i, Ask(k, currentPath, n))
  BY DEF Remove, Mkdir
<1> DEFINE r == Ask(k, currentPath, n)
<1>2. r \in Flights /\ r.kind = k
  BY AskIs DEF PageInv, PageTypeOK, Changes
<1>3. /\ flight[i].kind = "none" /\ UNCHANGED <<gateway, listing, button, card>>
  BY ClickIs DEF Remove, Mkdir
<1>4. btConnected' \in BOOLEAN
  BY <1>3 DEF button, PageInv, PageTypeOK
<1>5. Put(i, r)
  BY <1>1
<1> HIDE DEF r
<1> QED BY <1>2, <1>3, <1>4, <1>5, PutInv DEF Changes, Transfers

LEMMA ToggleInv == ASSUME PageInv, NEW i \in AllSlots, Toggle(i) PROVE PageInv'
<1>1. PICK k \in {"disconnect", "connect"} : Put(i, Ask(k, Root, NoName))
  BY DEF Toggle
<1> DEFINE r == Ask(k, Root, NoName)
<1>2. r \in Flights /\ r.kind = k
  BY AskIs DEF Changes
<1>3. /\ flight[i].kind = "none" /\ UNCHANGED <<gateway, listing, btConnected, card>>
  BY ClickIs DEF Toggle
<1>4. btConnected' \in BOOLEAN
  BY <1>3 DEF PageInv, PageTypeOK
<1>5. Put(i, r)
  BY <1>1
<1> HIDE DEF r
<1> QED BY <1>2, <1>3, <1>4, <1>5, PutInv DEF Changes, Transfers

LEMMA DownloadInv ==
  ASSUME PageInv, NEW i \in AllSlots, NEW n \in Names, Download(i, n)
  PROVE  PageInv'
<1> DEFINE r == Ask("download", currentPath, n)
<1>1. PageTypeOK
  BY DEF PageInv
<1>2. r \in Flights /\ r.kind = "download"
  BY <1>1, AskIs DEF PageTypeOK, Transfers, Changes
<1>3. /\ Put(i, r) /\ overlay' = TRUE /\ transfer' = "download"
      /\ UNCHANGED <<gateway, listing, button, batch, start, alone>>
  BY ClickIs DEF Download
<1>4. /\ flight[i].kind = "none" /\ transfer = "none"
      /\ \A j \in AllSlots : flight[j].kind \notin Transfers
  BY ClickIs DEF Download
<1> HIDE DEF r
<1>5. /\ flight' \in [AllSlots -> Flights] /\ flight'[i] = r
      /\ \A j \in AllSlots : j # i => flight'[j] = flight[j]
  BY <1>1, <1>2, <1>3, PutIs
<1>6. PageTypeOK'
  BY <1>1, <1>3, <1>4, <1>5, Slots01 DEF PageTypeOK, gateway, listing, button, Transfers
<1>7. OneTransfer'
  BY <1>2, <1>3, <1>4, <1>5 DEF OneTransfer
<1>8. SamePath'
  BY <1>3 DEF SamePath, InBatch
<1>9. UpToDate'
  BY <1>1, <1>2, <1>3, <1>4, <1>5
  DEF PageInv, PageTypeOK, UpToDate, Unsettled, InBatch, Changes, gateway, listing
<1> QED BY <1>6, <1>7, <1>8, <1>9 DEF PageInv

(* The next file of a batch, or the listing at its end.                    *)
LEMMA NextFileInv ==
  ASSUME PageInv, NEW i \in AllSlots, NEW files \in Seq(Names), NextFile(i, files),
         \A j \in AllSlots : flight[j].kind \in Transfers => j = i,
         files = << >> => InBatch,
         \/ start' = currentPath /\ (alone' => \A j \in AllSlots : flight[j].kind # "ls")
         \/ InBatch /\ UNCHANGED <<start, alone>>,
         UNCHANGED <<gateway, button>>
  PROVE  PageInv'
<1>1. PageTypeOK /\ btConnected' \in BOOLEAN
  BY DEF PageInv, PageTypeOK, button
<1>2. CASE files = << >>
  <2> DEFINE r == Ask("ls", currentPath, NoName)
  <2>1. r \in Flights /\ r.kind = "ls" /\ r.step = "sent"
    BY <1>1, AskIs DEF PageTypeOK, Changes
  <2>2. /\ Put(i, r) /\ awaited' = i /\ current' = FALSE /\ UNCHANGED <<currentPath, shown>>
        /\ overlay' = FALSE /\ transfer' = "none" /\ batch' = << >>
    BY <1>2 DEF NextFile, LoadDir
  <2> HIDE DEF r
  <2>3. /\ flight' \in [AllSlots -> Flights] /\ flight'[i] = r
        /\ \A j \in AllSlots : j # i => flight'[j] = flight[j]
    BY <1>1, <2>1, <2>2, PutIs
  <2>4. << >> \in Seq(Names)
    BY <2>3, Slots01, EmptySeq
  <2>5. PageTypeOK'
    BY <1>1, <2>2, <2>3, <2>4, Slots01 DEF PageTypeOK, gateway
  <2>6. OneTransfer'
    BY <2>1, <2>2, <2>3 DEF OneTransfer, Transfers
  <2>7. SamePath' /\ UpToDate'
    BY <2>1, <2>2, <2>3 DEF SamePath, InBatch, UpToDate
  <2> QED BY <2>5, <2>6, <2>7 DEF PageInv
<1>3. CASE files # << >>
  <2> DEFINE r == Ask("upload", currentPath, Head(files))
  <2>1. Head(files) \in Names /\ Tail(files) \in Seq(Names)
    BY <1>3, HeadTailProperties
  <2>2. r \in Flights /\ r.kind = "upload" /\ r.path = currentPath
    BY <1>1, <2>1, AskIs DEF PageTypeOK, Transfers
  <2>3. /\ Put(i, r) /\ overlay' = TRUE /\ transfer' = "upload" /\ batch' = Tail(files)
        /\ UNCHANGED listing
    BY <1>3 DEF NextFile
  <2> HIDE DEF r
  <2>4. /\ flight' \in [AllSlots -> Flights] /\ flight'[i] = r
        /\ \A j \in AllSlots : j # i => flight'[j] = flight[j]
    BY <1>1, <2>2, <2>3, PutIs
  <2>5. PageTypeOK'
    BY <1>1, <2>1, <2>3, <2>4, Slots01 DEF PageTypeOK, gateway, listing, Transfers
  <2>6. OneTransfer'
    BY <2>2, <2>3, <2>4 DEF OneTransfer
  <2>7. SamePath'
    BY <2>2, <2>3, <2>4 DEF PageInv, SamePath, InBatch, listing, Transfers
  <2>8. UpToDate'
    BY <2>3 DEF UpToDate, Unsettled, InBatch
  <2> QED BY <2>5, <2>6, <2>7, <2>8 DEF PageInv
<1> QED BY <1>2, <1>3

LEMMA UploadInv ==
  ASSUME PageInv, NEW i \in AllSlots, NEW files \in Batches, Upload(i, files)
  PROVE  PageInv'
<1>1. files \in Seq(Names) /\ files # << >>
  BY PageAssumption
<1>2. i \in AllSlots /\ UNCHANGED gateway
  BY ClickIs DEF Upload
<1>3. \A j \in AllSlots : flight[j].kind \in Transfers => j = i
  BY ClickIs DEF Upload
<1>4. NextFile(i, files) /\ UNCHANGED <<gateway, button>>
  BY <1>2 DEF Upload
<1>5. files = << >> => InBatch
  BY <1>1
<1>6. \/ start' = currentPath /\ (alone' => \A j \in AllSlots : flight[j].kind # "ls")
      \/ InBatch /\ UNCHANGED <<start, alone>>
  BY DEF Upload
<1>7. /\ files \in Seq(Names) /\ i \in AllSlots /\ NextFile(i, files)
      /\ UNCHANGED <<gateway, button>>
  BY <1>1, <1>2, <1>4
<1> QED BY <1>3, <1>5, <1>6, <1>7, NextFileInv

LEMMA PauseOverInv == ASSUME PageInv, NEW i \in AllSlots, PauseOver(i) PROVE PageInv'
<1>1. InBatch /\ i \in AllSlots /\ batch \in Seq(Names)
  BY DEF PauseOver, InBatch, PageInv, PageTypeOK
<1>2. \A j \in AllSlots : flight[j].kind \in Transfers => j = i
  BY DEF PauseOver, PageInv, OneTransfer, Transfers
<1> QED BY <1>1, <1>2, NextFileInv DEF PauseOver

LEMMA UploadFailedInv == ASSUME PageInv, NEW i \in AllSlots, UploadFailed(i) PROVE PageInv'
<1>1. flight[i].kind = "upload"
  BY DEF UploadFailed, Is
<1>2. InBatch /\ i \in AllSlots /\ batch \in Seq(Names)
  BY <1>1 DEF InBatch, PageInv, PageTypeOK, OneTransfer, Transfers
<1>3. \A j \in AllSlots : flight[j].kind \in Transfers => j = i
  BY <1>1 DEF PageInv, OneTransfer, Transfers
<1> QED BY <1>2, <1>3, NextFileInv DEF UploadFailed

(* The page shows an answer: the last one asked for, or an older one.      *)
LEMMA ListedInv ==
  ASSUME PageInv, NEW i \in AllSlots, Listed(i) \/ ListFailed(i)
  PROVE  PageInv'
<1>1. PageTypeOK /\ flight[i] \in Flights /\ flight[i].kind = "ls"
  BY DEF PageInv, PageTypeOK, Listed, ListFailed, Is
<1>2. /\ Idle \in Flights /\ Idle.kind = "none" /\ Put(i, Idle)
      /\ UNCHANGED <<gateway, button, card>>
      /\ awaited' = IF awaited = i THEN NoSlot ELSE awaited
  BY IdleIs DEF Listed, ListFailed
<1>3. /\ flight' \in [AllSlots -> Flights] /\ flight'[i] = Idle
      /\ \A j \in AllSlots : j # i => flight'[j] = flight[j]
  BY <1>1, <1>2, PutIs
<1>4. /\ flight[i].path \in {Root, Sub} /\ flight[i].got \in SUBSET Names
  BY <1>1 DEF Flights, AnyFlight
<1>5. PageTypeOK'
  BY <1>1, <1>2, <1>3, <1>4, Slots01 DEF PageTypeOK, gateway, button, card, Listed, ListFailed
<1>6. OneTransfer'
  BY <1>2, <1>3 DEF PageInv, OneTransfer, card, Transfers
<1>7. SamePath'
  BY <1>1, <1>2, <1>3 DEF PageInv, SamePath, InBatch, card, Listed, ListFailed
<1>8. \A j \in AllSlots : flight[j].kind \in Changes => flight'[j] = flight[j]
  BY <1>1, <1>3 DEF Changes
<1>9. UpToDate'
  <2>1. Unsettled => Unsettled'
    BY <1>2, <1>8 DEF Unsettled, InBatch, card
  <2> DEFINE Awaits == awaited # NoSlot /\ flight[awaited].kind = "ls" /\ flight[awaited].step = "ok"
  <2>2. Awaits => Unsettled \/ flight[awaited].got = content[flight[awaited].path]
    BY DEF PageInv, UpToDate
  <2>3. awaited \in AllSlots \cup {NoSlot} /\ content' = content
    BY <1>1, <1>2 DEF PageTypeOK, gateway
  <2>4. ASSUME awaited' # NoSlot, flight'[awaited'].kind = "ls", flight'[awaited'].step = "ok"
        PROVE  Unsettled' \/ flight'[awaited'].got = content'[flight'[awaited'].path]
    <3>1. awaited' = awaited /\ flight'[awaited'] = flight[awaited]
      BY <1>2, <1>3, <2>3, <2>4
    <3> QED BY <2>1, <2>2, <2>3, <2>4, <3>1
  <2>5. ASSUME current' PROVE Unsettled' \/ shown' = content'[currentPath']
    <3>1. CASE Listed(i)
      <4>1. /\ flight[i].step = "ok" /\ currentPath' = flight[i].path /\ shown' = flight[i].got
            /\ awaited = i
        BY <2>5, <3>1 DEF Listed, Is
      <4> QED BY <1>1, <2>1, <2>2, <2>3, <4>1, Slots01
    <3>2. CASE ListFailed(i)
      <4>1. UNCHANGED <<currentPath, shown, current>>
        BY <3>2 DEF ListFailed
      <4>2. Unsettled \/ shown = content[currentPath]
        BY <2>5, <4>1 DEF PageInv, UpToDate
      <4> QED BY <2>1, <2>3, <4>1, <4>2
    <3> QED BY <3>1, <3>2
  <2> QED BY <2>4, <2>5 DEF UpToDate
<1> QED BY <1>5, <1>6, <1>7, <1>9 DEF PageInv

LEMMA ChangedInv == ASSUME PageInv, NEW i \in AllSlots, Changed(i) PROVE PageInv'
<1>1. /\ flight[i].kind \in {"rm", "mkdir"} /\ LoadDir(i, currentPath)
      /\ UNCHANGED <<gateway, button, card>>
  BY DEF Changed, Is
<1>2. currentPath \in {Root, Sub} /\ btConnected' \in BOOLEAN
  BY <1>1 DEF PageInv, PageTypeOK, button
<1> QED BY <1>1, <1>2, LoadDirInv DEF Transfers

(* What else an answer leads to: the slot is free.                         *)
LEMMA FreedInv ==
  ASSUME PageInv, NEW i \in AllSlots,
         ChangeFailed(i) \/ Downloaded(i) \/ DownloadFailed(i) \/ Uploaded(i)
  PROVE  PageInv'
<1>1. PageTypeOK /\ flight[i].kind \in Changes \cup Transfers
  BY DEF PageInv, ChangeFailed, Downloaded, DownloadFailed, Uploaded, Is, Changes, Transfers
<1>2. /\ Idle \in Flights /\ Idle.kind = "none" /\ Put(i, Idle)
      /\ UNCHANGED <<gateway, currentPath, shown, button, batch, start, alone>>
  BY IdleIs DEF ChangeFailed, Downloaded, DownloadFailed, Uploaded, listing, card
<1>3. /\ flight' \in [AllSlots -> Flights] /\ flight'[i] = Idle
      /\ \A j \in AllSlots : j # i => flight'[j] = flight[j]
  BY <1>1, <1>2, PutIs
<1>4. PageTypeOK'
  BY <1>1, <1>2, <1>3, Slots01 DEF PageTypeOK, gateway, listing, button, card, Transfers,
     ChangeFailed, Downloaded, DownloadFailed, Uploaded
<1>5. OneTransfer'
  BY <1>2, <1>3 DEF PageInv, OneTransfer, card, Transfers, Is,
     ChangeFailed, Downloaded, DownloadFailed, Uploaded
<1>6. SamePath'
  BY <1>2, <1>3 DEF PageInv, SamePath, InBatch, card, listing, OneTransfer, Transfers, Is,
     ChangeFailed, Downloaded, DownloadFailed, Uploaded
<1>7. UpToDate'
  <2>1. CASE ChangeFailed(i)
    BY <2>1, <1>1, <1>2, <1>3, Slots01 DEF ChangeFailed, UpToDate, PageTypeOK
  <2>2. CASE Downloaded(i) \/ DownloadFailed(i)
    <3>1. flight[i].kind = "download" /\ transfer = "download" /\ UNCHANGED listing
      BY <2>2 DEF Downloaded, DownloadFailed, Is, PageInv, OneTransfer, Transfers
    <3>2. Unsettled => Unsettled'
      BY <1>3, <3>1 DEF Unsettled, InBatch, Changes
    <3> QED BY <1>1, <1>2, <1>3, <3>1, <3>2 DEF PageInv, PageTypeOK, UpToDate, listing, gateway
  <2>3. CASE Uploaded(i)
    BY <2>3 DEF Uploaded, UpToDate, Unsettled, InBatch
  <2> QED BY <2>1, <2>2, <2>3
<1> QED BY <1>4, <1>5, <1>6, <1>7 DEF PageInv

LEMMA ToggledInv == ASSUME PageInv, NEW i \in AllSlots, Toggled(i) PROVE PageInv'
<1> DEFINE r == Ask("status", Root, NoName)
<1>1. r \in Flights /\ r.kind = "status"
  BY AskIs DEF Changes
<1>2. /\ flight[i].kind \in {"connect", "disconnect"} /\ Put(i, r)
      /\ UNCHANGED <<gateway, listing, btConnected, card>>
  BY DEF Toggled, Is
<1>3. btConnected' \in BOOLEAN
  BY <1>2 DEF PageInv, PageTypeOK
<1> HIDE DEF r
<1> QED BY <1>1, <1>2, <1>3, PutInv DEF Changes, Transfers

LEMMA CheckedInv ==
  ASSUME PageInv, NEW i \in AllSlots, Checked(i) \/ CheckFailed(i)
  PROVE  PageInv'
<1>1. PageTypeOK /\ flight[i] \in Flights /\ flight[i].kind = "status"
  BY DEF PageInv, PageTypeOK, Checked, CheckFailed, Is
<1>2. UNCHANGED <<gateway, card>> /\ btConnected' \in BOOLEAN
  BY <1>1 DEF Checked, CheckFailed, Learn, button, PageTypeOK, Flights, AnyFlight
<1>3. PICK on \in BOOLEAN : ThenRefresh(i, on)
  BY <1>1 DEF Checked, CheckFailed, PageTypeOK, Flights, AnyFlight
<1>4. flight[i].kind \notin Changes \cup Transfers
  BY <1>1 DEF Changes, Transfers
<1>5. CASE on
  <2>1. LoadDir(i, currentPath) /\ currentPath \in {Root, Sub}
    BY <1>1, <1>3, <1>5 DEF ThenRefresh, PageTypeOK
  <2> QED BY <1>2, <1>4, <2>1, LoadDirInv
<1>6. CASE ~on
  <2>1. Put(i, Idle) /\ UNCHANGED listing /\ Idle \in Flights /\ Idle.kind = "none"
    BY <1>3, <1>6, IdleIs DEF ThenRefresh
  <2> QED BY <1>2, <1>4, <2>1, PutInv DEF Transfers
<1> QED BY <1>5, <1>6

(* The invariant is inductive. *)
LEMMA PageStepInv == PageInv /\ [PageNext]_pageVars => PageInv'
<1> SUFFICES ASSUME PageInv, [PageNext]_pageVars PROVE PageInv'
  OBVIOUS
<1>1. CASE Other \/ HideTransfer \/ UNCHANGED pageVars
  BY <1>1, OtherInv
<1>2. CASE \/ Tick \/ PollServed \/ PollFails
           \/ \E on \in BOOLEAN : PollAnswered(on)
  BY <1>2, PollInv
<1>3. ASSUME NEW i \in AllSlots, Process(i) \/ Refuse(i) \/ Fails(i) \/ PauseOver(i) PROVE PageInv'
  BY <1>3, ProcessInv, RefuseInv, FailsInv, PauseOverInv
<1>4. ASSUME NEW i \in AllSlots, User(i) PROVE PageInv'
  BY <1>4, OpenInv, ChangeInv, DownloadInv, UploadInv, ToggleInv DEF User
<1>5. ASSUME NEW i \in AllSlots, Resume(i) PROVE PageInv'
  BY <1>5, ListedInv, ChangedInv, FreedInv, UploadFailedInv, ToggledInv, CheckedInv DEF Resume
<1> QED BY <1>1, <1>2, <1>3, <1>4, <1>5 DEF PageNext

(* What the page knows of its card, of the directory of a batch and of the  *)
(* last listing it asked for, in every state its handlers reach.           *)
THEOREM PageInductive == PageSpec => []PageInv
<1> QED BY PageInitInv, PageStepInv, PTL DEF PageSpec

(* All files of a batch go to the directory it was dropped on, if no        *)
(* listing was under way then: until the card is hidden only the listing   *)
(* of that directory is asked for (uploadFiles, refresh).                  *)
THEOREM BatchStaysTogether == PageSpec => []UploadTogether
<1>1. PageInv => UploadTogether
  BY DEF PageInv, OneTransfer, SamePath, InBatch, UploadTogether, Transfers
<1> QED BY <1>1, PageInductive, PTL

(* Once nothing that changes the server or the page is under way, a page    *)
(* that has the answer to its last listing shows what the server holds.    *)
THEOREM ListingStaysFresh == PageSpec => []ListingFresh
<1>1. PageInv => ListingFresh
  BY DEF PageInv, UpToDate, Unsettled, InBatch, Changes, ListingFresh
<1> QED BY <1>1, PageInductive, PTL

=============================================================================
