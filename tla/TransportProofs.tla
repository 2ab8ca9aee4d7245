-------------------------- MODULE TransportProofs ---------------------------
(* Proofs about Transport, for every number of connections, any set of     *)
(* socket numbers and any limit.                                           *)
EXTENDS Transport, SequenceTheorems, TLAPS

USE DEF Conns, Free, Listening

LEMMA InitInv == Init => IInv
  BY TransportAssumption DEF Init, IInv, Kinds, Stages, Named, Straight, Held, Linux,
     Opening

-----------------------------------------------------------------------------
(* The socket being opened is one of the process's own. *)
LEMMA OpeningType ==
  ASSUME Kinds, Stages, stage \in {"socket", "bind", "establish"}
  PROVE  /\ Opening \in 1..N + 1
         /\ Opening # Listening => role = "client" /\ Opening = last /\ last \in Conns
                                  /\ conn[last] = "none"
         /\ Opening = Listening => role = "server" /\ last = 0
  BY TransportAssumption DEF Kinds, Stages, Opening

(* A new number names its socket, and nothing else changes. *)
LEMMA AllocateFacts ==
  ASSUME Kinds, NEW s \in 1..N + 1, Allocate(s)
  PROVE  /\ names' \in [Numbers -> 0..N + 1]
         /\ number' \in [1..N + 1 -> Numbers \cup {0}]
         /\ \E d \in Numbers : /\ names[d] = Free
                               /\ names'[d] = s /\ number'[s] = d
                               /\ \A e \in Numbers \ {d} : names'[e] = names[e]
                               /\ \A t \in (1..N + 1) \ {s} : number'[t] = number[t]
  <1>1. PICK d \in FreeNumbers : /\ names' = [names EXCEPT ![d] = s]
                                /\ number' = [number EXCEPT ![s] = d]
    BY DEF Allocate
  <1>2. d \in Numbers /\ names[d] = Free /\ s \in 0..N + 1
    BY <1>1, TransportAssumption DEF FreeNumbers
  <1> QED  BY <1>1, <1>2 DEF Kinds

(* A released number names nothing. *)
LEMMA ReleaseFacts ==
  ASSUME Kinds, NEW d \in Numbers \cup {0}, Release(d)
  PROVE  /\ names' \in [Numbers -> 0..N + 1]
         /\ d \in Numbers => names'[d] = Free
         /\ \A e \in Numbers \ {d} : names'[e] = names[e]
  <1>1. names' = [names EXCEPT ![d] = 0] /\ names \in [Numbers -> 0..N + 1] /\ 0 \in 0..N + 1
    BY TransportAssumption DEF Kinds, Release
  <1> QED  BY <1>1

LEMMA QueryAdapterInv ==
  ASSUME IInv, QueryAdapter
  PROVE  IInv'
  <1> USE TransportAssumption DEF IInv, QueryAdapter, GiveUp, sockets, Opening
  <1>1. Kinds'
    BY DEF Kinds
  <1>2. Stages'
    BY DEF Stages, Kinds
  <1>3. Named'
    BY DEF Named, Stages, Kinds, Held
  <1>4. Straight'
    BY DEF Straight, Linux, Held, Stages
  <1> QED  BY <1>1, <1>2, <1>3, <1>4

LEMMA OpenSocketInv ==
  ASSUME IInv, OpenSocket
  PROVE  IInv'
  <1> Kinds /\ Stages /\ Named /\ Straight
    BY DEF IInv
  <1>1. CASE Allocate(Opening) /\ stage' = "bind"
    <2>1. Opening' = Opening /\ stage = "socket"
          /\ UNCHANGED <<platform, role, conn, last, handler, table, evicted, current, crossed>>
      BY DEF Opening, OpenSocket
    <2> DEFINE s == Opening
    <2>2. /\ s \in 1..N + 1
          /\ s # Listening => role = "client" /\ s = last /\ last \in Conns /\ conn[last] = "none"
          /\ s = Listening => role = "server" /\ last = 0
      BY <2>1, OpeningType
    <2>3. /\ names' \in [Numbers -> 0..N + 1]
          /\ number' \in [1..N + 1 -> Numbers \cup {0}]
      BY <1>1, <2>2, AllocateFacts
    <2>4. PICK d \in Numbers :
            /\ names[d] = Free /\ names'[d] = s /\ number'[s] = d
            /\ \A e \in Numbers \ {d} : names'[e] = names[e]
            /\ \A t \in (1..N + 1) \ {s} : number'[t] = number[t]
      BY <1>1, <2>2, AllocateFacts
    <2>5. d # 0
      BY TransportAssumption
    <2>6. \A c \in Conns : c \in 1..N + 1 /\ (Held(c) => c # s)
      BY <2>2, TransportAssumption DEF Held
    <2>7. s' = s /\ \A c \in Conns : Held(c)' <=> Held(c)
      BY <2>1 DEF Held
    <2>8. Kinds'
      BY <2>1, <2>3 DEF Kinds
    <2>9. Stages'
      <3>1. ASSUME NEW c \in Conns, conn[c] # "none" PROVE number'[c] # 0
        <4>1. c # s /\ number[c] # 0
          BY <2>2, <3>1, TransportAssumption DEF Stages
        <4> QED  BY <2>4, <2>6, <4>1
      <3>2. number'[Opening'] # 0
        BY <2>1, <2>4, <2>5
      <3> QED  BY <1>1, <2>1, <3>1, <3>2 DEF Stages
    <2>10. Named'
      <3>1. names'[d] # Free /\ number'[names'[d]] = d /\ names'[d] = Opening'
        BY <2>2, <2>4, <2>1
      <3>2. ASSUME NEW e \in Numbers \ {d}, names'[e] # Free
            PROVE  /\ number'[names'[e]] = e
                   /\ \/ names'[e] = Listening /\ role = "server" /\ stage \in {"accept", "track"}
                      \/ names'[e] \in Conns /\ Held(names'[e])
        <4>1. names'[e] = names[e] /\ number[names[e]] = e
          BY <2>4, <3>2 DEF Named
        <4>2. names[e] \in Conns /\ Held(names[e])
          BY <2>1, <3>2, <4>1 DEF Named
        <4> QED  BY <2>4, <2>6, <4>1, <4>2
      <3> QED  BY <1>1, <2>1, <2>7, <3>1, <3>2 DEF Named
    <2>11. Straight'
      <3>1. ASSUME NEW c \in Conns, Held(c), names[number[c]] = c
            PROVE  names'[number'[c]] = c
        <4>1. number'[c] = number[c] /\ number[c] \in Numbers
          BY <2>4, <2>6, <3>1, TransportAssumption DEF Kinds, Stages, Held
        <4>2. number[c] # d
          BY <2>4, <3>1
        <4> QED  BY <2>4, <3>1, <4>1, <4>2
      <3>2. names'[number'[s]] = s
        BY <2>4
      <3>3. Opening' = s
        BY <2>1
      <3> HIDE DEF s
      <3> QED  BY <2>1, <2>7, <3>1, <3>2, <3>3 DEF Straight, Linux
    <2> QED  BY <2>8, <2>9, <2>10, <2>11 DEF IInv
  <1>2. CASE GiveUp /\ UNCHANGED <<names, number>>
    <2> USE <1>2, TransportAssumption DEF IInv, OpenSocket, GiveUp, Opening
    <2>1. Kinds'
      BY DEF Kinds
    <2>2. Stages'
      BY DEF Stages, Kinds
    <2>3. Named'
      BY DEF Named, Stages, Kinds, Held
    <2>4. Straight'
      BY DEF Straight, Linux, Held, Stages
    <2> QED  BY <2>1, <2>2, <2>3, <2>4
  <1> QED  BY <1>1, <1>2 DEF OpenSocket

LEMMA FinishOpenInv ==
  ASSUME IInv, FinishOpen
  PROVE  IInv'
  <1> Kinds /\ Stages /\ Named /\ Straight
    BY DEF IInv
  <1>1. /\ stage \in {"bind", "establish"} /\ Opening' = Opening
        /\ UNCHANGED <<platform, role, number, last, handler, table, evicted, crossed>>
    BY DEF FinishOpen, Opening
  <1> DEFINE s == Opening
  <1>2. /\ s \in 1..N + 1
        /\ s # Listening => role = "client" /\ s = last /\ last \in Conns /\ conn[last] = "none"
        /\ s = Listening => role = "server" /\ last = 0
        /\ number[s] \in Numbers
    BY <1>1, OpeningType DEF Kinds, Stages
  <1>3. CASE UNCHANGED <<names, current, conn>>
             /\ stage' = (IF stage = "bind" THEN "establish" ELSE "accept")
             /\ (stage = "establish" => role = "server")
    <2>1. Kinds'
      BY <1>1, <1>3 DEF Kinds
    <2>2. Stages'
      BY <1>1, <1>2, <1>3 DEF Stages
    <2>3. Named'
      BY <1>1, <1>2, <1>3 DEF Named, Held, Opening
    <2>4. Straight'
      BY <1>1, <1>3 DEF Straight, Held, Linux
    <2> QED  BY <2>1, <2>2, <2>3, <2>4 DEF IInv
  <1>4. CASE role = "client" /\ stage = "establish" /\ stage' = "login" /\ UNCHANGED names
             /\ current' = last /\ conn' = [conn EXCEPT ![last] = "open"]
    <2>1. s = last /\ last \in Conns /\ conn[last] = "none" /\ last # 0
      BY <1>2, <1>4, TransportAssumption DEF Opening
    <2>2. Kinds'
      BY <1>1, <1>4, <2>1 DEF Kinds
    <2>3. /\ conn'[last] = "open" /\ \A c \in Conns \ {last} : conn'[c] = conn[c]
          /\ \A c \in Conns \ {last} : Held(c)' <=> Held(c)
          /\ Held(last)'
      BY <1>1, <1>4, <2>1 DEF Kinds, Held
    <2>4. Stages'
      <3>1. \A c \in Conns : c > last => c # last
        BY <2>1, TransportAssumption
      <3>2. \A c \in Conns \ {last} : conn[c] = "open" => c < last
        <4>1. \A c \in Conns : conn[c] = "open" => c <= last
          BY TransportAssumption DEF Kinds, Stages
        <4> QED  BY <4>1, TransportAssumption DEF Kinds
      <3>3. number[last] # 0
        BY <1>2, <2>1, TransportAssumption
      <3> QED  BY <1>1, <1>4, <2>1, <2>3, <3>1, <3>2, <3>3 DEF Stages
    <2>5. Named'
      <3>1. ASSUME NEW e \in Numbers, names[e] # Free
            PROVE  number[names[e]] = e /\ names[e] \in Conns /\ Held(names[e])'
        <4>1. number[names[e]] = e /\ (names[e] = last \/ (names[e] \in Conns /\ Held(names[e])))
          BY <1>4, <2>1, <3>1 DEF Named
        <4> QED  BY <1>1, <1>4, <2>1, <2>3, <4>1 DEF Held
      <3> QED  BY <1>1, <1>4, <3>1 DEF Named
    <2>6. Straight'
      <3>1. names[number[last]] = last
        BY <1>1, <2>1 DEF Straight
      <3> QED  BY <1>1, <1>4, <2>3, <3>1 DEF Straight, Linux
    <2> QED  BY <2>2, <2>4, <2>5, <2>6 DEF IInv
  <1>5. CASE GiveUp /\ Release(number[Opening]) /\ UNCHANGED <<current, conn>>
    <2>1. Kinds'
      BY <1>1, <1>2, <1>5, ReleaseFacts DEF Kinds
    <2>2. Stages'
      BY <1>1, <1>2, <1>5 DEF GiveUp, Stages
    <2>3. names'[number[s]] = Free /\ \A e \in Numbers \ {number[s]} : names'[e] = names[e]
      BY <1>2, <1>5, ReleaseFacts
    <2>4. \A c \in Conns : (Held(c)' <=> Held(c)) /\ (Held(c) => c # s)
      BY <1>1, <1>2, <1>5, TransportAssumption DEF Held
    <2>5. Named'
      <3>1. ASSUME NEW e \in Numbers, names'[e] # Free
            PROVE  number[names'[e]] = e /\ names'[e] \in Conns /\ Held(names'[e])
        <4>1. e # number[s] /\ names'[e] = names[e] /\ number[names[e]] = e
          BY <2>3, <3>1 DEF Named
        <4> QED  BY <1>1, <3>1, <4>1 DEF Named
      <3> QED  BY <1>1, <2>4, <3>1 DEF Named
    <2>6. Straight'
      <3>1. ASSUME NEW c \in Conns, Held(c), names[number[c]] = c
            PROVE  names'[number[c]] = c
        <4>1. names[number[s]] = s
          BY <1>1, <3>1 DEF Straight
        <4>2. number[c] # number[s] /\ number[c] \in Numbers
          BY <2>4, <3>1, <4>1, TransportAssumption DEF Kinds, Stages, Held
        <4> QED  BY <2>3, <3>1, <4>2
      <3>2. stage' \notin {"bind", "establish"}
        BY <1>5 DEF GiveUp
      <3>3. Linux' = Linux
        BY <1>1 DEF Linux
      <3>4. \A c \in Conns : Held(c)' => names'[number'[c]] = c
        BY <1>1, <2>4, <3>1 DEF Straight
      <3> QED  BY <1>1, <3>2, <3>3, <3>4 DEF Straight
    <2> QED  BY <2>1, <2>2, <2>5, <2>6 DEF IInv
  <1> HIDE DEF s
  <1>6. \/ UNCHANGED <<names, current, conn>>
           /\ stage' = (IF stage = "bind" THEN "establish" ELSE "accept")
           /\ (stage = "establish" => role = "server")
        \/ role = "client" /\ stage = "establish" /\ stage' = "login" /\ UNCHANGED names
           /\ current' = last /\ conn' = [conn EXCEPT ![last] = "open"]
        \/ GiveUp /\ Release(number[Opening]) /\ UNCHANGED <<current, conn>>
    BY DEF FinishOpen, Kinds
  <1> QED  BY <1>3, <1>4, <1>5, <1>6

-----------------------------------------------------------------------------
(* Closing a connection. *)

(* What is left of the numbers. *)
LEMMA CloseNames ==
  ASSUME Kinds, Stages, Named, NEW c \in Conns, conn[c] # "none", Close(c)
  PROVE  /\ names' \in [Numbers -> 0..N + 1] /\ number' = number
         /\ conn' \in [Conns -> {"none", "open", "closed"}]
         /\ conn'[c] = "closed" /\ \A t \in Conns \ {c} : conn'[t] = conn[t]
         /\ \A d \in Numbers : names'[d] # Free =>
              names'[d] = names[d] /\ (names[d] = c => Linux /\ handler[c] = "reading")
  <1>1. /\ conn' = [conn EXCEPT ![c] = "closed"] /\ number' = number
        /\ \/ Reached(c) # Free /\ ~(Linux /\ handler[c] = "reading") /\ Release(number[c])
           \/ ~(Reached(c) # Free /\ ~(Linux /\ handler[c] = "reading")) /\ UNCHANGED names
    BY DEF Close
  <1>2. number[c] \in Numbers /\ c \in 1..N + 1
    BY TransportAssumption DEF Kinds, Stages
  <1>3. names' \in [Numbers -> 0..N + 1]
    BY <1>1, <1>2, ReleaseFacts DEF Kinds
  <1>4. ASSUME NEW d \in Numbers, names'[d] # Free
        PROVE  names'[d] = names[d] /\ (names[d] = c => Linux /\ handler[c] = "reading")
    <2>1. CASE Release(number[c])
      <3>1. d # number[c] /\ names'[d] = names[d]
        BY <1>2, <1>4, <2>1, ReleaseFacts
      <3>2. names[d] # c
        BY <1>4, <3>1 DEF Named
      <3> QED  BY <3>1, <3>2
    <2>2. CASE UNCHANGED names /\ ~(Reached(c) # Free /\ ~(Linux /\ handler[c] = "reading"))
      <3>1. ASSUME names[d] = c PROVE Linux /\ handler[c] = "reading"
        <4>1. number[c] = d /\ names[number[c]] = c /\ c # Free
          BY <1>4, <2>2, <3>1, TransportAssumption DEF Named
        <4>2. CASE Reached(c) = Free
          <5>1. Linux /\ conn[c] = "closed"
            BY <4>1, <4>2 DEF Reached
          <5>2. c # Opening \/ stage \notin {"bind", "establish"}
            BY <5>1, OpeningType, TransportAssumption
          <5>3. c # Listening
            BY TransportAssumption
          <5>4. Held(c)
            BY <3>1, <4>1, <5>2, <5>3 DEF Named
          <5> QED  BY <5>1, <5>4 DEF Held
        <4>3. CASE Reached(c) # Free
          BY <2>2, <4>3
        <4> QED  BY <4>2, <4>3
      <3> QED  BY <2>2, <3>1
    <2> QED  BY <1>1, <2>1, <2>2
  <1> QED  BY <1>1, <1>3, <1>4 DEF Kinds

(* A close that does not go astray leaves every other socket its number,   *)
(* and its own as long as a read holds it.                                 *)
LEMMA CloseKeeps ==
  ASSUME Kinds, Stages, Straight, NEW c \in Conns, conn[c] # "none", Close(c),
         Linux \/ conn[c] = "open"
  PROVE  /\ crossed' = {}
         /\ \A t \in 1..N + 1 : number[t] # 0 /\ names[number[t]] = t
              /\ (t = c => Linux /\ handler[c] = "reading") => names'[number[t]] = t
  <1>1. /\ crossed = {}
        /\ conn[c] = "open" => names[number[c]] = c
        /\ number[c] \in Numbers /\ c # Free
    BY TransportAssumption DEF Straight, Held, Kinds, Stages
  <1>2. Reached(c) \in {c, Free}
    BY <1>1 DEF Reached, Kinds
  <1>3. crossed' = {}
    BY <1>1, <1>2 DEF Close, Reach
  <1>4. \/ UNCHANGED names
        \/ Release(number[c]) /\ Reached(c) # Free /\ ~(Linux /\ handler[c] = "reading")
    BY DEF Close
  <1>5. ASSUME NEW t \in 1..N + 1, number[t] # 0, names[number[t]] = t,
               t = c => Linux /\ handler[c] = "reading"
        PROVE  names'[number[t]] = t
    <2>1. CASE UNCHANGED names
      BY <1>5, <2>1
    <2>2. CASE Release(number[c]) /\ Reached(c) # Free /\ ~(Linux /\ handler[c] = "reading")
      <3>1. names[number[c]] = c /\ t # c
        BY <1>2, <1>5, <2>2 DEF Reached
      <3>2. number[t] \in Numbers /\ number[t] # number[c]
        BY <1>5, <3>1 DEF Kinds
      <3> QED  BY <1>1, <1>5, <2>2, <3>2, ReleaseFacts
    <2> QED  BY <1>4, <2>1, <2>2
  <1> QED  BY <1>3, <1>5

(* How the rest of a step that closes a connection behaves. *)
ClosingStep ==
  /\ UNCHANGED <<platform, role, last>>
  /\ stage \in {"bind", "establish"} => stage' = stage
  /\ stage' \in {"bind", "establish"} => stage' = stage
  /\ stage \in {"accept", "track"} => stage' \in {"accept", "track"}
  /\ \A t \in Conns : handler'[t] = "reading" <=> handler[t] = "reading"

LEMMA CloseNamed ==
  ASSUME IInv, NEW c \in Conns, conn[c] # "none", Close(c), ClosingStep
  PROVE  Named'
  <1>1. Kinds /\ Stages /\ Named
    BY DEF IInv
  <1>2. Opening' = Opening
    BY DEF Opening, ClosingStep
  <1>4. ASSUME NEW d \in Numbers, names'[d] # Free
        PROVE  /\ number'[names'[d]] = d
               /\ \/ names'[d] = Opening' /\ stage' \in {"bind", "establish"}
                  \/ names'[d] = Listening /\ role' = "server" /\ stage' \in {"accept", "track"}
                  \/ names'[d] \in Conns /\ Held(names[d])'
    <2>1. /\ names'[d] = names[d] /\ number' = number
          /\ names[d] = c => platform = "linux" /\ handler[c] = "reading"
      BY <1>1, <1>4, CloseNames DEF Linux
    <2>2. /\ number[names[d]] = d
          /\ \/ names[d] = Opening /\ stage \in {"bind", "establish"}
             \/ names[d] = Listening /\ role = "server" /\ stage \in {"accept", "track"}
             \/ names[d] \in Conns /\ Held(names[d])
      BY <1>1, <1>4, <2>1 DEF Named
    <2>3. CASE names[d] \in Conns /\ Held(names[d])
      <3> DEFINE n == names[d]
      <3>1. /\ n \in Conns /\ Held(n) /\ names'[d] = n
            /\ n = c => platform = "linux" /\ handler[c] = "reading"
        BY <2>1, <2>3
      <3> HIDE DEF n
      <3>2. conn'[n] = "open" \/ (platform' = "linux" /\ conn'[n] = "closed" /\ handler'[n] = "reading")
        BY <1>1, <3>1, CloseNames DEF Held, ClosingStep
      <3> QED  BY <2>1, <2>2, <3>1, <3>2 DEF Held, n
    <2>4. CASE names[d] = Opening /\ stage \in {"bind", "establish"}
      BY <1>2, <2>1, <2>2, <2>4 DEF ClosingStep
    <2>5. CASE names[d] = Listening /\ role = "server" /\ stage \in {"accept", "track"}
      BY <2>1, <2>2, <2>5 DEF ClosingStep
    <2> QED  BY <2>2, <2>3, <2>4, <2>5
  <1> QED  BY <1>4 DEF Named, Held

LEMMA CloseStraight ==
  ASSUME IInv, NEW c \in Conns, conn[c] # "none", Close(c), ClosingStep,
         Linux \/ conn[c] = "open"
  PROVE  Straight'
  <1> Kinds /\ Stages /\ Named /\ Straight
    BY DEF IInv
  <1>1. Opening' = Opening /\ (Linux' <=> Linux)
    BY DEF Opening, ClosingStep, Linux
  <1>2. crossed' = {} /\ number' = number
    BY CloseKeeps, CloseNames
  <1>3. ASSUME NEW t \in Conns, Held(t)' PROVE names'[number'[t]] = t
    <2>1. /\ conn[t] = "open" \/ (platform = "linux" /\ conn[t] = "closed" /\ handler[t] = "reading")
          /\ t = c => handler[c] = "reading"
      <3>1. t # c => conn'[t] = conn[t]
        BY CloseNames
      <3>2. t = c => conn'[t] = "closed" /\ conn[t] \in {"open", "closed"}
        BY CloseNames DEF Kinds
      <3>3. conn'[t] = "open" \/ (platform = "linux" /\ conn'[t] = "closed" /\ handler'[t] = "reading")
        BY <1>3 DEF Held, ClosingStep
      <3> QED  BY <3>1, <3>2, <3>3 DEF ClosingStep
    <2>2. t = c => Linux
      BY <2>1 DEF Stages
    <2>3. number[t] # 0 /\ names[number[t]] = t /\ t \in 1..N + 1
      BY <2>1, TransportAssumption DEF Straight, Held, Stages
    <2> QED  BY <1>2, <2>1, <2>2, <2>3, CloseKeeps
  <1>4. ASSUME stage' \in {"bind", "establish"} PROVE names'[number'[Opening]] = Opening
    <2>1. stage \in {"bind", "establish"}
      BY <1>4 DEF ClosingStep
    <2>2. Opening \in 1..N + 1 /\ Opening # c
      BY <2>1, OpeningType, TransportAssumption
    <2>3. number[Opening] # 0 /\ names[number[Opening]] = Opening
      BY <2>1 DEF Straight, Stages
    <2> QED  BY <1>2, <2>2, <2>3, CloseKeeps
  <1> QED  BY <1>1, <1>2, <1>3, <1>4 DEF Straight

LEMMA ConnectInv ==
  ASSUME IInv, Connect
  PROVE  IInv'
  <1> Kinds /\ Stages /\ Named /\ Straight
    BY DEF IInv
  <1>1. /\ role = "client" /\ stage = "prompt" /\ last < N /\ last' = last + 1
        /\ stage' \in {"adapter", "socket"}
        /\ UNCHANGED <<platform, role, names, number, conn, handler, table, evicted, current, crossed>>
    BY DEF Connect, sockets
  <1>2. last \in Nat /\ last' \in 0..N /\ last' > last
    BY <1>1, TransportAssumption DEF Kinds
  <1>3. Kinds'
    BY <1>1, <1>2 DEF Kinds
  <1>4. Stages'
    <2>1. last' \in Conns /\ conn[last'] = "none"
      BY <1>1, <1>2, TransportAssumption DEF Stages
    <2>2. \A c \in Conns : (c > last' => c > last) /\ (c < last => c < last') /\ (c <= last => c < last')
      BY <1>1, <1>2
    <2>3. \A c \in Conns : conn[c] = "open" => c <= last
      BY <1>2 DEF Stages
    <2> QED  BY <1>1, <1>2, <2>1, <2>2, <2>3 DEF Stages
  <1>5. Named'
    BY <1>1 DEF Named, Held
  <1>6. Straight'
    BY <1>1 DEF Straight, Held, Linux
  <1> QED  BY <1>3, <1>4, <1>5, <1>6 DEF IInv

(* The client closes a connection. *)
LEMMA ClientCloseInv ==
  ASSUME IInv, role = "client", NEW c \in Conns, conn[c] = "open", Close(c), ClosingStep,
         UNCHANGED <<handler, table, evicted>>,
         stage' = stage \/ (stage = "login" /\ stage' = "prompt"),
         current' \in {0, current} /\ current' # c,
         stage' = "login" => current' # 0,
         c = current \/ current' = current
  PROVE  IInv'
  <1> Kinds /\ Stages /\ Named /\ Straight
    BY DEF IInv
  <1>1. conn[c] # "none"
    OBVIOUS
  <1>2. /\ names' \in [Numbers -> 0..N + 1] /\ number' = number
        /\ conn' \in [Conns -> {"none", "open", "closed"}]
        /\ conn'[c] = "closed" /\ \A t \in Conns \ {c} : conn'[t] = conn[t]
    BY <1>1, CloseNames
  <1>3. \A t \in Conns : conn'[t] = "none" <=> conn[t] = "none"
    BY <1>2
  <1>4. Kinds'
    <2>1. {t \in Conns : conn'[t] # "none"} = {t \in Conns : conn[t] # "none"}
      BY <1>3
    <2> QED  BY <1>2, <2>1, TransportAssumption DEF Kinds, ClosingStep
  <1>5. Stages'
    <2>1. UNCHANGED <<role, last>> /\ Opening' = Opening
      BY DEF ClosingStep, Opening
    <2>2. \A t \in Conns : handler[t] = "off"
      BY DEF Stages
    <2>3. stage' \notin {"track", "accept", "exited"}
      BY DEF Stages
    <2>4. current # 0 => conn[current] = "open" /\ current \in Conns
      BY TransportAssumption DEF Stages, Kinds
    <2>5. current' # 0 => conn'[current'] = "open"
      BY <1>2, <2>4
    <2>6. \A t \in Conns : conn'[t] = "open" => (t = current' \/ t < last)
      <3>1. \A t \in Conns : conn'[t] = "open" => t # c /\ (t = current \/ t < last)
        BY <1>2 DEF Stages
      <3> QED  BY <3>1
    <2>7. stage' \in {"adapter", "socket", "bind", "establish"} => last > 0 /\ conn'[last] = "none"
      BY <1>3, TransportAssumption DEF Stages, Kinds
    <2> QED  BY <1>2, <1>3, <2>1, <2>2, <2>3, <2>5, <2>6, <2>7 DEF Stages
  <1>6. Named'
    BY <1>1, CloseNamed
  <1>7. Straight'
    <2>1. \A t \in Conns : handler'[t] = "off"
      BY DEF Stages
    <2> QED  BY <1>1, <2>1, CloseStraight
  <1> QED  BY <1>4, <1>5, <1>6, <1>7 DEF IInv

LEMMA LoginInv ==
  ASSUME IInv, Login
  PROVE  IInv'
  <1> Kinds /\ Stages /\ Named /\ Straight
    BY DEF IInv
  <1>1. /\ stage = "login" /\ stage' = "prompt" /\ role = "client"
        /\ current \in Conns /\ conn[current] = "open"
        /\ UNCHANGED <<platform, role, last, handler, table, evicted>>
    BY TransportAssumption DEF Login, Stages, Kinds
  <1>2. CASE UNCHANGED <<sockets, current, crossed>>
    <2>1. Kinds'
      BY <1>1, <1>2 DEF Kinds, sockets
    <2>2. Stages'
      BY <1>1, <1>2 DEF Stages, sockets
    <2>3. Named'
      BY <1>1, <1>2 DEF Named, Held, sockets
    <2>4. Straight'
      BY <1>1, <1>2 DEF Straight, Held, Linux, sockets
    <2> QED  BY <2>1, <2>2, <2>3, <2>4 DEF IInv
  <1>3. CASE Close(current) /\ current' = 0
    BY <1>1, <1>3, ClientCloseInv DEF ClosingStep
  <1> QED  BY <1>2, <1>3 DEF Login

LEMMA DisconnectInv ==
  ASSUME IInv, Disconnect
  PROVE  IInv'
  <1> Kinds /\ Stages /\ Named /\ Straight
    BY DEF IInv
  <1>1. /\ stage = "prompt" /\ role = "client" /\ current \in Conns /\ conn[current] = "open"
        /\ Close(current) /\ current' = 0
        /\ UNCHANGED <<platform, role, stage, last, handler, table, evicted>>
    BY TransportAssumption DEF Disconnect, Stages, Kinds
  <1> QED  BY <1>1, ClientCloseInv DEF ClosingStep

LEMMA CollectInv ==
  ASSUME IInv, NEW c \in Conns, Collect(c)
  PROVE  IInv'
  BY ClientCloseInv DEF Collect, ClosingStep, IInv, Stages

-----------------------------------------------------------------------------
(* The accept loop. *)

LEMMA PeerInv ==
  ASSUME IInv, NEW c \in Conns, Arrive(c) \/ Leave(c)
  PROVE  IInv'
  <1>1. UNCHANGED <<platform, role, names, number, conn, stage, last, handler, table, evicted,
                    current, crossed>>
    BY DEF Arrive, Leave, sockets
  <1> QED  BY <1>1 DEF IInv, Kinds, Stages, Named, Straight, Held, Linux, Opening

LEMMA AcceptInv ==
  ASSUME IInv, Accept
  PROVE  IInv'
  <1> Kinds /\ Stages /\ Named /\ Straight
    BY DEF IInv
  <1>1. PICK s \in Conns : s = last + 1 /\ s > last
    <2>1. PICK w \in Conns : w > last
      BY DEF Accept, Waiting
    <2> QED  BY <2>1, TransportAssumption DEF Kinds
  <1>2. /\ role = "server" /\ stage = "accept" /\ last' = s /\ Allocate(s) /\ stage' = "track"
        /\ conn' = [conn EXCEPT ![s] = "open"] /\ current = 0
        /\ UNCHANGED <<platform, role, handler, table, evicted, current, crossed>>
        /\ s \in 1..N + 1 /\ s # Listening
    BY <1>1, TransportAssumption DEF Accept, Stages
  <1>3. /\ names' \in [Numbers -> 0..N + 1]
        /\ number' \in [1..N + 1 -> Numbers \cup {0}]
    BY <1>2, AllocateFacts
  <1>4. PICK d \in Numbers :
          /\ names[d] = Free /\ names'[d] = s /\ number'[s] = d
          /\ \A e \in Numbers \ {d} : names'[e] = names[e]
          /\ \A t \in (1..N + 1) \ {s} : number'[t] = number[t]
    BY <1>2, AllocateFacts
  <1>5. /\ conn[s] = "none" /\ handler[s] = "off" /\ conn'[s] = "open"
        /\ \A c \in Conns \ {s} : conn'[c] = conn[c] /\ c \in 1..N + 1
        /\ d # 0
    BY <1>1, <1>2, TransportAssumption DEF Stages, Kinds
  <1>6. /\ \A c \in Conns \ {s} : Held(c)' <=> Held(c)
        /\ ~Held(s) /\ Held(s)'
    BY <1>2, <1>5 DEF Held
  <1>7. Kinds'
    <2>1. {c \in Conns : conn[c] # "none"} \subseteq {c \in Conns : conn'[c] # "none"}
      BY <1>5
    <2>2. table \in Seq({c \in Conns : conn'[c] # "none"})
      BY <2>1 DEF Kinds
    <2> QED  BY <1>2, <1>3, <2>2, TransportAssumption DEF Kinds
  <1>8. Stages'
    <2>1. \A c \in Conns : c > s => c > last /\ c # s
      BY <1>1, TransportAssumption DEF Kinds
    <2>2. \A c \in Conns : conn'[c] # "none" => number'[c] # 0
      BY <1>4, <1>5 DEF Stages
    <2>3. s > 0
      BY TransportAssumption
    <2>4. \A c \in Conns : /\ c > s => conn'[c] = "none" /\ handler[c] = "off"
                           /\ handler[c] # "off" => conn'[c] # "none"
                           /\ (conn'[c] = "open" /\ handler[c] = "off") => c = s
                           /\ handler[c] \in {"closed", "ended"} => conn'[c] = "closed"
      BY <1>2, <1>5, <2>1 DEF Stages
    <2>5. Linux /\ Linux'
      BY <1>2 DEF Accept, Linux
    <2> QED  BY <1>2, <1>5, <2>2, <2>3, <2>4, <2>5 DEF Stages
  <1>9. Named'
    <2>1. ASSUME NEW e \in Numbers, names'[e] # Free
          PROVE  /\ number'[names'[e]] = e
                 /\ \/ names'[e] = Listening
                    \/ /\ names'[e] \in Conns
                       /\ \/ conn'[names'[e]] = "open"
                          \/ /\ platform = "linux" /\ conn'[names'[e]] = "closed"
                             /\ handler'[names'[e]] = "reading"
      <3>1. CASE e = d
        <4>1. names'[e] = s /\ number'[s] = e
          BY <1>4, <3>1
        <4> QED  BY <4>1, <1>5
      <3>2. CASE e # d
        <4> DEFINE n == names[e]
        <4>1. names'[e] = n /\ number[n] = e
          BY <1>4, <2>1, <3>2 DEF Named
        <4>2. n = Listening \/ (n \in Conns /\ Held(n))
          BY <1>2, <2>1, <4>1 DEF Named
        <4>3. n \in (1..N + 1) \ {s}
          BY <1>2, <1>6, <4>2, TransportAssumption
        <4>4. number'[n] = e
          BY <1>4, <4>1, <4>3
        <4> HIDE DEF n
        <4>5. n \in Conns => conn'[n] = conn[n] /\ handler'[n] = handler[n]
          BY <1>2, <1>5, <4>3
        <4> QED  BY <4>1, <4>2, <4>4, <4>5 DEF Held
      <3> QED  BY <3>1, <3>2
    <2> QED  BY <1>2, <2>1 DEF Named, Held
  <1>10. Straight'
    <2>1. Linux' = Linux
      BY <1>2 DEF Linux
    <2>2. ASSUME NEW c \in Conns, Held(c)' PROVE names'[number'[c]] = c
      <3>1. CASE c = s
        BY <1>4, <3>1
      <3>2. CASE c # s
        <4>0. Held(c) /\ number'[c] = number[c] /\ c \in 1..N + 1
          BY <1>4, <1>5, <1>6, <2>2, <3>2
        <4>1. names[number[c]] = c /\ number[c] \in Numbers
          <5>1. names[number[c]] = c /\ conn[c] # "none"
            BY <2>2, <4>0 DEF Straight, Held
          <5> QED  BY <4>0, <5>1 DEF Stages, Kinds
        <4>2. number[c] # d
          BY <1>4, <4>1, TransportAssumption
        <4> QED  BY <1>4, <4>0, <4>1, <4>2
      <3> QED  BY <3>1, <3>2
    <2> QED  BY <1>2, <2>1, <2>2 DEF Straight
  <1> QED  BY <1>7, <1>8, <1>9, <1>10 DEF IInv

LEMMA AcceptFailsInv ==
  ASSUME IInv, AcceptFails
  PROVE  IInv'
  <1> Kinds /\ Stages /\ Named /\ Straight
    BY DEF IInv
  <1>1. /\ role = "server" /\ stage = "accept"
        /\ UNCHANGED <<platform, role, names, number, conn, stage, handler, table, evicted,
                       current, crossed>>
    BY DEF AcceptFails, sockets
  <1>2. last' \in 0..N /\ last' >= last
    <2>1. last' = last \/ (last' = last + 1 /\ Waiting # {})
      BY DEF AcceptFails
    <2>2. Waiting # {} => \E w \in Conns : w > last
      BY DEF Waiting
    <2> QED  BY <2>1, <2>2, TransportAssumption DEF Kinds
  <1>3. \A c \in Conns : c > last' => c > last
    BY <1>2, TransportAssumption DEF Kinds
  <1>4. Kinds' /\ Stages'
    BY <1>1, <1>2, <1>3 DEF Kinds, Stages, Linux
  <1>5. Named' /\ Straight'
    BY <1>1 DEF Named, Straight, Held, Linux
  <1> QED  BY <1>4, <1>5 DEF IInv

(* The handler of the connection just accepted starts. *)
LEMMA StartStages ==
  ASSUME Kinds, Stages, stage = "track", stage' = "accept",
         handler' = [handler EXCEPT ![last] = "running"],
         UNCHANGED <<platform, role, last, number, current>>,
         conn' \in [Conns -> {"none", "open", "closed"}],
         \A c \in Conns : (conn'[c] = "none" <=> conn[c] = "none")
                         /\ (conn'[c] = conn[c] \/ conn'[c] = "closed")
  PROVE  Stages' /\ handler' \in [Conns -> {"off", "running", "reading", "answering", "returned",
                                            "closed", "ended"}]
  <1>1. /\ role = "server" /\ last \in Conns /\ conn[last] = "open" /\ handler[last] = "off"
        /\ current = 0
    BY TransportAssumption DEF Stages, Kinds
  <1>2. /\ handler'[last] = "running" /\ \A c \in Conns \ {last} : handler'[c] = handler[c]
        /\ handler' \in [Conns -> {"off", "running", "reading", "answering", "returned",
                                   "closed", "ended"}]
    BY <1>1 DEF Kinds
  <1>3. \A c \in Conns : c > last => c # last
    BY <1>1, TransportAssumption
  <1>4. \A c \in Conns :
          /\ c > last => conn'[c] = "none" /\ handler'[c] = "off"
          /\ handler'[c] # "off" => conn'[c] # "none"
          /\ ~(conn'[c] = "open" /\ handler'[c] = "off")
          /\ handler'[c] \in {"closed", "ended"} => conn'[c] = "closed"
          /\ conn'[c] # "none" => number[c] # 0
    <2>1. ASSUME NEW c \in Conns
          PROVE  /\ c > last => conn'[c] = "none" /\ handler'[c] = "off"
                 /\ handler'[c] # "off" => conn'[c] # "none"
                 /\ ~(conn'[c] = "open" /\ handler'[c] = "off")
                 /\ handler'[c] \in {"closed", "ended"} => conn'[c] = "closed"
                 /\ conn'[c] # "none" => number[c] # 0
      <3>1. CASE c = last
        BY <1>1, <1>2, <1>3, <3>1 DEF Stages
      <3>2. CASE c # last
        BY <1>1, <1>2, <2>1, <3>2 DEF Stages, Kinds
      <3> QED  BY <3>1, <3>2
    <2> QED  BY <2>1
  <1>5. Linux /\ Linux'
    BY DEF Stages, Linux
  <1> QED  BY <1>1, <1>2, <1>4, <1>5 DEF Stages

LEMMA TrackInv ==
  ASSUME IInv, Track
  PROVE  IInv'
  <1> Kinds /\ Stages /\ Named /\ Straight
    BY DEF IInv
  <1>1. /\ stage = "track" /\ stage' = "accept" /\ handler' = [handler EXCEPT ![last] = "running"]
        /\ UNCHANGED <<platform, role, last, current>>
        /\ role = "server" /\ last \in Conns /\ conn[last] = "open" /\ handler[last] = "off"
    BY TransportAssumption DEF Track, Stages, Kinds
  <1>2. /\ handler'[last] = "running" /\ \A c \in Conns \ {last} : handler'[c] = handler[c]
        /\ \A c \in Conns : handler'[c] = "reading" <=> handler[c] = "reading"
    BY <1>1 DEF Kinds
  <1>3. last \in {c \in Conns : conn[c] # "none"}
    BY <1>1
  <1>4. CASE table' = Append(table, last) /\ UNCHANGED <<sockets, evicted, crossed>>
    <2>1. Stages' /\ Kinds'
      <3>1. table' \in Seq({c \in Conns : conn[c] # "none"})
        BY <1>3, <1>4 DEF Kinds
      <3>2. UNCHANGED <<names, number, conn>> /\ conn' \in [Conns -> {"none", "open", "closed"}]
        BY <1>4 DEF sockets, Kinds
      <3>3. Stages' /\ handler' \in [Conns -> {"off", "running", "reading", "answering", "returned",
                                               "closed", "ended"}]
        BY <1>1, <3>2, StartStages
      <3> QED  BY <1>1, <3>1, <3>2, <3>3 DEF Kinds
    <2>2. Named'
      BY <1>1, <1>2, <1>4 DEF Named, Held, sockets
    <2>3. Straight'
      <3>1. UNCHANGED <<platform, evicted, crossed, names, number, conn>>
        BY <1>1, <1>4 DEF sockets
      <3>2. Linux' = Linux
        BY <3>1 DEF Linux
      <3>3. \A c \in Conns : Held(c)' <=> Held(c)
        BY <1>2, <3>1 DEF Held
      <3> QED  BY <1>1, <1>2, <3>1, <3>2, <3>3 DEF Straight
    <2> QED  BY <2>1, <2>2, <2>3 DEF IInv
  <1>5. CASE /\ MaxClients > 0 /\ Len(table) >= MaxClients
             /\ Close(Head(table)) /\ evicted' = evicted \cup {Head(table)}
             /\ table' = Append(Tail(table), last)
    <2>1. PICK c \in Conns : c = Head(table) /\ conn[c] # "none"
      <3>1. Len(table) > 0 /\ table \in Seq({c \in Conns : conn[c] # "none"})
        BY <1>5, TransportAssumption DEF Kinds
      <3>2. Head(table) \in {c \in Conns : conn[c] # "none"}
        BY <3>1
      <3> QED  BY <3>2
    <2>2. Close(c) /\ evicted \subseteq evicted' /\ evicted' # {}
      BY <1>5, <2>1
    <2>3. /\ names' \in [Numbers -> 0..N + 1] /\ number' = number
          /\ conn' \in [Conns -> {"none", "open", "closed"}]
          /\ conn'[c] = "closed" /\ \A t \in Conns \ {c} : conn'[t] = conn[t]
      BY <2>1, <2>2, CloseNames
    <2>4. Stages' /\ Kinds'
      <3>1. /\ {t \in Conns : conn'[t] # "none"} = {t \in Conns : conn[t] # "none"}
            /\ \A t \in Conns : (conn'[t] = "none" <=> conn[t] = "none")
                             /\ (conn'[t] = conn[t] \/ conn'[t] = "closed")
        BY <2>1, <2>3
      <3>2. Len(table) > 0
        BY <1>5, TransportAssumption DEF Kinds
      <3>3. Tail(table) \in Seq({t \in Conns : conn[t] # "none"})
        BY <3>2 DEF Kinds
      <3>4. table' \in Seq({t \in Conns : conn[t] # "none"})
        BY <1>3, <1>5, <3>3
      <3>5. Stages' /\ handler' \in [Conns -> {"off", "running", "reading", "answering", "returned",
                                               "closed", "ended"}]
        BY <1>1, <2>3, <3>1, StartStages
      <3> QED  BY <1>1, <2>3, <3>1, <3>4, <3>5 DEF Kinds
    <2>5. ClosingStep
      BY <1>1, <1>2 DEF ClosingStep
    <2>6. Named'
      BY <2>1, <2>2, <2>5, CloseNamed
    <2>7. Straight'
      <3>1. Linux
        BY <1>1 DEF Stages
      <3> QED  BY <2>1, <2>2, <2>5, <3>1, CloseStraight
    <2> QED  BY <2>4, <2>6, <2>7 DEF IInv
  <1> QED  BY <1>4, <1>5 DEF Track

-----------------------------------------------------------------------------
(* The handlers. *)

(* Only the handler of c moves, and it does not go back. *)
LEMMA MovesFacts ==
  ASSUME Kinds, Stages, NEW c \in Conns, handler[c] # "off",
         NEW h \in {"running", "reading", "answering", "returned", "closed", "ended"},
         Moves(c, h), UNCHANGED <<platform, role, stage, last, number, conn, current>>,
         h \in {"closed", "ended"} => conn[c] = "closed"
  PROVE  /\ handler'[c] = h /\ \A t \in Conns \ {c} : handler'[t] = handler[t]
         /\ handler' \in [Conns -> {"off", "running", "reading", "answering", "returned",
                                    "closed", "ended"}]
         /\ Stages'
  <1>1. /\ handler'[c] = h /\ \A t \in Conns \ {c} : handler'[t] = handler[t]
        /\ handler' \in [Conns -> {"off", "running", "reading", "answering", "returned",
                                   "closed", "ended"}]
    BY DEF Moves, Kinds
  <1>2. role = "server" /\ conn[c] # "none" /\ ~(c > last)
    BY DEF Stages
  <1>3. stage = "track" => c # last
    BY DEF Stages
  <1>4. Opening' = Opening
    BY DEF Opening
  <1>5. \A t \in Conns :
          /\ t > last => conn'[t] = "none" /\ handler'[t] = "off"
          /\ handler'[t] # "off" => role' = "server" /\ conn'[t] # "none"
          /\ (role' = "server" /\ conn'[t] = "open" /\ handler'[t] = "off") =>
               (stage' = "track" /\ t = last')
          /\ handler'[t] \in {"closed", "ended"} => conn'[t] = "closed"
    <2>1. ASSUME NEW t \in Conns
          PROVE  /\ t > last => conn[t] = "none" /\ handler'[t] = "off"
                 /\ handler'[t] # "off" => conn[t] # "none"
                 /\ (conn[t] = "open" /\ handler'[t] = "off") => (stage = "track" /\ t = last)
                 /\ handler'[t] \in {"closed", "ended"} => conn[t] = "closed"
      <3>1. CASE t = c
        BY <1>1, <1>2, <3>1
      <3>2. CASE t # c
        BY <1>1, <1>2, <2>1, <3>2 DEF Stages
      <3> QED  BY <3>1, <3>2
    <2> QED  BY <1>2, <2>1
  <1>6. stage = "track" => last \in Conns /\ handler'[last] = "off"
    BY <1>1, <1>3, TransportAssumption DEF Stages, Kinds
  <1>7. Linux /\ Linux'
    BY DEF Stages, Linux
  <1> QED  BY <1>1, <1>4, <1>5, <1>6, <1>7 DEF Stages

(* A handler that does not close anything moves on. *)
LEMMA PlainMove ==
  ASSUME IInv, NEW c \in Conns, handler[c] # "off",
         NEW h \in {"running", "reading", "answering", "returned", "ended"},
         Moves(c, h), UNCHANGED <<platform, role, stage, last, names, number, conn, evicted, current>>,
         h = "ended" => handler[c] = "closed",
         h \in {"running", "reading", "answering", "returned"} =>
           handler[c] \in {"running", "reading", "answering", "returned"},
         handler[c] = "reading" => h = "reading" \/ conn[c] = "open" \/ ~Linux,
         h = "reading" => conn[c] = "open" \/ ~Linux,
         crossed' = {},
         table' \in Seq({t \in Conns : conn[t] # "none"})
  PROVE  IInv'
  <1> Kinds /\ Stages /\ Named /\ Straight
    BY DEF IInv
  <1>1. h \in {"closed", "ended"} => conn[c] = "closed"
    BY DEF Stages
  <1>2. /\ handler'[c] = h /\ \A t \in Conns \ {c} : handler'[t] = handler[t]
        /\ handler' \in [Conns -> {"off", "running", "reading", "answering", "returned",
                                   "closed", "ended"}]
        /\ Stages'
    BY <1>1, MovesFacts
  <1>3. \A t \in Conns : Held(t)' <=> Held(t)
    <2>1. ASSUME NEW t \in Conns PROVE Held(t)' <=> Held(t)
      <3>1. CASE t = c
        BY <1>2, <3>1 DEF Held, Linux
      <3>2. CASE t # c
        BY <1>2, <2>1, <3>2 DEF Held
      <3> QED  BY <3>1, <3>2
    <2> QED  BY <2>1
  <1>4. Kinds'
    BY <1>2 DEF Kinds
  <1>5. Opening' = Opening /\ Linux' = Linux
    BY DEF Opening, Linux
  <1>6. Named'
    <2>1. ASSUME NEW d \in Numbers, names[d] \in Conns, Held(names[d])
          PROVE  conn[names[d]] = "open" \/ (platform = "linux" /\ conn[names[d]] = "closed"
                                             /\ handler'[names[d]] = "reading")
      BY <1>2, <2>1 DEF Held, Linux
    <2> QED  BY <1>5, <2>1 DEF Named, Held
  <1>7. Straight'
    BY <1>3, <1>5 DEF Straight
  <1> QED  BY <1>2, <1>4, <1>6, <1>7 DEF IInv

(* A read or a write goes to the connection's own socket, or nowhere. *)
LEMMA ReachOwn ==
  ASSUME Kinds, Stages, Straight, NEW c \in Conns, Reach(c), handler[c] # "off",
         conn[c] # "none"
  PROVE  crossed' = {}
  <1>1. conn[c] = "open" \/ (Linux /\ conn[c] = "closed")
    BY DEF Stages, Kinds
  <1>2. Reached(c) \in {c, Free}
    BY <1>1 DEF Reached, Straight, Held
  <1> QED  BY <1>2 DEF Reach, Straight

LEMMA BeginReadInv ==
  ASSUME IInv, NEW c \in Conns, BeginRead(c)
  PROVE  IInv'
  <1> Kinds /\ Stages /\ Named /\ Straight
    BY DEF IInv
  <1>1. /\ handler[c] = "running" /\ conn[c] # "none"
        /\ UNCHANGED <<platform, role, stage, last, names, number, conn, evicted, current, table>>
    BY DEF BeginRead, sockets, Stages
  <1>2. crossed' = {}
    BY <1>1, ReachOwn DEF BeginRead
  <1>3. PICK h \in {"returned", "reading"} :
          Moves(c, h) /\ (h = "reading" => Reached(c) # Free)
    BY DEF BeginRead
  <1>4. h = "reading" => conn[c] = "open" \/ ~Linux
    BY <1>1, <1>3 DEF Reached, Kinds
  <1>5. table' \in Seq({t \in Conns : conn[t] # "none"})
    BY <1>1 DEF Kinds
  <1> QED  BY <1>1, <1>2, <1>3, <1>4, <1>5, PlainMove

LEMMA AnswerInv ==
  ASSUME IInv, NEW c \in Conns, Answer(c)
  PROVE  IInv'
  <1> Kinds /\ Stages /\ Named /\ Straight
    BY DEF IInv
  <1>1. /\ handler[c] = "answering" /\ conn[c] # "none"
        /\ UNCHANGED <<platform, role, stage, last, names, number, conn, evicted, current, table>>
    BY DEF Answer, sockets, Stages
  <1>2. crossed' = {}
    BY <1>1, ReachOwn DEF Answer
  <1>3. PICK h \in {"running", "returned"} : Moves(c, h)
    BY DEF Answer
  <1>4. table' \in Seq({t \in Conns : conn[t] # "none"})
    BY <1>1 DEF Kinds
  <1> QED  BY <1>1, <1>2, <1>3, <1>4, PlainMove

LEMMA UntrackInv ==
  ASSUME IInv, NEW c \in Conns, Untrack(c)
  PROVE  IInv'
  <1> Kinds /\ Stages /\ Named /\ Straight
    BY DEF IInv
  <1>1. /\ handler[c] = "closed" /\ Moves(c, "ended")
        /\ UNCHANGED <<platform, role, stage, last, names, number, conn, evicted, current, crossed>>
    BY DEF Untrack, sockets
  <1>2. table' \in Seq({t \in Conns : conn[t] # "none"})
    <2> DEFINE S == {t \in Conns : conn[t] # "none"}
    <2>1. table \in Seq(S)
      BY DEF Kinds
    <2> HIDE DEF S
    <2>2. ASSUME NEW i \in DOMAIN table
          PROVE  SubSeq(table, 1, i - 1) \o SubSeq(table, i + 1, Len(table)) \in Seq(S)
      <3>1. SubSeq(table, 1, i - 1) \in Seq(S) /\ SubSeq(table, i + 1, Len(table)) \in Seq(S)
        BY <2>1
      <3> QED  BY <3>1
    <2> QED  BY <2>1, <2>2 DEF Untrack, S
  <1>3. crossed' = {}
    BY <1>1 DEF Straight
  <1> QED  BY <1>1, <1>2, <1>3, PlainMove

LEMMA EndReadInv ==
  ASSUME IInv, NEW c \in Conns, EndRead(c)
  PROVE  IInv'
  <1> Kinds /\ Stages /\ Named /\ Straight
    BY DEF IInv
  <1>1. /\ handler[c] = "reading" /\ conn[c] # "none" /\ number[c] \in Numbers /\ c \in 1..N + 1
        /\ UNCHANGED <<platform, role, stage, last, number, conn, evicted, current, crossed, table>>
    BY TransportAssumption DEF EndRead, Stages, Kinds
  <1>2. PICK h \in {"answering", "returned"} : Moves(c, h)
    BY DEF EndRead
  <1>3. CASE UNCHANGED names /\ ~(Linux /\ conn[c] = "closed")
    <2>1. table' \in Seq({t \in Conns : conn[t] # "none"}) /\ crossed' = {}
      BY <1>1 DEF Kinds, Straight
    <2>2. conn[c] = "open" \/ ~Linux
      BY <1>1, <1>3 DEF Kinds
    <2> QED  BY <1>1, <1>2, <1>3, <2>1, <2>2, PlainMove
  <1>4. CASE Linux /\ conn[c] = "closed" /\ Release(number[c])
    <2>1. /\ handler'[c] = h /\ \A t \in Conns \ {c} : handler'[t] = handler[t]
          /\ handler' \in [Conns -> {"off", "running", "reading", "answering", "returned",
                                     "closed", "ended"}]
          /\ Stages'
      BY <1>1, <1>2, MovesFacts
    <2>2. /\ names' \in [Numbers -> 0..N + 1] /\ names'[number[c]] = Free
          /\ \A e \in Numbers \ {number[c]} : names'[e] = names[e]
      BY <1>1, <1>4, ReleaseFacts
    <2>3. Kinds'
      BY <1>1, <2>1, <2>2 DEF Kinds
    <2>4. names[number[c]] = c
      BY <1>1, <1>4 DEF Straight, Held, Linux
    <2>5. Opening' = Opening /\ Linux' = Linux
      BY <1>1 DEF Opening, Linux
    <2>6. Named'
      <3>1. ASSUME NEW d \in Numbers, names'[d] # Free
            PROVE  names'[d] = names[d] /\ number[names[d]] = d /\ names[d] # c
        BY <2>2, <3>1 DEF Named
      <3>2. ASSUME NEW d \in Numbers, names[d] # c, names[d] \in Conns, Held(names[d])
            PROVE  conn[names[d]] = "open" \/ (platform = "linux" /\ conn[names[d]] = "closed"
                                               /\ handler'[names[d]] = "reading")
        BY <2>1, <3>2 DEF Held
      <3> QED  BY <1>1, <2>5, <3>1, <3>2 DEF Named, Held
    <2>7. Straight'
      <3>1. ASSUME NEW t \in Conns, Held(t)' PROVE names'[number'[t]] = t
        <4>1. t # c
          BY <1>1, <1>2, <1>4, <2>1, <3>1 DEF Held
        <4>2. Held(t) /\ number[t] \in Numbers /\ t \in 1..N + 1
          BY <1>1, <2>1, <3>1, <4>1, TransportAssumption DEF Held, Stages, Kinds
        <4>3. names[number[t]] = t
          BY <1>4, <4>2 DEF Straight
        <4>4. number[t] # number[c]
          BY <2>4, <4>1, <4>3
        <4> QED  BY <1>1, <2>2, <4>2, <4>3, <4>4
      <3>2. ASSUME stage \in {"bind", "establish"} PROVE names'[number[Opening]] = Opening
        <4>1. Opening \in 1..N + 1 /\ Opening # c /\ number[Opening] \in Numbers
          BY <1>1, <3>2, OpeningType, TransportAssumption DEF Stages, Kinds
        <4>2. names[number[Opening]] = Opening
          BY <1>4, <3>2 DEF Straight
        <4> QED  BY <2>2, <2>4, <4>1, <4>2
      <3>3. crossed' = {}
        BY <1>1, <1>4 DEF Straight
      <3> QED  BY <1>1, <1>4, <2>5, <3>1, <3>2, <3>3 DEF Straight
    <2> QED  BY <2>1, <2>3, <2>6, <2>7 DEF IInv
  <1> QED  BY <1>3, <1>4 DEF EndRead

LEMMA FinishInv ==
  ASSUME IInv, NEW c \in Conns, Finish(c)
  PROVE  IInv'
  <1> Kinds /\ Stages /\ Named /\ Straight
    BY DEF IInv
  <1>1. /\ handler[c] = "returned" /\ conn[c] # "none" /\ role = "server" /\ Close(c)
        /\ ~(c > last) /\ (stage = "track" => c # last)
        /\ UNCHANGED <<platform, role, stage, last, evicted, current, table>>
    BY DEF Finish, Stages
  <1>2. /\ handler'[c] = "closed" /\ \A t \in Conns \ {c} : handler'[t] = handler[t]
        /\ handler' \in [Conns -> {"off", "running", "reading", "answering", "returned",
                                   "closed", "ended"}]
    BY DEF Finish, Moves, Kinds
  <1>3. /\ names' \in [Numbers -> 0..N + 1] /\ number' = number
        /\ conn' \in [Conns -> {"none", "open", "closed"}]
        /\ conn'[c] = "closed" /\ \A t \in Conns \ {c} : conn'[t] = conn[t]
    BY <1>1, CloseNames
  <1>4. Kinds'
    <2>1. {t \in Conns : conn'[t] # "none"} = {t \in Conns : conn[t] # "none"}
      BY <1>1, <1>3
    <2> QED  BY <1>1, <1>2, <1>3, <2>1 DEF Kinds
  <1>5. Stages'
    <2>1. ASSUME NEW t \in Conns
          PROVE  /\ t > last => conn'[t] = "none" /\ handler'[t] = "off"
                 /\ handler'[t] # "off" => conn'[t] # "none"
                 /\ (conn'[t] = "open" /\ handler'[t] = "off") => (stage = "track" /\ t = last)
                 /\ handler'[t] \in {"closed", "ended"} => conn'[t] = "closed"
                 /\ conn'[t] # "none" => number[t] # 0
      <3>1. CASE t = c
        BY <1>1, <1>2, <1>3, <3>1 DEF Stages
      <3>2. CASE t # c
        BY <1>1, <1>2, <1>3, <2>1, <3>2 DEF Stages
      <3> QED  BY <3>1, <3>2
    <2>2. stage = "track" => last \in Conns /\ handler'[last] = "off" /\ conn'[last] = "open"
      BY <1>1, <1>2, <1>3, TransportAssumption DEF Stages, Kinds
    <2>3. Opening' = Opening /\ current = 0 /\ stage \notin {"prompt", "login"}
      BY <1>1 DEF Opening, Stages
    <2>4. Linux /\ Linux'
      BY <1>1 DEF Stages, Linux
    <2> QED  BY <1>1, <1>3, <2>1, <2>2, <2>3, <2>4 DEF Stages
  <1>6. ClosingStep
    BY <1>1, <1>2 DEF ClosingStep
  <1>7. Named'
    BY <1>1, <1>6, CloseNamed
  <1>8. Straight'
    <2>1. Linux' = Linux
      BY <1>1 DEF Linux
    <2>2. Linux
      BY <1>1 DEF Stages
    <2> QED  BY <1>1, <1>6, <2>1, <2>2, CloseStraight
  <1> QED  BY <1>4, <1>5, <1>7, <1>8 DEF IInv

-----------------------------------------------------------------------------
LEMMA NextInv ==
  ASSUME IInv, [Next]_vars
  PROVE  IInv'
  <1>1. CASE UNCHANGED vars
    BY <1>1 DEF IInv, Kinds, Stages, Named, Straight, Held, Linux, Opening, vars, sockets
  <1>2. CASE QueryAdapter \/ OpenSocket \/ FinishOpen
    BY <1>2, QueryAdapterInv, OpenSocketInv, FinishOpenInv
  <1>3. CASE Connect \/ Login \/ Disconnect
    BY <1>3, ConnectInv, LoginInv, DisconnectInv
  <1>4. CASE Accept \/ AcceptFails \/ Track
    BY <1>4, AcceptInv, AcceptFailsInv, TrackInv
  <1>5. ASSUME NEW c \in Conns, Collect(c) \/ Arrive(c) \/ Leave(c) PROVE IInv'
    BY <1>5, CollectInv, PeerInv
  <1>6. ASSUME NEW c \in Conns, Handler(c) PROVE IInv'
    BY <1>6, BeginReadInv, EndReadInv, AnswerInv, FinishInv, UntrackInv DEF Handler
  <1> QED  BY <1>1, <1>2, <1>3, <1>4, <1>5, <1>6 DEF Next

(* Every number in use is the number of a socket that is being opened or   *)
(* has not been closed, and every open connection has the number it was    *)
(* given.                                                                  *)
THEOREM Invariant == Spec => []IInv
  <1>1. Init => IInv
    BY InitInv
  <1>2. IInv /\ [Next]_vars => IInv'
    BY NextInv
  <1> QED  BY <1>1, <1>2, PTL DEF Spec

(* A call on a connection reaches its own socket (rfcommConn.Close,        *)
(* winsockConn.Close, trackConn, handleConnection).                        *)
THEOREM OwnSocketHolds == Spec => []OwnSocket
  <1>1. IInv => OwnSocket
    BY DEF IInv, Straight, OwnSocket
  <1> QED  BY <1>1, Invariant, PTL

(* Every error path of Listen and Connect, every end of a handler and      *)
(* every disconnect gives its number back.                                 *)
THEOREM NothingLeaksHolds == Spec => []NothingLeaks
  <1>1. ASSUME IInv, NEW d \in Numbers, names[d] # Free
        PROVE  Owned(d, names[d]) \/ Replaced(names[d])
    <2> Kinds /\ Stages /\ Named
      BY <1>1 DEF IInv
    <2> DEFINE s == names[d]
    <2>1. number[s] = d
      BY <1>1 DEF Named
    <2>2. CASE s = Opening /\ stage \in {"bind", "establish"}
      <3>1. s = Listening \/ (role = "client" /\ s = last)
        BY <2>2, OpeningType
      <3> QED  BY <2>1, <2>2, <3>1, OpeningType DEF Owned
    <2>3. CASE s = Listening /\ role = "server" /\ stage \in {"accept", "track"}
      BY <2>1, <2>3 DEF Owned
    <2>4. CASE s \in Conns /\ Held(s)
      <3>1. CASE role = "server"
        BY <2>1, <2>4, <3>1 DEF Owned, Held, Stages
      <3>2. CASE role = "client"
        BY <2>1, <2>4, <3>2 DEF Owned, Replaced, Held, Stages
      <3> QED  BY <3>1, <3>2 DEF Kinds
    <2> QED  BY <1>1, <2>2, <2>3, <2>4 DEF Named
  <1>2. IInv => NothingLeaks
    BY <1>1 DEF NothingLeaks
  <1> QED  BY <1>2, Invariant, PTL

-----------------------------------------------------------------------------
(* A connection dropped for a newer one has been closed. *)
Shut == \A c \in evicted : c \in Conns /\ conn[c] = "closed"

(* Closing is for good. *)
LEMMA StaysClosed ==
  ASSUME IInv, [Next]_vars, NEW c \in Conns, conn[c] = "closed"
  PROVE  conn'[c] = "closed"
  <1> Kinds /\ Stages
    BY DEF IInv
  <1> USE DEF sockets
  <1>1. ASSUME NEW t, Close(t) PROVE conn'[c] = "closed"
    BY <1>1 DEF Close, Kinds
  <1>2. CASE FinishOpen
    <2>1. role = "client" => conn[last] = "none"
      BY <1>2 DEF FinishOpen, Stages
    <2> QED  BY <1>2, <2>1 DEF FinishOpen, Kinds
  <1>3. CASE Accept
    <2>1. PICK w \in Conns : w > last
      BY <1>3 DEF Accept, Waiting
    <2>2. last + 1 \in Conns /\ last + 1 > last
      BY <2>1, TransportAssumption DEF Kinds
    <2>3. last + 1 # c
      BY <2>2 DEF Stages
    <2> QED  BY <1>3, <2>3 DEF Accept, Kinds
  <1>4. CASE UNCHANGED vars \/ QueryAdapter \/ OpenSocket \/ Connect \/ AcceptFails
    BY <1>4 DEF vars, QueryAdapter, OpenSocket, Connect, AcceptFails
  <1>5. CASE Login \/ Disconnect \/ Track
    BY <1>1, <1>5 DEF Login, Disconnect, Track
  <1>6. ASSUME NEW t \in Conns, Collect(t) \/ Arrive(t) \/ Leave(t) \/ Handler(t)
        PROVE conn'[c] = "closed"
    BY <1>1, <1>6 DEF Collect, Arrive, Leave, Handler, BeginRead, EndRead, Answer, Finish, Untrack
  <1> QED  BY <1>2, <1>3, <1>4, <1>5, <1>6 DEF Next

(* Only Track drops a connection. *)
LEMMA OnlyTrackDrops ==
  ASSUME [Next]_vars, ~Track
  PROVE  evicted' = evicted
  BY DEF Next, vars, QueryAdapter, OpenSocket, FinishOpen, Connect, Login, Disconnect, Accept,
     AcceptFails, Collect, Arrive, Leave, Handler, BeginRead, EndRead, Answer, Finish, Untrack

LEMMA ShutStep ==
  ASSUME IInv, Shut, [Next]_vars
  PROVE  Shut'
  <1>1. CASE evicted' = evicted
    BY <1>1, StaysClosed DEF Shut
  <1>2. CASE Track /\ evicted' # evicted
    <2>1. /\ Close(Head(table)) /\ evicted' = evicted \cup {Head(table)}
          /\ Len(table) >= MaxClients /\ MaxClients > 0
      BY <1>2 DEF Track
    <2>2. Head(table) \in {c \in Conns : conn[c] # "none"}
      <3>1. table \in Seq({c \in Conns : conn[c] # "none"}) /\ Len(table) > 0
        BY <2>1, TransportAssumption DEF IInv, Kinds
      <3> QED  BY <3>1
    <2>3. conn'[Head(table)] = "closed"
      BY <2>1, <2>2 DEF Close, IInv, Kinds
    <2> QED  BY <2>1, <2>2, <2>3, StaysClosed DEF Shut
  <1> QED  BY <1>1, <1>2, OnlyTrackDrops

(* Dropping a connection closes it there and then (trackConn), unless its  *)
(* handler is in a read on Linux.                                          *)
THEOREM EvictedClosesHolds == Spec => []EvictedCloses
  <1>1. Init => Shut
    BY DEF Init, Shut
  <1>2. IInv /\ Shut /\ [Next]_vars => Shut'
    BY ShutStep
  <1>3. ASSUME IInv, Shut, NEW c \in evicted, IsOpen(c)
        PROVE  Linux /\ handler[c] = "reading"
    <2>1. Kinds /\ Stages /\ Named /\ c \in Conns /\ conn[c] = "closed"
      BY <1>3 DEF IInv, Shut
    <2>2. number[c] \in Numbers /\ names[number[c]] = c /\ c # Free
      BY <1>3, <2>1, TransportAssumption DEF Kinds, Stages, IsOpen
    <2>3. c # Listening /\ (c = Opening => stage \notin {"bind", "establish"})
      BY <2>1, OpeningType, TransportAssumption
    <2> QED  BY <2>1, <2>2, <2>3 DEF Named, Held, Linux
  <1>4. IInv /\ Shut => EvictedCloses
    BY <1>3 DEF EvictedCloses
  <1> QED  BY <1>1, <1>2, <1>4, Invariant, PTL DEF Spec
=============================================================================
