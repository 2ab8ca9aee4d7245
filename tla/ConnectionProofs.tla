-------------------------- MODULE ConnectionProofs --------------------------
(* Proofs about the table of Connection and the start of its connections,  *)
(* for every number of them, every MaxClients and every set of profiles.   *)
EXTENDS Connection, SequenceTheorems, FunctionTheorems, FiniteSetTheorems, TLAPS

Handlers == {"off", "returned", "ended"} \cup Reading

TableType ==
  /\ handler \in [Conns -> Handlers]
  /\ table \in Seq(Conns)

IInv == TableType /\ TableInv

(* What the table depends on. *)
tvars == <<dialled, accepted, handler, evicted, table>>

-----------------------------------------------------------------------------
LEMMA InitIInv == Init => IInv
<1> SUFFICES ASSUME Init PROVE IInv
  OBVIOUS
<1> N \in Nat /\ MaxClients \in Nat
  BY BoundAssumption
<1>1. handler = [c \in Conns |-> "off"] /\ table = << >> /\ evicted = {}
      /\ dialled = 0 /\ accepted = 0
  BY DEF Init
<1>2. TableType
  BY <1>1 DEF TableType, Handlers
<1>3. \A c \in Conns : handler[c] = "off" /\ c > accepted
  BY <1>1 DEF Conns
<1>4. DOMAIN table = {} /\ Len(table) = 0
  BY <1>1
<1>5. Tracked = {}
  BY <1>1, <1>3 DEF Tracked
<1>6. TableExact
  <2>1. {table[i] : i \in DOMAIN table} = Tracked
    BY <1>4, <1>5
  <2>2. \A i, j \in DOMAIN table : i < j => table[i] < table[j]
    BY <1>4
  <2> QED  BY <1>4, <2>1, <2>2 DEF TableExact
<1> QED  BY <1>1, <1>2, <1>3, <1>6 DEF IInv, TableInv

(* A step that moves handlers along, but starts and ends none, leaves the  *)
(* table as it should be.                                                  *)
LEMMA CalmIInv ==
  ASSUME IInv,
         UNCHANGED <<accepted, evicted, table>>,
         dialled' \in dialled..N,
         handler' \in [Conns -> Handlers],
         \A c \in Conns : (handler'[c] = "off" <=> handler[c] = "off")
                          /\ (handler'[c] = "ended" <=> handler[c] = "ended")
  PROVE  IInv'
<1>1. Tracked' = Tracked
  BY DEF Tracked
<1>2. TableExact'
  BY <1>1 DEF IInv, TableInv, TableExact
<1>3. dialled' \in 0..N /\ accepted' \in 0..dialled'
  BY BoundAssumption DEF IInv, TableInv
<1>4. TableType'
  BY DEF IInv, TableType
<1>5. \A c \in Conns : handler'[c] = "off" <=> c > accepted'
  BY DEF IInv, TableInv
<1>6. (evicted \subseteq 1..accepted)'
  BY DEF IInv, TableInv
<1> QED  BY <1>2, <1>3, <1>4, <1>5, <1>6 DEF IInv, TableInv

LEMMA StutterIInv == IInv /\ UNCHANGED tvars => IInv'
<1> SUFFICES ASSUME IInv, UNCHANGED tvars PROVE IInv'
  OBVIOUS
<1> N \in Nat
  BY BoundAssumption
<1>1. dialled' \in dialled..N /\ handler' \in [Conns -> Handlers]
  BY DEF IInv, TableInv, TableType, tvars
<1> QED  BY <1>1, CalmIInv DEF tvars

(* The steps of the clients and the loss of a link do not touch the table. *)
LEMMA ClientIInv ==
  ASSUME IInv, NEW c \in Conns,
         ClientStep(c) \/ Command(c) \/ Disconnect(c) \/ LinkLost(c)
  PROVE  IInv'
<1>1. UNCHANGED tvars
  BY DEF ClientStep, ReadMTU, ReadAuth, ReadNonce, Answered, ClientReadFails, Command,
         Disconnect, LinkLost, tvars
<1> QED  BY <1>1, StutterIInv

LEMMA DialIInv ==
  ASSUME IInv, NEW c \in Conns, NEW p, Dial(c, p)
  PROVE  IInv'
<1>1. dialled' = dialled + 1 /\ dialled' = c /\ UNCHANGED <<accepted, handler, evicted, table>>
  BY DEF Dial
<1>2. dialled' \in dialled..N
  BY <1>1, BoundAssumption DEF Conns, IInv, TableInv
<1>3. handler' \in [Conns -> Handlers]
  BY <1>1 DEF IInv, TableType
<1> QED  BY <1>1, <1>2, <1>3, CalmIInv

(* A handler that reads a message goes on reading or returns. *)
LEMMA HandleIInv ==
  ASSUME IInv, NEW c \in Conns,
         HandleFirst(c) \/ HandleAuth(c) \/ HandleNonce(c) \/ HandleMessage(c)
           \/ HandlerReadFails(c)
  PROVE  IInv'
<1>1. handler[c] \in Reading /\ UNCHANGED <<dialled, accepted, evicted, table>>
  BY DEF HandleFirst, HandleAuth, HandleNonce, HandleMessage, HandlerReadFails, Reads, Reading
<1>2. PICK h \in Reading \cup {"returned"} : handler' = [handler EXCEPT ![c] = h]
  <2>1. ASSUME NEW m, Authenticate(c, m)
        PROVE  \E h \in Reading \cup {"returned"} : handler' = [handler EXCEPT ![c] = h]
    BY <2>1 DEF Authenticate, Goes, Reading
  <2>2. ASSUME NEW m, Dispatch(c, m)
        PROVE  \E h \in Reading \cup {"returned"} : handler' = [handler EXCEPT ![c] = h]
    BY <2>2 DEF Dispatch, Goes, Reading
  <2>3. ASSUME NEW m, NegotiateMTU(c, m)
        PROVE  \E h \in Reading \cup {"returned"} : handler' = [handler EXCEPT ![c] = h]
    BY <2>3 DEF NegotiateMTU, Goes, Reading
  <2>4. CASE HandleFirst(c)
    BY <2>1, <2>2, <2>3, <2>4 DEF HandleFirst
  <2>5. CASE HandleAuth(c)
    BY <2>1, <2>5 DEF HandleAuth
  <2>6. CASE HandleNonce(c)
    BY <2>6 DEF HandleNonce, Goes, Reading
  <2>7. CASE HandleMessage(c)
    BY <2>2, <2>7 DEF HandleMessage
  <2>8. CASE HandlerReadFails(c)
    BY <2>8 DEF HandlerReadFails, Goes
  <2> QED  BY <2>4, <2>5, <2>6, <2>7, <2>8
<1>3. h \in Handlers /\ h # "off" /\ h # "ended" /\ handler[c] # "off" /\ handler[c] # "ended"
  BY <1>1 DEF Handlers, Reading
<1>4. handler \in [Conns -> Handlers]
  BY DEF IInv, TableType
<1>5. handler' \in [Conns -> Handlers]
  BY <1>2, <1>3, <1>4
<1>6. \A d \in Conns : (handler'[d] = "off" <=> handler[d] = "off")
                       /\ (handler'[d] = "ended" <=> handler[d] = "ended")
  BY <1>2, <1>3, <1>4
<1>7. dialled' \in dialled..N
  BY <1>1, BoundAssumption DEF IInv, TableInv
<1> QED  BY <1>1, <1>5, <1>6, <1>7, CalmIInv

-----------------------------------------------------------------------------
(* Ordered sequences of connections, and the three ways the table changes. *)
Members(s) == {s[i] : i \in DOMAIN s}
Ordered(s) == \A i, j \in DOMAIN s : i < j => s[i] < s[j]

LEMMA ConnsAreNumbers == \A c \in Conns : c \in Nat /\ c <= N
BY BoundAssumption DEF Conns

LEMMA AppendOrdered ==
  ASSUME NEW s \in Seq(Conns), Ordered(s), NEW c \in Conns, \A d \in Members(s) : d < c
  PROVE  /\ Append(s, c) \in Seq(Conns) /\ Len(Append(s, c)) = Len(s) + 1
         /\ Ordered(Append(s, c))
         /\ Members(Append(s, c)) = Members(s) \cup {c}
<1> DEFINE t == Append(s, c)
<1>1. t \in Seq(Conns) /\ Len(t) = Len(s) + 1 /\ Len(s) \in Nat
  OBVIOUS
<1>2. \A i \in 1..Len(s) : t[i] = s[i]
  OBVIOUS
<1>3. t[Len(s) + 1] = c
  OBVIOUS
<1>4. DOMAIN t = 1..(Len(s) + 1) /\ DOMAIN s = 1..Len(s)
  BY <1>1
<1> HIDE DEF t
<1>5. \A i \in DOMAIN t : i \in DOMAIN s \/ i = Len(s) + 1
  BY <1>1, <1>4
<1>6. Members(t) = Members(s) \cup {c}
  BY <1>1, <1>2, <1>3, <1>4, <1>5 DEF Members
<1>7. Ordered(t)
  <2> SUFFICES ASSUME NEW i \in DOMAIN t, NEW j \in DOMAIN t, i < j PROVE t[i] < t[j]
    BY DEF Ordered
  <2>1. i \in DOMAIN s
    BY <1>1, <1>4
  <2>2. CASE j \in DOMAIN s
    BY <2>1, <2>2, <1>2, <1>4 DEF Ordered
  <2>3. CASE j = Len(s) + 1
    <3>1. s[i] \in Members(s)
      BY <2>1 DEF Members
    <3> QED  BY <2>1, <2>3, <3>1, <1>2, <1>3, <1>4
  <2> QED  BY <1>5, <2>2, <2>3
<1> QED  BY <1>1, <1>6, <1>7 DEF t

LEMMA TailOrdered ==
  ASSUME NEW s \in Seq(Conns), Ordered(s), s # << >>
  PROVE  /\ Tail(s) \in Seq(Conns) /\ Len(Tail(s)) = Len(s) - 1
         /\ Ordered(Tail(s))
         /\ Head(s) \in Members(s) /\ Members(Tail(s)) = Members(s) \ {Head(s)}
         /\ \A d \in Members(s) : Head(s) <= d
<1> DEFINE t == Tail(s)
<1>1. t \in Seq(Conns) /\ Len(t) = Len(s) - 1 /\ Len(s) \in Nat /\ Len(s) > 0
  OBVIOUS
<1>2. \A i \in 1..Len(t) : t[i] = s[i + 1]
  OBVIOUS
<1>3. Head(s) = s[1]
  OBVIOUS
<1>4. DOMAIN t = 1..(Len(s) - 1) /\ DOMAIN s = 1..Len(s)
  BY <1>1
<1> HIDE DEF t
<1>5. \A i \in DOMAIN t : i \in Nat /\ i + 1 \in DOMAIN s /\ t[i] = s[i + 1]
  BY <1>1, <1>2, <1>4
<1>6. 1 \in DOMAIN s /\ \A j \in DOMAIN s : j = 1 \/ (1 < j /\ j - 1 \in DOMAIN t)
  BY <1>1, <1>4
<1>7. \A j \in DOMAIN s : s[j] \in Nat
  BY ConnsAreNumbers
<1>8. \A j \in DOMAIN s : j # 1 => s[1] < s[j]
  BY <1>6 DEF Ordered
<1>9. Ordered(t)
  <2> SUFFICES ASSUME NEW i \in DOMAIN t, NEW j \in DOMAIN t, i < j PROVE t[i] < t[j]
    BY DEF Ordered
  <2>1. i + 1 < j + 1
    BY <1>5
  <2> QED  BY <2>1, <1>5 DEF Ordered
<1>10. Members(t) = Members(s) \ {s[1]}
  <2>1. ASSUME NEW d \in Members(t) PROVE d \in Members(s) \ {s[1]}
    <3>1. PICK i \in DOMAIN t : d = t[i]
      BY <2>1 DEF Members
    <3>2. i + 1 \in DOMAIN s /\ i + 1 # 1 /\ d = s[i + 1]
      BY <3>1, <1>4, <1>5, <1>1
    <3> QED  BY <3>2, <1>6, <1>7, <1>8 DEF Members
  <2>2. ASSUME NEW d \in Members(s), d # s[1] PROVE d \in Members(t)
    <3>1. PICK j \in DOMAIN s : d = s[j]
      BY <2>2 DEF Members
    <3>2. j - 1 \in DOMAIN t
      BY <3>1, <2>2, <1>6
    <3>3. t[j - 1] = s[j]
      BY <3>1, <3>2, <1>4, <1>5, <1>1
    <3> QED  BY <3>1, <3>2, <3>3 DEF Members
  <2> QED  BY <2>1, <2>2
<1>11. \A d \in Members(s) : s[1] <= d
  BY <1>6, <1>7, <1>8 DEF Members
<1> QED  BY <1>1, <1>3, <1>6, <1>9, <1>10, <1>11 DEF t, Members

(* Arithmetic of the pieces either side of an index. *)
LEMMA Complement ==
  ASSUME NEW n \in Nat, NEW k \in 1..n
  PROVE  /\ k + 1 \in Int /\ n \in Int /\ n - (k + 1) + 1 = n - k
         /\ (IF k + 1 <= n THEN n - (k + 1) + 1 ELSE 0) = n - k
OBVIOUS
LEMMA Total ==
  ASSUME NEW n \in Nat, NEW k \in 1..n
  PROVE  (k - 1) + (n - k) = n - 1
OBVIOUS
LEMMA Before ==
  ASSUME NEW n \in Nat, NEW k \in 1..n, NEW i \in 1..(n - 1), i < k
  PROVE  i \in 1..(k - 1) /\ i <= k - 1 /\ i \in 1..n /\ i # k
OBVIOUS
LEMMA Beyond ==
  ASSUME NEW n \in Nat, NEW k \in 1..n, NEW i \in 1..(n - 1), ~(i < k)
  PROVE  ~(i <= k - 1) /\ i + 1 \in 1..n /\ i + 1 # k
OBVIOUS
LEMMA BeyondShifted ==
  ASSUME NEW n \in Nat, NEW k \in 1..n, NEW i \in 1..(n - 1), ~(i < k)
  PROVE  i - (k - 1) \in 1..(n - k) /\ k + (i - (k - 1)) = i + 1
OBVIOUS
LEMMA Predecessor ==
  ASSUME NEW n \in Nat, NEW k \in 1..n, NEW j \in 1..n, k < j
  PROVE  j - 1 \in 1..(n - 1) /\ ~(j - 1 < k) /\ (j - 1) + 1 = j
OBVIOUS
LEMMA SkipsOne ==
  ASSUME NEW k \in Nat, NEW i \in Nat, NEW j \in Nat, i < j
  PROVE  (IF i < k THEN i ELSE i + 1) < (IF j < k THEN j ELSE j + 1)
OBVIOUS

LEMMA RemoveOrdered ==
  ASSUME NEW s \in Seq(Conns), Ordered(s), NEW k \in DOMAIN s,
         NEW t, t = SubSeq(s, 1, k - 1) \o SubSeq(s, k + 1, Len(s))
  PROVE  /\ t \in Seq(Conns) /\ Len(t) = Len(s) - 1
         /\ Ordered(t)
         /\ Members(t) = Members(s) \ {s[k]}
<1> DEFINE a == SubSeq(s, 1, k - 1)
           b == SubSeq(s, k + 1, Len(s))
           From(i) == IF i < k THEN i ELSE i + 1
<1>1. k \in 1..Len(s) /\ Len(s) \in Nat /\ DOMAIN s = 1..Len(s)
  OBVIOUS
<1>2. /\ a \in Seq(Conns) /\ Len(a) = k - 1
      /\ \A i \in 1..(k - 1) : a[i] = s[i]
  BY <1>1, SubSeqProperties
<1>3. /\ b \in Seq(Conns) /\ Len(b) = Len(s) - k
      /\ \A i \in 1..(Len(s) - k) : b[i] = s[k + i]
  <2>1. \A i \in (k + 1)..Len(s) : s[i] \in Conns
    BY <1>1
  <2>2. k + 1 \in Int /\ Len(s) \in Int /\ Len(s) - (k + 1) + 1 = Len(s) - k
        /\ (IF k + 1 <= Len(s) THEN Len(s) - (k + 1) + 1 ELSE 0) = Len(s) - k
    BY <1>1, Complement
  <2>3. /\ b \in Seq(Conns)
        /\ Len(b) = IF k + 1 <= Len(s) THEN Len(s) - (k + 1) + 1 ELSE 0
        /\ \A i \in 1..(Len(s) - (k + 1) + 1) : b[i] = s[(k + 1) + i - 1]
    BY <2>1, <2>2, SubSeqProperties
  <2>4. \A i \in 1..(Len(s) - k) : (k + 1) + i - 1 = k + i
    BY <1>1
  <2> QED  BY <2>2, <2>3, <2>4, Zenon
<1> HIDE DEF a, b
<1>4. t = a \o b
  BY DEF a, b
<1>5. Len(a) = k - 1 /\ Len(b) = Len(s) - k /\ k \in Nat /\ k > 0 /\ k <= Len(s)
  <2>1. Len(a) = k - 1
    BY <1>2, Zenon
  <2>2. Len(b) = Len(s) - k
    BY <1>3, Zenon
  <2>3. k \in Nat /\ k > 0 /\ k <= Len(s)
    BY <1>1
  <2> QED  BY <2>1, <2>2, <2>3
<1>6. a \in Seq(Conns) /\ b \in Seq(Conns)
  BY <1>2, <1>3, Zenon
<1>7. /\ t \in Seq(Conns) /\ Len(t) = Len(a) + Len(b)
       /\ \A i \in 1..(Len(a) + Len(b)) : t[i] = IF i <= Len(a) THEN a[i] ELSE b[i - Len(a)]
  <2>1. /\ a \o b \in Seq(Conns) /\ Len(a \o b) = Len(a) + Len(b)
        /\ \A i \in 1..(Len(a) + Len(b)) :
             (a \o b)[i] = IF i <= Len(a) THEN a[i] ELSE b[i - Len(a)]
    BY <1>6, ConcatProperties, Zenon
  <2> QED  BY <1>4, <2>1, Zenon
<1>8. t \in Seq(Conns) /\ Len(t) = Len(a) + Len(b)
  BY <1>7, Zenon
<1>9. Len(t) = Len(s) - 1 /\ Len(a) + Len(b) = Len(s) - 1
  <2>1. (k - 1) + (Len(s) - k) = Len(s) - 1
    BY <1>1, Total, Zenon
  <2>2. Len(a) + Len(b) = (k - 1) + (Len(s) - k)
    BY <1>5, Zenon
  <2> QED  BY <1>8, <2>1, <2>2, Zenon
<1>10. t \in Seq(Conns) /\ Len(t) = Len(s) - 1 /\ DOMAIN t = 1..(Len(s) - 1)
  <2>1. DOMAIN t = 1..Len(t)
    BY <1>8, LenProperties
  <2> QED  BY <1>8, <1>9, <2>1, Zenon
<1>11. ASSUME NEW i \in DOMAIN t PROVE t[i] = s[From(i)] /\ From(i) \in DOMAIN s /\ From(i) # k
  <2>1. i \in 1..(Len(s) - 1) /\ i \in Nat
    BY <1>10, <1>1
  <2>2. i \in 1..(Len(a) + Len(b))
    BY <2>1, <1>9, Zenon
  <2>3. t[i] = IF i <= Len(a) THEN a[i] ELSE b[i - Len(a)]
    BY <2>2, <1>7, Zenon
  <2>4. CASE i < k
    <3>0. i \in 1..(k - 1) /\ i <= k - 1 /\ i \in 1..Len(s) /\ i # k
      BY <1>1, <2>1, <2>4, Before, Zenon
    <3>1. i \in 1..(k - 1) /\ i <= Len(a) /\ i \in DOMAIN s /\ i # k
      BY <1>1, <1>5, <3>0
    <3>2. t[i] = s[i]
      BY <2>3, <3>1, <1>2, Zenon
    <3>3. From(i) = i
      BY <2>4, Zenon
    <3> QED  BY <3>1, <3>2, <3>3, Zenon
  <2>5. CASE ~(i < k)
    <3>0. ~(i <= k - 1) /\ i + 1 \in 1..Len(s) /\ i + 1 # k
      BY <1>1, <2>1, <2>5, Beyond, Zenon
    <3>1. ~(i <= Len(a)) /\ i + 1 \in DOMAIN s /\ i + 1 # k
      BY <1>1, <1>5, <3>0
    <3>2. i - Len(a) \in 1..(Len(s) - k) /\ k + (i - Len(a)) = i + 1
      <4>1. Len(a) = k - 1
        BY <1>5, Zenon
      <4>2. i - (k - 1) \in 1..(Len(s) - k) /\ k + (i - (k - 1)) = i + 1
        BY <1>1, <2>1, <2>5, BeyondShifted, Zenon
      <4> QED  BY <4>1, <4>2, Zenon
    <3>3. b[i - Len(a)] = s[i + 1]
      BY <3>2, <1>3, Zenon
    <3>4. From(i) = i + 1
      BY <2>5, Zenon
    <3>5. t[i] = s[i + 1]
      BY <2>3, <3>1, <3>3, Zenon
    <3> QED  BY <3>1, <3>4, <3>5, Zenon
  <2> QED  BY <2>4, <2>5
<1>12. \A j \in DOMAIN s : s[j] \in Nat
  BY ConnsAreNumbers
<1>13. Ordered(t)
  <2> SUFFICES ASSUME NEW i \in DOMAIN t, NEW j \in DOMAIN t, i < j PROVE t[i] < t[j]
    BY DEF Ordered
  <2>1. From(i) < From(j)
    <3>1. i \in 1..(Len(s) - 1) /\ j \in 1..(Len(s) - 1)
      BY <1>10, Zenon
    <3>2. i \in Nat /\ j \in Nat
      BY <3>1, <1>1
    <3> QED  BY <1>5, <3>2, SkipsOne, Zenon
  <2>2. From(i) \in DOMAIN s /\ From(j) \in DOMAIN s /\ t[i] = s[From(i)] /\ t[j] = s[From(j)]
    BY <1>11
  <2> HIDE DEF From
  <2>3. s[From(i)] < s[From(j)]
    BY <2>1, <2>2, Zenon DEF Ordered
  <2> QED  BY <2>2, <2>3, Zenon
<1>14. \A i, j \in DOMAIN s : i # j => s[i] # s[j]
  <2> SUFFICES ASSUME NEW i \in DOMAIN s, NEW j \in DOMAIN s, i # j PROVE s[i] # s[j]
    OBVIOUS
  <2>1. i < j \/ j < i
    BY <1>1
  <2>2. s[i] < s[j] \/ s[j] < s[i]
    BY <2>1 DEF Ordered
  <2> QED  BY <2>2, <1>12
<1>15. Members(t) = Members(s) \ {s[k]}
  <2>1. ASSUME NEW d \in Members(t) PROVE d \in Members(s) \ {s[k]}
    <3>1. PICK i \in DOMAIN t : d = t[i]
      BY <2>1 DEF Members
    <3>2. d = s[From(i)] /\ From(i) \in DOMAIN s /\ From(i) # k
      BY <3>1, <1>11
    <3> HIDE DEF From
    <3> QED  BY <3>2, <1>14 DEF Members
  <2>2. ASSUME NEW d \in Members(s), d # s[k] PROVE d \in Members(t)
    <3>1. PICK j \in DOMAIN s : d = s[j] /\ j # k
      BY <2>2 DEF Members
    <3>2. CASE j < k
      <4>1. j \in DOMAIN t /\ From(j) = j
        BY <1>1, <1>10, <3>1, <3>2
      <4>2. t[j] = s[j]
        BY <4>1, <1>11
      <4> QED  BY <3>1, <4>1, <4>2 DEF Members
    <3>3. CASE k < j
      <4>1. j - 1 \in DOMAIN t /\ From(j - 1) = j
        <5>1. j - 1 \in 1..(Len(s) - 1) /\ ~(j - 1 < k) /\ (j - 1) + 1 = j
          BY <1>1, <3>1, <3>3, Predecessor, Zenon
        <5>2. j - 1 \in DOMAIN t
          BY <1>10, <5>1, Zenon
        <5>3. From(j - 1) = (j - 1) + 1
          BY <5>1, Zenon
        <5> QED  BY <5>1, <5>2, <5>3, Zenon
      <4>2. t[j - 1] = s[j]
        BY <4>1, <1>11
      <4> QED  BY <3>1, <4>1, <4>2 DEF Members
    <3>4. j < k \/ k < j
      BY <3>1, <1>1
    <3> QED  BY <3>2, <3>3, <3>4
  <2> QED  BY <2>1, <2>2
<1> QED  BY <1>10, <1>13, <1>15

-----------------------------------------------------------------------------
(* The invariant in the terms of these lemmas. *)
LEMMA TableFacts ==
  ASSUME IInv
  PROVE  /\ handler \in [Conns -> Handlers] /\ table \in Seq(Conns)
         /\ Members(table) = Tracked /\ Ordered(table)
         /\ accepted \in Nat /\ dialled \in Nat /\ accepted <= dialled /\ dialled <= N
         /\ N \in Nat /\ MaxClients \in Nat /\ Len(table) \in Nat
         /\ MaxClients > 0 => Len(table) <= MaxClients
<1>1. handler \in [Conns -> Handlers] /\ table \in Seq(Conns) /\ Len(table) \in Nat
  BY DEF IInv, TableType
<1>2. Members(table) = Tracked /\ Ordered(table)
  BY DEF IInv, TableInv, TableExact, Members, Ordered
<1>3. accepted \in Nat /\ dialled \in Nat /\ accepted <= dialled /\ dialled <= N
      /\ N \in Nat /\ MaxClients \in Nat
  BY BoundAssumption DEF IInv, TableInv
<1>4. MaxClients > 0 => Len(table) <= MaxClients
  BY DEF IInv, TableInv, TableExact
<1> QED  BY <1>1, <1>2, <1>3, <1>4

LEMMA TrackedAccepted ==
  ASSUME IInv, NEW d \in Tracked
  PROVE  d \in Conns /\ d \in 1..accepted
<1>1. d \in Conns /\ handler[d] # "off"
  BY DEF Tracked
<1>2. ~(d > accepted)
  BY <1>1 DEF IInv, TableInv
<1> QED  BY <1>1, <1>2, TableFacts DEF Conns

LEMMA AcceptIInv == IInv /\ Accept => IInv'
<1> SUFFICES ASSUME IInv, Accept PROVE IInv'
  OBVIOUS
<1> DEFINE c == accepted + 1
<1>1. /\ c \in Conns /\ c > accepted /\ c \in Nat
      /\ accepted' = c /\ dialled' = dialled /\ c <= dialled
  BY TableFacts DEF Accept, Conns
<1>2. handler' = [handler EXCEPT ![c] = "first"] /\ TrackConn(c)
  BY DEF Accept
<1>3. handler[c] = "off" /\ c \notin evicted
  <2>1. handler[c] = "off"
    BY <1>1 DEF IInv, TableInv
  <2>2. c \notin 1..accepted
    BY TableFacts
  <2> QED  BY <2>1, <2>2 DEF IInv, TableInv
<1>4. \A d \in Members(table) : d < c /\ d # c /\ d \in Conns
  <2> SUFFICES ASSUME NEW d \in Members(table) PROVE d < c /\ d # c /\ d \in Conns
    OBVIOUS
  <2>1. d \in Conns /\ d \in 1..accepted
    BY TableFacts, TrackedAccepted
  <2> QED  BY <2>1, TableFacts
<1>5. \A d \in Conns : d > accepted' <=> d > accepted /\ d # c
  BY <1>1, ConnsAreNumbers, TableFacts
<1>6. 1..accepted \subseteq 1..accepted' /\ accepted' \in 0..dialled' /\ dialled' \in 0..N
  BY <1>1, TableFacts
<1> HIDE DEF c
<1>7. handler' \in [Conns -> Handlers]
  BY <1>2, TableFacts DEF Handlers, Reading
<1>8. \A d \in Conns : handler'[d] = "off" <=> d > accepted'
  <2> TAKE d \in Conns
  <2>1. CASE d = c
    BY <2>1, <1>2, <1>1, <1>5, TableFacts
  <2>2. CASE d # c
    BY <2>2, <1>2, <1>5, TableFacts DEF IInv, TableInv
  <2> QED  BY <2>1, <2>2
<1>9. CASE ~Evicts
  <2>1. table' = Append(table, c) /\ evicted' = evicted
    BY <1>2, <1>9 DEF TrackConn
  <2>2. /\ table' \in Seq(Conns) /\ Len(table') = Len(table) + 1
        /\ Ordered(table') /\ Members(table') = Members(table) \cup {c}
    BY <2>1, <1>1, <1>4, TableFacts, AppendOrdered
  <2>3. Tracked' = Tracked \cup {c}
    BY <2>1, <1>1, <1>2, <1>3, TableFacts DEF Tracked
  <2>4. MaxClients > 0 => Len(table') <= MaxClients
    BY <2>2, <1>9, TableFacts DEF Evicts
  <2>5. TableExact'
    BY <2>2, <2>3, <2>4, TableFacts DEF TableExact, Members, Ordered
  <2>6. evicted' \subseteq 1..accepted'
    BY <2>1, <1>6 DEF IInv, TableInv
  <2> QED  BY <2>2, <2>5, <2>6, <1>6, <1>7, <1>8 DEF IInv, TableType, TableInv
<1>10. CASE Evicts
  <2> DEFINE h == Head(table)
  <2>1. table' = Append(Tail(table), c) /\ evicted' = evicted \cup {h}
    BY <1>2, <1>10 DEF TrackConn
  <2>2. Len(table) > 0 /\ table # << >>
    BY <1>10, TableFacts DEF Evicts
  <2>3. /\ Tail(table) \in Seq(Conns) /\ Len(Tail(table)) = Len(table) - 1
        /\ Ordered(Tail(table)) /\ h \in Members(table)
        /\ Members(Tail(table)) = Members(table) \ {h}
    BY <2>2, TableFacts, TailOrdered
  <2> HIDE DEF h
  <2>4. /\ table' \in Seq(Conns) /\ Len(table') = Len(Tail(table)) + 1
        /\ Ordered(table') /\ Members(table') = (Members(table) \ {h}) \cup {c}
    BY <2>1, <2>3, <1>1, <1>4, AppendOrdered
  <2>5. h \in Tracked /\ h # c
    BY <2>3, <1>4, TableFacts
  <2>6. Tracked' = (Tracked \ {h}) \cup {c}
    BY <2>1, <2>5, <1>1, <1>2, <1>3, TableFacts DEF Tracked
  <2>7. Len(table') = Len(table)
    BY <2>3, <2>4, TableFacts
  <2>8. TableExact'
    BY <2>4, <2>6, <2>7, TableFacts DEF TableExact, Members, Ordered
  <2>9. evicted' \subseteq 1..accepted'
    <3>1. h \in 1..accepted
      BY <2>5, TrackedAccepted
    <3> QED  BY <3>1, <2>1, <1>6 DEF IInv, TableInv
  <2> QED  BY <2>4, <2>8, <2>9, <1>6, <1>7, <1>8 DEF IInv, TableType, TableInv
<1> QED  BY <1>9, <1>10

LEMMA UntrackIInv ==
  ASSUME IInv, NEW c \in Conns, Untrack(c)
  PROVE  IInv'
<1>1. /\ handler[c] = "returned" /\ handler' = [handler EXCEPT ![c] = "ended"]
      /\ UntrackConn(c) /\ UNCHANGED <<dialled, accepted, evicted>>
  BY DEF Untrack
<1>2. handler' \in [Conns -> Handlers]
  BY <1>1, TableFacts DEF Handlers
<1>3. \A d \in Conns : handler'[d] = "off" <=> d > accepted'
  BY <1>1, TableFacts DEF IInv, TableInv
<1>4. Tracked' = Tracked \ {c}
  BY <1>1, TableFacts DEF Tracked
<1>5. /\ table' \in Seq(Conns) /\ Len(table') <= Len(table)
      /\ Ordered(table') /\ Members(table') = Members(table) \ {c}
  <2>1. CASE \E i \in DOMAIN table : table[i] = c
    <3> DEFINE k == Position(c)
    <3>1. k \in DOMAIN table /\ table[k] = c
      BY <2>1 DEF Position
    <3>2. table' = SubSeq(table, 1, k - 1) \o SubSeq(table, k + 1, Len(table))
      BY <2>1, <1>1 DEF UntrackConn
    <3> HIDE DEF k
    <3>3. /\ table' \in Seq(Conns) /\ Len(table') = Len(table) - 1
          /\ Ordered(table') /\ Members(table') = Members(table) \ {c}
      BY <3>1, <3>2, TableFacts, RemoveOrdered
    <3>4. Len(table') <= Len(table)
      BY <3>3, TableFacts
    <3> QED  BY <3>3, <3>4
  <2>2. CASE ~\E i \in DOMAIN table : table[i] = c
    <3>1. table' = table /\ c \notin Members(table)
      BY <2>2, <1>1 DEF UntrackConn, Members
    <3> QED  BY <3>1, TableFacts
  <2> QED  BY <2>1, <2>2
<1>6. MaxClients > 0 => Len(table') <= MaxClients
  <2>1. Len(table') \in Nat
    BY <1>5
  <2> QED  BY <2>1, <1>5, TableFacts
<1>7. TableExact'
  BY <1>4, <1>5, <1>6, TableFacts DEF TableExact, Members, Ordered
<1>8. dialled' \in 0..N /\ accepted' \in 0..dialled' /\ evicted' \subseteq 1..accepted'
  BY <1>1 DEF IInv, TableInv
<1> QED  BY <1>2, <1>3, <1>5, <1>7, <1>8 DEF IInv, TableType, TableInv

-----------------------------------------------------------------------------
LEMMA NextIInv == IInv /\ [Next]_vars => IInv'
<1> SUFFICES ASSUME IInv, [Next]_vars PROVE IInv'
  OBVIOUS
<1>1. CASE UNCHANGED vars
  BY <1>1, StutterIInv DEF vars, tvars
<1>2. CASE Accept
  BY <1>2, AcceptIInv
<1>3. ASSUME NEW c \in Conns,
             \/ \E p \in Profiles[c] : Dial(c, p)
             \/ ClientStep(c) \/ HandlerStep(c)
             \/ Command(c) \/ Disconnect(c) \/ LinkLost(c)
      PROVE  IInv'
  <2>1. CASE \E p \in Profiles[c] : Dial(c, p)
    BY <2>1, DialIInv
  <2>2. CASE ClientStep(c) \/ Command(c) \/ Disconnect(c) \/ LinkLost(c)
    BY <2>2, ClientIInv
  <2>3. CASE HandlerStep(c)
    BY <2>3, HandleIInv, UntrackIInv DEF HandlerStep
  <2> QED  BY <1>3, <2>1, <2>2, <2>3
<1> QED  BY <1>1, <1>2, <1>3 DEF Next

(* The reason why the table stays exact is inductive: TableInv holds in    *)
(* every reachable state, whatever the order of arrivals, evictions and    *)
(* ends of handlers (ListenAndServe, trackConn, untrackConn).              *)
THEOREM TableInductive == Spec => []IInv
<1>1. Init => IInv
  BY InitIInv
<1>2. IInv /\ [Next]_vars => IInv'
  BY NextIInv
<1> QED  BY <1>1, <1>2, PTL DEF Spec

(* activeConns holds exactly the connections whose handler has neither     *)
(* ended nor been evicted, the oldest first, and at most MaxClients        *)
(* (trackConn, untrackConn).                                               *)
THEOREM TableAlwaysExact == Spec => []TableExact
<1>1. IInv => TableExact
  BY DEF IInv, TableInv
<1> QED  BY <1>1, TableInductive, PTL

-----------------------------------------------------------------------------
LEMMA TrackedSize ==
  ASSUME IInv
  PROVE  Cardinality(Tracked) = Len(table)
<1>1. table \in [1..Len(table) -> Tracked]
  <2>1. DOMAIN table = 1..Len(table) /\ table \in [1..Len(table) -> Conns]
    BY TableFacts
  <2>2. \A i \in 1..Len(table) : table[i] \in Tracked
    BY <2>1, TableFacts DEF Members
  <2> QED  BY <2>1, <2>2
<1>2. \A i, j \in 1..Len(table) : table[i] = table[j] => i = j
  <2> SUFFICES ASSUME NEW i \in 1..Len(table), NEW j \in 1..Len(table), i # j
               PROVE  table[i] # table[j]
    OBVIOUS
  <2>1. i \in DOMAIN table /\ j \in DOMAIN table /\ table[i] \in Conns /\ table[j] \in Conns
    BY TableFacts
  <2>2. i < j \/ j < i
    BY TableFacts
  <2>3. table[i] < table[j] \/ table[j] < table[i]
    BY <2>1, <2>2, TableFacts DEF Ordered
  <2> QED  BY <2>1, <2>3, ConnsAreNumbers
<1>3. \A d \in Tracked : \E i \in 1..Len(table) : table[i] = d
  BY TableFacts DEF Members
<1>4. table \in Bijection(1..Len(table), Tracked)
  BY <1>1, <1>2, <1>3, Fun_IsBij
<1>5. ExistsBijection(1..Len(table), Tracked)
  BY <1>4 DEF ExistsBijection
<1>6. IsFiniteSet(1..Len(table)) /\ Cardinality(1..Len(table)) = Len(table)
  <2> DEFINE n == Len(table)
  <2>1. n \in Nat
    BY TableFacts
  <2> HIDE DEF n
  <2>2. IsFiniteSet(1..n) /\ Cardinality(1..n) = n
    <3>1. 1 \in Int /\ n \in Int
      BY <2>1
    <3>2. IsFiniteSet(1..n) /\ Cardinality(1..n) = IF 1 > n THEN 0 ELSE n - 1 + 1
      BY <3>1, FS_Interval, Zenon
    <3> QED  BY <2>1, <3>2
  <2> QED  BY <2>2 DEF n
<1> QED  BY <1>5, <1>6, FS_Bijection

(* Only a full table drops a connection, and it drops the one that was     *)
(* accepted first of those it holds (trackConn).                           *)
THEOREM AlwaysEvictsOldestWhenFull == Spec => EvictsOldestWhenFull
<1> DEFINE Step == \A c \in evicted' \ evicted :
                     Cardinality(Tracked) >= MaxClients /\ \A d \in Tracked : c <= d
<1>1. IInv /\ [Next]_vars => [Step]_vars
  <2> SUFFICES ASSUME IInv, Next, NEW c \in evicted' \ evicted
               PROVE  Cardinality(Tracked) >= MaxClients /\ \A d \in Tracked : c <= d
    OBVIOUS
  <2>1. CASE Accept
    <3>1. Evicts /\ c = Head(table)
      BY <2>1 DEF Accept, TrackConn
    <3>2. table # << >> /\ Len(table) >= MaxClients
      BY <3>1, TableFacts DEF Evicts
    <3>3. \A d \in Tracked : c <= d
      BY <3>1, <3>2, TableFacts, TailOrdered
    <3> QED  BY <3>2, <3>3, TrackedSize
  <2>2. ASSUME NEW d \in Conns,
               \/ \E p \in Profiles[d] : Dial(d, p)
               \/ ClientStep(d) \/ HandlerStep(d)
               \/ Command(d) \/ Disconnect(d) \/ LinkLost(d)
        PROVE  evicted' = evicted
    BY <2>2 DEF Dial, ClientStep, ReadMTU, ReadAuth, ReadNonce, Answered, ClientReadFails,
                HandlerStep, HandleFirst, HandleAuth, HandleNonce, HandleMessage,
                HandlerReadFails, Untrack, Command, Disconnect, LinkLost
  <2> QED  BY <2>1, <2>2 DEF Next
<1> QED  BY <1>1, TableInductive, PTL DEF Spec, EvictsOldestWhenFull
-----------------------------------------------------------------------------
(* The start of a connection.  The types of what it depends on: the table  *)
(* is left out.                                                            *)
Config == [login : Logins, mtu : BOOLEAN, acl : Acls]
Clients == {"off", "up", "closed"} \cup Waiting
Modes == [chunk : Nat, layer : {"plain", "sealed"}]
Frames == [kind : {"mtu", "auth", "ok", "error", "nonce", "request", "answer"},
           layer : {"plain", "sealed", "raw"}, chunk : Nat]

ConnType ==
  /\ hasUsers \in BOOLEAN
  /\ profile \in [Conns -> Config]
  /\ client \in [Conns -> Clients]
  /\ cmode \in [Conns -> Modes] /\ smode \in [Conns -> Modes]
  /\ toServer \in [Conns -> Seq(Frames)] /\ toClient \in [Conns -> Seq(Frames)]
  /\ socket \in [Conns -> {"open", "closing", "closed"}]
  /\ lost \subseteq Conns

Fresh == Mode(DefaultChunkSize, "plain")

(* Nothing has happened on a connection that is not dialled. *)
Untouched(c) ==
  c > dialled => /\ client[c] = "off" /\ toServer[c] = << >> /\ toClient[c] = << >>
                 /\ cmode[c] = Fresh /\ smode[c] = Fresh

(* What a server with users and its clients may send. *)
Upward(p) == {m \in Frames : m.kind # "answer"
                             /\ (m.kind = "request" /\ p.login # "none" => m.layer = "sealed")}
Downward == {m \in Frames : m.kind # "request" /\ (m.kind = "answer" => m.layer = "sealed")}

(* Credentials are awaited only with users.  With them, a client with a    *)
(* name asks only behind its layer, and only the empty password gets a     *)
(* handler into its loop without one.                                      *)
Guarded(c) ==
  /\ handler[c] = "auth" => hasUsers
  /\ hasUsers =>
       /\ toServer[c] \in Seq(Upward(profile[c])) /\ toClient[c] \in Seq(Downward)
       /\ client[c] \in {"up", "asking"} /\ profile[c].login # "none"
            => cmode[c].layer = "sealed"
       /\ handler[c] = "serving" /\ smode[c].layer = "plain" => profile[c].login = "empty"

(* Neither end has given the connection up. *)
Sound(c) ==
  /\ c <= dialled /\ socket[c] = "open" /\ c \notin lost
  /\ client[c] # "closed" /\ handler[c] \notin {"returned", "ended"}

Mine(c) == ComputeChunkSize(profile[c].acl)
Theirs == ComputeChunkSize(ServerAcl)
MTU(n) == Frame("mtu", "plain", n)
Early == {"off", "first"}

(* The chunk sizes: the client's proposal, then the server's, is the only  *)
(* frame in flight until both have settled.                                *)
SizesSettle(c) ==
  IF ~profile[c].mtu
  THEN /\ client[c] # "mtu"
       /\ cmode[c].chunk = DefaultChunkSize /\ smode[c].chunk = DefaultChunkSize
       /\ toServer[c] \in Seq({m \in Frames : m.kind # "mtu"})
  ELSE IF client[c] = "mtu"
  THEN \/ /\ handler[c] \in Early
          /\ toServer[c] = <<MTU(Mine(c))>> /\ toClient[c] = << >>
       \/ /\ handler[c] = IF hasUsers THEN "auth" ELSE "serving"
          /\ toServer[c] = << >> /\ toClient[c] = <<MTU(Theirs)>>
          /\ smode[c].chunk = Agreed(Theirs, Mine(c))
  ELSE /\ handler[c] \notin Early
       /\ cmode[c].chunk = Agreed(Mine(c), Theirs)
       /\ smode[c].chunk = Agreed(Theirs, Mine(c))

(* Without users nothing is encrypted and no credentials are accepted.     *)
OpenServer(c) ==
  /\ cmode[c].layer = "plain" /\ smode[c].layer = "plain"
  /\ handler[c] \notin {"auth", "nonce"} /\ client[c] # "nonce"
  /\ toClient[c] \in Seq({m \in Frames : m.kind # "ok"})

(* With users: where the two ends are, by the credentials of the client.   *)
BeforeLogin(c) ==
  /\ handler[c] \in Early \cup {"auth"}
  /\ smode[c].layer = "plain"

Welcome(c) == IF profile[c].login = "right" THEN <<Plain("ok"), Nonce>> ELSE <<Plain("ok")>>
Promised(c) == IF profile[c].login = "right" THEN <<Nonce>> ELSE << >>
LoggedIn(c) == handler[c] = IF profile[c].login = "right" THEN "nonce" ELSE "serving"

LoginSettles(c) ==
  /\ client[c] \notin {"up", "asking"} => cmode[c].layer = "plain"
  /\ client[c] = "mtu" => BeforeLogin(c)
  /\ profile[c].login = "none" => BeforeLogin(c) /\ client[c] \notin {"auth", "nonce"}
  /\ profile[c].login = "wrong" =>
       /\ BeforeLogin(c) /\ client[c] \in {"mtu", "auth"}
       /\ client[c] = "auth" => toClient[c] = << >>
  /\ profile[c].login \in {"right", "empty"} =>
       /\ client[c] = "auth" =>
            \/ BeforeLogin(c) /\ toServer[c] = <<Plain("auth")>> /\ toClient[c] = << >>
            \/ LoggedIn(c) /\ smode[c].layer = "plain"
               /\ toServer[c] = << >> /\ toClient[c] = Welcome(c)
       /\ client[c] = "nonce" =>
            LoggedIn(c) /\ smode[c].layer = "plain"
            /\ toServer[c] = << >> /\ toClient[c] = Promised(c)
       /\ client[c] \in {"up", "asking"} =>
            /\ profile[c].login = "right" /\ cmode[c].layer = "sealed"
            /\ \/ handler[c] = "nonce" /\ smode[c].layer = "plain"
               \/ handler[c] = "serving" /\ smode[c].layer = "sealed"

Settles(c) ==
  Sound(c) =>
    /\ client[c] # "off"
    /\ SizesSettle(c)
    /\ IF hasUsers THEN LoginSettles(c) ELSE OpenServer(c)


LEMMA ConnFacts ==
  ASSUME IInv
  PROVE  /\ handler \in [Conns -> Handlers]
         /\ accepted \in Nat /\ dialled \in Nat /\ accepted <= dialled /\ dialled <= N
         /\ N \in Nat
         /\ \A c \in Conns : c \in Nat /\ (handler[c] = "off" <=> c > accepted)
<1>1. \A c \in Conns : handler[c] = "off" <=> c > accepted
  BY DEF IInv, TableInv
<1> QED  BY <1>1, TableFacts, ConnsAreNumbers

Good(c) == Untouched(c) /\ Guarded(c) /\ Settles(c)

(* A step elsewhere: at most the connection is closed or its link lost.    *)
Still(d) ==
  /\ hasUsers' = hasUsers /\ (d <= dialled' <=> d <= dialled) /\ (d > dialled' <=> d > dialled)
  /\ profile'[d] = profile[d] /\ client'[d] = client[d] /\ handler'[d] = handler[d]
  /\ cmode'[d] = cmode[d] /\ smode'[d] = smode[d]
  /\ toServer'[d] = toServer[d] /\ toClient'[d] = toClient[d]
  /\ socket'[d] = socket[d] \/ socket'[d] # "open"
  /\ d \in lost => d \in lost'

LEMMA StillGood ==
  ASSUME NEW d \in Conns, Good(d), Still(d)
  PROVE  Good(d)'
<1>1. Untouched(d)'
  BY DEF Good, Still, Untouched
<1>2. Guarded(d)'
  BY DEF Good, Still, Guarded
<1>3. Settles(d)'
  <2>1. Sound(d)' => Sound(d)
    BY DEF Still, Sound
  <2>2. Mine(d)' = Mine(d) /\ Theirs' = Theirs /\ Welcome(d)' = Welcome(d)
        /\ Promised(d)' = Promised(d) /\ LoggedIn(d)' = LoggedIn(d)
        /\ BeforeLogin(d)' = BeforeLogin(d)
    BY DEF Still, Mine, Theirs, Welcome, Promised, LoggedIn, BeforeLogin
  <2>3. SizesSettle(d) => SizesSettle(d)'
    BY <2>2 DEF Still, SizesSettle
  <2>4. LoginSettles(d) => LoginSettles(d)'
    BY <2>2 DEF Still, LoginSettles
  <2>5. OpenServer(d) => OpenServer(d)'
    BY DEF Still, OpenServer
  <2> QED  BY <2>1, <2>3, <2>4, <2>5 DEF Good, Still, Settles
<1> QED  BY <1>1, <1>2, <1>3 DEF Good

LEMMA ShortQueues ==
  ASSUME NEW S, NEW x \in S, NEW y \in S
  PROVE  /\ Head(<<x>>) = x /\ Tail(<<x>>) = << >> /\ <<x>> # << >>
         /\ << >> \o <<x>> = <<x>> /\ Append(<< >>, x) = <<x>>
         /\ Head(<<x, y>>) = x /\ Tail(<<x, y>>) = <<y>> /\ <<x, y>> # << >>
         /\ << >> \o <<x, y>> = <<x, y>>
         /\ << >> \o << >> = << >> /\ <<x>> \o << >> = <<x>>
<1>0. <<x>> \in Seq(S) /\ <<x, y>> \in Seq(S) /\ << >> \in Seq(S) /\ <<y>> \in Seq(S)
  OBVIOUS
<1>1. Head(<<x>>) = x /\ <<x>> # << >>
  BY <1>0
<1>2. Tail(<<x>>) = << >>
  BY <1>0
<1>3. << >> \o <<x>> = <<x>> /\ Append(<< >>, x) = <<x>>
  BY <1>0
<1>4. Head(<<x, y>>) = x /\ <<x, y>> # << >>
  BY <1>0
<1>5. Tail(<<x, y>>) = <<y>>
  BY <1>0
<1>6. << >> \o <<x, y>> = <<x, y>>
  BY <1>0
<1>7. << >> \o << >> = << >> /\ <<x>> \o << >> = <<x>>
  BY <1>0
<1> QED  BY <1>1, <1>2, <1>3, <1>4, <1>5, <1>6, <1>7

LEMMA Queues ==
  ASSUME NEW S, NEW q \in Seq(S)
  PROVE  /\ q # << >> => Head(q) \in S /\ Tail(q) \in Seq(S)
         /\ \A x \in S : Append(q, x) \in Seq(S)
         /\ \A x \in S : <<x>> \in Seq(S) /\ q \o <<x>> \in Seq(S)
         /\ \A x, y \in S : <<x, y>> \in Seq(S) /\ q \o <<x, y>> \in Seq(S)
         /\ \A r \in Seq(S) : q \o r \in Seq(S)
         /\ q \o << >> = q /\ << >> \in Seq(S)
OBVIOUS

LEMMA Bounds ==
  /\ DefaultChunkSize \in Nat /\ MaxChunkSize \in Nat
  /\ 0 < DefaultChunkSize /\ DefaultChunkSize < MaxChunkSize
BY DEF DefaultChunkSize, MaxChunkSize

LEMMA ChunkSizesSane ==
  ASSUME NEW acl \in Acls
  PROVE  ComputeChunkSize(acl) \in ChunkSizes
<1>1. acl[1] \in Nat /\ acl[2] \in Nat
  BY DEF Acls
<1>2. acl[1] * acl[2] \in Nat
  BY <1>1
<1>3. \A n \in Nat : n \div 2 \in Nat
  OBVIOUS
<1> DEFINE p == (acl[1] * acl[2]) \div 2
           q == acl[1] = 0 \/ acl[2] = 0 \/ p < DefaultChunkSize
<1>4. p \in Nat
  BY <1>2, <1>3
<1>5. q => ~(p > MaxChunkSize)
  <2>1. acl[1] = 0 \/ acl[2] = 0 => acl[1] * acl[2] = 0
    BY <1>1
  <2>2. acl[1] = 0 \/ acl[2] = 0 => p = 0
    BY <2>1
  <2> QED  BY <2>2, <1>4, Bounds
<1>6. ComputeChunkSize(acl) = CASE q -> DefaultChunkSize
                                [] p > MaxChunkSize -> MaxChunkSize
                                [] OTHER -> p
  BY DEF ComputeChunkSize
<1>7. ~q => ~(p < DefaultChunkSize)
  OBVIOUS
<1> HIDE DEF p, q
<1>8. CASE q
  BY <1>5, <1>6, <1>8, Bounds DEF ChunkSizes
<1>9. CASE ~q /\ p > MaxChunkSize
  BY <1>6, <1>9, Bounds DEF ChunkSizes
<1>10. CASE ~q /\ ~(p > MaxChunkSize)
  <2>1. ComputeChunkSize(acl) = p
    BY <1>6, <1>10
  <2> QED  BY <2>1, <1>4, <1>7, <1>10, Bounds DEF ChunkSizes
<1> QED  BY <1>8, <1>9, <1>10

LEMMA AgreedIsSmaller ==
  ASSUME NEW a \in ChunkSizes, NEW b \in ChunkSizes
  PROVE  /\ Agreed(a, b) \in {a, b} /\ Agreed(a, b) <= a /\ Agreed(a, b) <= b
         /\ Agreed(a, b) = Agreed(b, a) /\ Agreed(a, b) \in ChunkSizes
<1>1. a \in Nat /\ b \in Nat /\ a > 0 /\ b > 0
  BY Bounds DEF ChunkSizes
<1> QED  BY <1>1 DEF Agreed

-----------------------------------------------------------------------------
(* What a step of connection c leaves: types, the others, and c itself.    *)
Kept(c) ==
  /\ ConnType'
  /\ \A d \in Conns \ {c} : Still(d)
  /\ Good(c)'

Reached(c) == IInv /\ ConnType /\ Good(c)

LEMMA HereType ==
  ASSUME ConnType, NEW c \in Conns
  PROVE  /\ profile[c].login \in Logins /\ profile[c].mtu \in BOOLEAN /\ profile[c].acl \in Acls
         /\ client[c] \in Clients
         /\ cmode[c].chunk \in Nat /\ cmode[c].layer \in {"plain", "sealed"}
         /\ smode[c].chunk \in Nat /\ smode[c].layer \in {"plain", "sealed"}
         /\ toServer[c] \in Seq(Frames) /\ toClient[c] \in Seq(Frames)
BY DEF ConnType, Config, Modes

LEMMA FrameTypes ==
  /\ \A acl \in Acls : MTU(ComputeChunkSize(acl)) \in Frames
  /\ Plain("auth") \in Frames /\ Plain("ok") \in Frames /\ Plain("error") \in Frames
  /\ Nonce \in Frames
  /\ \A l \in {"plain", "sealed", "raw"} : \A k \in {"request", "answer", "error"} :
       Frame(k, l, 0) \in Frames
<1>1. \A acl \in Acls : ComputeChunkSize(acl) \in Nat
  BY ChunkSizesSane, Bounds DEF ChunkSizes
<1> QED  BY <1>1 DEF MTU, Plain, Nonce, Frame, Frames

LEMMA FrameFields ==
  \A k, l, n : Frame(k, l, n).kind = k /\ Frame(k, l, n).layer = l /\ Frame(k, l, n).chunk = n
BY DEF Frame

LEMMA DialKept ==
  ASSUME NEW c \in Conns, Reached(c), NEW p \in Profiles[c], Dial(c, p)
  PROVE  Kept(c)
<1> USE DEF Reached
<1>1. /\ c = dialled + 1 /\ dialled' = c /\ hasUsers' = hasUsers
      /\ profile' = [profile EXCEPT ![c] = p]
      /\ UNCHANGED <<accepted, handler, cmode, smode, toClient, lost, socket>>
  BY DEF Dial
<1>2. p \in Config
  BY ProfilesAssumption DEF Conns, Config
<1>3. handler[c] = "off" /\ c > dialled /\ accepted < c
  BY <1>1, ConnFacts
<1>4. client[c] = "off" /\ toServer[c] = << >> /\ toClient[c] = << >>
      /\ cmode[c] = Fresh /\ smode[c] = Fresh
  BY <1>3 DEF Good, Untouched
<1> DEFINE m == IF p.mtu THEN <<MTU(ComputeChunkSize(p.acl))>>
                ELSE IF p.login = "none" THEN << >> ELSE <<Plain("auth")>>
           k == IF p.mtu THEN "mtu" ELSE IF p.login = "none" THEN "up" ELSE "auth"
<1>5. p.login \in Logins /\ p.acl \in Acls /\ p.mtu \in BOOLEAN
  BY <1>2 DEF Config
<1>6. MTU(ComputeChunkSize(p.acl)) \in Frames /\ Plain("auth") \in Frames
  BY <1>5, FrameTypes
<1>7. client' = [client EXCEPT ![c] = k] /\ toServer' = [toServer EXCEPT ![c] = m]
  <2>1. CASE p.mtu
    <3>1. Append(toServer[c], MTU(ComputeChunkSize(p.acl))) = m
      BY <1>4, <1>6, <2>1, ShortQueues
    <3> QED  BY <2>1, <3>1 DEF Dial, Send, MTU
  <2>2. CASE ~p.mtu
    <3>1. << >> \o (IF p.login = "none" THEN << >> ELSE <<Plain("auth")>>) = m
      BY <1>6, <2>2, ShortQueues
    <3> QED  BY <2>2, <3>1 DEF Dial, LoginOrUp
  <2> QED  BY <2>1, <2>2
<1>8. m \in Seq(Frames) /\ k \in Clients
  BY <1>6, Queues DEF Clients, Waiting, Connecting
<1> HIDE DEF m, k
<1>9. ConnType'
  BY <1>1, <1>2, <1>7, <1>8 DEF ConnType
<1>10. \A d \in Conns \ {c} : Still(d)
  <2> TAKE d \in Conns \ {c}
  <2>1. (d <= dialled' <=> d <= dialled) /\ (d > dialled' <=> d > dialled)
    BY <1>1, ConnFacts
  <2> QED  BY <2>1, <1>1, <1>7 DEF ConnType, Still
<1>11. profile'[c] = p /\ client'[c] = k /\ toServer'[c] = m /\ toClient'[c] = << >>
       /\ cmode'[c] = Fresh /\ smode'[c] = Fresh /\ handler'[c] = "off" /\ c <= dialled'
  BY <1>1, <1>3, <1>4, <1>7, ConnFacts DEF ConnType
<1>12. Untouched(c)'
  BY <1>11, ConnFacts, <1>1 DEF Untouched
<1>13. /\ m \in Seq(Upward(p))
       /\ << >> \in Seq(Downward) /\ << >> \in Seq({f \in Frames : f.kind # "ok"})
       /\ ~p.mtu => m \in Seq({f \in Frames : f.kind # "mtu"})
  <2>1. MTU(ComputeChunkSize(p.acl)) \in Upward(p) /\ Plain("auth") \in Upward(p)
        /\ Plain("auth") \in {f \in Frames : f.kind # "mtu"}
    BY <1>6, FrameFields DEF MTU, Plain, Upward
  <2>2. m \in Seq(Upward(p)) /\ << >> \in Seq(Downward)
    BY <2>1 DEF m
  <2>3. ~p.mtu => m \in Seq({f \in Frames : f.kind # "mtu"})
    <3>1. ~p.mtu => m = << >> \/ m = <<Plain("auth")>>
      BY DEF m
    <3>2. << >> \in Seq({f \in Frames : f.kind # "mtu"})
          /\ <<Plain("auth")>> \in Seq({f \in Frames : f.kind # "mtu"})
      BY <2>1
    <3> QED  BY <3>1, <3>2
  <2>4. << >> \in Seq({f \in Frames : f.kind # "ok"})
    OBVIOUS
  <2> QED  BY <2>2, <2>3, <2>4
<1>14. Fresh.chunk = DefaultChunkSize /\ Fresh.layer = "plain"
  BY DEF Fresh, Mode
<1>15. Guarded(c)'
  BY <1>11, <1>13 DEF Guarded, k
<1>16. Settles(c)'
  <2>1. Mine(c)' = ComputeChunkSize(p.acl)
    BY <1>11 DEF Mine
  <2>2. SizesSettle(c)'
    BY <1>5, <1>11, <1>13, <1>14, <2>1 DEF SizesSettle, m, k, Early
  <2>3. hasUsers => LoginSettles(c)'
    <3>1. BeforeLogin(c)'
      BY <1>11, <1>14 DEF BeforeLogin, Early
    <3> QED  BY <3>1, <1>5, <1>11, <1>14 DEF LoginSettles, m, k, Logins
  <2>4. OpenServer(c)'
    BY <1>11, <1>13, <1>14 DEF OpenServer, k
  <2>5. k # "off"
    BY DEF k
  <2> QED  BY <1>1, <1>11, <2>2, <2>3, <2>4, <2>5 DEF Settles
<1> QED  BY <1>9, <1>10, <1>12, <1>15, <1>16 DEF Kept, Good

LEMMA ReadMTUKept ==
  ASSUME NEW c \in Conns, Reached(c), ReadMTU(c)
  PROVE  Kept(c)
<1> USE DEF Reached
<1> DEFINE p == profile[c]
           m == Head(toClient[c])
           n == IF m.kind = "mtu" THEN Agreed(Mine(c), m.chunk) ELSE DefaultChunkSize
           k == IF p.login = "none" THEN "up" ELSE "auth"
           q == toServer[c] \o IF p.login = "none" THEN << >> ELSE <<Plain("auth")>>
<1>1. /\ client[c] = "mtu" /\ toClient[c] # << >>
      /\ cmode' = [cmode EXCEPT ![c].chunk = n]
      /\ client' = [client EXCEPT ![c] = k] /\ toServer' = [toServer EXCEPT ![c] = q]
      /\ toClient' = [toClient EXCEPT ![c] = Tail(@)]
      /\ UNCHANGED <<hasUsers, dialled, accepted, profile, handler, smode, lost, socket>>
  BY DEF ReadMTU, LoginOrUp, Take, Mine
<1>2. m \in Frames /\ Tail(toClient[c]) \in Seq(Frames) /\ toServer[c] \in Seq(Frames)
      /\ p.login \in Logins /\ p.acl \in Acls /\ p.mtu \in BOOLEAN
  BY <1>1, HereType, Queues
<1>3. n \in Nat
  BY <1>2, ChunkSizesSane, Bounds DEF Mine, Agreed, ChunkSizes, Frames
<1>4. q \in Seq(Frames) /\ k \in Clients
  BY <1>2, FrameTypes, Queues DEF Clients, Waiting, Connecting
<1>5. profile'[c] = p /\ client'[c] = k /\ toServer'[c] = q /\ toClient'[c] = Tail(toClient[c])
      /\ cmode'[c].chunk = n /\ cmode'[c].layer = cmode[c].layer /\ smode'[c] = smode[c]
      /\ handler'[c] = handler[c]
  BY <1>1 DEF ConnType, Modes
<1>6. hasUsers => /\ q \in Seq(Upward(p)) /\ Tail(toClient[c]) \in Seq(Downward)
  <2>1. Plain("auth") \in Upward(p)
    BY FrameTypes, FrameFields DEF Upward, Plain
  <2>2. hasUsers => toServer[c] \in Seq(Upward(p)) /\ toClient[c] \in Seq(Downward)
    BY DEF Good, Guarded
  <2> QED  BY <1>1, <2>1, <2>2, Queues
<1>7. Sound(c) => /\ p.mtu /\ toServer[c] = << >> /\ toClient[c] = <<MTU(Theirs)>>
                  /\ handler[c] = (IF hasUsers THEN "auth" ELSE "serving")
                  /\ smode[c].chunk = Agreed(Theirs, Mine(c))
                  /\ IF hasUsers THEN LoginSettles(c) ELSE OpenServer(c)
  BY <1>1, <1>2 DEF Good, Settles, SizesSettle
<1>8. Sound(c) => /\ Tail(toClient[c]) = << >> /\ n = Agreed(Mine(c), Theirs)
                  /\ q = IF p.login = "none" THEN << >> ELSE <<Plain("auth")>>
  <2>1. MTU(Theirs) \in Frames /\ Plain("auth") \in Frames
        /\ MTU(Theirs).kind = "mtu" /\ MTU(Theirs).chunk = Theirs
    BY FrameTypes, FrameFields, ServerAclAssumption DEF MTU, Theirs
  <2>2. Head(<<MTU(Theirs)>>) = MTU(Theirs) /\ Tail(<<MTU(Theirs)>>) = << >>
        /\ << >> \o << >> = << >> /\ << >> \o <<Plain("auth")>> = <<Plain("auth")>>
    BY <2>1, ShortQueues
  <2>3. Sound(c) => m = MTU(Theirs) /\ Tail(toClient[c]) = << >>
    BY <1>7, <2>2
  <2>4. Sound(c) => n = Agreed(Mine(c), Theirs)
    BY <2>1, <2>3
  <2>5. Sound(c) => q = IF p.login = "none" THEN << >> ELSE <<Plain("auth")>>
    BY <1>7, <2>2
  <2> QED  BY <2>3, <2>4, <2>5
<1> HIDE DEF n, k, q, m
<1>9. ConnType'
  BY <1>1, <1>2, <1>3, <1>4 DEF ConnType, Modes
<1>10. \A d \in Conns \ {c} : Still(d)
  BY <1>1 DEF ConnType, Modes, Still
<1>11. Untouched(c)'
  BY <1>1 DEF Good, Untouched
<1>12. Guarded(c)'
  BY <1>1, <1>5, <1>6 DEF Good, Guarded, k
<1>13. Settles(c)'
  <2> SUFFICES ASSUME Sound(c)'
               PROVE  /\ client'[c] # "off" /\ SizesSettle(c)'
                      /\ IF hasUsers THEN LoginSettles(c)' ELSE OpenServer(c)'
    BY <1>1 DEF Settles
  <2>1. Sound(c)
    BY <1>1, <1>5 DEF Sound
  <2>2. Mine(c)' = Mine(c) /\ Theirs' = Theirs /\ hasUsers' = hasUsers /\ k # "off" /\ k # "mtu"
    BY <1>1, <1>5 DEF Mine, Theirs, k
  <2>3. SizesSettle(c)'
    BY <2>1, <2>2, <1>5, <1>7, <1>8 DEF SizesSettle, Early
  <2>4. CASE hasUsers
    <3>1. LoginSettles(c)
      BY <1>7, <2>1, <2>4
    <3>2. BeforeLogin(c)'
      BY <1>1, <1>5, <3>1 DEF LoginSettles, BeforeLogin
    <3>3. cmode[c].layer = "plain"
      BY <1>1, <3>1 DEF LoginSettles
    <3>4. LoginSettles(c)'
      BY <3>2, <3>3, <1>2, <1>5, <1>8, <2>1 DEF LoginSettles, k, Logins
    <3> QED  BY <1>5, <2>2, <2>3, <2>4, <3>4
  <2>5. CASE ~hasUsers
    <3>1. << >> \in Seq({f \in Frames : f.kind # "ok"})
      OBVIOUS
    <3>2. OpenServer(c)'
      BY <2>1, <2>5, <3>1, <1>5, <1>7, <1>8 DEF OpenServer, k
    <3> QED  BY <1>5, <2>2, <2>3, <2>5, <3>2
  <2> QED  BY <2>4, <2>5
<1> QED  BY <1>9, <1>10, <1>11, <1>12, <1>13 DEF Kept, Good

LEMMA ReadAuthKept ==
  ASSUME NEW c \in Conns, Reached(c), ReadAuth(c)
  PROVE  Kept(c)
<1> USE DEF Reached
<1> DEFINE m == Head(toClient[c])
           k == IF m.kind = "ok" THEN "nonce" ELSE "closed"
<1>1. /\ client[c] = "auth" /\ toClient[c] # << >>
      /\ client' = [client EXCEPT ![c] = k]
      /\ toClient' = [toClient EXCEPT ![c] = Tail(@)]
      /\ UNCHANGED <<hasUsers, dialled, accepted, profile, cmode, handler, smode,
                     toServer, lost, socket>>
  BY DEF ReadAuth, Take
<1>2. m \in Frames /\ Tail(toClient[c]) \in Seq(Frames) /\ k \in Clients
      /\ profile[c].login \in Logins
  BY <1>1, HereType, Queues DEF Clients, Waiting, Connecting
<1>3. /\ profile'[c] = profile[c] /\ client'[c] = k /\ toServer'[c] = toServer[c]
      /\ toClient'[c] = Tail(toClient[c])
      /\ cmode'[c] = cmode[c] /\ smode'[c] = smode[c] /\ handler'[c] = handler[c]
  BY <1>1 DEF ConnType
<1>4. hasUsers => Tail(toClient[c]) \in Seq(Downward)
  <2>1. hasUsers => toClient[c] \in Seq(Downward)
    BY DEF Good, Guarded
  <2> QED  BY <1>1, <2>1, Queues
<1>5. ~hasUsers /\ Sound(c) => k = "closed"
  <2>1. ~hasUsers /\ Sound(c) => toClient[c] \in Seq({f \in Frames : f.kind # "ok"})
    BY DEF Good, Settles, OpenServer
  <2>2. ~hasUsers /\ Sound(c) => m \in {f \in Frames : f.kind # "ok"}
    BY <1>1, <2>1, Queues
  <2> QED  BY <2>2
<1>6. /\ Welcome(c) = << >> \/ Tail(Welcome(c)) = Promised(c)
  BY ShortQueues, FrameTypes DEF Welcome, Promised
<1> HIDE DEF k, m
<1>7. ConnType'
  BY <1>1, <1>2 DEF ConnType
<1>8. \A d \in Conns \ {c} : Still(d)
  BY <1>1 DEF ConnType, Still
<1>9. Untouched(c)'
  BY <1>1 DEF Good, Untouched
<1>10. Guarded(c)'
  BY <1>1, <1>3, <1>4 DEF Good, Guarded, k
<1>11. Settles(c)'
  <2> SUFFICES ASSUME Sound(c)'
               PROVE  /\ client'[c] # "off" /\ SizesSettle(c)'
                      /\ IF hasUsers THEN LoginSettles(c)' ELSE OpenServer(c)'
    BY <1>1 DEF Settles
  <2>1. Sound(c) /\ k = "nonce" /\ hasUsers
    BY <1>1, <1>3, <1>5 DEF Sound, k
  <2>2. SizesSettle(c) /\ LoginSettles(c)
    BY <2>1 DEF Good, Settles
  <2>3. Mine(c)' = Mine(c) /\ Theirs' = Theirs /\ Promised(c)' = Promised(c)
        /\ LoggedIn(c)' = LoggedIn(c)
    BY <1>3 DEF Mine, Theirs, Promised, LoggedIn
  <2>4. SizesSettle(c)'
    BY <2>1, <2>2, <2>3, <1>1, <1>3 DEF SizesSettle
  <2>5. profile[c].login \in {"right", "empty"}
    BY <1>1, <1>2, <2>2 DEF LoginSettles, Logins
  <2>6. /\ LoggedIn(c) /\ smode[c].layer = "plain" /\ toServer[c] = << >>
        /\ toClient[c] = Welcome(c) /\ cmode[c].layer = "plain"
    BY <1>1, <2>2, <2>5 DEF LoginSettles
  <2>7. LoginSettles(c)'
    BY <1>1, <1>3, <1>6, <2>1, <2>3, <2>5, <2>6 DEF LoginSettles
  <2> QED  BY <1>3, <2>1, <2>4, <2>7
<1> QED  BY <1>7, <1>8, <1>9, <1>10, <1>11 DEF Kept, Good

LEMMA ReadNonceKept ==
  ASSUME NEW c \in Conns, Reached(c), ReadNonce(c)
  PROVE  Kept(c)
<1> USE DEF Reached
<1>1. /\ client[c] = "nonce" /\ toClient[c] # << >>
      /\ client' = [client EXCEPT ![c] = "up"]
      /\ cmode' = [cmode EXCEPT ![c].layer = "sealed"]
      /\ toServer' = [toServer EXCEPT ![c] = Append(@, Nonce)]
      /\ toClient' = [toClient EXCEPT ![c] = Tail(@)]
      /\ UNCHANGED <<hasUsers, dialled, accepted, profile, handler, smode, lost, socket>>
  BY DEF ReadNonce, Take, Send
<1>2. /\ Tail(toClient[c]) \in Seq(Frames) /\ Append(toServer[c], Nonce) \in Seq(Frames)
      /\ profile[c].login \in Logins
  BY <1>1, HereType, Queues, FrameTypes
<1>3. /\ profile'[c] = profile[c] /\ client'[c] = "up"
      /\ toServer'[c] = Append(toServer[c], Nonce) /\ toClient'[c] = Tail(toClient[c])
      /\ cmode'[c].chunk = cmode[c].chunk /\ cmode'[c].layer = "sealed"
      /\ smode'[c] = smode[c] /\ handler'[c] = handler[c]
  BY <1>1 DEF ConnType, Modes
<1>4. hasUsers => /\ Tail(toClient[c]) \in Seq(Downward)
                  /\ Append(toServer[c], Nonce) \in Seq(Upward(profile[c]))
  <2>1. Nonce \in Upward(profile[c])
    BY FrameTypes, FrameFields DEF Upward, Nonce
  <2>2. hasUsers => toServer[c] \in Seq(Upward(profile[c])) /\ toClient[c] \in Seq(Downward)
    BY DEF Good, Guarded
  <2> QED  BY <1>1, <2>1, <2>2, Queues
<1>5. ConnType'
  BY <1>1, <1>2 DEF ConnType, Modes, Clients
<1>6. \A d \in Conns \ {c} : Still(d)
  BY <1>1 DEF ConnType, Modes, Still
<1>7. Untouched(c)'
  BY <1>1 DEF Good, Untouched
<1>8. Guarded(c)'
  BY <1>1, <1>3, <1>4 DEF Good, Guarded
<1>9. Settles(c)'
  <2> SUFFICES ASSUME Sound(c)'
               PROVE  /\ client'[c] # "off" /\ SizesSettle(c)'
                      /\ IF hasUsers THEN LoginSettles(c)' ELSE OpenServer(c)'
    BY <1>1 DEF Settles
  <2>1. Sound(c)
    BY <1>1, <1>3 DEF Sound
  <2>2. SizesSettle(c) /\ hasUsers /\ LoginSettles(c)
    BY <1>1, <2>1 DEF Good, Settles, OpenServer
  <2>3. Mine(c)' = Mine(c) /\ Theirs' = Theirs
    BY <1>3 DEF Mine, Theirs
  <2>4. profile[c].login = "right" /\ handler[c] = "nonce" /\ smode[c].layer = "plain"
    BY <1>1, <1>2, <2>2 DEF LoginSettles, Logins, LoggedIn, Promised, BeforeLogin
  <2>5. SizesSettle(c)'
    <3>1. Nonce \in {f \in Frames : f.kind # "mtu"}
      BY FrameTypes, FrameFields DEF Nonce
    <3>2. toServer[c] \in Seq({f \in Frames : f.kind # "mtu"})
            => Append(toServer[c], Nonce) \in Seq({f \in Frames : f.kind # "mtu"})
      BY <3>1, Queues
    <3> QED  BY <2>2, <2>3, <3>2, <1>1, <1>3 DEF SizesSettle
  <2>6. LoginSettles(c)'
    BY <1>3, <2>4 DEF LoginSettles
  <2> QED  BY <1>3, <2>2, <2>5, <2>6
<1> QED  BY <1>5, <1>6, <1>7, <1>8, <1>9 DEF Kept, Good

LEMMA CommandKept ==
  ASSUME NEW c \in Conns, Reached(c), Command(c)
  PROVE  Kept(c)
<1> USE DEF Reached
<1> DEFINE m == Frame("request", cmode[c].layer, 0)
<1>1. /\ client[c] = "up"
      /\ client' = [client EXCEPT ![c] = "asking"]
      /\ toServer' = [toServer EXCEPT ![c] = Append(@, m)]
      /\ UNCHANGED <<hasUsers, dialled, accepted, profile, handler, cmode, smode, toClient,
                     lost, socket>>
  BY DEF Command, Send
<1>2. m \in Frames /\ m.kind = "request" /\ m.layer = cmode[c].layer
      /\ profile[c].login \in Logins
  BY HereType, FrameTypes, FrameFields
<1> HIDE DEF m
<1>3. Append(toServer[c], m) \in Seq(Frames)
  BY <1>2, HereType, Queues
<1>4. /\ profile'[c] = profile[c] /\ client'[c] = "asking"
      /\ toServer'[c] = Append(toServer[c], m) /\ toClient'[c] = toClient[c]
      /\ cmode'[c] = cmode[c] /\ smode'[c] = smode[c] /\ handler'[c] = handler[c]
  BY <1>1 DEF ConnType
<1>5. hasUsers => Append(toServer[c], m) \in Seq(Upward(profile[c]))
  <2>1. hasUsers => m \in Upward(profile[c])
    BY <1>1, <1>2 DEF Good, Guarded, Upward
  <2>2. hasUsers => toServer[c] \in Seq(Upward(profile[c]))
    BY DEF Good, Guarded
  <2> QED  BY <2>1, <2>2, Queues
<1>6. ConnType'
  BY <1>1, <1>3 DEF ConnType, Clients, Waiting
<1>7. \A d \in Conns \ {c} : Still(d)
  BY <1>1 DEF ConnType, Still
<1>8. Untouched(c)'
  BY <1>1 DEF Good, Untouched
<1>9. Guarded(c)'
  BY <1>1, <1>4, <1>5 DEF Good, Guarded
<1>10. Settles(c)'
  <2> SUFFICES ASSUME Sound(c)'
               PROVE  /\ client'[c] # "off" /\ SizesSettle(c)'
                      /\ IF hasUsers THEN LoginSettles(c)' ELSE OpenServer(c)'
    BY <1>1 DEF Settles
  <2>1. Sound(c)
    BY <1>1, <1>4 DEF Sound
  <2>2. SizesSettle(c) /\ IF hasUsers THEN LoginSettles(c) ELSE OpenServer(c)
    BY <2>1 DEF Good, Settles
  <2>3. Mine(c)' = Mine(c) /\ Theirs' = Theirs
    BY <1>4 DEF Mine, Theirs
  <2>4. SizesSettle(c)'
    <3>1. m \in {f \in Frames : f.kind # "mtu"}
      BY <1>2
    <3>2. toServer[c] \in Seq({f \in Frames : f.kind # "mtu"})
            => Append(toServer[c], m) \in Seq({f \in Frames : f.kind # "mtu"})
      BY <3>1, Queues
    <3> QED  BY <2>2, <2>3, <3>2, <1>1, <1>4 DEF SizesSettle
  <2>5. BeforeLogin(c)' <=> BeforeLogin(c)
    BY <1>4 DEF BeforeLogin
  <2>6. LoginSettles(c) => LoginSettles(c)'
    BY <1>1, <1>4, <2>5 DEF LoginSettles
  <2>7. OpenServer(c) => OpenServer(c)'
    BY <1>4 DEF OpenServer
  <2> QED  BY <1>4, <2>2, <2>4, <2>6, <2>7
<1> QED  BY <1>6, <1>7, <1>8, <1>9, <1>10 DEF Kept, Good

LEMMA AnsweredKept ==
  ASSUME NEW c \in Conns, Reached(c), Answered(c)
  PROVE  Kept(c)
<1> USE DEF Reached
<1>1. /\ client[c] = "asking" /\ toClient[c] # << >>
      /\ client' = [client EXCEPT ![c] = "up"]
      /\ toClient' = [toClient EXCEPT ![c] = Tail(@)]
      /\ UNCHANGED <<hasUsers, dialled, accepted, profile, handler, cmode, smode, toServer,
                     lost, socket>>
  BY DEF Answered, Take
<1>2. Tail(toClient[c]) \in Seq(Frames)
  BY <1>1, HereType, Queues
<1>3. /\ profile'[c] = profile[c] /\ client'[c] = "up"
      /\ toServer'[c] = toServer[c] /\ toClient'[c] = Tail(toClient[c])
      /\ cmode'[c] = cmode[c] /\ smode'[c] = smode[c] /\ handler'[c] = handler[c]
  BY <1>1 DEF ConnType
<1>4. hasUsers => Tail(toClient[c]) \in Seq(Downward)
  <2>1. hasUsers => toClient[c] \in Seq(Downward)
    BY DEF Good, Guarded
  <2> QED  BY <1>1, <2>1, Queues
<1>5. ConnType'
  BY <1>1, <1>2 DEF ConnType, Clients
<1>6. \A d \in Conns \ {c} : Still(d)
  BY <1>1 DEF ConnType, Still
<1>7. Untouched(c)'
  BY <1>1 DEF Good, Untouched
<1>8. Guarded(c)'
  BY <1>1, <1>3, <1>4 DEF Good, Guarded
<1>9. Settles(c)'
  <2> SUFFICES ASSUME Sound(c)'
               PROVE  /\ client'[c] # "off" /\ SizesSettle(c)'
                      /\ IF hasUsers THEN LoginSettles(c)' ELSE OpenServer(c)'
    BY <1>1 DEF Settles
  <2>1. Sound(c)
    BY <1>1, <1>3 DEF Sound
  <2>2. SizesSettle(c) /\ IF hasUsers THEN LoginSettles(c) ELSE OpenServer(c)
    BY <2>1 DEF Good, Settles
  <2>3. Mine(c)' = Mine(c) /\ Theirs' = Theirs /\ (BeforeLogin(c)' <=> BeforeLogin(c))
    BY <1>3 DEF Mine, Theirs, BeforeLogin
  <2>4. SizesSettle(c)'
    BY <2>2, <2>3, <1>1, <1>3 DEF SizesSettle
  <2>5. LoginSettles(c) => LoginSettles(c)'
    BY <1>1, <1>3, <2>3 DEF LoginSettles
  <2>6. OpenServer(c) => OpenServer(c)'
    <3>1. toClient[c] \in Seq({f \in Frames : f.kind # "ok"})
            => Tail(toClient[c]) \in Seq({f \in Frames : f.kind # "ok"})
      BY <1>1, Queues
    <3> QED  BY <1>3, <3>1 DEF OpenServer
  <2> QED  BY <1>3, <2>2, <2>4, <2>5, <2>6
<1> QED  BY <1>5, <1>6, <1>7, <1>8, <1>9 DEF Kept, Good

(* The steps after which the connection is not sound, or that leave all of *)
(* it but the layers and queues alone.                                     *)
LEMMA GivenUpKept ==
  ASSUME NEW c \in Conns, Reached(c), NEW k \in Clients,
         client' = [client EXCEPT ![c] = k], client[c] \notin {"off", "closed"},
         UNCHANGED <<hasUsers, dialled, accepted, profile, handler, cmode, smode, net, socket>>,
         ~Sound(c) \/ k = "closed",
         k \in {"up", "asking"} => profile[c].login = "none"
  PROVE  Kept(c)
<1> USE DEF Reached
<1>1. /\ profile'[c] = profile[c] /\ client'[c] = k
      /\ toServer'[c] = toServer[c] /\ toClient'[c] = toClient[c]
      /\ cmode'[c] = cmode[c] /\ smode'[c] = smode[c] /\ handler'[c] = handler[c]
  BY DEF ConnType, net
<1>2. ConnType'
  BY DEF ConnType, net
<1>3. \A d \in Conns \ {c} : Still(d)
  BY DEF ConnType, Still, net
<1>4. Untouched(c)'
  BY DEF Good, Untouched
<1>5. Guarded(c)'
  BY <1>1 DEF Good, Guarded
<1>6. Settles(c)'
  <2>1. ~Sound(c)'
    BY <1>1 DEF Sound, net
  <2> QED  BY <2>1 DEF Settles
<1> QED  BY <1>2, <1>3, <1>4, <1>5, <1>6 DEF Kept, Good

LEMMA DisconnectKept ==
  ASSUME NEW c \in Conns, Reached(c), Disconnect(c)
  PROVE  Kept(c)
BY GivenUpKept DEF Disconnect, Clients, net

LEMMA ClientReadFailsKept ==
  ASSUME NEW c \in Conns, Reached(c), ClientReadFails(c)
  PROVE  Kept(c)
<1> DEFINE k == IF client[c] = "mtu" /\ profile[c].login = "none" THEN "up" ELSE "closed"
<1>1. client' = [client EXCEPT ![c] = k] /\ client[c] \notin {"off", "closed"}
      /\ ~Sound(c)
      /\ UNCHANGED <<hasUsers, dialled, accepted, profile, handler, cmode, smode, net, socket>>
  BY DEF ClientReadFails, Waiting, Connecting, Sound
<1>2. k \in Clients /\ (k \in {"up", "asking"} => profile[c].login = "none")
  BY DEF Clients
<1> HIDE DEF k
<1> QED  BY <1>1, <1>2, GivenUpKept

LEMMA LinkLostKept ==
  ASSUME NEW c \in Conns, Reached(c), LinkLost(c)
  PROVE  Kept(c)
<1> USE DEF Reached
<1>1. /\ c <= dialled /\ lost' = lost \cup {c}
      /\ toServer' = [toServer EXCEPT ![c] = << >>]
      /\ toClient' = [toClient EXCEPT ![c] = << >>]
      /\ UNCHANGED <<hasUsers, dialled, accepted, profile, client, handler, cmode, smode,
                     socket>>
  BY DEF LinkLost
<1>2. /\ profile'[c] = profile[c] /\ client'[c] = client[c]
      /\ toServer'[c] = << >> /\ toClient'[c] = << >>
      /\ cmode'[c] = cmode[c] /\ smode'[c] = smode[c] /\ handler'[c] = handler[c]
  BY <1>1 DEF ConnType
<1>3. \A S : << >> \in Seq(S)
  OBVIOUS
<1>4. ConnType'
  BY <1>1, <1>3 DEF ConnType
<1>5. \A d \in Conns \ {c} : Still(d)
  BY <1>1 DEF ConnType, Still
<1>6. Untouched(c)'
  BY <1>1, <1>2 DEF Good, Untouched
<1>7. Guarded(c)'
  BY <1>1, <1>2, <1>3 DEF Good, Guarded
<1>8. Settles(c)'
  BY <1>1 DEF Settles, Sound
<1> QED  BY <1>4, <1>5, <1>6, <1>7, <1>8 DEF Kept, Good

(* A handler reads a frame, sends q, and goes on to h in mode sm. *)
Replied(c, q, h, sm) ==
  /\ handler[c] \in Reading /\ socket[c] = "open" /\ toServer[c] # << >>
  /\ Reply(c, q) /\ Goes(c, h)
  /\ smode' = [smode EXCEPT ![c] = sm]
  /\ UNCHANGED <<hasUsers, dialled, accepted, profile, client, cmode, lost>>

LEMMA RepliedFrame ==
  ASSUME NEW c \in Conns, Reached(c), NEW q \in Seq(Frames), NEW h \in Reading \cup {"returned"},
         NEW sm \in Modes, Replied(c, q, h, sm), h = "auth" => hasUsers,
         hasUsers => /\ q \in Seq(Downward)
                     /\ h = "serving" /\ sm.layer = "plain" => profile[c].login = "empty"
  PROVE  /\ ConnType' /\ (\A d \in Conns \ {c} : Still(d)) /\ Untouched(c)' /\ Guarded(c)'
         /\ h = "returned" => Settles(c)'
         /\ Sound(c)' => Sound(c)
         /\ hasUsers' = hasUsers /\ handler'[c] = h /\ smode'[c] = sm
         /\ profile'[c] = profile[c] /\ client'[c] = client[c] /\ cmode'[c] = cmode[c]
         /\ toServer'[c] = Tail(toServer[c]) /\ toClient'[c] = toClient[c] \o q
<1> USE DEF Reached
<1>1. /\ handler[c] # "off" /\ handler[c] \notin {"returned", "ended"} /\ toServer[c] # << >>
      /\ toServer' = [toServer EXCEPT ![c] = Tail(@)]
      /\ toClient' = [toClient EXCEPT ![c] = @ \o q]
      /\ handler' = [handler EXCEPT ![c] = h]
      /\ smode' = [smode EXCEPT ![c] = sm]
      /\ UNCHANGED <<hasUsers, dialled, accepted, profile, client, cmode, lost>>
  BY DEF Replied, Reply, Goes, Reading
<1>2. socket' = [socket EXCEPT ![c] = "closed"] \/ socket' = socket
  BY DEF Replied, Goes
<1>3. h = "returned" => ~Sound(c)'
  BY <1>1, ConnFacts DEF Sound
<1>4. Tail(toServer[c]) \in Seq(Frames) /\ toClient[c] \o q \in Seq(Frames)
  BY <1>1, HereType, Queues
<1>5. /\ handler'[c] = h /\ smode'[c] = sm
      /\ profile'[c] = profile[c] /\ client'[c] = client[c] /\ cmode'[c] = cmode[c]
      /\ toServer'[c] = Tail(toServer[c]) /\ toClient'[c] = toClient[c] \o q
  BY <1>1, ConnFacts DEF ConnType
<1>6. ConnType'
  BY <1>1, <1>2, <1>4 DEF ConnType
<1>7. \A d \in Conns \ {c} : Still(d)
  BY <1>1, <1>2, ConnFacts DEF ConnType, Still
<1>8. Untouched(c)'
  <2>1. ~(c > dialled)
    BY <1>1, ConnFacts
  <2> QED  BY <2>1, <1>1 DEF Untouched
<1>9. Guarded(c)'
  <2>1. hasUsers => Tail(toServer[c]) \in Seq(Upward(profile[c]))
                    /\ toClient[c] \o q \in Seq(Downward)
    <3>1. hasUsers => toServer[c] \in Seq(Upward(profile[c])) /\ toClient[c] \in Seq(Downward)
      BY DEF Good, Guarded
    <3> QED  BY <3>1, <1>1, Queues
  <2> QED  BY <2>1, <1>1, <1>5 DEF Good, Guarded
<1>10. Sound(c)' => Sound(c)
  BY <1>1, <1>2, <1>5 DEF Sound, ConnType
<1> QED  BY <1>1, <1>3, <1>5, <1>6, <1>7, <1>8, <1>9, <1>10 DEF Settles

LEMMA SameMode ==
  ASSUME ConnType, NEW c \in Conns, UNCHANGED smode
  PROVE  smode' = [smode EXCEPT ![c] = smode[c]] /\ smode[c] \in Modes
BY DEF ConnType

LEMMA AuthenticateKept ==
  ASSUME NEW c \in Conns, Reached(c), hasUsers,
         handler[c] \in {"first", "auth"}, socket[c] = "open", toServer[c] # << >>,
         handler[c] = "first" => Incoming(c).kind # "mtu",
         Authenticate(c, Incoming(c)),
         UNCHANGED <<hasUsers, dialled, accepted, profile, client, cmode, lost>>
  PROVE  Kept(c)
<1> USE DEF Reached
<1> DEFINE in == Incoming(c).kind = "auth" /\ profile[c].login \in {"right", "empty"}
           q == IF in THEN Welcome(c) ELSE <<Plain("error")>>
           h == IF ~in THEN "returned" ELSE IF profile[c].login = "right" THEN "nonce"
                ELSE "serving"
<1>1. q \in Seq(Frames) /\ q \in Seq(Downward) /\ h \in Reading \cup {"returned"}
  <2>1. /\ Plain("ok") \in Frames /\ Plain("error") \in Frames /\ Nonce \in Frames
        /\ Plain("ok") \in Downward /\ Plain("error") \in Downward /\ Nonce \in Downward
    BY FrameTypes, FrameFields DEF Downward, Plain, Nonce
  <2>2. q = <<Plain("ok"), Nonce>> \/ q = <<Plain("ok")>> \/ q = <<Plain("error")>>
    BY DEF Welcome
  <2>3. h \in Reading \cup {"returned"}
    BY DEF Reading
  <2>4. << >> \in Seq(Frames) /\ << >> \in Seq(Downward)
    OBVIOUS
  <2>5. /\ <<Plain("ok"), Nonce>> \in Seq(Frames) /\ <<Plain("ok")>> \in Seq(Frames)
        /\ <<Plain("error")>> \in Seq(Frames)
    BY <2>1, <2>4, Queues
  <2>6. /\ <<Plain("ok"), Nonce>> \in Seq(Downward) /\ <<Plain("ok")>> \in Seq(Downward)
        /\ <<Plain("error")>> \in Seq(Downward)
    BY <2>1, <2>4, Queues
  <2> HIDE DEF q, h
  <2> QED  BY <2>2, <2>3, <2>5, <2>6
<1>2. Replied(c, q, h, smode[c])
  <2>1. smode' = [smode EXCEPT ![c] = smode[c]]
    BY SameMode DEF Authenticate
  <2>2. Reply(c, q) /\ Goes(c, h)
    BY DEF Authenticate, Welcome
  <2>3. handler[c] \in Reading
    BY DEF Reading
  <2> HIDE DEF q, h
  <2> QED  BY <2>1, <2>2, <2>3 DEF Replied
<1>3. h = "serving" => profile[c].login = "empty"
  OBVIOUS
<1> HIDE DEF q, h, in
<1>4. smode[c] \in Modes
  BY DEF ConnType
<1>5. /\ ConnType' /\ (\A d \in Conns \ {c} : Still(d)) /\ Untouched(c)' /\ Guarded(c)'
      /\ h = "returned" => Settles(c)'
      /\ Sound(c)' => Sound(c)
      /\ hasUsers' = hasUsers /\ handler'[c] = h /\ smode'[c] = smode[c]
      /\ profile'[c] = profile[c] /\ client'[c] = client[c] /\ cmode'[c] = cmode[c]
      /\ toServer'[c] = Tail(toServer[c]) /\ toClient'[c] = toClient[c] \o q
  BY <1>1, <1>2, <1>3, <1>4, RepliedFrame
<1>6. ASSUME in, Sound(c)
      PROVE  client'[c] # "off" /\ SizesSettle(c)' /\ LoginSettles(c)'
  <2>1. SizesSettle(c) /\ LoginSettles(c) /\ client[c] # "off"
    BY <1>6 DEF Good, Settles
  <2>2. profile[c].login \in {"right", "empty"} /\ client[c] \in Clients
    BY <1>6, HereType DEF in
  <2>3. client[c] # "mtu"
    <3>1. MTU(Mine(c)) \in Frames /\ MTU(Mine(c)).kind = "mtu"
      BY HereType, FrameTypes, FrameFields DEF Mine, MTU
    <3>2. toServer[c] = <<MTU(Mine(c))>> => Incoming(c).kind = "mtu"
      BY <3>1, ShortQueues DEF Incoming
    <3> QED  BY <2>1, <3>2 DEF SizesSettle, Early
  <2>4. client[c] = "auth" /\ BeforeLogin(c) /\ toServer[c] = <<Plain("auth")>>
        /\ toClient[c] = << >> /\ cmode[c].layer = "plain"
    BY <1>6, <2>1, <2>2, <2>3
       DEF LoginSettles, LoggedIn, Clients, Waiting, Connecting, Sound
  <2>5. toServer'[c] = << >> /\ toClient'[c] = Welcome(c)
    <3>1. Plain("auth") \in Frames /\ Plain("ok") \in Frames /\ Nonce \in Frames
      BY FrameTypes
    <3>2. Tail(<<Plain("auth")>>) = << >>
          /\ << >> \o <<Plain("ok"), Nonce>> = <<Plain("ok"), Nonce>>
          /\ << >> \o <<Plain("ok")>> = <<Plain("ok")>>
      BY <3>1, ShortQueues
    <3>3. << >> \o q = Welcome(c) /\ q = Welcome(c)
      BY <1>6, <3>2 DEF q, Welcome
    <3> QED  BY <1>5, <2>4, <3>2, <3>3
  <2>6. Mine(c)' = Mine(c) /\ Theirs' = Theirs /\ Welcome(c)' = Welcome(c)
    BY <1>5 DEF Mine, Theirs, Welcome
  <2>7. LoggedIn(c)'
    BY <1>5, <1>6, <2>2 DEF LoggedIn, h
  <2>8. SizesSettle(c)'
    <3>1. << >> \in Seq({f \in Frames : f.kind # "mtu"})
      OBVIOUS
    <3>2. h \notin Early
      BY DEF h, Early
    <3> QED  BY <2>1, <2>4, <2>5, <2>6, <3>1, <3>2, <1>5 DEF SizesSettle
  <2>9. LoginSettles(c)'
    BY <1>5, <2>2, <2>4, <2>5, <2>6, <2>7 DEF LoginSettles, BeforeLogin
  <2> QED  BY <1>5, <2>1, <2>8, <2>9
<1>7. Settles(c)'
  BY <1>5, <1>6 DEF Settles, h
<1> QED  BY <1>5, <1>7 DEF Kept, Good

LEMMA DispatchKept ==
  ASSUME NEW c \in Conns, Reached(c),
         handler[c] = "serving" \/ (handler[c] = "first" /\ ~hasUsers),
         socket[c] = "open", toServer[c] # << >>,
         handler[c] = "first" => Incoming(c).kind # "mtu",
         Dispatch(c, Incoming(c)),
         UNCHANGED <<hasUsers, dialled, accepted, profile, client, cmode, lost>>
  PROVE  Kept(c)
<1> USE DEF Reached
<1> DEFINE m == Incoming(c)
           in == m.layer = smode[c].layer
           f == Frame(IF m.kind = "request" THEN "answer" ELSE "error", m.layer, 0)
           q == IF in THEN <<f>> ELSE << >>
           h == IF in THEN "serving" ELSE "returned"
<1>1. m \in Frames /\ f \in Frames /\ f.kind \in {"answer", "error"}
      /\ f.layer = m.layer /\ (f.kind = "answer" <=> m.kind = "request")
  <2>1. m \in Frames
    BY HereType, Queues DEF Incoming
  <2>2. m.layer \in {"plain", "sealed", "raw"}
    BY <2>1 DEF Frames
  <2> QED  BY <2>1, <2>2, FrameTypes, FrameFields
<1>2. Replied(c, q, h, smode[c])
  <2>1. smode' = [smode EXCEPT ![c] = smode[c]]
    BY SameMode DEF Dispatch
  <2>2. Reply(c, q) /\ Goes(c, h)
    BY DEF Dispatch
  <2>3. handler[c] \in Reading
    BY DEF Reading
  <2> HIDE DEF q, h
  <2> QED  BY <2>1, <2>2, <2>3 DEF Replied
<1>3. hasUsers => handler[c] = "serving"
  OBVIOUS
<1>4. hasUsers /\ in => f \in Downward
  <2>1. hasUsers => m \in Upward(profile[c])
    BY Queues DEF Good, Guarded, Incoming
  <2>2. smode[c].layer \in {"plain", "sealed"}
    BY HereType
  <2>3. hasUsers /\ smode[c].layer = "plain" => profile[c].login = "empty"
    BY <1>3 DEF Good, Guarded
  <2>4. hasUsers /\ in /\ m.kind = "request" => m.layer = "sealed"
    BY <2>1, <2>2, <2>3 DEF Upward
  <2> HIDE DEF m, f
  <2> QED  BY <2>4, <1>1 DEF Downward
<1> HIDE DEF m, f, in
<1>5. q \in Seq(Frames) /\ (hasUsers => q \in Seq(Downward)) /\ h \in Reading \cup {"returned"}
  <2>1. q = << >> \/ (in /\ q = <<f>>)
    OBVIOUS
  <2>2. << >> \in Seq(Frames) /\ << >> \in Seq(Downward) /\ <<f>> \in Seq(Frames)
    BY <1>1
  <2>3. f \in Downward => <<f>> \in Seq(Downward)
    OBVIOUS
  <2>4. h \in Reading \cup {"returned"}
    BY DEF Reading
  <2> HIDE DEF q, h
  <2> QED  BY <2>1, <2>2, <2>3, <2>4, <1>4
<1>6. hasUsers /\ h = "serving" /\ smode[c].layer = "plain" => profile[c].login = "empty"
  BY <1>3 DEF Good, Guarded
<1>7. h = "serving" => in /\ q = <<f>>
  OBVIOUS
<1>8. h = "serving" \/ h = "returned"
  OBVIOUS
<1> HIDE DEF q, h
<1>9. smode[c] \in Modes
  BY DEF ConnType
<1>10. /\ ConnType' /\ (\A d \in Conns \ {c} : Still(d)) /\ Untouched(c)' /\ Guarded(c)'
       /\ h = "returned" => Settles(c)'
       /\ Sound(c)' => Sound(c)
       /\ hasUsers' = hasUsers /\ handler'[c] = h /\ smode'[c] = smode[c]
       /\ profile'[c] = profile[c] /\ client'[c] = client[c] /\ cmode'[c] = cmode[c]
       /\ toServer'[c] = Tail(toServer[c]) /\ toClient'[c] = toClient[c] \o q
  BY <1>2, <1>5, <1>6, <1>8, <1>9, RepliedFrame
<1>11. ASSUME h = "serving", Sound(c)
       PROVE  /\ client'[c] # "off" /\ SizesSettle(c)'
              /\ IF hasUsers THEN LoginSettles(c)' ELSE OpenServer(c)'
  <2>1. SizesSettle(c) /\ client[c] # "off"
    BY <1>11 DEF Good, Settles
  <2>2. ~(profile[c].mtu /\ client[c] = "mtu")
    <3>1. MTU(Mine(c)) \in Frames /\ MTU(Mine(c)).kind = "mtu"
      BY HereType, FrameTypes, FrameFields DEF Mine, MTU
    <3>2. toServer[c] = <<MTU(Mine(c))>> => m.kind = "mtu"
      BY <3>1, ShortQueues DEF Incoming, m
    <3> QED  BY <2>1, <3>2 DEF SizesSettle, Early, m
  <2>3. client[c] # "mtu"
    BY <2>1, <2>2 DEF SizesSettle
  <2>4. Mine(c)' = Mine(c) /\ Theirs' = Theirs
    BY <1>10 DEF Mine, Theirs
  <2>5. SizesSettle(c)'
    <3>1. toServer[c] \in Seq({x \in Frames : x.kind # "mtu"})
            => Tail(toServer[c]) \in Seq({x \in Frames : x.kind # "mtu"})
      BY Queues
    <3> QED  BY <1>10, <1>11, <2>1, <2>3, <2>4, <3>1 DEF SizesSettle, Early
  <2>6. CASE hasUsers
    <3>1. LoginSettles(c)
      BY <2>6, <1>11 DEF Good, Settles
    <3>2. handler[c] = "serving" /\ ~BeforeLogin(c)
      BY <1>3, <2>6 DEF BeforeLogin, Early
    <3>3. profile[c].login \in {"right", "empty"} /\ client[c] \in Clients
      BY <3>1, <3>2, HereType DEF LoginSettles, Logins
    <3>4. client[c] \in {"up", "asking"}
      BY <3>1, <3>2, <3>3, <2>1, <2>3, <1>11
         DEF LoginSettles, Clients, Waiting, Connecting, Sound
    <3>5. LoginSettles(c)'
      BY <3>1, <3>2, <3>3, <3>4, <1>10, <1>11 DEF LoginSettles
    <3> QED  BY <2>1, <2>5, <2>6, <3>5, <1>10
  <2>7. CASE ~hasUsers
    <3>1. OpenServer(c)
      BY <2>7, <1>11 DEF Good, Settles
    <3>2. f \in {x \in Frames : x.kind # "ok"}
      BY <1>1
    <3>3. toClient[c] \o q \in Seq({x \in Frames : x.kind # "ok"})
      BY <3>1, <3>2, <1>7, <1>11, Queues DEF OpenServer
    <3>4. OpenServer(c)'
      BY <3>1, <3>3, <1>10, <1>11 DEF OpenServer
    <3> QED  BY <2>1, <2>5, <2>7, <3>4, <1>10
  <2> QED  BY <2>6, <2>7
<1>12. Settles(c)'
  BY <1>8, <1>10, <1>11 DEF Settles
<1> QED  BY <1>10, <1>12 DEF Kept, Good

LEMMA NegotiateMTUKept ==
  ASSUME NEW c \in Conns, Reached(c),
         handler[c] = "first", socket[c] = "open", toServer[c] # << >>,
         Incoming(c).kind = "mtu", NegotiateMTU(c, Incoming(c)),
         UNCHANGED <<hasUsers, dialled, accepted, profile, client, cmode, lost>>
  PROVE  Kept(c)
<1> USE DEF Reached
<1> DEFINE m == Incoming(c)
           q == <<MTU(Theirs)>>
           h == IF hasUsers THEN "auth" ELSE "serving"
           sm == [smode[c] EXCEPT !.chunk = Agreed(Theirs, m.chunk)]
<1>1. m \in Frames /\ m.chunk \in Nat
  <2>1. m \in Frames
    BY HereType, Queues DEF Incoming
  <2> QED  BY <2>1 DEF Frames
<1>2. MTU(Theirs) \in Frames /\ MTU(Theirs) \in Downward
      /\ MTU(Theirs) \in {x \in Frames : x.kind # "ok"}
  BY FrameTypes, FrameFields, ServerAclAssumption DEF Theirs, MTU, Downward
<1>3. Theirs \in Nat
  BY ServerAclAssumption, ChunkSizesSane, Bounds DEF Theirs, ChunkSizes
<1>4. /\ sm \in Modes /\ sm.chunk = Agreed(Theirs, m.chunk) /\ sm.layer = smode[c].layer
  BY <1>1, <1>3 DEF ConnType, Modes, Agreed
<1>5. Replied(c, q, h, sm)
  <2>1. smode' = [smode EXCEPT ![c] = sm]
    BY DEF NegotiateMTU, Theirs
  <2>2. Reply(c, q) /\ Goes(c, h)
    BY DEF NegotiateMTU, Theirs, MTU
  <2>3. handler[c] \in Reading
    BY DEF Reading
  <2> HIDE DEF q, h, sm
  <2> QED  BY <2>1, <2>2, <2>3 DEF Replied
<1>6. /\ q \in Seq(Frames) /\ q \in Seq(Downward) /\ h \in Reading \cup {"returned"}
      /\ hasUsers => h # "serving"
      /\ h = "auth" => hasUsers
  BY <1>2 DEF Reading
<1> HIDE DEF q, h, sm, m
<1>7. /\ ConnType' /\ (\A d \in Conns \ {c} : Still(d)) /\ Untouched(c)' /\ Guarded(c)'
      /\ Sound(c)' => Sound(c)
      /\ hasUsers' = hasUsers /\ handler'[c] = h /\ smode'[c] = sm
      /\ profile'[c] = profile[c] /\ client'[c] = client[c] /\ cmode'[c] = cmode[c]
      /\ toServer'[c] = Tail(toServer[c]) /\ toClient'[c] = toClient[c] \o q
  BY <1>4, <1>5, <1>6, RepliedFrame
<1>8. ASSUME Sound(c)
      PROVE  /\ client'[c] # "off" /\ SizesSettle(c)'
             /\ IF hasUsers THEN LoginSettles(c)' ELSE OpenServer(c)'
  <2>1. SizesSettle(c) /\ client[c] # "off"
    BY <1>8 DEF Good, Settles
  <2>2. profile[c].mtu
    <3>1. toServer[c] \in Seq({x \in Frames : x.kind # "mtu"})
            => Incoming(c) \in {x \in Frames : x.kind # "mtu"}
      BY Queues DEF Incoming
    <3> QED  BY <2>1, <3>1 DEF SizesSettle
  <2>3. client[c] = "mtu" /\ toServer[c] = <<MTU(Mine(c))>> /\ toClient[c] = << >>
    BY <2>1, <2>2 DEF SizesSettle, Early
  <2>4. MTU(Mine(c)) \in Frames /\ MTU(Mine(c)).chunk = Mine(c)
    BY HereType, FrameTypes, FrameFields DEF Mine, MTU
  <2>5. m.chunk = Mine(c) /\ toServer'[c] = << >> /\ toClient'[c] = <<MTU(Theirs)>>
    <3>1. Head(<<MTU(Mine(c))>>) = MTU(Mine(c)) /\ Tail(<<MTU(Mine(c))>>) = << >>
      BY <2>4, ShortQueues
    <3>2. << >> \o <<MTU(Theirs)>> = <<MTU(Theirs)>>
      BY <1>2, ShortQueues
    <3> QED  BY <1>7, <2>3, <2>4, <3>1, <3>2 DEF m, q, Incoming
  <2>6. Mine(c)' = Mine(c) /\ Theirs' = Theirs
    BY <1>7 DEF Mine, Theirs
  <2>7. SizesSettle(c)'
    <3>1. profile'[c].mtu /\ client'[c] = "mtu"
      BY <1>7, <2>2, <2>3
    <3>2. handler'[c] = IF hasUsers' THEN "auth" ELSE "serving"
      BY <1>7 DEF h
    <3>3. smode'[c].chunk = Agreed(Theirs', Mine(c)')
      BY <1>4, <1>7, <2>5, <2>6
    <3>4. toServer'[c] = << >> /\ toClient'[c] = <<MTU(Theirs')>>
      BY <2>5, <2>6
    <3> QED  BY <3>1, <3>2, <3>3, <3>4 DEF SizesSettle
  <2>8. CASE hasUsers
    <3>1. LoginSettles(c)
      BY <2>8, <1>8 DEF Good, Settles
    <3>2. BeforeLogin(c)'
      BY <3>1, <2>3, <2>8, <1>4, <1>7 DEF LoginSettles, BeforeLogin, h
    <3>3. LoginSettles(c)'
      BY <3>1, <3>2, <2>3, <1>7 DEF LoginSettles
    <3> QED  BY <2>1, <2>7, <2>8, <3>3, <1>7
  <2>9. CASE ~hasUsers
    <3>1. OpenServer(c)
      BY <2>9, <1>8 DEF Good, Settles
    <3>2. <<MTU(Theirs)>> \in Seq({x \in Frames : x.kind # "ok"})
      BY <1>2
    <3>3. h = "serving"
      BY <2>9 DEF h
    <3>4. OpenServer(c)'
      BY <3>1, <3>2, <3>3, <2>3, <2>5, <1>4, <1>7 DEF OpenServer
    <3> QED  BY <2>1, <2>7, <2>9, <3>4, <1>7
  <2> QED  BY <2>8, <2>9
<1>9. Settles(c)'
  BY <1>7, <1>8 DEF Settles
<1> QED  BY <1>7, <1>9 DEF Kept, Good

LEMMA HandleNonceKept ==
  ASSUME NEW c \in Conns, Reached(c), HandleNonce(c)
  PROVE  Kept(c)
<1> USE DEF Reached
<1> DEFINE sm == [smode[c] EXCEPT !.layer = "sealed"]
<1>1. handler[c] = "nonce" /\ socket[c] = "open" /\ toServer[c] # << >>
      /\ Reply(c, << >>) /\ Goes(c, "serving") /\ smode' = [smode EXCEPT ![c] = sm]
      /\ UNCHANGED <<hasUsers, dialled, accepted, profile, client, cmode, lost>>
  BY DEF HandleNonce, Reads
<1>2. sm \in Modes /\ sm.chunk = smode[c].chunk /\ sm.layer = "sealed"
  BY DEF ConnType, Modes
<1> HIDE DEF sm
<1>3. Replied(c, << >>, "serving", sm)
  BY <1>1 DEF Replied, Reading
<1>4. << >> \in Seq(Frames) /\ << >> \in Seq(Downward) /\ "serving" \in Reading \cup {"returned"}
  BY DEF Reading
<1>5. /\ ConnType' /\ (\A d \in Conns \ {c} : Still(d)) /\ Untouched(c)' /\ Guarded(c)'
      /\ Sound(c)' => Sound(c)
      /\ hasUsers' = hasUsers /\ handler'[c] = "serving" /\ smode'[c] = sm
      /\ profile'[c] = profile[c] /\ client'[c] = client[c] /\ cmode'[c] = cmode[c]
      /\ toServer'[c] = Tail(toServer[c]) /\ toClient'[c] = toClient[c] \o << >>
  <2> DEFINE q == << >>
             h == "serving"
  <2>1. Replied(c, q, h, sm) /\ q \in Seq(Frames) /\ h \in Reading \cup {"returned"}
        /\ h # "auth" /\ h # "returned" /\ (hasUsers => q \in Seq(Downward))
    BY <1>3, <1>4
  <2> HIDE DEF q, h
  <2>2. hasUsers => /\ q \in Seq(Downward)
                    /\ h = "serving" /\ sm.layer = "plain" => profile[c].login = "empty"
    BY <1>2, <2>1
  <2>3. /\ ConnType' /\ (\A d \in Conns \ {c} : Still(d)) /\ Untouched(c)' /\ Guarded(c)'
        /\ Sound(c)' => Sound(c)
        /\ hasUsers' = hasUsers /\ handler'[c] = h /\ smode'[c] = sm
        /\ profile'[c] = profile[c] /\ client'[c] = client[c] /\ cmode'[c] = cmode[c]
        /\ toServer'[c] = Tail(toServer[c]) /\ toClient'[c] = toClient[c] \o q
    BY <1>2, <2>1, <2>2, RepliedFrame
  <2> QED  BY <2>3 DEF q, h
<1>6. ASSUME Sound(c)
      PROVE  client'[c] # "off" /\ SizesSettle(c)' /\ hasUsers /\ LoginSettles(c)'
  <2>1. SizesSettle(c) /\ client[c] # "off" /\ hasUsers /\ LoginSettles(c)
    BY <1>1, <1>6 DEF Good, Settles, OpenServer
  <2>2. ~BeforeLogin(c) /\ profile[c].login \in Logins /\ client[c] \in Clients
    BY <1>1, HereType DEF BeforeLogin, Early
  <2>3. /\ profile[c].login = "right" /\ client[c] \in {"up", "asking"}
        /\ cmode[c].layer = "sealed"
    BY <1>1, <1>6, <2>1, <2>2
       DEF LoginSettles, Logins, Clients, Waiting, Connecting, Sound
  <2>4. Mine(c)' = Mine(c) /\ Theirs' = Theirs
    BY <1>5 DEF Mine, Theirs
  <2>5. SizesSettle(c)'
    <3>1. toServer[c] \in Seq({x \in Frames : x.kind # "mtu"})
            => Tail(toServer[c]) \in Seq({x \in Frames : x.kind # "mtu"})
      BY <1>1, Queues
    <3> QED  BY <1>2, <1>5, <2>1, <2>3, <2>4, <3>1 DEF SizesSettle, Early
  <2>6. LoginSettles(c)'
    BY <1>2, <1>5, <2>3 DEF LoginSettles
  <2> QED  BY <1>5, <2>1, <2>5, <2>6
<1>7. Settles(c)'
  BY <1>5, <1>6 DEF Settles
<1> QED  BY <1>5, <1>7 DEF Kept, Good

LEMMA HandlerEndsKept ==
  ASSUME NEW c \in Conns, Reached(c), NEW h \in {"returned", "ended"},
         handler[c] # "off", handler' = [handler EXCEPT ![c] = h],
         UNCHANGED <<hasUsers, dialled, profile, client, cmode, smode, net>>,
         socket' = socket \/ socket' = [socket EXCEPT ![c] = "closed"]
  PROVE  Kept(c)
<1> USE DEF Reached
<1>1. /\ profile'[c] = profile[c] /\ client'[c] = client[c] /\ handler'[c] = h
      /\ toServer'[c] = toServer[c] /\ toClient'[c] = toClient[c]
      /\ cmode'[c] = cmode[c] /\ smode'[c] = smode[c]
  BY ConnFacts DEF net
<1>2. ConnType'
  BY DEF ConnType, net
<1>3. \A d \in Conns \ {c} : Still(d)
  BY ConnFacts DEF ConnType, Still, net
<1>4. Untouched(c)'
  BY <1>1 DEF Good, Untouched
<1>5. Guarded(c)'
  BY <1>1 DEF Good, Guarded
<1>6. Settles(c)'
  BY <1>1 DEF Settles, Sound
<1> QED  BY <1>2, <1>3, <1>4, <1>5, <1>6 DEF Kept, Good

LEMMA HandlerStepKept ==
  ASSUME NEW c \in Conns, Reached(c), HandlerStep(c)
  PROVE  Kept(c)
<1>1. CASE HandleFirst(c)
  <2>1. /\ handler[c] = "first" /\ socket[c] = "open" /\ toServer[c] # << >>
        /\ UNCHANGED <<hasUsers, dialled, accepted, profile, client, cmode, lost>>
    BY <1>1 DEF HandleFirst, Reads
  <2>2. CASE Incoming(c).kind = "mtu" /\ NegotiateMTU(c, Incoming(c))
    BY <2>1, <2>2, NegotiateMTUKept
  <2>3. CASE Incoming(c).kind # "mtu" /\ hasUsers /\ Authenticate(c, Incoming(c))
    BY <2>1, <2>3, AuthenticateKept
  <2>4. CASE Incoming(c).kind # "mtu" /\ ~hasUsers /\ Dispatch(c, Incoming(c))
    BY <2>1, <2>4, DispatchKept
  <2> QED  BY <1>1, <2>2, <2>3, <2>4 DEF HandleFirst
<1>2. CASE HandleAuth(c)
  <2>1. /\ handler[c] = "auth" /\ socket[c] = "open" /\ toServer[c] # << >>
        /\ Authenticate(c, Incoming(c))
        /\ UNCHANGED <<hasUsers, dialled, accepted, profile, client, cmode, lost>>
    BY <1>2 DEF HandleAuth, Reads
  <2>2. hasUsers
    BY <2>1 DEF Reached, Good, Guarded
  <2> QED  BY <2>1, <2>2, AuthenticateKept
<1>3. CASE HandleNonce(c)
  BY <1>3, HandleNonceKept
<1>4. CASE HandleMessage(c)
  BY <1>4, DispatchKept DEF HandleMessage, Reads
<1>5. CASE HandlerReadFails(c)
  <2>1. handler[c] # "off" /\ handler' = [handler EXCEPT ![c] = "returned"]
        /\ UNCHANGED <<hasUsers, dialled, profile, client, cmode, smode, net>>
        /\ socket' = [socket EXCEPT ![c] = "closed"]
    BY <1>5 DEF HandlerReadFails, Goes, Reading
  <2> QED  BY <2>1, HandlerEndsKept
<1>6. CASE Untrack(c)
  <2>1. handler[c] # "off" /\ handler' = [handler EXCEPT ![c] = "ended"]
        /\ UNCHANGED <<hasUsers, dialled, profile, client, cmode, smode, net, socket>>
    BY <1>6 DEF Untrack
  <2> QED  BY <2>1, HandlerEndsKept
<1> QED  BY <1>1, <1>2, <1>3, <1>4, <1>5, <1>6 DEF HandlerStep

(* Accept starts a handler, and may close the oldest connection.           *)
LEMMA AcceptGood ==
  ASSUME IInv, ConnType, \A c \in Conns : Good(c), Accept
  PROVE  ConnType' /\ \A c \in Conns : Good(c)'
<1>1. PICK c \in Conns : /\ c \in Nat /\ c <= dialled /\ handler[c] = "off"
                         /\ handler' = [handler EXCEPT ![c] = "first"]
                         /\ UNCHANGED <<hasUsers, dialled, profile, client, cmode, smode, net>>
                         /\ TrackConn(c)
  <2>1. accepted + 1 \in Conns /\ accepted + 1 > accepted /\ accepted + 1 <= dialled
    BY ConnFacts DEF Accept, Conns
  <2> QED  BY <2>1, ConnFacts DEF Accept
<1>2. PICK o, s : /\ socket' = socket \/ socket' = [socket EXCEPT ![o] = s]
                  /\ s \in {"closing", "closed"}
  BY <1>1 DEF TrackConn, Closed
<1>3. ConnType'
  BY <1>1, <1>2 DEF ConnType, net
<1>4. \A d \in Conns : socket'[d] = socket[d] \/ socket'[d] # "open"
  BY <1>2 DEF ConnType
<1>5. \A d \in Conns \ {c} : Still(d)
  BY <1>1, <1>4, ConnFacts DEF ConnType, Still, net
<1>6. Good(c)'
  <2>1. /\ profile'[c] = profile[c] /\ client'[c] = client[c] /\ handler'[c] = "first"
        /\ toServer'[c] = toServer[c] /\ toClient'[c] = toClient[c]
        /\ cmode'[c] = cmode[c] /\ smode'[c] = smode[c] /\ hasUsers' = hasUsers
    BY <1>1, ConnFacts DEF net
  <2>2. Untouched(c) /\ Guarded(c) /\ Settles(c)
    BY <1>1 DEF Good
  <2>3. Untouched(c)' /\ Guarded(c)'
    BY <2>1, <2>2, <1>1 DEF Untouched, Guarded
  <2>4. Sound(c)' => Sound(c)
    BY <2>1, <1>1, <1>4 DEF Sound, net
  <2>5. Mine(c)' = Mine(c) /\ Theirs' = Theirs /\ Welcome(c)' = Welcome(c)
        /\ Promised(c)' = Promised(c)
    BY <2>1 DEF Mine, Theirs, Welcome, Promised
  <2>6. SizesSettle(c) => SizesSettle(c)'
    BY <1>1, <2>1, <2>5 DEF SizesSettle, Early
  <2>7. LoginSettles(c) => LoginSettles(c)'
    <3>1. BeforeLogin(c) => BeforeLogin(c)'
      BY <2>1 DEF BeforeLogin, Early
    <3>2. ~LoggedIn(c)
      BY <1>1 DEF LoggedIn
    <3> QED  BY <1>1, <2>1, <2>5, <3>1, <3>2 DEF LoginSettles
  <2>8. OpenServer(c) => OpenServer(c)'
    BY <2>1 DEF OpenServer
  <2>9. Settles(c)'
    BY <2>1, <2>2, <2>4, <2>6, <2>7, <2>8 DEF Settles
  <2> QED  BY <2>3, <2>9 DEF Good
<1> QED  BY <1>3, <1>5, <1>6, StillGood

StartInv == IInv /\ ConnType /\ \A c \in Conns : Good(c)

LEMMA InitStart == Init => StartInv
<1> SUFFICES ASSUME Init PROVE StartInv
  OBVIOUS
<1>1. IInv
  BY InitIInv
<1>2. DefaultChunkSize \in Nat /\ \A S : << >> \in Seq(S)
  BY Bounds
<1>3. Fresh \in Modes /\ Fresh.chunk = DefaultChunkSize /\ Fresh.layer = "plain"
  BY <1>2 DEF Fresh, Mode, Modes
<1>4. profile \in [Conns -> Config]
  <2>1. \A c \in Conns : Profiles[c] # {} /\ Profiles[c] \subseteq Config
    BY ProfilesAssumption DEF Conns, Config
  <2>2. \A c \in Conns : (CHOOSE p \in Profiles[c] : TRUE) \in Profiles[c]
    BY <2>1
  <2> QED  BY <2>1, <2>2 DEF Init
<1>5. ConnType
  BY <1>2, <1>3, <1>4 DEF Init, ConnType, Fresh, Clients
<1>6. ASSUME NEW c \in Conns PROVE Good(c)
  <2>1. /\ client[c] = "off" /\ handler[c] = "off" /\ toServer[c] = << >>
        /\ toClient[c] = << >> /\ cmode[c] = Fresh /\ smode[c] = Fresh /\ dialled = 0
    BY DEF Init, Fresh
  <2>2. ~Sound(c)
    BY <2>1 DEF Sound, Conns
  <2> QED  BY <2>1, <2>2, <1>2 DEF Good, Untouched, Guarded, Settles
<1> QED  BY <1>1, <1>5, <1>6 DEF StartInv

LEMMA NextStart == StartInv /\ [Next]_vars => StartInv'
<1> SUFFICES ASSUME StartInv, [Next]_vars PROVE StartInv'
  OBVIOUS
<1>1. IInv'
  BY NextIInv DEF StartInv
<1>2. CASE UNCHANGED vars
  <2>1. ConnType'
    BY <1>2 DEF vars, net, StartInv, ConnType
  <2>2. \A c \in Conns : Still(c)
    BY <1>2, ConnFacts DEF vars, net, StartInv, Still
  <2> QED  BY <1>1, <2>1, <2>2, StillGood DEF StartInv
<1>3. CASE Accept
  BY <1>1, <1>3, AcceptGood DEF StartInv
<1>4. ASSUME NEW c \in Conns,
             \/ \E p \in Profiles[c] : Dial(c, p)
             \/ ClientStep(c) \/ HandlerStep(c)
             \/ Command(c) \/ Disconnect(c) \/ LinkLost(c)
      PROVE  StartInv'
  <2>1. Reached(c)
    BY DEF StartInv, Reached
  <2>2. ClientStep(c) => Kept(c)
    BY <2>1, ReadMTUKept, ReadAuthKept, ReadNonceKept, AnsweredKept, ClientReadFailsKept
       DEF ClientStep
  <2>3. Kept(c)
    BY <1>4, <2>1, <2>2, DialKept, HandlerStepKept, CommandKept, DisconnectKept, LinkLostKept
  <2> QED  BY <1>1, <2>3, StillGood DEF StartInv, Kept
<1> QED  BY <1>2, <1>3, <1>4 DEF Next

(* The reason why both properties below hold: the messages of the start    *)
(* come one at a time, so that as long as neither end has given up, the    *)
(* two programs are at matching points of it, and what is still in flight  *)
(* is what the other waits for (negotiateMTU, handleConnection).           *)
THEOREM StartInductive == Spec => []StartInv
<1>1. Init => StartInv
  BY InitStart
<1>2. StartInv /\ [Next]_vars => StartInv'
  BY NextStart
<1> QED  BY <1>1, <1>2, PTL DEF Spec

(* Whatever the order of logins, losses and evictions, no request of a     *)
(* client with a name and no answer of a server with users travels in the  *)
(* clear (ClientHandshake, ServerHandshake, authenticateMsg).              *)
THEOREM AlwaysNothingInTheClear == Spec => []NothingInTheClear
<1>1. StartInv => NothingInTheClear
  <2> SUFFICES ASSUME StartInv, hasUsers, NEW c \in Conns,
                      NEW q \in {toServer[c], toClient[c]}, NEW i \in DOMAIN q,
                      q[i].kind = "answer"
                        \/ (q[i].kind = "request" /\ profile[c].login # "none")
               PROVE  q[i].layer = "sealed"
    BY DEF NothingInTheClear
  <2>1. toServer[c] \in Seq(Upward(profile[c])) /\ toClient[c] \in Seq(Downward)
    BY DEF StartInv, Good, Guarded
  <2>2. CASE q = toServer[c]
    <3>1. q[i] \in Upward(profile[c])
      BY <2>1, <2>2
    <3> QED  BY <3>1 DEF Upward
  <2>3. CASE q = toClient[c]
    <3>1. q[i] \in Downward
      BY <2>1, <2>3
    <3> QED  BY <3>1 DEF Downward
  <2> QED  BY <2>2, <2>3
<1> QED  BY <1>1, StartInductive, PTL

(* Both ends of a connection in use work in one layer and with one chunk   *)
(* size, the smaller of the two preferences after a negotiation, for every *)
(* adapter, server and mix of clients (negotiateMTU, handleMTU).           *)
THEOREM ModesAlwaysAgree == Spec => []ModesAgree
<1>1. StartInv => ModesAgree
  <2> SUFFICES ASSUME StartInv, NEW c \in Conns,
                      handler[c] = "serving", client[c] \in {"up", "asking"},
                      socket[c] = "open", c \notin lost
               PROVE  /\ smode[c] = cmode[c] /\ smode[c].chunk \in ChunkSizes
                      /\ profile[c].mtu =>
                           smode[c].chunk = LET sizes == {ComputeChunkSize(ServerAcl),
                                                          ComputeChunkSize(profile[c].acl)}
                                            IN CHOOSE n \in sizes : \A k \in sizes : n <= k
    BY DEF ModesAgree
  <2>1. IInv /\ ConnType /\ Settles(c)
    BY DEF StartInv, Good
  <2>2. c <= dialled
    BY <2>1, ConnFacts
  <2>3. /\ SizesSettle(c) /\ client[c] # "mtu" /\ profile[c].login \in Logins
        /\ IF hasUsers THEN LoginSettles(c) ELSE OpenServer(c)
    BY <2>1, <2>2, HereType DEF Settles, Sound
  <2>4. cmode[c].layer = smode[c].layer
    BY <2>3 DEF LoginSettles, OpenServer, BeforeLogin, Logins, Early
  <2>5. Mine(c) \in ChunkSizes /\ Theirs \in ChunkSizes
    BY <2>1, HereType, ServerAclAssumption, ChunkSizesSane DEF Mine, Theirs
  <2>6. cmode[c].chunk = smode[c].chunk /\ smode[c].chunk \in ChunkSizes
    <3>1. DefaultChunkSize \in ChunkSizes
      BY Bounds DEF ChunkSizes
    <3> QED  BY <2>3, <2>5, <3>1, AgreedIsSmaller DEF SizesSettle
  <2>7. smode[c] = cmode[c]
    <3>1. \A m \in Modes : m = [chunk |-> m.chunk, layer |-> m.layer]
      BY DEF Modes
    <3>2. smode[c] \in Modes /\ cmode[c] \in Modes
      BY <2>1 DEF ConnType
    <3>3. smode[c] = [chunk |-> smode[c].chunk, layer |-> smode[c].layer]
      BY <3>1, <3>2, Zenon
    <3>4. cmode[c] = [chunk |-> cmode[c].chunk, layer |-> cmode[c].layer]
      BY <3>1, <3>2, Zenon
    <3> QED  BY <2>4, <2>6, <3>3, <3>4, Zenon
  <2>8. ASSUME profile[c].mtu
        PROVE  LET sizes == {Theirs, Mine(c)}
               IN smode[c].chunk = CHOOSE n \in sizes : \A k \in sizes : n <= k
    <3> DEFINE sizes == {Theirs, Mine(c)}
               a == Agreed(Theirs, Mine(c))
    <3>1. smode[c].chunk = a
      BY <2>3, <2>8 DEF SizesSettle
    <3>2. a \in sizes /\ \A k \in sizes : a <= k
      BY <2>5, AgreedIsSmaller
    <3>3. \A n \in sizes : n \in Nat
      BY <2>5, Bounds DEF ChunkSizes
    <3>4. \A n \in sizes : (\A k \in sizes : n <= k) => n = a
      <4> HIDE DEF sizes, a
      <4> QED  BY <3>2, <3>3
    <3> HIDE DEF sizes, a
    <3>5. (CHOOSE n \in sizes : \A k \in sizes : n <= k) = a
      BY <3>2, <3>4
    <3> QED  BY <3>1, <3>5 DEF sizes
  <2> QED  BY <2>6, <2>7, <2>8 DEF Mine, Theirs
<1> QED  BY <1>1, StartInductive, PTL
=============================================================================
