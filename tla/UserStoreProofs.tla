-------------------------- MODULE UserStoreProofs ---------------------------
(* Proofs about UserStore, for any users, passwords and sessions, however  *)
(* often they log in and change passwords, and with useradd, userdel, stops *)
(* and starts at any time.                                                  *)
EXTENDS UserStore, FiniteSetTheorems, TLAPS

PasswordsOrNone == Passwords \cup {None}
AccountKind == [salt : Nat, pw : PasswordsOrNone, of : Nat]
StoreKind == [Users -> AccountKind]
Authenticating == {"lookup", "readSalt", "readHash"}
Saving == {"snapshot", "marshal", "half", "write"}
SessionKind ==
  [at : {"idle", "lock", "setSalt", "setHash"} \cup Authenticating \cup Saving,
   user : Users \cup {None}, old : PasswordsOrNone, new : PasswordsOrNone, salt : Nat,
   todo : SUBSET Users, copy : StoreKind, verdict : {"none", "accepted", "refused"},
   could : SUBSET PasswordsOrNone, alone : BOOLEAN]

FileKind == [data : StoreKind, form : {"whole", "empty", "broken"}]
PromiseKind == [Users -> SUBSET PasswordsOrNone]

(* What each variable ranges over. *)
Kinds ==
  /\ server \in {"up", "down", "refused"}
  /\ accounts \in StoreKind
  /\ locked \in Sessions \cup {None}
  /\ ses \in [Sessions -> SessionKind]
  /\ file \in FileKind
  /\ admin \in [at : {"idle", "truncate", "write"}, user : Users \cup {None}, data : StoreKind]
  /\ salts \in Nat
  /\ password \in [Users -> PasswordsOrNone]
  /\ torn \in SUBSET Users
  /\ found \in [Sessions -> PromiseKind]
  /\ promised \in PromiseKind

(* What a call knows at each point. *)
Calls ==
  \A s \in Sessions :
    /\ ~In(s, "idle") => User(s) \in Users
    /\ ses[s].at \in Authenticating => ses[s].old \in Passwords /\ ses[s].verdict = "none"
    /\ Changing(s) \/ In(s, "lock") => ses[s].new \in Passwords

(* The session that replaces an account is the one that holds the lock, and *)
(* a server that is not running has no calls.                               *)
LockHeld ==
  /\ \A s \in Sessions : Replacing(s) <=> locked = s
  /\ server # "up" => locked = None /\ \A s \in Sessions : In(s, "idle")

(* Every salt in use was drawn, and the one being set is that of no hash *)
(* of the account.                                                        *)
Known(a, n) == a.of <= n /\ a.salt <= n
Drawn ==
  /\ \A u \in Users : /\ Known(accounts[u], salts)
                      /\ Known(file.data[u], salts)
                      /\ Known(admin.data[u], salts)
                      /\ \A s \in Sessions : Known(ses[s].copy[u], salts)
  /\ \A s \in Sessions : Replacing(s) => /\ ses[s].salt \in 1..salts
                                         /\ accounts[User(s)].of # ses[s].salt

Base == Kinds /\ Calls /\ LockHeld /\ Drawn

(* A user's password is the one the account verifies, but between a new     *)
(* salt and its hash.                                                       *)
HalfReplaced(u) ==
  \E s \in Sessions : /\ In(s, "setHash") /\ User(s) = u
                      /\ accounts[u].salt = ses[s].salt /\ accounts[u].of # accounts[u].salt
Current ==
  server = "up" => \A u \in Users : HalfReplaced(u) \/ password[u] = PasswordOf(accounts[u])

(* What the call r, at Authenticate, may still find. *)
Candidate(r) ==
  /\ r.at \in Authenticating => password[r.user] \in r.could
  /\ r.at = "readHash" /\ accounts[r.user].of = r.salt => accounts[r.user].pw \in r.could
  /\ r.at \in Authenticating /\ r.alone
     => /\ r.could = {password[r.user]}
        /\ \A t \in Sessions : Replacing(t) => User(t) # r.user
        /\ r.at = "readHash" => r.salt = accounts[r.user].salt
Candidates == \A s \in Sessions : Candidate(ses[s])

Verdicts == Current /\ Candidates

-----------------------------------------------------------------------------
(* What memory, the copies of the saves and the file hold of each user.    *)

(* A registered account has a salt. *)
Salted(d) == \A u \in Users : d[u] # NoAccount => d[u].salt # 0

(* Only an account that is being replaced, or that was torn when the server *)
(* started, has the salt of one change and the hash of another.             *)
Memory ==
  /\ \A u \in Users \ torn : \/ accounts[u].of = accounts[u].salt
                              \/ \E s \in Sessions : In(s, "setHash") /\ User(s) = u
  /\ \A s \in Sessions : In(s, "setHash") => accounts[User(s)].salt # 0
  /\ Salted(accounts) /\ Salted(file.data) /\ Salted(admin.data)

(* No save has seen the salt that is being set as that of a hash. *)
Unseen ==
  \A s, t \in Sessions : Replacing(t) => ses[s].copy[User(t)].of # ses[t].salt

(* The hash of an account, read before its salt. *)
HalfOf(a) == [a EXCEPT !.salt = 0]

(* What the save of the session r, which found f, holds of u; and of v,     *)
(* whose hash it has read and whose salt it has not: if the salt is still   *)
(* that of the hash, the two will match.                                    *)
Copied(r, f, u) ==
  /\ PasswordOf(r.copy[u]) \in f[u]
  /\ r.copy[u] # NoAccount => r.copy[u].salt # 0
HalfCopied(r, f, v) ==
  /\ accounts[v] # NoAccount
  /\ IF r.copy[v].of = accounts[v].salt THEN r.copy[v].pw \in f[v] ELSE None \in f[v]
CopyGood(r, f) ==
  /\ \A u \in r.todo : r.copy[u] = NoAccount /\ accounts[u] # NoAccount
  /\ r.at \in {"marshal", "write"} => \A u \in Users \ r.todo : Copied(r, f, u)
  /\ r.at = "half" => \E v \in Users \ r.todo :
                        /\ HalfCopied(r, f, v)
                        /\ \A u \in Users \ (r.todo \cup {v}) : Copied(r, f, u)
  /\ r.at = "write" => r.todo = {}
  /\ \A u \in Users : InMemory(u) \subseteq f[u]
Copies == \A s \in Sessions : Copying(s) => CopyGood(ses[s], found[s])

(* Whatever memory, a save or useradd may yet bring to the file, and what   *)
(* the file holds, is promised.                                             *)
Promises ==
  /\ \A u \in Users : InMemory(u) \subseteq promised[u]
  /\ \A s \in Sessions, u \in Users : found[s][u] \subseteq promised[u]
  /\ admin.at # "idle" => /\ admin.user \in Users
                         /\ \A u \in Users : PasswordOf(admin.data[u]) \in promised[u]
  /\ file.form = "whole" => \A u \in Users : PasswordOf(file.data[u]) \in promised[u]
  /\ file.form = "empty" => admin.at = "write" \/ \E s \in Sessions : In(s, "write")

Kept == Memory /\ Unseen /\ Copies /\ Promises

IInv == Base /\ Verdicts /\ Kept

-----------------------------------------------------------------------------
LEMMA AccountFacts ==
  ASSUME NEW p \in PasswordsOrNone, NEW n \in Nat
  PROVE  /\ NoAccount \in AccountKind /\ Empty \in StoreKind
         /\ Account(p, n) \in AccountKind /\ Known(Account(p, n), n)
         /\ PasswordOf(Account(p, n)) = p /\ Account(p, n).pw = p
         /\ Account(p, n) # NoAccount => Account(p, n).salt = n
  <1>1. NoAccount \in AccountKind
    BY DEF NoAccount, AccountKind, PasswordsOrNone
  <1>2. Empty \in StoreKind
    BY <1>1 DEF Empty, StoreKind
  <1>3. CASE p = None
    BY <1>1, <1>2, <1>3 DEF Account, NoAccount, PasswordOf, Known
  <1>4. CASE p # None
    BY <1>1, <1>2, <1>4 DEF Account, AccountKind, PasswordOf, Known
  <1> QED  BY <1>3, <1>4

LEMMA KnownFacts ==
  ASSUME NEW n \in Nat
  PROVE  /\ Known(NoAccount, n)
         /\ \A a \in AccountKind : Known(a, n) => Known(a, n + 1)
  BY DEF Known, NoAccount, AccountKind

LEMMA FreshFacts ==
  /\ Fresh \in SessionKind
  /\ Fresh.at = "idle" /\ Fresh.copy = Empty /\ Fresh.salt = 0
  <1>1. Empty \in StoreKind
    BY AccountFacts, PasswordsAssumption, 0 \in Nat, None \in PasswordsOrNone
    DEF PasswordsOrNone
  <1> QED  BY <1>1 DEF Fresh, SessionKind, PasswordsOrNone

LEMMA KindOfAccount ==
  ASSUME NEW f \in StoreKind, NEW u \in Users
  PROVE  /\ f[u] \in AccountKind
         /\ f[u].of \in Nat /\ f[u].salt \in Nat /\ f[u].pw \in PasswordsOrNone
         /\ PasswordOf(f[u]) \in PasswordsOrNone
  BY DEF StoreKind, AccountKind, PasswordOf, PasswordsOrNone

LEMMA InitInv == Init => IInv
  <1> SUFFICES ASSUME Init PROVE IInv
    OBVIOUS
  <1> DEFINE accountsOf == {w \in Users : Registered[w] # NoAccount}
  <1>1. Cardinality(accountsOf) \in Nat
    BY UsersAssumption, FS_Subset, FS_CardinalityType
  <1>2. Registered \in StoreKind
    BY RegisteredAssumption, MaxSaltsAssumption
    DEF Stores, Accounts, Salts, StoreKind, AccountKind, PasswordsOrNone
  <1>3. ASSUME NEW u \in Users
        PROVE  /\ Known(Registered[u], salts) /\ Registered[u].of = Registered[u].salt
               /\ Registered[u] # NoAccount => Registered[u].salt # 0
               /\ PasswordOf(Registered[u]) = Registered[u].pw
    <2>1. /\ Registered[u] = Account(Registered[u].pw, Registered[u].salt)
          /\ Registered[u].salt <= salts
          /\ Registered[u] # NoAccount => Registered[u].salt # 0
      BY RegisteredAssumption DEF Init
    <2>2. Registered[u].pw \in PasswordsOrNone /\ Registered[u].salt \in Nat
      BY <1>2, KindOfAccount
    <2>3. Registered[u].of = Registered[u].salt
      <3>1. CASE Registered[u].pw = None
        BY <2>1, <3>1 DEF Account, NoAccount
      <3>2. CASE Registered[u].pw # None
        BY <2>1, <3>2 DEF Account
      <3> QED  BY <3>1, <3>2
    <2> QED  BY <2>1, <2>3 DEF Known, PasswordOf
  <1>4. Empty \in StoreKind /\ \A u \in Users : Empty[u] = NoAccount
    BY AccountFacts, 0 \in Nat, None \in PasswordsOrNone DEF PasswordsOrNone, Empty, NoAccount
  <1>5. /\ server = "up" /\ locked = None /\ salts \in Nat /\ accounts = Registered
        /\ file = [data |-> Registered, form |-> "whole"]
        /\ password = [u \in Users |-> Registered[u].pw]
        /\ promised = [u \in Users |-> {Registered[u].pw}]
        /\ torn = {} /\ found = [s \in Sessions |-> NothingFound]
        /\ ses = [s \in Sessions |-> Fresh]
        /\ admin = [at |-> "idle", user |-> None, data |-> Empty]
    BY <1>1 DEF Init, NoAdmin
  <1>6. \A s \in Sessions : ses[s] = Fresh
    BY <1>5
  <1>7. Kinds
    <2>1. \A u \in Users : Registered[u].pw \in PasswordsOrNone
      BY <1>2, KindOfAccount
    <2>2. NothingFound \in PromiseKind
      BY DEF NothingFound, PromiseKind
    <2>3. file \in FileKind /\ promised \in PromiseKind
      BY <1>2, <1>5, <2>1 DEF FileKind, PromiseKind
    <2> QED  BY <1>2, <1>4, <1>5, <2>1, <2>2, <2>3, FreshFacts DEF Kinds
  <1>8. Calls
    BY <1>6, FreshFacts DEF Calls, In, Authenticating, Changing
  <1>9. LockHeld
    BY <1>5, <1>6, FreshFacts, SessionsAssumption DEF LockHeld, Replacing
  <1>10. Drawn
    BY <1>3, <1>4, <1>5, <1>6, FreshFacts, KnownFacts DEF Drawn, Replacing
  <1>11. Verdicts
    BY <1>3, <1>5, <1>6, FreshFacts DEF Verdicts, Current, Candidates, Candidate, Authenticating
  <1>12. Kept
    <2>1. Memory
      BY <1>3, <1>4, <1>5, <1>6, FreshFacts DEF Memory, Salted, In
    <2>2. Unseen
      BY <1>6, FreshFacts DEF Unseen, Replacing
    <2>3. Copies
      BY <1>6, FreshFacts DEF Copies, Copying
    <2>4. \A u \in Users : InMemory(u) = {Registered[u].pw}
      BY <1>5, <1>6, FreshFacts DEF InMemory, In
    <2>5. Promises
      BY <1>3, <1>5, <2>4 DEF Promises, NothingFound
    <2> QED  BY <2>1, <2>2, <2>3, <2>5 DEF Kept
  <1> QED  BY <1>7, <1>8, <1>9, <1>10, <1>11, <1>12 DEF IInv, Base

-----------------------------------------------------------------------------
(* The first layer: kinds, the lock and the salts.                         *)

(* A step of a session that neither replaces an account nor starts to. *)
Proper(r) ==
  /\ r \in SessionKind /\ r.at \notin {"setSalt", "setHash"}
  /\ r.at # "idle" => r.user \in Users
  /\ r.at \in Authenticating => r.old \in Passwords /\ r.verdict = "none"
  /\ r.at \in {"lock"} \cup Saving => r.new \in Passwords
  /\ \A u \in Users : Known(r.copy[u], salts)
Local(s, r) ==
  /\ server = "up" /\ ~Replacing(s)
  /\ ses' = [ses EXCEPT ![s] = r]
  /\ UNCHANGED <<server, accounts, locked, admin, salts, password>>
FilesKept == UNCHANGED <<file, history>>
FilesProper ==
  /\ file' \in FileKind
  /\ \A u \in Users : Known(file'.data[u], salts)
  /\ torn' = torn
  /\ found' \in [Sessions -> PromiseKind]
  /\ promised' \in PromiseKind

LEMMA LocalStep ==
  ASSUME Base, NEW s \in Sessions, NEW r, Proper(r), Local(s, r), FilesKept \/ FilesProper
  PROVE  Base'
  <1> Kinds /\ Calls /\ LockHeld /\ Drawn
    BY DEF Base
  <1>1. ses'[s] = r /\ \A t \in Sessions \ {s} : ses'[t] = ses[t]
    BY DEF Kinds, Local
  <1>2. FilesProper
    BY DEF FilesKept, FilesProper, Kinds, Drawn, history
  <1>3. Kinds'
    BY <1>2 DEF Kinds, Proper, Local, FilesProper
  <1>4. Calls'
    BY <1>1 DEF Calls, In, User, Changing, Saving, Proper
  <1>5. LockHeld'
    BY <1>1 DEF LockHeld, Replacing, Local, Proper
  <1>6. Drawn'
    BY <1>1, <1>2 DEF Drawn, Replacing, User, Proper, Local, FilesProper
  <1> QED  BY <1>3, <1>4, <1>5, <1>6 DEF Base

(* What the saves may come to hold is passwords. *)
LEMMA PromiseKinds ==
  ASSUME Base, NEW u \in Users
  PROVE  /\ InMemory(u) \in SUBSET PasswordsOrNone
         /\ UnderWay(u) \in SUBSET PasswordsOrNone
         /\ NothingFound \in PromiseKind
  <1> Kinds
    BY DEF Base
  <1>1. password[u] \in PasswordsOrNone /\ None \in PasswordsOrNone
    BY DEF Kinds, PasswordsOrNone
  <1>2. InMemory(u) \subseteq {password[u], None}
    BY DEF InMemory
  <1>3. \A s \in Sessions : found[s][u] \in SUBSET PasswordsOrNone
    BY DEF Kinds, PromiseKind
  <1>4. PasswordOf(admin.data[u]) \in PasswordsOrNone
    BY KindOfAccount DEF Kinds
  <1>5. UnderWay(u) \in SUBSET PasswordsOrNone
    <2>1. UNION {found[s][u] : s \in Sessions} \in SUBSET PasswordsOrNone
      BY <1>3
    <2> QED  BY <1>4, <2>1 DEF UnderWay
  <1>6. NothingFound \in PromiseKind
    BY DEF NothingFound, PromiseKind
  <1> QED  BY <1>1, <1>2, <1>5, <1>6

LEMMA MayFindFacts ==
  ASSUME Base, NEW u \in Users, NEW p \in PasswordsOrNone, MayFind(u, p)
  PROVE  /\ found' \in [Sessions -> PromiseKind] /\ promised' \in PromiseKind
         /\ promised'[u] = promised[u] \cup {p}
         /\ \A w \in Users \ {u} : promised'[w] = promised[w]
         /\ \A t \in Sessions :
              /\ Copying(t) => /\ found'[t][u] = found[t][u] \cup {p}
                               /\ \A w \in Users \ {u} : found'[t][w] = found[t][w]
              /\ ~Copying(t) => found'[t] = found[t]
  <1>1. found \in [Sessions -> PromiseKind] /\ promised \in PromiseKind
    BY DEF Base, Kinds
  <1>2. ASSUME NEW t \in Sessions
        PROVE  /\ [found[t] EXCEPT ![u] = @ \cup {p}] \in PromiseKind
               /\ [found[t] EXCEPT ![u] = @ \cup {p}][u] = found[t][u] \cup {p}
               /\ \A w \in Users \ {u} : [found[t] EXCEPT ![u] = @ \cup {p}][w] = found[t][w]
    BY <1>1 DEF PromiseKind
  <1>3. /\ promised' \in PromiseKind /\ promised'[u] = promised[u] \cup {p}
        /\ \A w \in Users \ {u} : promised'[w] = promised[w]
    BY <1>1 DEF MayFind, PromiseKind
  <1> QED  BY <1>1, <1>2, <1>3 DEF MayFind

(* A call in progress is of a running server. *)
LEMMA CallFacts ==
  ASSUME Base, NEW s \in Sessions, ~In(s, "idle")
  PROVE  /\ server = "up" /\ User(s) \in Users
         /\ ses[s] \in SessionKind /\ ses[s].salt \in Nat /\ ses[s].copy \in StoreKind
         /\ accounts[User(s)] \in AccountKind
         /\ \A u \in Users : Known(ses[s].copy[u], salts)
         /\ accounts \in StoreKind /\ salts \in Nat
         /\ \A u \in Users : Known(accounts[u], salts)
  BY DEF Base, Kinds, Calls, LockHeld, SessionKind, StoreKind, Drawn

(* What a session is after Return and after Change. *)
LEMMA ReturnFacts ==
  ASSUME NEW v \in {"none", "accepted", "refused"}
  PROVE  /\ [Fresh EXCEPT !.verdict = v] \in SessionKind
         /\ [Fresh EXCEPT !.verdict = v].at = "idle"
         /\ [Fresh EXCEPT !.verdict = v].copy = Empty
         /\ [Fresh EXCEPT !.verdict = v].verdict = v
         /\ \A u \in Users : [Fresh EXCEPT !.verdict = v].copy[u] = NoAccount
  <1>1. Fresh \in SessionKind /\ Fresh.at = "idle" /\ Fresh.copy = Empty
    BY FreshFacts
  <1> QED  BY <1>1 DEF SessionKind, Empty, NoAccount

LEMMA ChangeFacts ==
  ASSUME Base, NEW s \in Sessions, ~In(s, "idle"), NEW n \in Nat,
         NEW l \in {"lock", "setSalt", "snapshot"}
  PROVE  /\ Change(s, l, n) \in SessionKind
         /\ Change(s, l, n).at = l /\ Change(s, l, n).user = User(s)
         /\ Change(s, l, n).new = ses[s].new /\ Change(s, l, n).salt = n
         /\ \A u \in Users : Change(s, l, n).copy[u] = NoAccount
  <1>1. Fresh \in SessionKind /\ Fresh.at = "idle" /\ Fresh.copy = Empty
    BY FreshFacts
  <1>2. User(s) \in Users /\ ses[s].new \in PasswordsOrNone
    BY CallFacts DEF SessionKind
  <1> DEFINE u == User(s)  m == ses[s].new
  <1>3. Change(s, l, n) = [Fresh EXCEPT !.at = l, !.user = u, !.new = m, !.salt = n]
    BY DEF Change
  <1>4. l \in {"lock", "setSalt"} \cup Saving /\ u \in Users /\ m \in PasswordsOrNone
    BY <1>2 DEF Saving
  <1> HIDE DEF u, m
  <1>5. /\ Change(s, l, n) \in SessionKind
        /\ Change(s, l, n).at = l /\ Change(s, l, n).user = u
        /\ Change(s, l, n).new = m /\ Change(s, l, n).salt = n
        /\ Change(s, l, n).copy = Empty
    BY <1>1, <1>3, <1>4 DEF SessionKind
  <1> QED  BY <1>5 DEF Empty, NoAccount, u, m

LEMMA CallBase ==
  ASSUME Base, NEW s \in Sessions, NEW u \in Users, NEW p \in Passwords,
         NEW q \in Passwords \cup {None}, Call(s, u, p, q)
  PROVE  Base'
  <1> DEFINE b == ~\E t \in Sessions : Replacing(t) /\ User(t) = u
             r == [Fresh EXCEPT !.at = "lookup", !.user = u, !.old = p, !.new = q,
                                !.could = {password[u]}, !.alone = b]
  <1>1. Fresh \in SessionKind /\ Fresh.copy = Empty /\ Fresh.verdict = "none"
    BY FreshFacts DEF Fresh
  <1>2. password[u] \in PasswordsOrNone /\ p \in PasswordsOrNone /\ q \in PasswordsOrNone
    BY DEF Base, Kinds, PasswordsOrNone
  <1>3. b \in BOOLEAN
    OBVIOUS
  <1>4. /\ r \in SessionKind /\ r.at = "lookup" /\ r.user = u /\ r.old = p /\ r.verdict = "none"
        /\ r.copy = Empty
    <2> HIDE DEF b
    <2> QED  BY <1>1, <1>2, <1>3 DEF SessionKind, Authenticating
  <1>5. \A w \in Users : Known(r.copy[w], salts)
    BY <1>4, KnownFacts DEF Empty, Base, Kinds
  <1>6. Local(s, r)
    BY DEF Call, In, Replacing, Local
  <1>7. FilesKept
    BY DEF Call, FilesKept
  <1> HIDE DEF r
  <1>8. Proper(r)
    BY <1>4, <1>5 DEF Proper, Saving
  <1> QED  BY <1>6, <1>7, <1>8, LocalStep

(* What a call that goes on or returns is then. *)
LEMMA ReturnProper ==
  ASSUME Base, NEW v \in {"none", "accepted", "refused"}
  PROVE  Proper([Fresh EXCEPT !.verdict = v])
  <1> DEFINE r == [Fresh EXCEPT !.verdict = v]
  <1>1. /\ r \in SessionKind /\ r.at = "idle" /\ \A u \in Users : r.copy[u] = NoAccount
    BY ReturnFacts
  <1>2. salts \in Nat
    BY DEF Base, Kinds
  <1> HIDE DEF r
  <1>3. Proper(r)
    BY <1>1, <1>2, KnownFacts DEF Proper, Authenticating, Saving
  <1> QED  BY <1>3 DEF r

LEMMA LookupBase ==
  ASSUME Base, NEW s \in Sessions, Lookup(s)
  PROVE  Base'
  <1>1. server = "up" /\ ~Replacing(s) /\ FilesKept
    BY CallFacts DEF Lookup, In, Replacing, FilesKept
  <1>2. CASE accounts[User(s)] = NoAccount
    <2>1. Local(s, [Fresh EXCEPT !.verdict = "refused"])
      BY <1>1, <1>2 DEF Lookup, Return, Local
    <2> QED  BY <1>1, <2>1, ReturnProper, LocalStep
  <1>3. CASE accounts[User(s)] # NoAccount
    <2> DEFINE r == [ses[s] EXCEPT !.at = "readSalt"]
    <2>1. Local(s, r)
      BY <1>1, <1>3 DEF Lookup, Local
    <2>2. ses[s] \in SessionKind /\ \A u \in Users : Known(ses[s].copy[u], salts)
      BY CallFacts DEF Lookup, In
    <2>3. ses[s].user \in Users /\ ses[s].old \in Passwords /\ ses[s].verdict = "none"
      BY DEF Lookup, In, User, Base, Calls, Authenticating
    <2>4. r \in SessionKind /\ r.at = "readSalt" /\ r.user = ses[s].user /\ r.old = ses[s].old
          /\ r.verdict = ses[s].verdict /\ r.copy = ses[s].copy
      BY <2>2 DEF SessionKind, Authenticating
    <2> HIDE DEF r
    <2>5. Proper(r)
      BY <2>2, <2>3, <2>4 DEF Proper, Saving
    <2> QED  BY <1>1, <2>1, <2>5, LocalStep
  <1> QED  BY <1>2, <1>3

LEMMA ReadSaltBase ==
  ASSUME Base, NEW s \in Sessions, ReadSalt(s)
  PROVE  Base'
  <1> DEFINE n == accounts[User(s)].salt
             r == [ses[s] EXCEPT !.at = "readHash", !.salt = n]
  <1>1. server = "up" /\ ~Replacing(s) /\ FilesKept /\ n \in Nat
    BY CallFacts DEF ReadSalt, In, Replacing, FilesKept, AccountKind
  <1>2. ses[s] \in SessionKind /\ \A u \in Users : Known(ses[s].copy[u], salts)
    BY CallFacts DEF ReadSalt, In
  <1>3. ses[s].user \in Users /\ ses[s].old \in Passwords /\ ses[s].verdict = "none"
    BY DEF ReadSalt, In, User, Base, Calls, Authenticating
  <1>4. Local(s, r)
    BY <1>1, <1>2 DEF ReadSalt, Local, Base, Kinds, SessionKind
  <1>5. r \in SessionKind /\ r.at = "readHash" /\ r.user = ses[s].user /\ r.old = ses[s].old
        /\ r.verdict = ses[s].verdict /\ r.copy = ses[s].copy
    BY <1>1, <1>2 DEF SessionKind, Authenticating
  <1> HIDE DEF r, n
  <1>6. Proper(r)
    BY <1>2, <1>3, <1>5 DEF Proper, Saving
  <1> QED  BY <1>1, <1>4, <1>6, LocalStep

LEMMA ReadHashBase ==
  ASSUME Base, NEW s \in Sessions, ReadHash(s)
  PROVE  Base'
  <1>1. server = "up" /\ ~Replacing(s) /\ FilesKept /\ ~In(s, "idle") /\ salts \in Nat
    BY CallFacts DEF ReadHash, In, Replacing, FilesKept
  <1>2. CASE Return(s, "refused")
    <2>1. Local(s, [Fresh EXCEPT !.verdict = "refused"])
      BY <1>1, <1>2 DEF ReadHash, Return, Local
    <2> QED  BY <1>1, <2>1, ReturnProper, LocalStep
  <1>3. CASE Return(s, "accepted")
    <2>1. Local(s, [Fresh EXCEPT !.verdict = "accepted"])
      BY <1>1, <1>3 DEF ReadHash, Return, Local
    <2> QED  BY <1>1, <2>1, ReturnProper, LocalStep
  <1>4. CASE /\ ses[s].new # None
             /\ ses' = [ses EXCEPT ![s] = [Change(s, "lock", 0) EXCEPT !.verdict = "accepted"]]
    <2> DEFINE c == Change(s, "lock", 0)
               r == [c EXCEPT !.verdict = "accepted"]
    <2>1. Local(s, r)
      BY <1>1, <1>4 DEF ReadHash, Local
    <2>2. /\ c \in SessionKind /\ c.at = "lock" /\ c.user = User(s) /\ c.new = ses[s].new
          /\ \A u \in Users : c.copy[u] = NoAccount
      BY <1>1, ChangeFacts, 0 \in Nat
    <2>3. User(s) \in Users /\ ses[s].new \in Passwords
      <3>1. User(s) \in Users /\ ses[s] \in SessionKind
        BY <1>1, CallFacts
      <3> QED  BY <1>4, <3>1 DEF SessionKind, PasswordsOrNone
    <2> HIDE DEF c
    <2>4. /\ r \in SessionKind /\ r.at = "lock" /\ r.user = User(s) /\ r.new = ses[s].new
          /\ r.copy = c.copy
      BY <2>2 DEF SessionKind
    <2> HIDE DEF r
    <2>5. Proper(r)
      BY <1>1, <2>2, <2>3, <2>4, KnownFacts DEF Proper, Saving, Authenticating
    <2> QED  BY <1>1, <2>1, <2>5, LocalStep
  <1> QED  BY <1>2, <1>3, <1>4 DEF ReadHash

LEMMA LockBase ==
  ASSUME Base, NEW s \in Sessions, Lock(s)
  PROVE  Base'
  <1> Kinds /\ Calls /\ LockHeld /\ Drawn
    BY DEF Base
  <1> DEFINE n == salts + 1
             c == Change(s, "setSalt", n)
             r(t) == [ses[t] EXCEPT !.alone = @ /\ User(t) # User(s)]
  <1>1. /\ In(s, "lock") /\ locked = None /\ locked' = s /\ salts' = n
        /\ ses' = [t \in Sessions |-> IF t = s THEN c ELSE r(t)]
        /\ UNCHANGED <<server, accounts, file, admin, password, torn, found, promised>>
    BY DEF Lock, LockFree, history
  <1>2. /\ n \in Nat /\ n # 0 /\ salts < n /\ salts \in Nat /\ server = "up"
        /\ User(s) \in Users /\ ses[s].new \in Passwords /\ Known(accounts[User(s)], salts)
        /\ accounts[User(s)].of \in Nat
    BY <1>1, CallFacts DEF In, Calls, AccountKind
  <1>3. /\ c \in SessionKind /\ c.at = "setSalt" /\ c.user = User(s) /\ c.salt = n
        /\ c.new = ses[s].new /\ \A u \in Users : c.copy[u] = NoAccount
    BY <1>1, <1>2, ChangeFacts DEF In
  <1>4. ASSUME NEW t \in Sessions
        PROVE  /\ r(t) \in SessionKind /\ r(t).at = ses[t].at /\ r(t).user = ses[t].user
               /\ r(t).old = ses[t].old /\ r(t).new = ses[t].new /\ r(t).salt = ses[t].salt
               /\ r(t).copy = ses[t].copy /\ r(t).verdict = ses[t].verdict
    <2>1. ses[t] \in SessionKind
      BY DEF Kinds
    <2> DEFINE b == ses[t].alone /\ User(t) # User(s)
    <2>2. b \in BOOLEAN /\ r(t) = [ses[t] EXCEPT !.alone = b]
      OBVIOUS
    <2> HIDE DEF b
    <2> QED  BY <2>1, <2>2 DEF SessionKind
  <1> HIDE DEF c, r, n
  <1>5. ses'[s] = c /\ \A t \in Sessions \ {s} : ses'[t] = r(t)
    BY <1>1
  <1>6. Kinds'
    <2>1. ses' \in [Sessions -> SessionKind]
      BY <1>1, <1>3, <1>4
    <2> QED  BY <1>1, <1>2, <2>1 DEF Kinds
  <1>7. Calls'
    BY <1>2, <1>3, <1>4, <1>5 DEF Calls, In, User, Changing, Authenticating, Saving
  <1>8. LockHeld'
    BY <1>1, <1>2, <1>3, <1>4, <1>5, SessionsAssumption DEF LockHeld, Replacing
  <1>9. Drawn'
    <2>1. \A u \in Users : /\ Known(accounts'[u], salts') /\ Known(file'.data[u], salts')
                           /\ Known(admin'.data[u], salts')
      <3>1. ASSUME NEW u \in Users
            PROVE  /\ accounts[u] \in AccountKind /\ file.data[u] \in AccountKind
                   /\ admin.data[u] \in AccountKind
        BY DEF Kinds, FileKind, StoreKind
      <3> QED  BY <1>1, <1>2, <3>1, KnownFacts DEF Drawn, n
    <2>2. ASSUME NEW u \in Users, NEW t \in Sessions
          PROVE  Known(ses'[t].copy[u], salts')
      <3>1. CASE t = s
        BY <1>1, <1>2, <1>3, <1>5, <3>1, KnownFacts
      <3>2. CASE t # s
        <4>1. ses[t].copy[u] \in AccountKind /\ Known(ses[t].copy[u], salts)
          BY DEF Kinds, SessionKind, StoreKind, Drawn
        <4> QED  BY <1>1, <1>2, <1>4, <1>5, <3>2, <4>1, KnownFacts DEF n
      <3> QED  BY <3>1, <3>2
    <2>3. \A t \in Sessions : Replacing(t)' => t = s
      BY <1>1, <1>4, <1>5, SessionsAssumption DEF LockHeld, Replacing
    <2>4. ses'[s].salt \in 1..salts' /\ accounts'[ses'[s].user].of # ses'[s].salt
      BY <1>1, <1>2, <1>3, <1>5 DEF Known
    <2> QED  BY <2>1, <2>2, <2>3, <2>4 DEF Drawn, User, Replacing
  <1> QED  BY <1>6, <1>7, <1>8, <1>9 DEF Base

LEMMA SetSaltBase ==
  ASSUME Base, NEW s \in Sessions, SetSalt(s)
  PROVE  Base'
  <1> Kinds /\ Calls /\ LockHeld /\ Drawn
    BY DEF Base
  <1> DEFINE u == User(s)
             r == [ses[s] EXCEPT !.at = "setHash"]
  <1>1. /\ In(s, "setSalt") /\ accounts' = [accounts EXCEPT ![u].salt = ses[s].salt]
        /\ ses' = [ses EXCEPT ![s] = r]
        /\ UNCHANGED <<server, locked, file, admin, salts, password, torn>>
        /\ MayFind(u, None)
    BY DEF SetSalt
  <1>2. /\ u \in Users /\ ses[s] \in SessionKind /\ ses[s].salt \in Nat /\ server = "up"
        /\ accounts \in StoreKind
    BY <1>1, CallFacts DEF In
  <1>3. /\ r \in SessionKind /\ r.at = "setHash" /\ r.user = u /\ r.new = ses[s].new
        /\ r.salt = ses[s].salt /\ r.copy = ses[s].copy
    BY <1>2 DEF SessionKind, User
  <1>4. accounts' \in StoreKind /\ \A w \in Users : accounts'[w].of = accounts[w].of
    BY <1>1, <1>2 DEF StoreKind, AccountKind
  <1> HIDE DEF r
  <1>5. ses'[s] = r /\ \A t \in Sessions \ {s} : ses'[t] = ses[t]
    BY <1>1 DEF Kinds
  <1>6. Kinds'
    <2>1. found' \in [Sessions -> PromiseKind] /\ promised' \in PromiseKind
      BY <1>1, <1>2, MayFindFacts, None \in PasswordsOrNone DEF PasswordsOrNone
    <2> QED  BY <1>1, <1>3, <1>4, <2>1 DEF Kinds
  <1>7. Calls'
    BY <1>1, <1>2, <1>3, <1>5 DEF Calls, In, User, Changing, Authenticating, Saving
  <1>8. LockHeld'
    BY <1>1, <1>2, <1>3, <1>5 DEF LockHeld, Replacing, In
  <1>9. Drawn'
    <2>1. \A t \in Sessions : Replacing(t)' => t = s
      BY <1>1, <1>5, SessionsAssumption DEF LockHeld, Replacing, In
    <2>2. ses[s].salt \in 1..salts
      BY <1>1 DEF Drawn, Replacing, In
    <2>3. \A w \in Users : Known(accounts'[w], salts)
      BY <1>1, <1>2, <1>4, <2>2 DEF Drawn, Known, StoreKind, AccountKind
    <2> QED  BY <1>1, <1>2, <1>3, <1>4, <1>5, <2>1, <2>2, <2>3 DEF Drawn, User, Replacing, In
  <1> QED  BY <1>6, <1>7, <1>8, <1>9 DEF Base

LEMMA SetHashBase ==
  ASSUME Base, NEW s \in Sessions, SetHash(s)
  PROVE  Base'
  <1> Kinds /\ Calls /\ LockHeld /\ Drawn
    BY DEF Base
  <1> DEFINE u == User(s)
             p == ses[s].new
             c == Change(s, "snapshot", 0)
             r(t) == [ses[t] EXCEPT !.could = @ \cup {p}]
  <1>1. /\ In(s, "setHash")
        /\ accounts' = [accounts EXCEPT ![u] = [@ EXCEPT !.pw = p, !.of = accounts[u].salt]]
        /\ password' = [password EXCEPT ![u] = p] /\ locked' = None
        /\ ses' = [t \in Sessions |-> IF t = s THEN c ELSE IF User(t) # u THEN ses[t] ELSE r(t)]
        /\ UNCHANGED <<server, file, admin, salts>> /\ torn' = torn \ {u}
        /\ MayFind(u, p)
    BY DEF SetHash, Rehash, Base, Kinds, StoreKind
  <1>2. /\ u \in Users /\ server = "up" /\ p \in Passwords /\ salts \in Nat
        /\ accounts[u] \in AccountKind /\ accounts \in StoreKind
    BY <1>1, CallFacts DEF In, Calls, Changing
  <1>3. /\ c \in SessionKind /\ c.at = "snapshot" /\ c.user = u /\ c.new = p /\ c.salt = 0
        /\ \A w \in Users : c.copy[w] = NoAccount
    BY <1>1, ChangeFacts, 0 \in Nat DEF In
  <1>4. ASSUME NEW t \in Sessions
        PROVE  /\ r(t) \in SessionKind /\ r(t).at = ses[t].at /\ r(t).user = ses[t].user
               /\ r(t).old = ses[t].old /\ r(t).new = ses[t].new /\ r(t).salt = ses[t].salt
               /\ r(t).copy = ses[t].copy /\ r(t).verdict = ses[t].verdict
    <2>1. ses[t] \in SessionKind /\ ses[t].could \cup {p} \in SUBSET PasswordsOrNone
      BY <1>2 DEF Kinds, SessionKind, PasswordsOrNone
    <2> QED  BY <2>1 DEF SessionKind
  <1> HIDE DEF c, r
  <1>5. /\ ses'[s] = c
        /\ \A t \in Sessions \ {s} :
             /\ ses'[t] \in SessionKind /\ ses'[t].at = ses[t].at /\ ses'[t].user = ses[t].user
             /\ ses'[t].old = ses[t].old /\ ses'[t].new = ses[t].new
             /\ ses'[t].salt = ses[t].salt /\ ses'[t].copy = ses[t].copy
             /\ ses'[t].verdict = ses[t].verdict
    BY <1>1, <1>4 DEF Kinds
  <1>6. accounts' \in StoreKind
    BY <1>1, <1>2 DEF StoreKind, AccountKind, PasswordsOrNone
  <1>7. Kinds'
    <2>1. ses' \in [Sessions -> SessionKind]
      <3>1. ses' = [t \in Sessions |-> ses'[t]]
        BY <1>1
      <3>2. \A t \in Sessions : ses'[t] \in SessionKind
        BY <1>3, <1>5
      <3> QED  BY <3>1, <3>2
    <2>2. password' \in [Users -> PasswordsOrNone]
      BY <1>1, <1>2 DEF Kinds, PasswordsOrNone
    <2>3. found' \in [Sessions -> PromiseKind] /\ promised' \in PromiseKind
      BY <1>1, <1>2, MayFindFacts DEF PasswordsOrNone
    <2> QED  BY <1>1, <1>6, <2>1, <2>2, <2>3 DEF Kinds
  <1>8. Calls'
    BY <1>2, <1>3, <1>5 DEF Calls, In, User, Changing, Authenticating, Saving
  <1>9. LockHeld'
    BY <1>1, <1>2, <1>3, <1>5, SessionsAssumption DEF LockHeld, Replacing, In
  <1>10. Drawn'
    <2>1. \A w \in Users : Known(accounts'[w], salts)
      BY <1>1, <1>2 DEF Drawn, Known, StoreKind, AccountKind
    <2>2. \A t \in Sessions : ~Replacing(t)'
      BY <1>1, <1>3, <1>5, SessionsAssumption DEF LockHeld, Replacing, In
    <2>3. \A t \in Sessions, w \in Users : Known(ses'[t].copy[w], salts)
      BY <1>2, <1>3, <1>5, KnownFacts DEF Drawn
    <2> QED  BY <1>1, <2>1, <2>2, <2>3 DEF Drawn
  <1> QED  BY <1>7, <1>8, <1>9, <1>10 DEF Base

(* The steps of saveLocked change only what is copied and the file. *)
LEMMA SaveProper ==
  ASSUME Base, NEW s \in Sessions, ses[s].at \in Saving,
         NEW l \in Saving, NEW d \in SUBSET Users, NEW c \in StoreKind,
         \A u \in Users : Known(c[u], salts)
  PROVE  /\ Proper([ses[s] EXCEPT !.at = l, !.todo = d, !.copy = c])
         /\ server = "up" /\ ~Replacing(s) /\ ses[s] \in SessionKind
  <1> DEFINE r == [ses[s] EXCEPT !.at = l, !.todo = d, !.copy = c]
  <1>1. ~In(s, "idle") /\ ~Replacing(s) /\ Changing(s)
    BY DEF In, Replacing, Changing, Saving
  <1>2. server = "up" /\ ses[s] \in SessionKind /\ ses[s].user \in Users /\ ses[s].new \in Passwords
    BY <1>1, CallFacts DEF User, Base, Calls
  <1>3. /\ r \in SessionKind /\ r.at = l /\ r.user = ses[s].user /\ r.new = ses[s].new
        /\ r.copy = c
    BY <1>2 DEF SessionKind
  <1> HIDE DEF r
  <1>4. Proper(r)
    BY <1>2, <1>3 DEF Proper, Saving, Authenticating
  <1> QED  BY <1>1, <1>2, <1>4 DEF r

LEMMA SnapshotBase ==
  ASSUME Base, NEW s \in Sessions, Snapshot(s)
  PROVE  Base'
  <1> DEFINE d == {u \in Users : accounts[u] # NoAccount}
  <1>1. ses[s].at \in Saving /\ "marshal" \in Saving /\ d \in SUBSET Users /\ salts \in Nat
    BY DEF Snapshot, In, Saving, Base, Kinds
  <1>2. Empty \in StoreKind /\ \A u \in Users : Known(Empty[u], salts)
    BY <1>1, FreshFacts, AccountFacts, KnownFacts, None \in PasswordsOrNone
    DEF Empty, PasswordsOrNone
  <1> DEFINE r == [ses[s] EXCEPT !.at = "marshal", !.todo = d, !.copy = Empty]
  <1>3. Proper(r) /\ server = "up" /\ ~Replacing(s) /\ ses[s] \in SessionKind
    BY <1>1, <1>2, SaveProper
  <1>4. ses' = [ses EXCEPT ![s] = r]
    BY <1>3 DEF Snapshot, Base, Kinds, SessionKind
  <1>5. Local(s, r)
    BY <1>3, <1>4 DEF Local, Snapshot
  <1>6. FilesProper
    <2>1. [u \in Users |-> InMemory(u)] \in PromiseKind
      BY PromiseKinds DEF PromiseKind
    <2> QED  BY <2>1 DEF FilesProper, Snapshot, Base, Kinds, Drawn
  <1> HIDE DEF r
  <1> QED  BY <1>3, <1>5, <1>6, LocalStep

LEMMA MarshalHashBase ==
  ASSUME Base, NEW s \in Sessions, NEW u \in Users, MarshalHash(s, u)
  PROVE  Base'
  <1> DEFINE h == HalfOf(accounts[u])
             c == [ses[s].copy EXCEPT ![u] = h]
             d == ses[s].todo \ {u}
             r == [ses[s] EXCEPT !.at = "half", !.todo = d, !.copy = c]
  <1>1. ses[s].at \in Saving /\ "half" \in Saving /\ ~In(s, "idle")
    BY DEF MarshalHash, In, Saving
  <1>2. /\ ses[s] \in SessionKind /\ ses[s].copy \in StoreKind /\ accounts \in StoreKind
        /\ \A w \in Users : Known(ses[s].copy[w], salts) /\ Known(accounts[w], salts)
        /\ salts \in Nat
    BY <1>1, CallFacts
  <1>3. h \in AccountKind /\ Known(h, salts)
    BY <1>2 DEF HalfOf, AccountKind, StoreKind, Known
  <1>4. d \in SUBSET Users
    BY <1>2 DEF SessionKind
  <1>5. ses' = [ses EXCEPT ![s] = r]
    BY <1>2 DEF MarshalHash, Base, Kinds, SessionKind, HalfOf
  <1> HIDE DEF h, d
  <1>6. c \in StoreKind /\ \A w \in Users : Known(c[w], salts)
    BY <1>2, <1>3 DEF StoreKind
  <1> HIDE DEF c
  <1>7. Proper(r) /\ server = "up" /\ ~Replacing(s)
    BY <1>1, <1>4, <1>6, SaveProper
  <1>8. Local(s, r) /\ FilesKept
    BY <1>5, <1>7 DEF Local, FilesKept, MarshalHash
  <1> HIDE DEF r
  <1> QED  BY <1>7, <1>8, LocalStep

LEMMA MarshalSaltBase ==
  ASSUME Base, NEW s \in Sessions, NEW u \in Users, MarshalSalt(s, u)
  PROVE  Base'
  <1> DEFINE h == [ses[s].copy[u] EXCEPT !.salt = accounts[u].salt]
             c == [ses[s].copy EXCEPT ![u] = h]
             d == ses[s].todo
             r == [ses[s] EXCEPT !.at = "marshal", !.todo = d, !.copy = c]
  <1>1. ses[s].at \in Saving /\ "marshal" \in Saving /\ ~In(s, "idle")
    BY DEF MarshalSalt, In, Saving
  <1>2. /\ ses[s] \in SessionKind /\ ses[s].copy \in StoreKind /\ accounts \in StoreKind
        /\ \A w \in Users : Known(ses[s].copy[w], salts) /\ Known(accounts[w], salts)
        /\ salts \in Nat
    BY <1>1, CallFacts
  <1>3. h \in AccountKind /\ Known(h, salts)
    BY <1>2 DEF AccountKind, StoreKind, Known
  <1>4. d \in SUBSET Users
    BY <1>2 DEF SessionKind
  <1>5. ses' = [ses EXCEPT ![s] = r]
    BY <1>2 DEF MarshalSalt, Base, Kinds, SessionKind, StoreKind
  <1> HIDE DEF h, d
  <1>6. c \in StoreKind /\ \A w \in Users : Known(c[w], salts)
    BY <1>2, <1>3 DEF StoreKind
  <1> HIDE DEF c
  <1>7. Proper(r) /\ server = "up" /\ ~Replacing(s)
    BY <1>1, <1>4, <1>6, SaveProper
  <1>8. Local(s, r) /\ FilesKept
    BY <1>5, <1>7 DEF Local, FilesKept, MarshalSalt
  <1> HIDE DEF r
  <1> QED  BY <1>7, <1>8, LocalStep

LEMMA TruncateBase ==
  ASSUME Base, NEW s \in Sessions, Truncate(s)
  PROVE  Base'
  <1> DEFINE c == ses[s].copy
             d == ses[s].todo
             r == [ses[s] EXCEPT !.at = "write", !.todo = d, !.copy = c]
  <1>1. ses[s].at \in Saving /\ "write" \in Saving /\ ~In(s, "idle")
    BY DEF Truncate, In, Saving
  <1>2. ses[s] \in SessionKind /\ c \in StoreKind /\ \A w \in Users : Known(c[w], salts)
    BY <1>1, CallFacts
  <1>3. d \in SUBSET Users
    BY <1>2 DEF SessionKind
  <1>4. Proper(r) /\ server = "up" /\ ~Replacing(s)
    BY <1>1, <1>2, <1>3, SaveProper
  <1>5. ses' = [ses EXCEPT ![s] = r]
    BY <1>2 DEF Truncate, Base, Kinds, SessionKind
  <1>6. Local(s, r)
    BY <1>4, <1>5 DEF Local, Truncate
  <1>7. FilesProper
    <2>1. file' = [file EXCEPT !.form = "empty"] /\ UNCHANGED <<torn, found, promised>>
      BY DEF Truncate, history
    <2> QED  BY <2>1 DEF FilesProper, Base, Kinds, Drawn, FileKind
  <1> HIDE DEF r
  <1> QED  BY <1>4, <1>6, <1>7, LocalStep

(* What writing, and a write that fails, leave of the file. *)
LEMMA WrittenFacts ==
  ASSUME NEW d, file' \in Written(d)
  PROVE  file'.data = d /\ file'.form \in {"whole", "broken"} /\ file' = [data |-> d, form |-> file'.form]
  BY DEF Written

LEMMA CutOffFacts ==
  ASSUME file \in FileKind, file' \in CutOff
  PROVE  /\ file'.data = file.data /\ file' \in FileKind
         /\ file'.form = "broken" \/ (file'.form = "whole" /\ file.form = "whole")
  <1>1. file' = [file EXCEPT !.form = "broken"] \/ (file' = file /\ file.form = "whole")
    BY DEF CutOff
  <1>2. CASE file' = [file EXCEPT !.form = "broken"]
    BY <1>2 DEF FileKind
  <1>3. CASE file' = file /\ file.form = "whole"
    BY <1>3
  <1> QED  BY <1>1, <1>2, <1>3

(* A save that ends, well or not. *)
SaveEnds(s) ==
  /\ ses[s].at \in {"marshal", "write"}
  /\ Return(s, "none") /\ Ends(s)
  /\ UNCHANGED <<server, accounts, locked, admin, salts, password, torn>>
  /\ \/ /\ UNCHANGED promised
        /\ (file' = file /\ ~In(s, "write")) \/ file' \in CutOff
     \/ /\ In(s, "write") /\ file' \in Written(ses[s].copy)
        /\ promised' = [promised EXCEPT ![User(s)] = UnderWay(User(s))]

LEMMA SaveEndsBase ==
  ASSUME Base, NEW s \in Sessions, SaveEnds(s)
  PROVE  Base'
  <1> Kinds
    BY DEF Base
  <1>1. ~In(s, "idle") /\ ~Replacing(s) /\ Changing(s)
    BY DEF SaveEnds, In, Replacing, Changing
  <1>2. /\ server = "up" /\ ses[s].copy \in StoreKind /\ User(s) \in Users
        /\ \A w \in Users : Known(ses[s].copy[w], salts)
    BY <1>1, CallFacts
  <1>3. Local(s, [Fresh EXCEPT !.verdict = "none"])
    BY <1>1, <1>2 DEF SaveEnds, Return, Local
  <1>4. FilesProper
    <2>1. found' \in [Sessions -> PromiseKind]
      BY <1>2, PromiseKinds DEF SaveEnds, Ends, Kinds
    <2>2. promised' \in PromiseKind
      BY <1>2, PromiseKinds DEF SaveEnds, Kinds, PromiseKind
    <2>3. file' \in FileKind /\ \A u \in Users : Known(file'.data[u], salts)
      <3>1. CASE file' = file
        BY <3>1 DEF Kinds, Base, Drawn
      <3>2. CASE file' \in CutOff
        BY <3>2, CutOffFacts DEF Kinds, Base, Drawn
      <3>3. CASE file' \in Written(ses[s].copy)
        BY <1>2, <3>3, WrittenFacts DEF FileKind
      <3> QED  BY <3>1, <3>2, <3>3 DEF SaveEnds
    <2> QED  BY <2>1, <2>2, <2>3 DEF FilesProper, SaveEnds
  <1> QED  BY <1>3, <1>4, ReturnProper, LocalStep

LEMMA EndOfSave ==
  ASSUME NEW s \in Sessions, OpenFails(s) \/ WriteFile(s) \/ WriteFails(s)
  PROVE  SaveEnds(s)
  BY DEF OpenFails, WriteFile, WriteFails, SaveEnds, In

(* What a step of saveLocked makes of its session. *)
SavesTo(s, l, d, c) ==
  /\ ses'[s].at = l /\ ses'[s].todo = d /\ ses'[s].copy = c
  /\ ses'[s].user = ses[s].user /\ ses'[s].new = ses[s].new
  /\ \A t \in Sessions \ {s} : ses'[t] = ses[t]
  /\ UNCHANGED <<server, accounts, password>>

LEMMA SaveFacts ==
  ASSUME Base, NEW s \in Sessions, NEW u
  PROVE  /\ Snapshot(s) => SavesTo(s, "marshal", {w \in Users : accounts[w] # NoAccount}, Empty)
         /\ MarshalHash(s, u) => SavesTo(s, "half", ses[s].todo \ {u},
                                         [ses[s].copy EXCEPT ![u] = HalfOf(accounts[u])])
         /\ MarshalSalt(s, u) => SavesTo(s, "marshal", ses[s].todo,
                                         [ses[s].copy EXCEPT ![u] =
                                            [ses[s].copy[u] EXCEPT !.salt = accounts[u].salt]])
         /\ Truncate(s) => SavesTo(s, "write", ses[s].todo, ses[s].copy)
  <1>1. /\ ses[s] \in SessionKind /\ ses[s].copy \in StoreKind
        /\ ses \in [Sessions -> SessionKind]
    BY DEF Base, Kinds, SessionKind
  <1>2. ASSUME Snapshot(s)
        PROVE  SavesTo(s, "marshal", {w \in Users : accounts[w] # NoAccount}, Empty)
    BY <1>1, <1>2 DEF Snapshot, SavesTo, SessionKind
  <1>3. ASSUME MarshalHash(s, u)
        PROVE  SavesTo(s, "half", ses[s].todo \ {u},
                       [ses[s].copy EXCEPT ![u] = HalfOf(accounts[u])])
    BY <1>1, <1>3 DEF MarshalHash, SavesTo, SessionKind, HalfOf
  <1>4. ASSUME MarshalSalt(s, u)
        PROVE  SavesTo(s, "marshal", ses[s].todo, [ses[s].copy EXCEPT ![u] =
                                          [ses[s].copy[u] EXCEPT !.salt = accounts[u].salt]])
    BY <1>1, <1>4 DEF MarshalSalt, SavesTo, SessionKind, StoreKind
  <1>5. ASSUME Truncate(s) PROVE SavesTo(s, "write", ses[s].todo, ses[s].copy)
    BY <1>1, <1>5 DEF Truncate, SavesTo, SessionKind
  <1> QED  BY <1>2, <1>3, <1>4, <1>5

LEMMA AdminLoadBase ==
  ASSUME Base, NEW u \in Users, NEW p \in Passwords \cup {None}, AdminLoad(u, p)
  PROVE  Base'
  <1> Kinds /\ Calls /\ LockHeld /\ Drawn
    BY DEF Base
  <1> DEFINE n == salts + 1
             a == Account(p, n)
  <1>1. /\ admin' = [at |-> "truncate", user |-> u, data |-> [file.data EXCEPT ![u] = a]]
        /\ salts' = n
        /\ promised' = [promised EXCEPT ![u] = @ \cup {p}]
        /\ UNCHANGED <<server, accounts, locked, ses, file, password, torn, found>>
    BY DEF AdminLoad, Loaded, Kinds
  <1>2. salts \in Nat /\ n \in Nat /\ n # 0 /\ file.data \in StoreKind /\ salts' \in Nat
    BY <1>1 DEF Kinds, FileKind
  <1>3. a \in AccountKind /\ Known(a, salts')
    <2>1. a \in AccountKind /\ Known(a, n)
      BY <1>2, AccountFacts DEF PasswordsOrNone
    <2>2. p = None => a = NoAccount
      BY DEF Account
    <2> QED  BY <1>1, <1>2, <2>1, <2>2, KnownFacts
  <1>4. \A b \in AccountKind : Known(b, salts) => Known(b, salts')
    BY <1>1, <1>2, KnownFacts
  <1> HIDE DEF a
  <1>5. admin'.data \in StoreKind /\ \A w \in Users : Known(admin'.data[w], salts')
    <2>1. \A w \in Users : file.data[w] \in AccountKind /\ Known(file.data[w], salts)
      BY DEF Kinds, FileKind, StoreKind, Drawn
    <2> QED  BY <1>1, <1>2, <1>3, <1>4, <2>1 DEF StoreKind
  <1>6. Kinds'
    <2>1. promised' \in PromiseKind
      BY <1>1 DEF Kinds, PromiseKind, PasswordsOrNone
    <2> QED  BY <1>1, <1>2, <1>5, <2>1 DEF Kinds
  <1>7. Calls'
    BY <1>1 DEF Calls, In, User, Changing
  <1>8. LockHeld'
    BY <1>1 DEF LockHeld, Replacing, In
  <1>9. Drawn'
    <2>1. \A w \in Users : /\ Known(accounts'[w], salts') /\ Known(file'.data[w], salts')
                           /\ \A s \in Sessions : Known(ses'[s].copy[w], salts')
      <3>1. \A w \in Users : /\ accounts[w] \in AccountKind /\ file.data[w] \in AccountKind
                             /\ \A s \in Sessions : ses[s].copy[w] \in AccountKind
        BY DEF Kinds, FileKind, SessionKind, StoreKind
      <3> QED  BY <1>1, <1>4, <3>1 DEF Drawn
    <2>2. \A s \in Sessions : Replacing(s)' => /\ ses'[s].salt \in 1..salts'
                                               /\ accounts'[ses'[s].user].of # ses'[s].salt
      <3>1. \A s \in Sessions : Replacing(s)' => Replacing(s)
        BY <1>1 DEF Replacing
      <3> QED  BY <1>1, <1>2, <3>1 DEF Drawn, User
    <2> QED  BY <1>5, <2>1, <2>2 DEF Drawn, User
  <1> QED  BY <1>6, <1>7, <1>8, <1>9 DEF Base

LEMMA AdminSaveBase ==
  ASSUME Base, AdminTruncate \/ AdminWrite \/ AdminFails
  PROVE  Base'
  <1> Kinds /\ Calls /\ LockHeld /\ Drawn
    BY DEF Base
  <1>1. UNCHANGED <<server, accounts, locked, ses, salts, password, torn, found>>
    BY DEF AdminTruncate, AdminWrite, AdminFails, history
  <1>2. /\ Empty \in StoreKind /\ \A u \in Users : Known(Empty[u], salts)
        /\ NoAdmin = [at |-> "idle", user |-> None, data |-> Empty]
    BY AccountFacts, KnownFacts, None \in PasswordsOrNone, salts \in Nat
    DEF Empty, PasswordsOrNone, Kinds, NoAdmin
  <1>3. /\ admin' \in [at : {"idle", "truncate", "write"}, user : Users \cup {None},
                       data : StoreKind]
        /\ \A u \in Users : Known(admin'.data[u], salts)
    BY <1>2 DEF AdminTruncate, AdminWrite, AdminFails, Kinds, Drawn
  <1>4. file' \in FileKind /\ \A u \in Users : Known(file'.data[u], salts)
    <2>1. CASE AdminTruncate
      BY <2>1 DEF AdminTruncate, Kinds, Drawn, FileKind
    <2>2. CASE AdminWrite
      BY <2>2, WrittenFacts DEF AdminWrite, Kinds, Drawn, FileKind
    <2>3. CASE AdminFails
      BY <2>3, CutOffFacts DEF AdminFails, Kinds, Drawn
    <2> QED  BY <2>1, <2>2, <2>3
  <1>5. promised' \in PromiseKind
    <2>1. CASE AdminWrite
      <3> DEFINE u == admin.user
                 P == UnderWay(u) \cup InMemory(u)
      <3>1. promised' = [promised EXCEPT ![u] = P]
        BY <2>1 DEF AdminWrite
      <3>2. u \in Users => P \in SUBSET PasswordsOrNone
        BY PromiseKinds
      <3> HIDE DEF P, u
      <3> QED  BY <3>1, <3>2 DEF Kinds, PromiseKind
    <2>2. CASE AdminTruncate \/ AdminFails
      BY <2>2 DEF AdminTruncate, AdminFails, history, Kinds
    <2> QED  BY <2>1, <2>2
  <1>6. Kinds'
    BY <1>1, <1>3, <1>4, <1>5 DEF Kinds
  <1>7. Calls'
    BY <1>1 DEF Calls, In, User, Changing
  <1>8. LockHeld'
    BY <1>1 DEF LockHeld, Replacing, In
  <1>9. Drawn'
    BY <1>1, <1>3, <1>4 DEF Drawn, Replacing, User
  <1> QED  BY <1>6, <1>7, <1>8, <1>9 DEF Base

LEMMA StopBase ==
  ASSUME Base, Stop
  PROVE  Base'
  <1> Kinds /\ Calls /\ LockHeld /\ Drawn
    BY DEF Base
  <1>1. /\ server' = "down" /\ accounts' = Empty /\ locked' = None
        /\ \A s \in Sessions : ses'[s] = Fresh
        /\ ses' = [s \in Sessions |-> Fresh]
        /\ UNCHANGED <<admin, salts, password, torn, promised>>
        /\ found' = [s \in Sessions |-> NothingFound]
    BY DEF Stop
  <1>2. Empty \in StoreKind /\ \A u \in Users : Known(Empty[u], salts)
    BY AccountFacts, KnownFacts, None \in PasswordsOrNone, salts \in Nat
    DEF Empty, PasswordsOrNone, Kinds
  <1>3. /\ file' \in FileKind /\ file'.data = file.data
        /\ NothingFound \in PromiseKind
    BY DEF Stop, Kinds, FileKind, NothingFound, PromiseKind
  <1>4. Kinds'
    BY <1>1, <1>2, <1>3, FreshFacts DEF Kinds
  <1>5. Calls'
    BY <1>1, FreshFacts DEF Calls, In, Authenticating, Changing
  <1>6. LockHeld'
    BY <1>1, FreshFacts, SessionsAssumption DEF LockHeld, Replacing, In
  <1>7. Drawn'
    BY <1>1, <1>2, <1>3, FreshFacts DEF Drawn, Replacing
  <1> QED  BY <1>4, <1>5, <1>6, <1>7 DEF Base

LEMMA StartBase ==
  ASSUME Base, Start
  PROVE  Base'
  <1> Kinds /\ Calls /\ LockHeld /\ Drawn
    BY DEF Base
  <1>1. /\ server # "up" /\ UNCHANGED <<locked, ses, file, admin, salts, found, promised>>
        /\ server' \in {"up", "refused"} /\ torn' \in SUBSET Users
        /\ accounts' \in {accounts, file.data}
        /\ \/ password' = password
           \/ password' = [u \in Users |-> PasswordOf(file.data[u])]
    BY DEF Start, Loaded, Kinds
  <1>2. password' \in [Users -> PasswordsOrNone]
    <2>1. \A u \in Users : PasswordOf(file.data[u]) \in PasswordsOrNone
      BY KindOfAccount DEF Kinds, FileKind
    <2> QED  BY <1>1, <2>1 DEF Kinds
  <1>3. Kinds'
    BY <1>1, <1>2 DEF Kinds, FileKind
  <1>4. Calls'
    BY <1>1 DEF Calls, In, User, Changing
  <1>5. LockHeld'
    BY <1>1 DEF LockHeld, Replacing, In
  <1>6. Drawn'
    <2>1. \A s \in Sessions : ~Replacing(s)'
      BY <1>1, SessionsAssumption DEF LockHeld, Replacing
    <2>2. \A u \in Users : Known(accounts'[u], salts)
      BY <1>1 DEF Drawn
    <2> QED  BY <1>1, <2>1, <2>2 DEF Drawn
  <1> QED  BY <1>3, <1>4, <1>5, <1>6 DEF Base

(* Every step keeps the first layer. *)
LEMMA BaseStep == Base /\ [Next]_vars => Base'
  <1> SUFFICES ASSUME Base, [Next]_vars PROVE Base'
    OBVIOUS
  <1>1. CASE UNCHANGED vars
    BY <1>1 DEF vars, history, Base, Kinds, Calls, LockHeld, Drawn, In, User, Changing, Replacing
  <1>2. ASSUME NEW s \in Sessions, Step(s) PROVE Base'
    BY <1>2, LookupBase, ReadSaltBase, ReadHashBase, LockBase, SetSaltBase, SetHashBase,
       SnapshotBase, MarshalHashBase, MarshalSaltBase, TruncateBase, EndOfSave, SaveEndsBase DEF Step
  <1>3. ASSUME NEW s \in Sessions, NEW u \in Users, NEW p \in Passwords,
               NEW q \in Passwords \cup {None}, Call(s, u, p, q)
        PROVE  Base'
    BY <1>3, CallBase
  <1>4. ASSUME NEW u \in Users, NEW p \in Passwords \cup {None}, AdminLoad(u, p) PROVE Base'
    BY <1>4, AdminLoadBase
  <1>5. CASE AdminTruncate \/ AdminWrite \/ AdminFails \/ Stop \/ Start
    BY <1>5, AdminSaveBase, StopBase, StartBase
  <1> QED  BY <1>1, <1>2, <1>3, <1>4, <1>5 DEF Next

-----------------------------------------------------------------------------
(* The second layer: what Authenticate may answer.                         *)

(* A step of one session that replaces no account. *)
LEMMA OtherVerdicts ==
  ASSUME Verdicts, NEW s \in Sessions, ~Replacing(s), ~Replacing(s)',
         \A t \in Sessions \ {s} : ses'[t] = ses[t],
         UNCHANGED <<server, accounts, password>>,
         Candidate(ses'[s])
  PROVE  Verdicts'
  <1>1. \A t \in Sessions : Replacing(t)' <=> Replacing(t)
    BY DEF Replacing
  <1>2. \A t \in Sessions : Replacing(t) => ses'[t] = ses[t]
    OBVIOUS
  <1>3. Current'
    <2>1. \A u \in Users : HalfReplaced(u) => HalfReplaced(u)'
      BY <1>2 DEF HalfReplaced, In, User, Replacing
    <2>2. \A u \in Users : PasswordOf(accounts'[u]) = PasswordOf(accounts[u])
      OBVIOUS
    <2> QED  BY <2>1, <2>2 DEF Verdicts, Current
  <1>4. ASSUME NEW t \in Sessions PROVE Candidate(ses[t])'
    <2>1. Candidate(ses'[t])
      BY DEF Verdicts, Candidates
    <2> QED  BY <1>1, <1>2, <2>1 DEF Candidate, User
  <1> QED  BY <1>3, <1>4 DEF Verdicts, Candidates

LEMMA NoCandidate ==
  ASSUME NEW r, r.at \notin Authenticating
  PROVE  Candidate(r)
  BY DEF Candidate, Authenticating

LEMMA CallVerdicts ==
  ASSUME Base, Verdicts, NEW s \in Sessions, NEW u \in Users, NEW p \in Passwords,
         NEW q \in Passwords \cup {None}, Call(s, u, p, q)
  PROVE  Verdicts'
  <1> DEFINE b == ~\E t \in Sessions : Replacing(t) /\ User(t) = u
             r == [Fresh EXCEPT !.at = "lookup", !.user = u, !.old = p, !.new = q,
                                !.could = {password[u]}, !.alone = b]
  <1>1. /\ ses' = [ses EXCEPT ![s] = r] /\ In(s, "idle")
        /\ UNCHANGED <<server, accounts, password>>
    BY DEF Call
  <1>2. b => \A t \in Sessions : Replacing(t) => User(t) # u
    OBVIOUS
  <1>3. r.at = "lookup" /\ r.user = u /\ r.could = {password[u]} /\ r.alone = b
    <2> HIDE DEF b
    <2> QED  BY DEF Fresh
  <1> HIDE DEF r, b
  <1>4. Candidate(r)
    BY <1>2, <1>3 DEF Candidate
  <1>5. ses'[s] = r /\ \A t \in Sessions \ {s} : ses'[t] = ses[t]
    BY <1>1 DEF Base, Kinds
  <1>6. ~Replacing(s) /\ ~Replacing(s)'
    BY <1>1, <1>3, <1>5 DEF Replacing, In
  <1> QED  BY <1>1, <1>4, <1>5, <1>6, OtherVerdicts

LEMMA LookupVerdicts ==
  ASSUME Base, Verdicts, NEW s \in Sessions, Lookup(s)
  PROVE  Verdicts'
  <1>1. In(s, "lookup") /\ UNCHANGED <<server, accounts, password>> /\ Candidate(ses[s])
        /\ ses[s] \in SessionKind
    BY DEF Lookup, Verdicts, Candidates, Base, Kinds
  <1>2. CASE ses' = [ses EXCEPT ![s] = [Fresh EXCEPT !.verdict = "refused"]]
    <2>1. ses'[s].at = "idle" /\ \A t \in Sessions \ {s} : ses'[t] = ses[t]
      BY <1>2, ReturnFacts DEF Base, Kinds
    <2>2. Candidate(ses'[s]) /\ ~Replacing(s) /\ ~Replacing(s)'
      BY <1>1, <2>1, NoCandidate DEF Authenticating, Replacing, In
    <2> QED  BY <1>1, <2>1, <2>2, OtherVerdicts
  <1>3. CASE ses' = [ses EXCEPT ![s] = [ses[s] EXCEPT !.at = "readSalt"]]
    <2>1. /\ ses'[s].at = "readSalt" /\ ses'[s].user = ses[s].user
          /\ ses'[s].could = ses[s].could /\ ses'[s].alone = ses[s].alone
          /\ \A t \in Sessions \ {s} : ses'[t] = ses[t]
      BY <1>1, <1>3 DEF Base, Kinds, SessionKind
    <2>2. Candidate(ses'[s])
      BY <1>1, <2>1 DEF Candidate, In, Authenticating
    <2>3. ~Replacing(s) /\ ~Replacing(s)'
      BY <1>1, <2>1 DEF Replacing, In
    <2> QED  BY <1>1, <2>1, <2>2, <2>3, OtherVerdicts
  <1> QED  BY <1>2, <1>3 DEF Lookup, Return

LEMMA ReadSaltVerdicts ==
  ASSUME Base, Verdicts, NEW s \in Sessions, ReadSalt(s)
  PROVE  Verdicts'
  <1> DEFINE n == accounts[ses[s].user].salt
  <1>1. /\ In(s, "readSalt") /\ UNCHANGED <<server, accounts, password>> /\ Candidate(ses[s])
        /\ ses[s] \in SessionKind
        /\ ses' = [ses EXCEPT ![s] = [ses[s] EXCEPT !.at = "readHash", !.salt = n]]
    <2>1. ses[s] \in SessionKind
      BY DEF Base, Kinds
    <2> QED  BY <2>1 DEF ReadSalt, Verdicts, Candidates, Base, Kinds, User, SessionKind
  <1>2. server = "up" /\ ses[s].user \in Users
    BY <1>1, CallFacts DEF In, User
  <1> HIDE DEF n
  <1>3. /\ ses'[s].at = "readHash" /\ ses'[s].user = ses[s].user /\ ses'[s].salt = n
        /\ ses'[s].could = ses[s].could /\ ses'[s].alone = ses[s].alone
        /\ \A t \in Sessions \ {s} : ses'[t] = ses[t]
    BY <1>1 DEF Base, Kinds, SessionKind
  <1>4. accounts[ses[s].user].of = n => accounts[ses[s].user].pw = password[ses[s].user]
    BY <1>2 DEF Verdicts, Current, HalfReplaced, PasswordOf, n
  <1>5. Candidate(ses'[s])
    BY <1>1, <1>3, <1>4 DEF Candidate, In, Authenticating, n
  <1>6. ~Replacing(s) /\ ~Replacing(s)'
    BY <1>1, <1>3 DEF Replacing, In
  <1> QED  BY <1>1, <1>3, <1>5, <1>6, OtherVerdicts

LEMMA ReadHashVerdicts ==
  ASSUME Base, Verdicts, NEW s \in Sessions, ReadHash(s)
  PROVE  Verdicts'
  <1>1. In(s, "readHash") /\ ~In(s, "idle") /\ UNCHANGED <<server, accounts, password>>
    BY DEF ReadHash, In
  <1>2. ses'[s].at \in {"idle", "lock"} /\ \A t \in Sessions \ {s} : ses'[t] = ses[t]
    <2> DEFINE c == Change(s, "lock", 0)
    <2>1. c \in SessionKind /\ c.at = "lock"
      BY <1>1, ChangeFacts, 0 \in Nat
    <2>2. [c EXCEPT !.verdict = "accepted"].at = "lock"
      <3> HIDE DEF c
      <3> QED  BY <2>1 DEF SessionKind
    <2>3. CASE ses' = [ses EXCEPT ![s] = [c EXCEPT !.verdict = "accepted"]]
      <3> HIDE DEF c
      <3> QED  BY <2>2, <2>3 DEF Base, Kinds
    <2>4. CASE Return(s, "refused") \/ Return(s, "accepted")
      BY <2>4, ReturnFacts DEF Return, Base, Kinds
    <2> QED  BY <2>3, <2>4 DEF ReadHash
  <1>3. Candidate(ses'[s]) /\ ~Replacing(s) /\ ~Replacing(s)'
    BY <1>1, <1>2, NoCandidate DEF Authenticating, Replacing, In
  <1> QED  BY <1>1, <1>2, <1>3, OtherVerdicts

LEMMA SaveVerdicts ==
  ASSUME Base, Verdicts, NEW s \in Sessions,
         \/ Snapshot(s) \/ Truncate(s) \/ SaveEnds(s)
         \/ \E u \in Users : MarshalHash(s, u) \/ MarshalSalt(s, u)
  PROVE  Verdicts'
  <1>1. ~Replacing(s) /\ UNCHANGED <<server, accounts, password>> /\ ses[s] \in SessionKind
    BY DEF Snapshot, Truncate, SaveEnds, MarshalHash, MarshalSalt, Replacing, In, Base, Kinds
  <1>2. /\ ses'[s].at \in Saving \cup {"idle"}
        /\ \A t \in Sessions \ {s} : ses'[t] = ses[t]
    <2>1. CASE SaveEnds(s)
      BY <2>1, ReturnFacts DEF SaveEnds, Return, Base, Kinds
    <2>2. CASE Snapshot(s) \/ Truncate(s)
      BY <2>2, SaveFacts DEF SavesTo, Saving
    <2>3. CASE \E u \in Users : MarshalHash(s, u) \/ MarshalSalt(s, u)
      BY <2>3, SaveFacts DEF SavesTo, Saving
    <2> QED  BY <2>1, <2>2, <2>3
  <1>3. Candidate(ses'[s]) /\ ~Replacing(s)'
    BY <1>2, NoCandidate DEF Authenticating, Replacing, Saving
  <1> QED  BY <1>1, <1>2, <1>3, OtherVerdicts

LEMMA LockVerdicts ==
  ASSUME Base, Verdicts, NEW s \in Sessions, Lock(s)
  PROVE  Verdicts'
  <1> DEFINE c == Change(s, "setSalt", salts + 1)
  <1>1. /\ In(s, "lock") /\ locked = None /\ UNCHANGED <<server, accounts, password>>
        /\ ses' = [t \in Sessions |-> IF t = s THEN c ELSE
                                      [ses[t] EXCEPT !.alone = @ /\ User(t) # User(s)]]
    BY DEF Lock, LockFree
  <1>2. c.at = "setSalt" /\ c.user = User(s)
    BY <1>1, ChangeFacts, salts + 1 \in Nat DEF In, Base, Kinds
  <1> HIDE DEF c
  <1>3. ses'[s] = c
    BY <1>1
  <1>4. ASSUME NEW t \in Sessions \ {s}
        PROVE  /\ ses'[t].at = ses[t].at /\ ses'[t].user = ses[t].user
               /\ ses'[t].salt = ses[t].salt /\ ses'[t].could = ses[t].could
               /\ ses'[t].alone => ses[t].alone /\ ses[t].user # User(s)
    <2> DEFINE b == ses[t].alone /\ User(t) # User(s)
    <2>1. ses[t] \in SessionKind /\ ses'[t] = [ses[t] EXCEPT !.alone = b]
      BY <1>1 DEF Base, Kinds
    <2>2. b => ses[t].alone /\ ses[t].user # User(s)
      BY DEF User
    <2> HIDE DEF b
    <2> QED  BY <2>1, <2>2 DEF SessionKind
  <1>5. \A t \in Sessions : ~Replacing(t) /\ (Replacing(t)' <=> t = s)
    BY <1>1, <1>2, <1>3, <1>4, SessionsAssumption DEF Base, LockHeld, Replacing
  <1>6. Current'
    <2>1. \A u \in Users : ~HalfReplaced(u)
      BY <1>5 DEF HalfReplaced, Replacing, In
    <2> QED  BY <1>1, <2>1 DEF Verdicts, Current
  <1>7. ASSUME NEW t \in Sessions PROVE Candidate(ses[t])'
    <2>1. CASE t = s
      BY <1>2, <1>3, <2>1, NoCandidate DEF Candidate, Authenticating
    <2>2. CASE t # s
      <3>1. Candidate(ses[t])
        BY DEF Verdicts, Candidates
      <3>2. \A w \in Sessions : Replacing(w)' => User(w)' = User(s)
        BY <1>2, <1>3, <1>5 DEF User
      <3> QED  BY <1>1, <1>4, <2>2, <3>1, <3>2 DEF Candidate
    <2> QED  BY <2>1, <2>2
  <1> QED  BY <1>6, <1>7 DEF Verdicts, Candidates

LEMMA SetSaltVerdicts ==
  ASSUME Base, Verdicts, NEW s \in Sessions, SetSalt(s)
  PROVE  Verdicts'
  <1> DEFINE u == User(s)
  <1>1. /\ In(s, "setSalt") /\ UNCHANGED <<server, locked, password>>
        /\ accounts' = [accounts EXCEPT ![u].salt = ses[s].salt]
        /\ ses' = [ses EXCEPT ![s] = [ses[s] EXCEPT !.at = "setHash"]]
    BY DEF SetSalt
  <1>2. /\ u \in Users /\ ses[s] \in SessionKind /\ accounts \in StoreKind
        /\ accounts[u].of # ses[s].salt
    BY <1>1, CallFacts DEF In, Base, Drawn, Replacing
  <1>3. /\ ses'[s].at = "setHash" /\ ses'[s].user = u /\ ses'[s].salt = ses[s].salt
        /\ \A t \in Sessions \ {s} : ses'[t] = ses[t]
    BY <1>1, <1>2 DEF Base, Kinds, SessionKind, User
  <1>4. /\ accounts'[u].salt = ses[s].salt
        /\ \A w \in Users : accounts'[w].of = accounts[w].of /\ accounts'[w].pw = accounts[w].pw
        /\ \A w \in Users \ {u} : accounts'[w] = accounts[w]
    BY <1>1, <1>2 DEF StoreKind, AccountKind
  <1>5. \A t \in Sessions : (Replacing(t) <=> t = s) /\ (Replacing(t)' <=> t = s)
    BY <1>1, <1>3, SessionsAssumption DEF Base, LockHeld, Replacing, In
  <1>6. Current'
    <2>1. \A w \in Users : w = u => HalfReplaced(w)'
      BY <1>2, <1>3, <1>4 DEF HalfReplaced, In, User
    <2>2. ASSUME NEW w \in Users \ {u}, server = "up" PROVE password'[w] = PasswordOf(accounts'[w])
      <3>1. ~HalfReplaced(w)
        BY <1>1, <1>5 DEF HalfReplaced, Replacing, In
      <3> QED  BY <1>1, <1>4, <2>2, <3>1 DEF Verdicts, Current
    <2> QED  BY <1>1, <2>1, <2>2 DEF Current
  <1>7. ASSUME NEW t \in Sessions PROVE Candidate(ses[t])'
    <2>1. CASE t = s
      BY <1>3, <2>1 DEF Candidate, Authenticating
    <2>2. CASE t # s /\ ses[t].at \in Authenticating
      <3>1. Candidate(ses[t]) /\ ses'[t] = ses[t] /\ ses[t].user \in Users
        BY <1>3, <2>2 DEF Verdicts, Candidates, Base, Calls, In, User, Authenticating
      <3>2. \A w \in Sessions : Replacing(w)' => User(w)' = u
        BY <1>3, <1>5 DEF User
      <3>3. ses[t].alone => ses[t].user # u
        BY <1>5, <2>2, <3>1 DEF Candidate
      <3> QED  BY <1>1, <1>4, <3>1, <3>2, <3>3 DEF Candidate
    <2>3. CASE t # s /\ ses[t].at \notin Authenticating
      BY <1>3, <2>3 DEF Candidate, Authenticating
    <2> QED  BY <2>1, <2>2, <2>3
  <1> QED  BY <1>6, <1>7 DEF Verdicts, Candidates

LEMMA SetHashVerdicts ==
  ASSUME Base, Verdicts, NEW s \in Sessions, SetHash(s)
  PROVE  Verdicts'
  <1> DEFINE u == User(s)
             p == ses[s].new
             c == Change(s, "snapshot", 0)
  <1>1. /\ In(s, "setHash") /\ UNCHANGED server
        /\ accounts' = [accounts EXCEPT ![u] = [@ EXCEPT !.pw = p, !.of = accounts[u].salt]]
        /\ password' = [password EXCEPT ![u] = p]
        /\ ses' = [t \in Sessions |-> IF t = s THEN c ELSE IF User(t) # u THEN ses[t]
                                      ELSE [ses[t] EXCEPT !.could = @ \cup {p}]]
    BY DEF SetHash, Rehash, Base, Kinds, StoreKind
  <1>2. u \in Users /\ accounts \in StoreKind /\ password \in [Users -> PasswordsOrNone]
    BY <1>1, CallFacts DEF In, Base, Kinds
  <1>3. c.at = "snapshot"
    BY <1>1, ChangeFacts, 0 \in Nat DEF In
  <1> HIDE DEF c
  <1>4. /\ ses'[s] = c
        /\ \A t \in Sessions \ {s} : User(t) # u => ses'[t] = ses[t]
    BY <1>1
  <1>5. ASSUME NEW t \in Sessions \ {s}, User(t) = u
        PROVE  /\ ses'[t].at = ses[t].at /\ ses'[t].user = u /\ ses'[t].alone = ses[t].alone
               /\ ses'[t].salt = ses[t].salt /\ ses'[t].could = ses[t].could \cup {p}
    <2>1. ses[t] \in SessionKind /\ ses'[t] = [ses[t] EXCEPT !.could = @ \cup {p}]
      BY <1>1, <1>5 DEF Base, Kinds
    <2> QED  BY <1>5, <2>1 DEF SessionKind, User
  <1>6. /\ accounts'[u].pw = p /\ PasswordOf(accounts'[u]) = p /\ password'[u] = p
        /\ \A w \in Users \ {u} : accounts'[w] = accounts[w] /\ password'[w] = password[w]
    BY <1>1, <1>2 DEF StoreKind, AccountKind, PasswordOf
  <1>7. \A t \in Sessions : (Replacing(t) <=> t = s) /\ ~Replacing(t)'
    <2>1. \A t \in Sessions : Replacing(t) <=> t = s
      BY <1>1, SessionsAssumption DEF Base, LockHeld, Replacing, In
    <2>2. \A t \in Sessions \ {s} : ses'[t].at = ses[t].at
      BY <1>4, <1>5
    <2> QED  BY <1>3, <1>4, <2>1, <2>2 DEF Replacing
  <1>8. Current'
    <2>1. ASSUME NEW w \in Users \ {u}, server = "up" PROVE password'[w] = PasswordOf(accounts'[w])
      <3>1. ~HalfReplaced(w)
        BY <1>7 DEF HalfReplaced, Replacing, In
      <3> QED  BY <1>6, <2>1, <3>1 DEF Verdicts, Current
    <2> QED  BY <1>1, <1>6, <2>1 DEF Current
  <1>9. ASSUME NEW t \in Sessions PROVE Candidate(ses[t])'
    <2>1. CASE t = s
      BY <1>3, <1>4, <2>1 DEF Candidate, Authenticating
    <2>2. CASE t # s /\ User(t) = u
      <3>1. Candidate(ses[t]) /\ ~(ses[t].at \in Authenticating /\ ses[t].alone)
        BY <1>7, <2>2 DEF Verdicts, Candidates, Candidate, User
      <3>2. p \in ses'[t].could
        BY <1>5, <2>2
      <3> QED  BY <1>5, <1>6, <2>2, <3>1, <3>2 DEF Candidate, Authenticating
    <2>3. CASE t # s /\ User(t) # u /\ ses[t].at \in Authenticating
      <3>1. Candidate(ses[t]) /\ ses'[t] = ses[t] /\ ses[t].user \in Users \ {u}
        BY <1>4, <2>3 DEF Verdicts, Candidates, Base, Calls, In, User, Authenticating
      <3> QED  BY <1>6, <1>7, <3>1 DEF Candidate
    <2>4. CASE t # s /\ User(t) # u /\ ses[t].at \notin Authenticating
      BY <1>4, <2>4 DEF Candidate, Authenticating
    <2> QED  BY <2>1, <2>2, <2>3, <2>4
  <1> QED  BY <1>8, <1>9 DEF Verdicts, Candidates

LEMMA ServerVerdicts ==
  ASSUME Base, Verdicts,
         \/ UNCHANGED <<server, accounts, ses, password>>
         \/ Stop \/ Start
  PROVE  Verdicts'
  <1>1. CASE UNCHANGED <<server, accounts, ses, password>>
    BY <1>1 DEF Verdicts, Current, Candidates, Candidate, HalfReplaced, In, User, Replacing
  <1>2. CASE Stop
    <2>1. server' = "down" /\ \A s \in Sessions : ses'[s].at = "idle"
      BY <1>2, FreshFacts DEF Stop
    <2> QED  BY <2>1 DEF Verdicts, Current, Candidates, Candidate, Authenticating
  <1>3. CASE Start
    <2>1. \A s \in Sessions : ses'[s].at = "idle"
      BY <1>3 DEF Start, Base, LockHeld, In
    <2>2. server' = "up" => \A u \in Users : password'[u] = PasswordOf(accounts'[u])
      BY <1>3 DEF Start
    <2> QED  BY <2>1, <2>2 DEF Verdicts, Current, Candidates, Candidate, Authenticating
  <1> QED  BY <1>1, <1>2, <1>3

(* Every step keeps the second layer. *)
LEMMA VerdictsStep == Base /\ Verdicts /\ [Next]_vars => Verdicts'
  <1> SUFFICES ASSUME Base, Verdicts, [Next]_vars PROVE Verdicts'
    OBVIOUS
  <1>1. CASE UNCHANGED vars
    BY <1>1, ServerVerdicts DEF vars
  <1>2. ASSUME NEW s \in Sessions, Step(s) PROVE Verdicts'
    BY <1>2, LookupVerdicts, ReadSaltVerdicts, ReadHashVerdicts, LockVerdicts, SetSaltVerdicts,
       SetHashVerdicts, SaveVerdicts, EndOfSave DEF Step
  <1>3. ASSUME NEW s \in Sessions, NEW u \in Users, NEW p \in Passwords,
               NEW q \in Passwords \cup {None}, Call(s, u, p, q)
        PROVE  Verdicts'
    BY <1>3, CallVerdicts
  <1>4. ASSUME NEW u \in Users, NEW p \in Passwords \cup {None}, AdminLoad(u, p) PROVE Verdicts'
    BY <1>4, ServerVerdicts DEF AdminLoad
  <1>5. CASE AdminTruncate \/ AdminWrite \/ AdminFails \/ Stop \/ Start
    BY <1>5, ServerVerdicts DEF AdminTruncate, AdminWrite, AdminFails
  <1> QED  BY <1>1, <1>2, <1>3, <1>4, <1>5 DEF Next

-----------------------------------------------------------------------------
(* What Authenticate answers. *)

(* Only its own steps and the server's end move a call on. *)
LEMMA OnlyOwnSteps ==
  ASSUME Base, NEW s \in Sessions, NEW t \in Sessions \ {s}, Step(t)
  PROVE  ses'[s].at = ses[s].at
  <1>1. ses[s] \in SessionKind /\ ses \in [Sessions -> SessionKind]
    BY DEF Base, Kinds
  <1>2. CASE Lookup(t) \/ ReadSalt(t) \/ ReadHash(t) \/ SetSalt(t) \/ SaveEnds(t)
    BY <1>1, <1>2 DEF Lookup, ReadSalt, ReadHash, SetSalt, SaveEnds, Return
  <1>3. CASE Lock(t)
    BY <1>1, <1>3 DEF Lock, SessionKind
  <1>4. CASE SetHash(t)
    BY <1>1, <1>4 DEF SetHash, SessionKind
  <1>5. CASE \/ Snapshot(t) \/ Truncate(t)
             \/ \E u \in Users : MarshalHash(t, u) \/ MarshalSalt(t, u)
    BY <1>5, SaveFacts DEF SavesTo
  <1> QED  BY <1>2, <1>3, <1>4, <1>5, EndOfSave DEF Step

Right(s) ==
  /\ Decides(s, "accepted") => ses[s].old \in ses[s].could
  /\ Decides(s, "refused") /\ ses[s].alone => ses[s].old \notin ses[s].could

LEMMA LookupRight ==
  ASSUME Base, Verdicts, NEW s \in Sessions, Lookup(s)
  PROVE  Right(s)
  <1>1. /\ In(s, "lookup") /\ ses[s] \in SessionKind /\ ses \in [Sessions -> SessionKind]
        /\ ses[s].old \in Passwords /\ ses[s].verdict = "none" /\ ses[s].user \in Users
        /\ server = "up" /\ Candidate(ses[s])
    BY CallFacts DEF Lookup, In, User, Base, Kinds, Calls, Authenticating, Verdicts, Candidates
  <1>2. CASE accounts[User(s)] = NoAccount
    <2>1. ses'[s].verdict = "refused"
      BY <1>1, <1>2, ReturnFacts DEF Lookup, Return
    <2>2. PasswordOf(accounts[ses[s].user]) = None
      BY <1>2 DEF PasswordOf, NoAccount, User
    <2>3. ses[s].alone => ses[s].could = {None}
      BY <1>1, <2>2 DEF Candidate, Authenticating, In, Verdicts, Current, HalfReplaced, Replacing
    <2> QED  BY <1>1, <2>1, <2>3, PasswordsAssumption DEF Right, Decides
  <1>3. CASE accounts[User(s)] # NoAccount
    <2>1. ses'[s].verdict = "none"
      BY <1>1, <1>3 DEF Lookup, SessionKind
    <2> QED  BY <2>1 DEF Right, Decides
  <1> QED  BY <1>2, <1>3

LEMMA ReadHashRight ==
  ASSUME Base, Verdicts, NEW s \in Sessions, ReadHash(s)
  PROVE  Right(s)
  <1> DEFINE a == accounts[ses[s].user]
  <1>1. /\ In(s, "readHash") /\ ~In(s, "idle") /\ ses \in [Sessions -> SessionKind]
        /\ ses[s].old \in Passwords /\ ses[s].user \in Users
        /\ server = "up" /\ Candidate(ses[s])
    BY CallFacts DEF ReadHash, In, User, Base, Kinds, Calls, Authenticating, Verdicts, Candidates
  <1>2. CASE Verifies(a, ses[s].old, ses[s].salt)
    <2>1. ses[s].old \in ses[s].could
      BY <1>1, <1>2 DEF Candidate, In, Verifies
    <2>2. ses'[s].verdict # "refused"
      <3> DEFINE c == Change(s, "lock", 0)
      <3>1. c \in SessionKind
        BY <1>1, ChangeFacts, 0 \in Nat
      <3>2. [c EXCEPT !.verdict = "accepted"].verdict = "accepted"
        <4> HIDE DEF c
        <4> QED  BY <3>1 DEF SessionKind
      <3>3. CASE Return(s, "accepted")
        BY <1>1, <3>3, ReturnFacts DEF Return
      <3>4. CASE ses' = [ses EXCEPT ![s] = [c EXCEPT !.verdict = "accepted"]]
        <4> HIDE DEF c
        <4> QED  BY <1>1, <3>2, <3>4
      <3> QED  BY <1>2, <3>3, <3>4 DEF ReadHash, User
    <2> QED  BY <2>1, <2>2 DEF Right, Decides
  <1>3. CASE ~Verifies(a, ses[s].old, ses[s].salt)
    <2>1. ses'[s].verdict = "refused"
      <3>1. Return(s, "refused")
        BY <1>3 DEF ReadHash, User
      <3> QED  BY <1>1, <3>1, ReturnFacts DEF Return
    <2>2. ASSUME ses[s].alone PROVE ses[s].old \notin ses[s].could
      <3>1. /\ ses[s].could = {password[ses[s].user]} /\ ses[s].salt = a.salt
            /\ \A t \in Sessions : Replacing(t) => User(t) # ses[s].user
        BY <1>1, <2>2 DEF Candidate, Authenticating, In
      <3>2. password[ses[s].user] = PasswordOf(a)
        BY <1>1, <3>1 DEF Verdicts, Current, HalfReplaced, Replacing, In
      <3> QED  BY <1>1, <1>3, <3>1, <3>2, PasswordsAssumption DEF Verifies, PasswordOf
    <2> QED  BY <2>1, <2>2 DEF Right, Decides
  <1> QED  BY <1>2, <1>3

LEMMA RightStep ==
  ASSUME Base, Verdicts, [Next]_vars, NEW s \in Sessions
  PROVE  Right(s)
  <1>1. CASE UNCHANGED vars
    BY <1>1 DEF vars, Right, Decides
  <1>2. ASSUME NEW t \in Sessions, Step(t) PROVE Right(s)
    <2>1. CASE t # s
      BY <1>2, <2>1, OnlyOwnSteps DEF Right, Decides
    <2>2. CASE t = s
      <3>1. CASE Lookup(s)
        BY <3>1, LookupRight
      <3>2. CASE ReadHash(s)
        BY <3>2, ReadHashRight
      <3>3. CASE ~In(s, "lookup") /\ ~In(s, "readHash")
        BY <3>3 DEF Right, Decides, In
      <3>4. In(s, "lookup") \/ In(s, "readHash") => Lookup(s) \/ ReadHash(s)
        BY <1>2, <2>2 DEF Step, In, ReadSalt, Lock, SetSalt, SetHash, Snapshot, MarshalHash,
           MarshalSalt, Truncate, OpenFails, WriteFile, WriteFails
      <3> QED  BY <3>1, <3>2, <3>3, <3>4
    <2> QED  BY <2>1, <2>2
  <1>3. ASSUME NEW t \in Sessions, NEW u \in Users, NEW p \in Passwords,
               NEW q \in Passwords \cup {None}, Call(t, u, p, q)
        PROVE  Right(s)
    <2>1. t # s => ses'[s] = ses[s]
      BY <1>3 DEF Call, Base, Kinds
    <2>2. ses[t].at = "idle"
      BY <1>3 DEF Call, In
    <2> QED  BY <2>1, <2>2 DEF Right, Decides
  <1>4. ASSUME NEW u \in Users, NEW p \in Passwords \cup {None}, AdminLoad(u, p) PROVE Right(s)
    BY <1>4 DEF AdminLoad, Right, Decides
  <1>5. CASE AdminTruncate \/ AdminWrite \/ AdminFails \/ Start
    BY <1>5 DEF AdminTruncate, AdminWrite, AdminFails, Start, Right, Decides
  <1>6. CASE Stop
    <2>1. ses'[s].verdict = "none"
      BY <1>6 DEF Stop, Fresh
    <2> QED  BY <2>1 DEF Right, Decides
  <1> QED  BY <1>1, <1>2, <1>3, <1>4, <1>5, <1>6 DEF Next

-----------------------------------------------------------------------------
(* The third layer: what memory, the copies and the file may hold.         *)

Setting(u) == {t \in Sessions : In(t, "setHash") /\ User(t) = u}

LEMMA MemoryIs ==
  ASSUME NEW u
  PROVE  InMemory(u) = IF server # "up" THEN {}
                       ELSE IF Setting(u) = {} THEN {password[u]} ELSE {password[u], None}
  BY DEF InMemory, Setting

(* While nobody replaces the account, its password is the one it verifies, *)
(* and a half replaced one may be found to verify none.                     *)
LEMMA Verified ==
  ASSUME Base, Verdicts, server = "up", NEW u \in Users
  PROVE  PasswordOf(accounts[u]) \in InMemory(u)
  <1>1. CASE password[u] = PasswordOf(accounts[u])
    BY <1>1, MemoryIs
  <1>2. CASE password[u] # PasswordOf(accounts[u])
    <2>1. HalfReplaced(u)
      BY <1>2 DEF Verdicts, Current
    <2>2. Setting(u) # {} /\ accounts[u].of # accounts[u].salt
      BY <2>1 DEF HalfReplaced, Setting
    <2> QED  BY <2>2, MemoryIs DEF PasswordOf
  <1> QED  BY <1>1, <1>2

(* What the third layer sees of a session. *)
Same(t) ==
  /\ ses'[t].at = ses[t].at /\ ses'[t].user = ses[t].user /\ ses'[t].salt = ses[t].salt
  /\ ses'[t].todo = ses[t].todo /\ ses'[t].copy = ses[t].copy
Outside(t) ==
  /\ ses[t].at \notin {"setHash", "marshal", "half", "write"}
  /\ ses'[t].at \notin {"setHash", "marshal", "half", "write"}

LEMMA SameMemory ==
  ASSUME \A t \in Sessions : In(t, "setHash") \/ In(t, "setHash")' => Same(t),
         UNCHANGED <<server, password>>, NEW u
  PROVE  InMemory(u)' = InMemory(u)
  <1>1. Setting(u)' = Setting(u)
    BY DEF Setting, Same, In, User
  <1>2. InMemory(u)' = IF server' # "up" THEN {}
                       ELSE IF Setting(u)' = {} THEN {password'[u]} ELSE {password'[u], None}
    BY DEF InMemory, Setting
  <1> QED  BY <1>1, <1>2, MemoryIs

(* A save under way keeps its copy while what it found grows with memory. *)
LEMMA CopyKept ==
  ASSUME NEW t \in Sessions, CopyGood(ses[t], found[t]), Same(t),
         \A u \in Users : /\ found[t][u] \subseteq found'[t][u]
                          /\ InMemory(u)' \subseteq found'[t][u]
                          /\ accounts[u] # NoAccount => accounts'[u] # NoAccount
                          /\ HalfCopied(ses[t], found[t], u) => HalfCopied(ses[t], found[t], u)',
         ses[t].todo \in SUBSET Users
  PROVE  CopyGood(ses[t], found[t])'
  <1>1. \A u \in Users : Copied(ses[t], found[t], u) => Copied(ses'[t], found'[t], u)
    BY DEF Copied, Same
  <1>2. \A u \in Users : HalfCopied(ses[t], found[t], u) => HalfCopied(ses[t], found[t], u)'
    OBVIOUS
  <1>3. ses'[t].at = ses[t].at /\ ses'[t].todo = ses[t].todo /\ ses'[t].copy = ses[t].copy
    BY DEF Same
  <1>4. ses'[t].at = "half" => \E v \in Users \ ses'[t].todo :
                        /\ HalfCopied(ses[t], found[t], v)'
                        /\ \A u \in Users \ (ses'[t].todo \cup {v}) : Copied(ses'[t], found'[t], u)
    <2>1. SUFFICES ASSUME ses[t].at = "half"
                   PROVE  \E v \in Users \ ses[t].todo :
                        /\ HalfCopied(ses[t], found[t], v)'
                        /\ \A u \in Users \ (ses[t].todo \cup {v}) : Copied(ses'[t], found'[t], u)
      BY <1>3
    <2>2. PICK v \in Users \ ses[t].todo :
                        /\ HalfCopied(ses[t], found[t], v)
                        /\ \A u \in Users \ (ses[t].todo \cup {v}) : Copied(ses[t], found[t], u)
      BY <2>1 DEF CopyGood
    <2> QED  BY <1>1, <1>2, <2>2
  <1>5. \A u \in ses'[t].todo : ses'[t].copy[u] = NoAccount /\ accounts'[u] # NoAccount
    BY <1>3 DEF CopyGood
  <1>6. ses'[t].at \in {"marshal", "write"} => \A u \in Users \ ses'[t].todo :
                                                   Copied(ses'[t], found'[t], u)
    BY <1>1, <1>3 DEF CopyGood
  <1>7. ses'[t].at = "write" => ses'[t].todo = {}
    BY <1>3 DEF CopyGood
  <1> QED  BY <1>4, <1>5, <1>6, <1>7 DEF CopyGood

(* Memory and the file as they were, the save of every session that stays. *)
LEMMA SameCopies ==
  ASSUME Base, Copies, NEW t \in Sessions, Copying(t), Same(t), found'[t] = found[t],
         accounts' = accounts, \A u \in Users : InMemory(u)' = InMemory(u)
  PROVE  CopyGood(ses[t], found[t])'
  <1>1. CopyGood(ses[t], found[t]) /\ ses[t].todo \in SUBSET Users
    BY DEF Copies, Base, Kinds, SessionKind
  <1>2. \A u \in Users : /\ found[t][u] \subseteq found'[t][u]
                         /\ InMemory(u)' \subseteq found'[t][u]
                         /\ accounts[u] # NoAccount => accounts'[u] # NoAccount
    BY <1>1 DEF CopyGood
  <1>3. \A u \in Users : HalfCopied(ses[t], found[t], u) => HalfCopied(ses[t], found[t], u)'
    BY DEF HalfCopied, Same
  <1> QED  BY <1>1, <1>2, <1>3, CopyKept

(* A step of sessions that are not at an account or a save. *)
LEMMA QuietKept ==
  ASSUME Base, Kept, \A t \in Sessions : Same(t) \/ Outside(t), Unseen',
         UNCHANGED <<server, accounts, file, admin, password, torn, found, promised>>
  PROVE  Kept'
  <1>1. \A t \in Sessions : ses'[t].at \in {"setHash", "marshal", "half", "write"} \/
                            ses[t].at \in {"setHash", "marshal", "half", "write"} => Same(t)
    BY DEF Outside
  <1>2. \A u \in Users : InMemory(u)' = InMemory(u)
    BY <1>1, SameMemory DEF In
  <1>3. Memory'
    <2>1. \A t \in Sessions : (In(t, "setHash")' <=> In(t, "setHash"))
                              /\ (In(t, "setHash") => User(t)' = User(t))
      BY <1>1 DEF In, User, Same
    <2> QED  BY <2>1 DEF Kept, Memory, Salted
  <1>4. Copies'
    <2>1. ASSUME NEW t \in Sessions, Copying(t)' PROVE CopyGood(ses[t], found[t])'
      <3>1. Same(t) /\ Copying(t)
        BY <1>1, <2>1 DEF Copying, Same
      <3> QED  BY <1>2, <3>1, SameCopies DEF Kept
    <2> QED  BY <2>1 DEF Copies
  <1>5. Promises'
    <2>1. \A t \in Sessions : In(t, "write") => In(t, "write")'
      BY <1>1 DEF In, Same
    <2> QED  BY <1>2, <2>1 DEF Kept, Promises
  <1> QED  BY <1>3, <1>4, <1>5 DEF Kept

(* One session moves on without replacing an account. *)
LEMMA UnseenMoves ==
  ASSUME Base, Unseen, NEW s \in Sessions, \A t \in Sessions \ {s} : Same(t),
         ~Replacing(s)',
         \A t \in Sessions \ {s} : Replacing(t) => ses'[s].copy[User(t)].of # ses[t].salt
  PROVE  Unseen'
  <1>1. ASSUME NEW r \in Sessions, NEW t \in Sessions, Replacing(t)'
        PROVE  ses'[r].copy[ses'[t].user].of # ses'[t].salt
    <2>1. t # s /\ Same(t) /\ Replacing(t)
      BY <1>1 DEF Same, Replacing
    <2>2. CASE r = s
      BY <2>1, <2>2 DEF Same, User
    <2>3. CASE r # s
      BY <2>1, <2>3 DEF Same, User, Unseen
    <2> QED  BY <2>2, <2>3
  <1> QED  BY <1>1 DEF Unseen, User

LEMMA NoCopy ==
  ASSUME Base, NEW t \in Sessions, Replacing(t), NEW c, \A u \in Users : c[u] = NoAccount
  PROVE  c[User(t)].of # ses[t].salt
  <1>1. User(t) \in Users /\ ses[t].salt \in 1..salts
    BY DEF Base, Calls, Drawn, Replacing, In
  <1>2. c[User(t)].of = 0
    BY <1>1 DEF NoAccount
  <1> QED  BY <1>1, <1>2 DEF Base, Kinds

LEMMA CallKept ==
  ASSUME Base, Kept, NEW s \in Sessions, NEW u \in Users, NEW p \in Passwords,
         NEW q \in Passwords \cup {None}, Call(s, u, p, q)
  PROVE  Kept'
  <1> DEFINE b == ~\E t \in Sessions : Replacing(t) /\ User(t) = u
             r == [Fresh EXCEPT !.at = "lookup", !.user = u, !.old = p, !.new = q,
                                !.could = {password[u]}, !.alone = b]
  <1>1. /\ ses' = [ses EXCEPT ![s] = r] /\ In(s, "idle")
        /\ UNCHANGED <<server, accounts, file, admin, password, torn, found, promised>>
    BY DEF Call, history
  <1>2. r.at = "lookup" /\ r.copy = Empty
    <2> HIDE DEF b
    <2> QED  BY DEF Fresh
  <1> HIDE DEF r, b
  <1>3. ses'[s] = r /\ \A t \in Sessions \ {s} : ses'[t] = ses[t]
    BY <1>1 DEF Base, Kinds
  <1>4. \A t \in Sessions \ {s} : Same(t)
    BY <1>3 DEF Same
  <1>5. Outside(s) /\ ~Replacing(s)'
    BY <1>1, <1>2, <1>3 DEF Outside, Replacing, In
  <1>6. \A t \in Sessions \ {s} : Replacing(t) => ses'[s].copy[User(t)].of # ses[t].salt
    <2>1. \A w \in Users : ses'[s].copy[w] = NoAccount
      BY <1>2, <1>3 DEF Empty
    <2> QED  BY <2>1, NoCopy
  <1>7. Unseen'
    BY <1>4, <1>5, <1>6, UnseenMoves DEF Kept
  <1>8. \A t \in Sessions : Same(t) \/ Outside(t)
    BY <1>4, <1>5
  <1> QED  BY <1>1, <1>7, <1>8, QuietKept

LEMMA AuthenticateKept ==
  ASSUME Base, Kept, NEW s \in Sessions, Lookup(s) \/ ReadSalt(s) \/ ReadHash(s)
  PROVE  Kept'
  <1>1. /\ ses[s].at \in {"lookup", "readSalt", "readHash"} /\ ~In(s, "idle")
        /\ UNCHANGED <<server, accounts, file, admin, password, torn, found, promised>>
        /\ ses[s] \in SessionKind
    BY DEF Lookup, ReadSalt, ReadHash, history, In, Base, Kinds
  <1>2. /\ ses'[s].at \in {"idle", "lock", "readSalt", "readHash"}
        /\ ses'[s].copy = ses[s].copy \/ \A u \in Users : ses'[s].copy[u] = NoAccount
        /\ \A t \in Sessions \ {s} : ses'[t] = ses[t]
    <2> DEFINE c == Change(s, "lock", 0)
    <2>1. c \in SessionKind /\ c.at = "lock" /\ \A u \in Users : c.copy[u] = NoAccount
      BY <1>1, ChangeFacts, 0 \in Nat
    <2> HIDE DEF c
    <2>2. /\ [c EXCEPT !.verdict = "accepted"].at = "lock"
          /\ [c EXCEPT !.verdict = "accepted"].copy = c.copy
      BY <2>1 DEF SessionKind
    <2>3. CASE ses' = [ses EXCEPT ![s] = [c EXCEPT !.verdict = "accepted"]]
      BY <2>1, <2>2, <2>3 DEF Base, Kinds
    <2>4. CASE Return(s, "refused") \/ Return(s, "accepted")
      BY <2>4, ReturnFacts DEF Return, Base, Kinds
    <2>5. CASE ses' = [ses EXCEPT ![s].at = "readSalt"]
      BY <1>1, <2>5 DEF Base, Kinds, SessionKind
    <2>6. CASE ReadSalt(s)
      BY <1>1, <2>6 DEF ReadSalt, Base, Kinds, SessionKind
    <2> QED  BY <2>3, <2>4, <2>5, <2>6 DEF Lookup, ReadHash, c
  <1>3. \A t \in Sessions \ {s} : Same(t)
    BY <1>2 DEF Same
  <1>4. Outside(s) /\ ~Replacing(s)'
    BY <1>1, <1>2 DEF Outside, Replacing
  <1>5. \A t \in Sessions \ {s} : Replacing(t) => ses'[s].copy[User(t)].of # ses[t].salt
    BY <1>2, NoCopy DEF Kept, Unseen
  <1>6. Unseen'
    BY <1>3, <1>4, <1>5, UnseenMoves DEF Kept
  <1>7. \A t \in Sessions : Same(t) \/ Outside(t)
    BY <1>3, <1>4
  <1> QED  BY <1>1, <1>6, <1>7, QuietKept

LEMMA LockKept ==
  ASSUME Base, Kept, NEW s \in Sessions, Lock(s)
  PROVE  Kept'
  <1> DEFINE n == salts + 1
             c == Change(s, "setSalt", n)
  <1>1. /\ In(s, "lock") /\ ~In(s, "idle") /\ locked = None /\ salts \in Nat /\ n \in Nat
        /\ UNCHANGED <<server, accounts, file, admin, password, torn, found, promised>>
        /\ ses' = [t \in Sessions |-> IF t = s THEN c ELSE
                                      [ses[t] EXCEPT !.alone = @ /\ User(t) # User(s)]]
    BY DEF Lock, LockFree, history, In, Base, Kinds
  <1>2. /\ c.at = "setSalt" /\ c.user = User(s) /\ c.salt = n /\ User(s) \in Users
        /\ \A u \in Users : c.copy[u] = NoAccount
    BY <1>1, ChangeFacts, CallFacts
  <1> HIDE DEF c
  <1>3. ses'[s] = c
    BY <1>1
  <1>4. \A t \in Sessions \ {s} : Same(t)
    <2>1. ASSUME NEW t \in Sessions \ {s} PROVE Same(t)
      <3> DEFINE b == ses[t].alone /\ User(t) # User(s)
      <3>1. ses[t] \in SessionKind /\ ses'[t] = [ses[t] EXCEPT !.alone = b]
        BY <1>1 DEF Base, Kinds
      <3> HIDE DEF b
      <3> QED  BY <3>1 DEF SessionKind, Same
    <2> QED  BY <2>1
  <1>5. Outside(s)
    BY <1>1, <1>2, <1>3 DEF Outside, In
  <1>6. Unseen'
    <2>1. \A t \in Sessions : Replacing(t)' => t = s
      BY <1>1, <1>4, SessionsAssumption DEF Same, Replacing, Base, LockHeld
    <2>2. ASSUME NEW t \in Sessions PROVE ses'[t].copy[User(s)].of # n
      <3>1. CASE t = s
        BY <1>1, <1>2, <1>3, <3>1 DEF NoAccount
      <3>2. CASE t # s
        <4>1. Known(ses[t].copy[User(s)], salts) /\ ses[t].copy[User(s)].of \in Nat
          BY <1>2, KindOfAccount DEF Base, Drawn, Kinds, SessionKind
        <4> QED  BY <1>1, <1>4, <3>2, <4>1 DEF Same, Known
      <3> QED  BY <3>1, <3>2
    <2> QED  BY <1>2, <1>3, <2>1, <2>2 DEF Unseen, User
  <1>7. \A t \in Sessions : Same(t) \/ Outside(t)
    BY <1>4, <1>5
  <1> QED  BY <1>1, <1>6, <1>7, QuietKept

(* Memory changes at the account of u alone: what the saves have found and *)
(* what is promised of u grows by p.                                        *)
LEMMA GrownCopies ==
  ASSUME Base, Kept, NEW u \in Users, NEW p \in PasswordsOrNone, MayFind(u, p),
         \A t \in Sessions : Copying(t) => Same(t),
         \A t \in Sessions : Copying(t)' => Copying(t),
         \A w \in Users : InMemory(w)' \subseteq InMemory(w) \cup (IF w = u THEN {p} ELSE {}),
         \A w \in Users : accounts[w] # NoAccount => accounts'[w] # NoAccount,
         \A w \in Users \ {u} : accounts'[w] = accounts[w],
         \A t \in Sessions : Copying(t) =>
            (HalfCopied(ses[t], found[t], u) => HalfCopied(ses[t], found[t], u)'),
         UNCHANGED <<admin, file>>
  PROVE  Copies' /\ Promises'
  <1>1. /\ promised'[u] = promised[u] \cup {p}
        /\ \A w \in Users \ {u} : promised'[w] = promised[w]
        /\ \A t \in Sessions :
             /\ Copying(t) => /\ found'[t][u] = found[t][u] \cup {p}
                              /\ \A w \in Users \ {u} : found'[t][w] = found[t][w]
             /\ ~Copying(t) => found'[t] = found[t]
    BY MayFindFacts
  <1>2. Copies'
    <2>1. ASSUME NEW t \in Sessions, Copying(t)' PROVE CopyGood(ses[t], found[t])'
      <3>1. Copying(t) /\ Same(t) /\ CopyGood(ses[t], found[t])
        BY <2>1 DEF Kept, Copies
      <3>2. \A w \in Users : /\ found[t][w] \subseteq found'[t][w]
                             /\ InMemory(w)' \subseteq found'[t][w]
        <4>1. \A w \in Users : InMemory(w) \subseteq found[t][w]
          BY <3>1 DEF CopyGood
        <4> QED  BY <1>1, <3>1, <4>1
      <3>3. \A w \in Users : HalfCopied(ses[t], found[t], w) => HalfCopied(ses[t], found[t], w)'
        <4>1. ASSUME NEW w \in Users \ {u}, HalfCopied(ses[t], found[t], w)
              PROVE  HalfCopied(ses[t], found[t], w)'
          BY <1>1, <3>1, <4>1 DEF HalfCopied, Same
        <4> QED  BY <3>1, <4>1
      <3>4. ses[t].todo \in SUBSET Users
        BY DEF Base, Kinds, SessionKind
      <3> QED  BY <3>1, <3>2, <3>3, <3>4, CopyKept
    <2> QED  BY <2>1 DEF Copies
  <1>3. Promises'
    <2>1. \A w \in Users : InMemory(w)' \subseteq promised'[w]
      BY <1>1 DEF Kept, Promises
    <2>2. \A t \in Sessions, w \in Users : found'[t][w] \subseteq promised'[w]
      <3>1. ASSUME NEW t \in Sessions, NEW w \in Users PROVE found'[t][w] \subseteq promised'[w]
        <4>1. found[t][w] \subseteq promised[w]
          BY DEF Kept, Promises
        <4> QED  BY <1>1, <4>1
      <3> QED  BY <3>1
    <2>3. \A w \in Users : promised[w] \subseteq promised'[w]
      BY <1>1
    <2>4. \A t \in Sessions : In(t, "write") => In(t, "write")'
      BY DEF In, Copying, Same
    <2> QED  BY <2>1, <2>2, <2>3, <2>4 DEF Kept, Promises
  <1> QED  BY <1>2, <1>3

LEMMA SetSaltKept ==
  ASSUME Base, Kept, NEW s \in Sessions, SetSalt(s)
  PROVE  Kept'
  <1>0. ~In(s, "idle")
    BY DEF SetSalt, In
  <1> PICK u \in Users : u = User(s)
    BY <1>0, CallFacts
  <1> DEFINE n == ses[s].salt
  <1>1. /\ In(s, "setSalt") /\ Replacing(s) /\ ~In(s, "idle")
        /\ accounts' = [accounts EXCEPT ![u].salt = n]
        /\ ses' = [ses EXCEPT ![s] = [ses[s] EXCEPT !.at = "setHash"]]
        /\ UNCHANGED <<server, locked, file, admin, salts, password, torn>>
        /\ MayFind(u, None)
    BY DEF SetSalt, In, Replacing
  <1>2. /\ u \in Users /\ ses[s] \in SessionKind /\ accounts \in StoreKind /\ n \in 1..salts
        /\ server = "up" /\ salts \in Nat
    BY <1>1, CallFacts DEF Base, Drawn
  <1>3. /\ ses'[s].at = "setHash" /\ ses'[s].user = u /\ ses'[s].salt = n
        /\ ses'[s].copy = ses[s].copy
        /\ \A t \in Sessions \ {s} : ses'[t] = ses[t]
    BY <1>1, <1>2 DEF Base, Kinds, SessionKind, User
  <1>4. /\ accounts'[u].salt = n
        /\ \A w \in Users : accounts'[w].of = accounts[w].of /\ accounts'[w].pw = accounts[w].pw
        /\ \A w \in Users \ {u} : accounts'[w] = accounts[w]
    BY <1>1, <1>2 DEF StoreKind, AccountKind
  <1>5. n # 0 /\ accounts'[u] # NoAccount
    BY <1>2, <1>4 DEF NoAccount
  <1>6. \A t \in Sessions : Replacing(t) <=> t = s
    BY <1>1, SessionsAssumption DEF Base, LockHeld
  <1>7. \A t \in Sessions \ {s} : Same(t)
    BY <1>3 DEF Same
  <1>8. \A t \in Sessions : In(t, "setHash")' <=> t = s
    BY <1>3, <1>6 DEF In, Replacing
  <1>9. Memory'
    <2>1. \A w \in Users \ torn' : \/ accounts'[w].of = accounts'[w].salt
                                   \/ \E t \in Sessions : In(t, "setHash")' /\ User(t)' = w
      <3>1. CASE UNCHANGED torn
        <4>1. \A w \in Users \ torn : w # u => accounts[w].of = accounts[w].salt
          BY <1>1, <1>6 DEF Kept, Memory, In, Replacing
        <4> QED  BY <1>3, <1>4, <1>8, <3>1, <4>1 DEF User
      <3> QED  BY <1>1, <3>1
    <2>2. \A t \in Sessions : In(t, "setHash")' => accounts'[ses'[t].user].salt # 0
      BY <1>3, <1>4, <1>5, <1>8
    <2>3. Salted(accounts')
      BY <1>4, <1>5 DEF Kept, Memory, Salted
    <2> QED  BY <1>1, <2>1, <2>2, <2>3 DEF Kept, Memory, Salted, User
  <1>10. Unseen'
    <2>1. \A t \in Sessions : Replacing(t)' => t = s
      BY <1>6, <1>7 DEF Replacing, Same
    <2>2. \A t \in Sessions : ses'[t].copy = ses[t].copy
      BY <1>3
    <2>3. \A t \in Sessions : ses[t].copy[u].of # n
      BY <1>1 DEF Kept, Unseen
    <2> QED  BY <1>3, <2>1, <2>2, <2>3 DEF Unseen, User
  <1>11. Copies' /\ Promises'
    <2>1. \A t \in Sessions : Copying(t) => t # s
      BY <1>1 DEF Copying, In
    <2>2. \A t \in Sessions : /\ Copying(t) => Same(t)
                              /\ Copying(t)' => Copying(t)
      BY <1>3, <1>7, <2>1 DEF Copying, Same
    <2>3. ASSUME NEW w \in Users
          PROVE  InMemory(w)' \subseteq InMemory(w) \cup (IF w = u THEN {None} ELSE {})
      <3>1. InMemory(w)' = {password[w]} \cup {None : t \in Setting(w)'}
        BY <1>1, <1>2 DEF InMemory, Setting
      <3>2. password[w] \in InMemory(w)
        BY <1>2, MemoryIs
      <3>3. w # u => Setting(w)' = {}
        BY <1>3, <1>8 DEF Setting, User
      <3> QED  BY <3>1, <3>2, <3>3
    <2>4. \A w \in Users : accounts[w] # NoAccount => accounts'[w] # NoAccount
      BY <1>4, <1>5
    <2>5. ASSUME NEW t \in Sessions, Copying(t) PROVE HalfCopied(ses[t], found[t], u)'
      <3>1. ses[t].copy[u].of # n /\ Same(t)
        BY <1>1, <2>2, <2>5 DEF Kept, Unseen
      <3>2. None \in found'[t][u]
        BY <1>1, <1>2, <2>5, MayFindFacts DEF PasswordsOrNone
      <3> QED  BY <1>4, <1>5, <3>1, <3>2 DEF HalfCopied, Same
    <2>6. None \in PasswordsOrNone /\ UNCHANGED <<admin, file>> /\ MayFind(u, None)
      BY <1>1 DEF PasswordsOrNone
    <2> QED  BY <1>2, <1>4, <2>2, <2>3, <2>4, <2>5, <2>6, GrownCopies
  <1> QED  BY <1>9, <1>10, <1>11 DEF Kept

LEMMA SetHashKept ==
  ASSUME Base, Verdicts, Kept, NEW s \in Sessions, SetHash(s)
  PROVE  Kept'
  <1>0. ~In(s, "idle") /\ ses[s].new \in Passwords
    BY DEF SetHash, In, Base, Calls, Changing
  <1> PICK u \in Users : u = User(s)
    BY <1>0, CallFacts
  <1> PICK p \in Passwords : p = ses[s].new
    BY <1>0
  <1> DEFINE c == Change(s, "snapshot", 0)
  <1>1. /\ In(s, "setHash") /\ Replacing(s) /\ ~In(s, "idle")
        /\ accounts' = [accounts EXCEPT ![u] = [@ EXCEPT !.pw = p, !.of = accounts[u].salt]]
        /\ password' = [password EXCEPT ![u] = p]
        /\ UNCHANGED <<server, file, admin, salts>> /\ torn' = torn \ {u}
        /\ MayFind(u, p)
        /\ ses' = [t \in Sessions |-> IF t = s THEN c ELSE IF User(t) # u THEN ses[t]
                                      ELSE [ses[t] EXCEPT !.could = @ \cup {p}]]
    BY DEF SetHash, Rehash, Base, Kinds, StoreKind, In, Replacing
  <1>2. /\ u \in Users /\ accounts \in StoreKind /\ password \in [Users -> PasswordsOrNone]
        /\ p \in Passwords /\ server = "up"
    BY <1>1, CallFacts DEF In, Base, Kinds, Calls, Changing
  <1>3. c.at = "snapshot" /\ \A w \in Users : c.copy[w] = NoAccount
    BY <1>1, ChangeFacts, 0 \in Nat DEF In
  <1> HIDE DEF c
  <1>4. ses'[s] = c
    BY <1>1
  <1>5. \A t \in Sessions \ {s} : Same(t)
    <2>1. ASSUME NEW t \in Sessions \ {s} PROVE Same(t)
      <3>1. ses[t] \in SessionKind
        BY DEF Base, Kinds
      <3>2. ses'[t] = ses[t] \/ ses'[t] = [ses[t] EXCEPT !.could = @ \cup {p}]
        BY <1>1
      <3> QED  BY <3>1, <3>2 DEF SessionKind, Same
    <2> QED  BY <2>1
  <1>6. /\ accounts'[u].salt = accounts[u].salt /\ accounts'[u].of = accounts[u].salt
        /\ accounts'[u].pw = p
        /\ \A w \in Users \ {u} : accounts'[w] = accounts[w] /\ password'[w] = password[w]
        /\ password'[u] = p
    BY <1>1, <1>2 DEF StoreKind, AccountKind
  <1>7. accounts'[u] # NoAccount /\ accounts'[u].salt # 0
    <2>1. accounts[u].salt # 0
      BY <1>1 DEF Kept, Memory
    <2> QED  BY <1>6, <2>1 DEF NoAccount
  <1>8. \A t \in Sessions : (Replacing(t) <=> t = s) /\ ~Replacing(t)'
    <2>1. \A t \in Sessions : Replacing(t) <=> t = s
      BY <1>1, SessionsAssumption DEF Base, LockHeld
    <2> QED  BY <1>3, <1>4, <1>5, <2>1 DEF Replacing, Same
  <1>9. \A t \in Sessions : (In(t, "setHash") => t = s) /\ ~In(t, "setHash")'
    BY <1>8 DEF In, Replacing
  <1>10. Memory'
    <2>1. \A w \in Users \ torn' : accounts'[w].of = accounts'[w].salt
      BY <1>1, <1>6, <1>9 DEF Kept, Memory
    <2>2. Salted(accounts')
      BY <1>6, <1>7 DEF Kept, Memory, Salted
    <2> QED  BY <1>1, <1>9, <2>1, <2>2 DEF Kept, Memory, Salted
  <1>11. Unseen'
    BY <1>8 DEF Unseen
  <1>12. Copies' /\ Promises'
    <2>1. \A t \in Sessions : Copying(t) => t # s
      BY <1>1 DEF Copying, In
    <2>2. \A t \in Sessions : /\ Copying(t) => Same(t)
                              /\ Copying(t)' => Copying(t)
      BY <1>3, <1>4, <1>5, <2>1 DEF Copying, Same
    <2>3. ASSUME NEW w \in Users
          PROVE  InMemory(w)' \subseteq InMemory(w) \cup (IF w = u THEN {p} ELSE {})
      <3>1. InMemory(w)' = {password'[w]}
        BY <1>1, <1>2, <1>9 DEF InMemory
      <3>2. password[w] \in InMemory(w)
        BY <1>2, MemoryIs
      <3> QED  BY <1>6, <3>1, <3>2
    <2>4. \A w \in Users : accounts[w] # NoAccount => accounts'[w] # NoAccount
      BY <1>6, <1>7
    <2>5. ASSUME NEW t \in Sessions, Copying(t), HalfCopied(ses[t], found[t], u)
          PROVE  HalfCopied(ses[t], found[t], u)'
      <3>1. found[t][u] \subseteq found'[t][u]
        BY <1>1, <1>2, <2>5, MayFindFacts DEF PasswordsOrNone
      <3> QED  BY <1>6, <1>7, <2>2, <2>5, <3>1 DEF HalfCopied, Same
    <2>6. p \in PasswordsOrNone /\ UNCHANGED <<admin, file>> /\ MayFind(u, p)
      BY <1>1, <1>2 DEF PasswordsOrNone
    <2>7. \A w \in Users \ {u} : accounts'[w] = accounts[w]
      BY <1>6
    <2> QED  BY <1>2, <2>2, <2>3, <2>4, <2>5, <2>6, <2>7, GrownCopies
  <1> QED  BY <1>10, <1>11, <1>12 DEF Kept

(* A step of saveLocked that copies, or opens the file. *)
LEMMA SaveKept ==
  ASSUME Base, Kept, NEW s \in Sessions, NEW l \in {"marshal", "half", "write"}, NEW d, NEW c,
         SavesTo(s, l, d, c), ses[s].at \in {"snapshot", "marshal", "half"},
         UNCHANGED <<admin, torn, promised>>,
         \A t \in Sessions \ {s} : found'[t] = found[t],
         \A u \in Users : found'[s][u] \subseteq promised[u],
         file' = file \/ (file' = [file EXCEPT !.form = "empty"] /\ l = "write"),
         CopyGood(ses'[s], found'[s]),
         \A t \in Sessions : Replacing(t) => c[User(t)].of # ses[t].salt
  PROVE  Kept'
  <1>1. /\ ses'[s].at = l /\ ses'[s].copy = c /\ ses'[s].user = ses[s].user
        /\ \A t \in Sessions \ {s} : ses'[t] = ses[t]
        /\ UNCHANGED <<server, accounts, password>>
    BY DEF SavesTo
  <1>2. \A t \in Sessions \ {s} : Same(t)
    BY <1>1 DEF Same
  <1>3. ~In(s, "setHash") /\ ~In(s, "setHash")' /\ ~Replacing(s)' /\ ~In(s, "write")
    BY <1>1 DEF In, Replacing
  <1>4. \A u \in Users : InMemory(u)' = InMemory(u)
    BY <1>1, <1>2, <1>3, SameMemory
  <1>5. file'.data = file.data
    BY DEF Base, Kinds, FileKind
  <1>6. Memory'
    <2>1. \A t \in Sessions : (In(t, "setHash")' <=> In(t, "setHash"))
                              /\ (In(t, "setHash") => User(t)' = User(t))
      BY <1>2, <1>3 DEF In, User, Same
    <2> QED  BY <1>1, <1>5, <2>1 DEF Kept, Memory, Salted
  <1>7. Unseen'
    BY <1>1, <1>2, <1>3, UnseenMoves DEF Kept
  <1>8. Copies'
    <2>1. ASSUME NEW t \in Sessions \ {s}, Copying(t)' PROVE CopyGood(ses[t], found[t])'
      <3>1. Same(t) /\ Copying(t)
        BY <1>2, <2>1 DEF Copying, Same
      <3> QED  BY <1>1, <1>4, <3>1, SameCopies DEF Kept
    <2>2. CopyGood(ses[s], found[s])'
      <3>1. \A v \in Users : HalfCopied(ses'[s], found'[s], v) => HalfCopied(ses[s], found[s], v)'
        BY <1>1 DEF HalfCopied
      <3>2. \A v \in Users : Copied(ses'[s], found'[s], v) => Copied(ses[s], found[s], v)'
        BY DEF Copied
      <3> QED  BY <1>1, <1>4, <3>1, <3>2 DEF CopyGood
    <2> QED  BY <2>1, <2>2 DEF Copies
  <1>9. Promises'
    <2>1. \A t \in Sessions : In(t, "write") => In(t, "write")'
      BY <1>2, <1>3 DEF In, Same
    <2>2. \A t \in Sessions, u \in Users : found'[t][u] \subseteq promised[u]
      BY DEF Kept, Promises
    <2>3. CASE file' = file
      BY <1>4, <2>1, <2>2, <2>3 DEF Kept, Promises
    <2>4. CASE file' = [file EXCEPT !.form = "empty"] /\ l = "write"
      <3>1. file'.form = "empty" /\ In(s, "write")'
        BY <1>1, <2>4 DEF In, Base, Kinds, FileKind
      <3> QED  BY <1>4, <2>2, <3>1 DEF Kept, Promises
    <2> QED  BY <2>3, <2>4
  <1> QED  BY <1>6, <1>7, <1>8, <1>9 DEF Kept

LEMMA SnapshotKept ==
  ASSUME Base, Verdicts, Kept, NEW s \in Sessions, Snapshot(s)
  PROVE  Kept'
  <1> DEFINE d == {u \in Users : accounts[u] # NoAccount}
             f == [u \in Users |-> InMemory(u)]
  <1>1. /\ ses[s].at = "snapshot" /\ locked = None /\ server = "up"
        /\ UNCHANGED <<admin, torn, promised, file>>
        /\ SavesTo(s, "marshal", d, Empty) /\ found' = [found EXCEPT ![s] = f]
    BY SaveFacts, CallFacts DEF Snapshot, In
  <1>2. found'[s] = f /\ \A t \in Sessions \ {s} : found'[t] = found[t]
    BY <1>1 DEF Base, Kinds
  <1>3. \A u \in Users : f[u] \subseteq promised[u]
    BY DEF Kept, Promises
  <1>4. ses'[s].at = "marshal" /\ ses'[s].todo = d /\ ses'[s].copy = Empty
    BY <1>1 DEF SavesTo
  <1>5. CopyGood(ses'[s], f)
    <2>1. \A u \in Users \ d : Copied(ses'[s], f, u)
      <3>1. ASSUME NEW u \in Users \ d PROVE Copied(ses'[s], f, u)
        <4>1. PasswordOf(accounts[u]) \in InMemory(u) /\ accounts[u] = NoAccount
          BY <1>1, Verified
        <4> QED  BY <1>4, <4>1 DEF Copied, Empty
      <3> QED  BY <3>1
    <2>2. \A u \in d : Empty[u] = NoAccount /\ accounts[u] # NoAccount
      BY DEF Empty
    <2> HIDE DEF d
    <2> QED  BY <1>4, <2>1, <2>2 DEF CopyGood
  <1>6. \A t \in Sessions : Replacing(t) => Empty[User(t)].of # ses[t].salt
    BY NoCopy DEF Empty
  <1> HIDE DEF d, f
  <1>7. \A u \in Users : found'[s][u] \subseteq promised[u]
    BY <1>2, <1>3
  <1>8. CopyGood(ses'[s], found'[s])
    BY <1>2, <1>5
  <1> QED  BY <1>1, <1>2, <1>6, <1>7, <1>8, SaveKept

(* The next user's hash is read. *)
LEMMA MarshalHashKept ==
  ASSUME Base, Verdicts, Kept, NEW s \in Sessions, NEW u \in Users, MarshalHash(s, u)
  PROVE  Kept'
  <1> DEFINE d == ses[s].todo \ {u}
             h == HalfOf(accounts[u])
             c == [ses[s].copy EXCEPT ![u] = h]
  <1>1. /\ ses[s].at = "marshal" /\ u \in ses[s].todo
        /\ UNCHANGED <<admin, torn, found, promised, file>>
        /\ SavesTo(s, "half", d, c)
    BY SaveFacts DEF MarshalHash, In, history
  <1>2. /\ server = "up" /\ ses[s].copy \in StoreKind /\ ses[s].todo \in SUBSET Users
        /\ accounts[u] \in AccountKind /\ CopyGood(ses[s], found[s])
    BY <1>1, CallFacts, KindOfAccount
    DEF In, Kept, Copies, Copying, Base, Kinds, SessionKind
  <1>3. /\ c[u] = h /\ \A w \in Users \ {u} : c[w] = ses[s].copy[w]
        /\ h.of = accounts[u].of /\ h.pw = accounts[u].pw
    BY <1>2 DEF StoreKind, HalfOf, AccountKind
  <1>4. ses'[s].at = "half" /\ ses'[s].todo = d /\ ses'[s].copy = c
    BY <1>1 DEF SavesTo
  <1>5. HalfCopied(ses'[s], found[s], u)
    <2>1. PasswordOf(accounts[u]) \in found[s][u] /\ accounts[u] # NoAccount
      BY <1>1, <1>2, Verified DEF CopyGood
    <2> QED  BY <1>3, <1>4, <2>1 DEF HalfCopied, PasswordOf
  <1>6. \A w \in Users \ ses[s].todo : Copied(ses'[s], found[s], w)
    <2>1. \A w \in Users \ ses[s].todo : Copied(ses[s], found[s], w) /\ w # u
      BY <1>1, <1>2 DEF CopyGood
    <2> QED  BY <1>3, <1>4, <2>1 DEF Copied
  <1>7. CopyGood(ses'[s], found[s])
    <2>1. \A w \in d : c[w] = NoAccount /\ accounts[w] # NoAccount
      BY <1>2, <1>3 DEF CopyGood
    <2>2. u \in Users \ d /\ \A w \in Users \ (d \cup {u}) : w \in Users \ ses[s].todo
      OBVIOUS
    <2>3. \A w \in Users : InMemory(w) \subseteq found[s][w]
      BY <1>2 DEF CopyGood
    <2> HIDE DEF d, c
    <2> QED  BY <1>4, <1>5, <1>6, <2>1, <2>2, <2>3 DEF CopyGood
  <1>8. \A t \in Sessions : Replacing(t) => c[User(t)].of # ses[t].salt
    <2>1. ASSUME NEW t \in Sessions, Replacing(t) PROVE c[User(t)].of # ses[t].salt
      <3>1. /\ User(t) \in Users /\ accounts[User(t)].of # ses[t].salt
            /\ ses[s].copy[User(t)].of # ses[t].salt
        BY <2>1 DEF Base, Drawn, Calls, Replacing, In, Kept, Unseen
      <3> QED  BY <1>3, <3>1
    <2> QED  BY <2>1
  <1> HIDE DEF d, c
  <1>9. /\ \A w \in Users : found'[s][w] \subseteq promised[w]
        /\ CopyGood(ses'[s], found'[s]) /\ \A t \in Sessions \ {s} : found'[t] = found[t]
    BY <1>1, <1>7 DEF Kept, Promises
  <1> QED  BY <1>1, <1>8, <1>9, SaveKept

(* Its salt is read: the two match, if no change came in between. *)
LEMMA MarshalSaltKept ==
  ASSUME Base, Kept, NEW s \in Sessions, NEW u \in Users, MarshalSalt(s, u)
  PROVE  Kept'
  <1> DEFINE d == ses[s].todo
             h == [ses[s].copy[u] EXCEPT !.salt = accounts[u].salt]
             c == [ses[s].copy EXCEPT ![u] = h]
  <1>1. /\ ses[s].at = "half" /\ ses[s].copy[u] # NoAccount /\ ses[s].copy[u].salt = 0
        /\ UNCHANGED <<admin, torn, found, promised, file>>
        /\ SavesTo(s, "marshal", d, c)
    BY SaveFacts DEF MarshalSalt, In, history
  <1>2. /\ server = "up" /\ ses[s].copy \in StoreKind /\ d \in SUBSET Users
        /\ ses[s].copy[u] \in AccountKind /\ CopyGood(ses[s], found[s])
    BY <1>1, CallFacts, KindOfAccount
    DEF In, Kept, Copies, Copying, Base, Kinds, SessionKind
  <1>3. /\ c[u] = h /\ \A w \in Users \ {u} : c[w] = ses[s].copy[w]
        /\ h.of = ses[s].copy[u].of /\ h.pw = ses[s].copy[u].pw /\ h.salt = accounts[u].salt
    BY <1>2 DEF StoreKind, AccountKind
  <1>4. ses'[s].at = "marshal" /\ ses'[s].todo = d /\ ses'[s].copy = c
    BY <1>1 DEF SavesTo
  <1>5. PICK v \in Users \ d :
                /\ HalfCopied(ses[s], found[s], v)
                /\ \A w \in Users \ (d \cup {v}) : Copied(ses[s], found[s], w)
    BY <1>1, <1>2 DEF CopyGood
  <1>6. v = u
    <2>1. u \notin d
      BY <1>1, <1>2 DEF CopyGood
    <2> QED  BY <1>1, <1>5, <2>1 DEF Copied
  <1>7. Copied(ses'[s], found[s], u)
    <2>1. accounts[u] # NoAccount /\ accounts[u].salt # 0
      BY <1>5, <1>6 DEF HalfCopied, Kept, Memory, Salted
    <2> QED  BY <1>3, <1>4, <1>5, <1>6, <2>1 DEF Copied, HalfCopied, PasswordOf
  <1>8. \A w \in Users \ (d \cup {u}) : Copied(ses'[s], found[s], w)
    BY <1>3, <1>4, <1>5, <1>6 DEF Copied
  <1>9. CopyGood(ses'[s], found[s])
    <2>1. \A w \in d : c[w] = NoAccount /\ accounts[w] # NoAccount
      BY <1>2, <1>3, <1>5, <1>6 DEF CopyGood
    <2>2. \A w \in Users : InMemory(w) \subseteq found[s][w]
      BY <1>2 DEF CopyGood
    <2> HIDE DEF d, c
    <2> QED  BY <1>4, <1>7, <1>8, <2>1, <2>2 DEF CopyGood
  <1>10. \A t \in Sessions : Replacing(t) => c[User(t)].of # ses[t].salt
    <2>1. ASSUME NEW t \in Sessions, Replacing(t) PROVE c[User(t)].of # ses[t].salt
      <3>1. User(t) \in Users /\ ses[s].copy[User(t)].of # ses[t].salt
        BY <2>1 DEF Base, Calls, Replacing, In, Kept, Unseen
      <3> QED  BY <1>3, <3>1
    <2> QED  BY <2>1
  <1> HIDE DEF d, c
  <1>11. /\ \A w \in Users : found'[s][w] \subseteq promised[w]
         /\ CopyGood(ses'[s], found'[s]) /\ \A t \in Sessions \ {s} : found'[t] = found[t]
    BY <1>1, <1>9 DEF Kept, Promises
  <1> QED  BY <1>1, <1>10, <1>11, SaveKept

LEMMA TruncateKept ==
  ASSUME Base, Kept, NEW s \in Sessions, Truncate(s)
  PROVE  Kept'
  <1> DEFINE d == ses[s].todo
             c == ses[s].copy
  <1>1. /\ ses[s].at = "marshal" /\ d = {} /\ UNCHANGED <<admin, torn, found, promised>>
        /\ file' = [file EXCEPT !.form = "empty"]
        /\ SavesTo(s, "write", d, c)
    BY SaveFacts DEF Truncate, In, history
  <1>2. ses'[s].at = "write" /\ ses'[s].todo = d /\ ses'[s].copy = c
    BY <1>1 DEF SavesTo
  <1>3. CopyGood(ses[s], found[s])
    BY <1>1 DEF Kept, Copies, Copying
  <1>4. CopyGood(ses'[s], found[s])
    BY <1>1, <1>2, <1>3 DEF CopyGood, Copied
  <1>5. \A t \in Sessions : Replacing(t) => c[User(t)].of # ses[t].salt
    BY DEF Kept, Unseen
  <1> HIDE DEF d, c
  <1>6. /\ \A w \in Users : found'[s][w] \subseteq promised[w]
        /\ CopyGood(ses'[s], found'[s]) /\ \A t \in Sessions \ {s} : found'[t] = found[t]
    BY <1>1, <1>4 DEF Kept, Promises
  <1> QED  BY <1>1, <1>5, <1>6, SaveKept

(* A save ends: its copy is in the file, or it failed. *)
LEMMA SaveEndsKept ==
  ASSUME Base, Kept, NEW s \in Sessions, SaveEnds(s)
  PROVE  Kept'
  <1>0. ~In(s, "idle") /\ Copying(s) /\ ses[s].at \in {"marshal", "write"}
    BY DEF SaveEnds, In, Copying
  <1> PICK u \in Users : u = User(s)
    BY <1>0, CallFacts
  <1>1. /\ ses' = [ses EXCEPT ![s] = [Fresh EXCEPT !.verdict = "none"]]
        /\ found' = [found EXCEPT ![s] = NothingFound]
        /\ UNCHANGED <<server, accounts, locked, admin, salts, password, torn>>
    BY DEF SaveEnds, Return, Ends
  <1>2. /\ ses'[s].at = "idle" /\ \A w \in Users : ses'[s].copy[w] = NoAccount
        /\ \A t \in Sessions \ {s} : ses'[t] = ses[t]
    BY <1>1, ReturnFacts DEF Base, Kinds
  <1>3. /\ found'[s] = NothingFound /\ \A w \in Users : found'[s][w] = {}
        /\ \A t \in Sessions \ {s} : found'[t] = found[t]
    BY <1>1 DEF Base, Kinds, NothingFound
  <1>4. \A t \in Sessions \ {s} : Same(t)
    BY <1>2 DEF Same
  <1>5. ~In(s, "setHash") /\ ~In(s, "setHash")' /\ ~Replacing(s)' /\ ~Copying(s)'
    BY <1>0, <1>2 DEF In, Replacing, Copying
  <1>6. \A w \in Users : InMemory(w)' = InMemory(w)
    BY <1>1, <1>4, <1>5, SameMemory
  <1>7. CopyGood(ses[s], found[s])
    BY <1>0 DEF Kept, Copies
  <1>8. In(s, "write") => \A w \in Users : Copied(ses[s], found[s], w)
    BY <1>7 DEF CopyGood, In
  <1>9. Salted(file'.data)
    <2>1. CASE file' = file
      BY <2>1 DEF Kept, Memory
    <2>2. CASE file' \in CutOff
      BY <2>2, CutOffFacts DEF Kept, Memory, Salted, Base, Kinds
    <2>3. CASE In(s, "write") /\ file' \in Written(ses[s].copy)
      BY <1>8, <2>3, WrittenFacts DEF Salted, Copied
    <2> QED  BY <2>1, <2>2, <2>3 DEF SaveEnds
  <1>10. Memory'
    <2>1. \A t \in Sessions : (In(t, "setHash")' <=> In(t, "setHash"))
                              /\ (In(t, "setHash") => User(t)' = User(t))
      BY <1>4, <1>5 DEF In, User, Same
    <2> QED  BY <1>1, <1>9, <2>1 DEF Kept, Memory, Salted
  <1>11. Unseen'
    <2>1. \A t \in Sessions \ {s} : Replacing(t) => ses'[s].copy[User(t)].of # ses[t].salt
      BY <1>2, NoCopy
    <2> QED  BY <1>4, <1>5, <2>1, UnseenMoves DEF Kept
  <1>12. Copies'
    <2>1. ASSUME NEW t \in Sessions, Copying(t)' PROVE CopyGood(ses[t], found[t])'
      <3>1. t # s /\ Same(t) /\ Copying(t)
        BY <1>4, <1>5, <2>1 DEF Copying, Same
      <3> QED  BY <1>1, <1>3, <1>6, <3>1, SameCopies DEF Kept
    <2> QED  BY <2>1 DEF Copies
  <1>13. Promises'
    <2>1. \A t \in Sessions, w \in Users : found'[t][w] \subseteq found[t][w]
      BY <1>3
    <2>2. \A t \in Sessions : In(t, "write") => In(t, "write")' \/ t = s
      BY <1>4 DEF In, Same
    <2>3. CASE file' = file /\ promised' = promised /\ ~In(s, "write")
      BY <1>1, <1>6, <2>1, <2>2, <2>3 DEF Kept, Promises
    <2>4. CASE file' \in CutOff /\ promised' = promised
      <3>1. /\ file'.data = file.data /\ file'.form # "empty"
            /\ file'.form = "whole" => file.form = "whole"
        BY <2>4, CutOffFacts DEF Base, Kinds
      <3> QED  BY <1>1, <1>6, <2>1, <2>4, <3>1 DEF Kept, Promises
    <2>5. CASE /\ In(s, "write") /\ file' \in Written(ses[s].copy)
               /\ promised' = [promised EXCEPT ![u] = UnderWay(u)]
      <3>1. file'.data = ses[s].copy /\ file'.form # "empty"
        BY <2>5, WrittenFacts
      <3>2. /\ promised'[u] = UnderWay(u)
            /\ \A w \in Users \ {u} : promised'[w] = promised[w]
        BY <2>5 DEF Base, Kinds, PromiseKind
      <3>3. \A t \in Sessions : found[t][u] \subseteq UnderWay(u)
        BY DEF UnderWay
      <3>4. \A t \in Sessions, w \in Users : found[t][w] \subseteq promised'[w]
        BY <3>2, <3>3 DEF Kept, Promises
      <3>5. \A w \in Users : PasswordOf(file'.data[w]) \in promised'[w]
        BY <1>8, <2>5, <3>1, <3>4 DEF Copied
      <3>6. \A w \in Users : InMemory(w) \subseteq promised'[w]
        BY <1>7, <3>4 DEF CopyGood
      <3>7. admin.at # "idle" => /\ admin.user \in Users
                                 /\ \A w \in Users : PasswordOf(admin.data[w]) \in promised'[w]
        <4>1. admin.at # "idle" => PasswordOf(admin.data[u]) \in UnderWay(u)
          BY DEF UnderWay
        <4> QED  BY <3>2, <4>1 DEF Kept, Promises
      <3>8. \A t \in Sessions, w \in Users : found'[t][w] \subseteq promised'[w]
        BY <2>1, <3>4
      <3> QED  BY <1>1, <1>6, <3>1, <3>5, <3>6, <3>7, <3>8 DEF Promises
    <2> QED  BY <2>3, <2>4, <2>5 DEF SaveEnds
  <1> QED  BY <1>10, <1>11, <1>12, <1>13 DEF Kept

(* A step of useradd or userdel, or none. *)
LEMMA AdminFrame ==
  ASSUME Base, Kept, UNCHANGED <<server, accounts, ses, password, torn, found>>
  PROVE  /\ \A u \in Users : InMemory(u)' = InMemory(u)
         /\ Unseen' /\ Copies'
         /\ Salted(file.data)' /\ Salted(admin.data)' => Memory'
  <1>1. \A t \in Sessions : Same(t)
    BY DEF Same
  <1>2. \A u \in Users : InMemory(u)' = InMemory(u)
    BY <1>1, SameMemory
  <1>3. Copies'
    <2>1. ASSUME NEW t \in Sessions, Copying(t)' PROVE CopyGood(ses[t], found[t])'
      <3>1. Copying(t)
        BY <2>1 DEF Copying
      <3> QED  BY <1>1, <1>2, <3>1, SameCopies DEF Kept
    <2> QED  BY <2>1 DEF Copies
  <1>4. Unseen'
    BY DEF Kept, Unseen, Replacing, User
  <1>5. ASSUME Salted(file.data)', Salted(admin.data)' PROVE Memory'
    <2>1. Salted(accounts)'
      BY DEF Kept, Memory, Salted
    <2> QED  BY <1>5, <2>1 DEF Kept, Memory, In, User
  <1> QED  BY <1>2, <1>3, <1>4, <1>5

LEMMA AdminLoadKept ==
  ASSUME Base, Kept, NEW u \in Users, NEW p \in Passwords \cup {None}, AdminLoad(u, p)
  PROVE  Kept'
  <1> DEFINE n == salts + 1
             a == Account(p, n)
  <1>1. /\ admin' = [at |-> "truncate", user |-> u, data |-> [file.data EXCEPT ![u] = a]]
        /\ admin.at = "idle" /\ file.form = "whole"
        /\ promised' = [promised EXCEPT ![u] = @ \cup {p}]
        /\ UNCHANGED <<server, accounts, ses, file, password, torn, found>>
    BY DEF AdminLoad, Loaded
  <1>2. n \in Nat /\ n # 0 /\ p \in PasswordsOrNone
    BY DEF Base, Kinds, PasswordsOrNone
  <1>3. PasswordOf(a) = p /\ (a # NoAccount => a.salt # 0)
    BY <1>2, AccountFacts
  <1> HIDE DEF a, n
  <1>4. /\ admin'.at = "truncate" /\ admin'.user = u /\ admin'.data[u] = a
        /\ \A w \in Users \ {u} : admin'.data[w] = file.data[w]
        /\ promised'[u] = promised[u] \cup {p}
        /\ \A w \in Users \ {u} : promised'[w] = promised[w]
    BY <1>1 DEF Base, Kinds, FileKind, StoreKind, PromiseKind
  <1>5. Salted(file.data)' /\ Salted(admin.data)'
    BY <1>1, <1>3, <1>4 DEF Kept, Memory, Salted
  <1>6. \A w \in Users : promised[w] \subseteq promised'[w]
    BY <1>4
  <1>7. \A w \in Users : PasswordOf(admin'.data[w]) \in promised'[w]
    BY <1>1, <1>3, <1>4 DEF Kept, Promises
  <1>8. \A w \in Users : InMemory(w)' = InMemory(w)
    BY <1>1, AdminFrame
  <1>9. Promises'
    <2>1. \A s \in Sessions, w \in Users : found[s][w] \subseteq promised'[w]
      BY <1>6 DEF Kept, Promises
    <2>2. \A w \in Users : InMemory(w) \subseteq promised'[w]
      BY <1>6 DEF Kept, Promises
    <2>3. \A w \in Users : PasswordOf(file.data[w]) \in promised'[w]
      BY <1>1, <1>6 DEF Kept, Promises
    <2> QED  BY <1>1, <1>4, <1>7, <1>8, <2>1, <2>2, <2>3 DEF Promises
  <1> QED  BY <1>1, <1>5, <1>9, AdminFrame DEF Kept

LEMMA AdminSaveKept ==
  ASSUME Base, Kept, AdminTruncate \/ AdminWrite \/ AdminFails
  PROVE  Kept'
  <1>1. /\ admin.at # "idle" /\ admin.user \in Users
        /\ UNCHANGED <<server, accounts, ses, password, torn, found>>
    BY DEF AdminTruncate, AdminWrite, AdminFails, history, Kept, Promises
  <1>2. Salted(admin.data) /\ Salted(file.data) /\ Salted(Empty)
    BY DEF Kept, Memory, Salted, Empty
  <1>3. \A w \in Users : InMemory(w)' = InMemory(w)
    BY <1>1, AdminFrame
  <1>4. CASE AdminTruncate
    <2>1. /\ admin' = [admin EXCEPT !.at = "write"] /\ file' = [file EXCEPT !.form = "empty"]
          /\ UNCHANGED promised
      BY <1>4 DEF AdminTruncate, history
    <2>2. /\ admin'.at = "write" /\ admin'.user = admin.user /\ admin'.data = admin.data
          /\ file'.data = file.data /\ file'.form = "empty"
      BY <2>1 DEF Base, Kinds, FileKind
    <2>3. Promises'
      BY <1>1, <1>3, <2>1, <2>2 DEF Kept, Promises
    <2>4. Salted(file.data)' /\ Salted(admin.data)'
      BY <1>2, <2>2 DEF Salted
    <2> QED  BY <1>1, <2>3, <2>4, AdminFrame DEF Kept
  <1>5. CASE AdminWrite
    <2> PICK u \in Users : u = admin.user
      BY <1>1
    <2>1. /\ file'.data = admin.data /\ file'.form # "empty"
          /\ admin'.at = "idle" /\ admin'.data = Empty
          /\ promised' = [promised EXCEPT ![u] = UnderWay(u) \cup InMemory(u)]
      BY <1>5, WrittenFacts DEF AdminWrite, NoAdmin
    <2>2. /\ promised'[u] = UnderWay(u) \cup InMemory(u)
          /\ \A w \in Users \ {u} : promised'[w] = promised[w]
      BY <2>1 DEF Base, Kinds, PromiseKind
    <2>3. \A s \in Sessions, w \in Users : found[s][w] \subseteq promised'[w]
      <3>1. \A s \in Sessions : found[s][u] \subseteq UnderWay(u)
        BY DEF UnderWay
      <3> QED  BY <2>2, <3>1 DEF Kept, Promises
    <2>4. \A w \in Users : PasswordOf(admin.data[w]) \in promised'[w]
      <3>1. PasswordOf(admin.data[u]) \in UnderWay(u)
        BY <1>1 DEF UnderWay
      <3> QED  BY <1>1, <2>2, <3>1 DEF Kept, Promises
    <2>5. \A w \in Users : InMemory(w) \subseteq promised'[w]
      BY <2>2 DEF Kept, Promises
    <2>6. Promises'
      BY <1>1, <1>3, <2>1, <2>3, <2>4, <2>5 DEF Promises
    <2>7. Salted(file.data)' /\ Salted(admin.data)'
      BY <1>2, <2>1 DEF Salted
    <2> QED  BY <1>1, <2>6, <2>7, AdminFrame DEF Kept
  <1>6. CASE AdminFails
    <2>1. /\ admin'.at = "idle" /\ admin'.data = Empty /\ UNCHANGED promised
          /\ (file' = file /\ admin.at # "write") \/ file' \in CutOff
      BY <1>6 DEF AdminFails, NoAdmin, history
    <2>2. /\ file'.data = file.data
          /\ file'.form = "whole" => file.form = "whole"
          /\ file'.form = "empty" => file.form = "empty" /\ admin.at # "write"
      BY <2>1, CutOffFacts DEF Base, Kinds
    <2>3. Promises'
      <3>1. \A s \in Sessions : In(s, "write") => In(s, "write")'
        BY <1>1 DEF In
      <3> QED  BY <1>1, <1>3, <2>1, <2>2, <3>1 DEF Kept, Promises
    <2>4. Salted(file.data)' /\ Salted(admin.data)'
      BY <1>2, <2>1, <2>2 DEF Salted
    <2> QED  BY <1>1, <2>3, <2>4, AdminFrame DEF Kept
  <1> QED  BY <1>4, <1>5, <1>6

LEMMA StopKept ==
  ASSUME Base, Kept, Stop
  PROVE  Kept'
  <1>1. /\ server' = "down" /\ \A s \in Sessions : ses'[s].at = "idle" /\ ses'[s].copy = Empty
        /\ accounts' = Empty /\ UNCHANGED <<admin, promised>>
        /\ \A s \in Sessions, u \in Users : found'[s][u] = {}
        /\ file'.data = file.data /\ (file'.form = "whole" => file.form = "whole")
        /\ file'.form = "empty" => admin.at = "write"
    BY FreshFacts DEF Stop, Base, Kinds, FileKind, NothingFound
  <1>2. \A u \in Users : Empty[u] = NoAccount
    BY DEF Empty
  <1>3. Memory'
    BY <1>1, <1>2 DEF Kept, Memory, Salted, In, NoAccount
  <1>4. Unseen' /\ Copies'
    BY <1>1 DEF Unseen, Copies, Copying, Replacing
  <1>5. \A u \in Users : InMemory(u)' = {}
    BY <1>1 DEF InMemory
  <1>6. Promises'
    BY <1>1, <1>5 DEF Kept, Promises
  <1> QED  BY <1>3, <1>4, <1>6 DEF Kept

LEMMA StartKept ==
  ASSUME Base, Kept, Start
  PROVE  Kept'
  <1>1. server # "up" /\ UNCHANGED <<ses, file, admin, promised, found>>
    BY DEF Start
  <1>2. \A s \in Sessions : ses[s].at = "idle"
    BY <1>1 DEF Base, LockHeld, In
  <1>3. Unseen' /\ Copies'
    BY <1>1, <1>2 DEF Unseen, Copies, Copying, Replacing
  <1>4. CASE file.form = "whole"
    <2>1. /\ accounts' = file.data /\ server' = "up"
          /\ password' = [u \in Users |-> PasswordOf(file.data[u])]
          /\ torn' = {u \in Users : file.data[u].of # file.data[u].salt}
      BY <1>4 DEF Start, Loaded
    <2>2. Memory'
      BY <1>1, <1>2, <2>1 DEF Kept, Memory, Salted, In
    <2>3. \A u \in Users : InMemory(u)' = {PasswordOf(file.data[u])}
      BY <1>1, <1>2, <2>1 DEF InMemory, In
    <2>4. Promises'
      BY <1>1, <1>4, <2>3 DEF Kept, Promises
    <2> QED  BY <1>3, <2>2, <2>4 DEF Kept
  <1>5. CASE file.form # "whole"
    <2>1. server' = "refused" /\ UNCHANGED <<accounts, password, torn>>
      BY <1>5 DEF Start
    <2>2. Memory'
      BY <1>1, <1>2, <2>1 DEF Kept, Memory, Salted, In
    <2>3. \A u \in Users : InMemory(u)' = {}
      BY <2>1 DEF InMemory
    <2>4. Promises'
      BY <1>1, <1>2, <1>5, <2>3 DEF Kept, Promises, In
    <2> QED  BY <1>3, <2>2, <2>4 DEF Kept
  <1> QED  BY <1>4, <1>5

(* Every step keeps the third layer. *)
LEMMA KeptStep == Base /\ Verdicts /\ Kept /\ [Next]_vars => Kept'
  <1> SUFFICES ASSUME Base, Verdicts, Kept, [Next]_vars PROVE Kept'
    OBVIOUS
  <1>1. CASE UNCHANGED vars
    <2>1. UNCHANGED <<server, accounts, ses, file, admin, password, torn, found, promised>>
      BY <1>1 DEF vars, history
    <2>2. Salted(file.data)' /\ Salted(admin.data)' /\ \A u \in Users : InMemory(u)' = InMemory(u)
      BY <2>1, AdminFrame DEF Kept, Memory, Salted
    <2>3. Promises'
      BY <2>1, <2>2 DEF Kept, Promises, In
    <2> QED  BY <2>1, <2>2, <2>3, AdminFrame DEF Kept
  <1>2. ASSUME NEW s \in Sessions, Step(s) PROVE Kept'
    BY <1>2, AuthenticateKept, LockKept, SetSaltKept, SetHashKept, SnapshotKept, MarshalHashKept,
       MarshalSaltKept, TruncateKept, EndOfSave, SaveEndsKept DEF Step
  <1>3. ASSUME NEW s \in Sessions, NEW u \in Users, NEW p \in Passwords,
               NEW q \in Passwords \cup {None}, Call(s, u, p, q)
        PROVE  Kept'
    BY <1>3, CallKept
  <1>4. ASSUME NEW u \in Users, NEW p \in Passwords \cup {None}, AdminLoad(u, p) PROVE Kept'
    BY <1>4, AdminLoadKept
  <1>5. CASE AdminTruncate \/ AdminWrite \/ AdminFails \/ Stop \/ Start
    BY <1>5, AdminSaveKept, StopKept, StartKept
  <1> QED  BY <1>1, <1>2, <1>3, <1>4, <1>5 DEF Next

-----------------------------------------------------------------------------
LEMMA InvStep == IInv /\ [Next]_vars => IInv'
  BY BaseStep, VerdictsStep, KeptStep DEF IInv

(* The invariant the three theorems below rest on. *)
THEOREM Invariant == Spec => []IInv
  BY InitInv, InvStep, PTL DEF Spec

(* Whatever interleaves, a login or passwd is accepted only with a password *)
(* that was the user's at some moment of the call, and the right one is     *)
(* refused only when a change of that account overlaps it.                  *)
THEOREM VerdictsAreRight == Spec => VerdictWasRight
  <1>1. IInv /\ [Next]_vars =>
          [\A s \in Sessions :
             /\ Decides(s, "accepted") => ses[s].old \in ses[s].could
             /\ Decides(s, "refused") /\ ses[s].alone => ses[s].old \notin ses[s].could]_vars
    BY RightStep DEF IInv, Right
  <1> QED  BY <1>1, Invariant, PTL DEF Spec, VerdictWasRight

(* No account is left with the salt of one change and the hash of another. *)
THEOREM MemoryIsWhole == Spec => []MemoryWhole
  <1>1. IInv => MemoryWhole
    <2> SUFFICES ASSUME IInv, locked = None, NEW u \in Users \ torn
                 PROVE  accounts[u].of = accounts[u].salt
      BY DEF MemoryWhole
    <2>1. \A s \in Sessions : ~In(s, "setHash")
      BY SessionsAssumption DEF IInv, Base, LockHeld, Replacing, In
    <2> QED  BY <2>1 DEF IInv, Kept, Memory
  <1> QED  BY <1>1, Invariant, PTL

(* Whatever overlaps, fails or stops, a file that is whole gives back what  *)
(* was acknowledged or came after, but for a save that had begun before;    *)
(* and no save that ended leaves it empty.                                  *)
THEOREM AcknowledgedAlwaysKept == Spec => []AcknowledgedIsKept
  <1>1. IInv => AcknowledgedIsKept
    BY DEF IInv, Kept, Promises, AcknowledgedIsKept
  <1> QED  BY <1>1, Invariant, PTL

=============================================================================
