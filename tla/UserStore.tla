----------------------------- MODULE UserStore -----------------------------
(***************************************************************************)
(* auth.UserStore inside the server, as its sessions use it at login and   *)
(* for the passwd command, the file behind it, and the useradd and userdel *)
(* commands, which load and save the same file from a process of their     *)
(* own.                                                                    *)
(*                                                                         *)
(* The map holds pointers: Authenticate takes the pointer under the lock   *)
(* and reads Salt and PassHash after releasing it, and saveLocked marshals *)
(* the accounts after releasing it, while ChangePassword replaces the two  *)
(* fields in place.  Each of these reads and writes is a step.  Salts are  *)
(* random, hence fresh; a hash is the password and the salt it was made    *)
(* from.                                                                   *)
(***************************************************************************)
EXTENDS Naturals, FiniteSets

CONSTANTS Users, Passwords,
          Sessions,    \* the server's sessions
          Changers,    \* those that may issue passwd
          None,        \* no password, no user, nobody
          Registered,  \* the accounts in the file at the start
          Administer,  \* whether useradd and userdel are run: "never", while the
                       \* server is "stopped", or at "any" time
          Crashes,     \* whether the server may be stopped in the middle of a save
          MaxSalts     \* bound: salts ever drawn, and runs of userdel

ASSUME UsersAssumption == IsFiniteSet(Users) /\ None \notin Users
ASSUME PasswordsAssumption == None \notin Passwords
ASSUME SessionsAssumption == None \notin Sessions /\ Changers \subseteq Sessions
ASSUME SwitchesAssumption == Administer \in {"never", "stopped", "any"} /\ Crashes \in BOOLEAN
ASSUME MaxSaltsAssumption == MaxSalts \in Nat

VARIABLES server,    \* "up", "down", or "refused": NewUserStore failed
          accounts,  \* the users the store's map points to
          locked,    \* the session that holds mu for writing, or None
          ses,       \* ses[s]: the call session s is in
          file,      \* the users file: its accounts, "whole", "empty" after O_TRUNC, or
                     \* "broken", which does not parse
          admin,     \* the useradd or userdel that is running, and its map
          salts,     \* salts drawn so far; userdel leaves one out
          password,  \* history: each user's password, by the changes made
          torn,      \* history: users whose salt was not their hash's when the server
                     \* started, and whose password was not changed since
          found,     \* history: found[s][u]: the passwords of u since s's save began
          promised   \* history: those a start may find, by what was acknowledged

history == <<torn, found, promised>>
vars == <<server, accounts, locked, ses, file, admin, salts, password, history>>

Salts == 0..MaxSalts
Accounts == [salt : Salts, pw : Passwords \cup {None}, of : Salts]
NoAccount == [salt |-> 0, pw |-> None, of |-> 0]
Account(p, s) == IF p = None THEN NoAccount ELSE [salt |-> s, pw |-> p, of |-> s]
Stores == [Users -> Accounts]
Empty == [u \in Users |-> NoAccount]

(* hashPassword(p, salt) = PassHash *)
Verifies(a, p, s) == a.pw = p /\ a.of = s
PasswordOf(a) == IF a.of = a.salt THEN a.pw ELSE None

(* A session's call: where it is, the user, the password, the new password *)
(* of a passwd, the salt Authenticate has read, what saveLocked has still  *)
(* to marshal and has marshalled; what Authenticate returned; and, as      *)
(* history, the passwords that were right at some time during the call     *)
(* and whether no change of that account overlapped it.                    *)
Fresh == [at |-> "idle", user |-> None, old |-> None, new |-> None, salt |-> 0,
          todo |-> {}, copy |-> Empty, verdict |-> "none", could |-> {}, alone |-> TRUE]

In(s, l) == ses[s].at = l
User(s) == ses[s].user
Change(s, l, n) == [Fresh EXCEPT !.at = l, !.user = User(s), !.new = ses[s].new, !.salt = n]
Return(s, v) == ses' = [ses EXCEPT ![s] = [Fresh EXCEPT !.verdict = v]]

(* From taking the lock to the end of the save. *)
Changing(s) == ses[s].at \in {"setSalt", "setHash", "snapshot", "marshal", "half", "write"}
Replacing(s) == ses[s].at \in {"setSalt", "setHash"}
Copying(s) == ses[s].at \in {"marshal", "half", "write"}

NoAdmin == [at |-> "idle", user |-> None, data |-> Empty]

(* Bookkeeping of what the file may come to hold of u: a save that begins   *)
(* now finds what is in memory, None for a salt without its hash; a save    *)
(* that is under way has found what was there since it began, and useradd   *)
(* or userdel has its own map.                                             *)
NothingFound == [u \in Users |-> {}]
InMemory(u) ==
  IF server # "up" THEN {}
  ELSE {password[u]} \cup {None : s \in {t \in Sessions : In(t, "setHash") /\ User(t) = u}}
UnderWay(u) ==
  (UNION {found[s][u] : s \in Sessions})
    \cup (IF admin.at = "idle" THEN {} ELSE {PasswordOf(admin.data[u])})
(* u's password may be p from now on. *)
MayFind(u, p) ==
  /\ found' = [s \in Sessions |-> IF Copying(s) THEN [found[s] EXCEPT ![u] = @ \cup {p}] ELSE found[s]]
  /\ promised' = [promised EXCEPT ![u] = @ \cup {p}]
Ends(s) == found' = [found EXCEPT ![s] = NothingFound]

ASSUME RegisteredAssumption ==
  /\ Registered \in Stores
  /\ \A u \in Users :
       /\ Registered[u] = Account(Registered[u].pw, Registered[u].salt)
       /\ Registered[u] # NoAccount => Registered[u].salt # 0
       /\ Registered[u].salt <= Cardinality({w \in Users : Registered[w] # NoAccount})
       /\ \A v \in Users \ {u} : Registered[u].salt = Registered[v].salt
                                => Registered[u] = NoAccount

-----------------------------------------------------------------------------
(* Authenticate, at login or for the old password of a passwd.             *)

(* A login has no new password. *)
Call(s, u, p, q) ==
  /\ server = "up" /\ In(s, "idle")
  /\ q # None => s \in Changers /\ accounts[u] # NoAccount      \* logged in as u
  /\ ses' = [ses EXCEPT ![s] = [Fresh EXCEPT !.at = "lookup", !.user = u, !.old = p, !.new = q,
                                             !.could = {password[u]},
                                             !.alone = ~\E t \in Sessions :
                                                          Replacing(t) /\ User(t) = u]]
  /\ UNCHANGED <<server, accounts, locked, file, admin, salts, password, history>>

(* The lookup under mu.RLock, then the two reads without it. *)
Lookup(s) ==
  /\ In(s, "lookup") /\ locked = None
  /\ IF accounts[User(s)] = NoAccount
     THEN Return(s, "refused")
     ELSE ses' = [ses EXCEPT ![s].at = "readSalt"]
  /\ UNCHANGED <<server, accounts, locked, file, admin, salts, password, history>>

ReadSalt(s) ==
  /\ In(s, "readSalt")
  /\ ses' = [ses EXCEPT ![s].at = "readHash", ![s].salt = accounts[User(s)].salt]
  /\ UNCHANGED <<server, accounts, locked, file, admin, salts, password, history>>

(* The comparison; a passwd goes on to ChangePassword. *)
ReadHash(s) ==
  /\ In(s, "readHash")
  /\ \/ /\ ~Verifies(accounts[User(s)], ses[s].old, ses[s].salt)
        /\ Return(s, "refused")
     \/ /\ Verifies(accounts[User(s)], ses[s].old, ses[s].salt)
        /\ \/ ses[s].new = None /\ Return(s, "accepted")
           \/ /\ ses[s].new # None
              /\ ses' = [ses EXCEPT ![s] = [Change(s, "lock", 0) EXCEPT !.verdict = "accepted"]]
  /\ UNCHANGED <<server, accounts, locked, file, admin, salts, password, history>>

-----------------------------------------------------------------------------
(* ChangePassword.                                                         *)

LockFree == locked = None

(* The lock, and a new salt. *)
Lock(s) ==
  /\ In(s, "lock") /\ LockFree /\ salts < MaxSalts
  /\ locked' = s
  /\ salts' = salts + 1
  /\ ses' = [t \in Sessions |-> IF t = s THEN Change(s, "setSalt", salts + 1)
                                ELSE [ses[t] EXCEPT !.alone = @ /\ User(t) # User(s)]]
  /\ UNCHANGED <<server, accounts, file, admin, password, history>>

SetSalt(s) ==
  /\ In(s, "setSalt")
  /\ accounts' = [accounts EXCEPT ![User(s)].salt = ses[s].salt]
  /\ ses' = [ses EXCEPT ![s].at = "setHash"]
  /\ MayFind(User(s), None)
  /\ UNCHANGED <<server, locked, file, admin, salts, password, torn>>

RehashOld(a, p) == [a EXCEPT !.of = a.salt]   \* a seeded fault: the old password again
RehashForgotten(a, p) == a                    \* a seeded fault: only the salt changes
Rehash(a, p) == [a EXCEPT !.pw = p, !.of = a.salt]

(* PassHash, and the unlock. *)
SetHash(s) ==
  /\ In(s, "setHash")
  /\ accounts' = [accounts EXCEPT ![User(s)] = Rehash(@, ses[s].new)]
  /\ password' = [password EXCEPT ![User(s)] = ses[s].new]
  /\ ses' = [t \in Sessions |->
               IF t = s THEN Change(s, "snapshot", 0)
               ELSE IF User(t) # User(s) THEN ses[t]
               ELSE [ses[t] EXCEPT !.could = @ \cup {ses[s].new}]]
  /\ locked' = None
  /\ MayFind(User(s), ses[s].new) /\ torn' = torn \ {User(s)}
  /\ UNCHANGED <<server, file, admin, salts>>

-----------------------------------------------------------------------------
(* saveLocked.                                                             *)

(* The pointers are collected under mu.RLock. *)
Snapshot(s) ==
  /\ In(s, "snapshot") /\ locked = None
  /\ ses' = [ses EXCEPT ![s].at = "marshal", ![s].copy = Empty,
                        ![s].todo = {u \in Users : accounts[u] # NoAccount}]
  /\ found' = [found EXCEPT ![s] = [u \in Users |-> InMemory(u)]]
  /\ UNCHANGED <<server, accounts, locked, file, admin, salts, password, torn, promised>>

(* json.MarshalIndent, outside the lock, in the map's random order and     *)
(* field by field: pass_hash before salt.                                  *)
MarshalHash(s, u) ==
  /\ In(s, "marshal") /\ u \in ses[s].todo
  /\ ses' = [ses EXCEPT ![s].at = "half", ![s].todo = @ \ {u},
                        ![s].copy[u] = [accounts[u] EXCEPT !.salt = 0]]
  /\ UNCHANGED <<server, accounts, locked, file, admin, salts, password, history>>

MarshalSalt(s, u) ==
  /\ In(s, "half") /\ ses[s].copy[u] # NoAccount /\ ses[s].copy[u].salt = 0
  /\ ses' = [ses EXCEPT ![s].at = "marshal", ![s].copy[u].salt = accounts[u].salt]
  /\ UNCHANGED <<server, accounts, locked, file, admin, salts, password, history>>

(* os.WriteFile: open with O_TRUNC, then the data.  Either may fail, and    *)
(* the session then answers with an error, although memory has changed.    *)
Truncate(s) ==
  /\ In(s, "marshal") /\ ses[s].todo = {}
  /\ file' = [file EXCEPT !.form = "empty"]
  /\ ses' = [ses EXCEPT ![s].at = "write"]
  /\ UNCHANGED <<server, accounts, locked, admin, salts, password, history>>

\* a seeded fault: the error is dropped, and the session answers MsgOK
OpenFailsUnnoticed(s) ==
  /\ In(s, "marshal") /\ ses[s].todo = {}
  /\ Return(s, "none") /\ Ends(s)
  /\ promised' = [promised EXCEPT ![User(s)] = UnderWay(User(s))]
  /\ UNCHANGED <<server, accounts, locked, file, admin, salts, password, torn>>

OpenFails(s) ==
  /\ In(s, "marshal") /\ ses[s].todo = {}
  /\ Return(s, "none") /\ Ends(s)
  /\ UNCHANGED <<server, accounts, locked, file, admin, salts, password, torn, promised>>

(* Data is written over what is there: nothing, if no other save has        *)
(* written since this one emptied the file.  What it holds of the same     *)
(* users is as long; of others it may be longer, and its end remains.      *)
SameUsers(d, e) == \A u \in Users : d[u] = NoAccount <=> e[u] = NoAccount
Written(d) ==
  {[data |-> d, form |-> "whole"]} \cup
    IF file.form = "empty" \/ (file.form = "whole" /\ SameUsers(file.data, d)) THEN {}
    ELSE {[data |-> d, form |-> "broken"]}

(* A write that fails leaves a part of the data, or none. *)
CutOff ==
  {[file EXCEPT !.form = "broken"]} \cup IF file.form = "whole" THEN {file} ELSE {}

(* The data is written; the session answers MsgOK. *)
WriteFile(s) ==
  /\ In(s, "write")
  /\ file' \in Written(ses[s].copy)
  /\ Return(s, "none") /\ Ends(s)
  /\ promised' = [promised EXCEPT ![User(s)] = UnderWay(User(s))]
  /\ UNCHANGED <<server, accounts, locked, admin, salts, password, torn>>

WriteFails(s) ==
  /\ In(s, "write")
  /\ file' \in CutOff
  /\ Return(s, "none") /\ Ends(s)
  /\ UNCHANGED <<server, accounts, locked, admin, salts, password, torn, promised>>

Step(s) == \/ Lookup(s) \/ ReadSalt(s) \/ ReadHash(s)
           \/ Lock(s) \/ SetSalt(s) \/ SetHash(s) \/ Snapshot(s)
           \/ \E u \in Users : MarshalHash(s, u) \/ MarshalSalt(s, u)
           \/ Truncate(s) \/ OpenFails(s) \/ WriteFile(s) \/ WriteFails(s)

-----------------------------------------------------------------------------
Loaded == file.data

(* useradd and userdel: NewUserStore, the change of their own map, and     *)
(* saveLocked.  p is None for userdel.                                     *)
AdminLoad(u, p) ==
  /\ Administer = "any" \/ (Administer = "stopped" /\ server # "up")
  /\ admin.at = "idle" /\ file.form = "whole"
  /\ salts < MaxSalts /\ salts' = salts + 1
  /\ admin' = [at |-> "truncate", user |-> u,
               data |-> [Loaded EXCEPT ![u] = Account(p, salts + 1)]]
  /\ promised' = [promised EXCEPT ![u] = @ \cup {p}]
  /\ UNCHANGED <<server, accounts, locked, ses, file, password, torn, found>>

AdminTruncate ==
  /\ admin.at = "truncate"
  /\ admin' = [admin EXCEPT !.at = "write"]
  /\ file' = [file EXCEPT !.form = "empty"]
  /\ UNCHANGED <<server, accounts, locked, ses, salts, password, history>>

AdminWrite ==
  /\ admin.at = "write"
  /\ file' \in Written(admin.data)
  /\ admin' = NoAdmin
  /\ promised' = [promised EXCEPT ![admin.user] = UnderWay(admin.user) \cup InMemory(admin.user)]
  /\ UNCHANGED <<server, accounts, locked, ses, salts, password, torn, found>>

(* Its open or its write fails. *)
AdminFails ==
  /\ \/ admin.at = "truncate" /\ UNCHANGED file
     \/ admin.at = "write" /\ file' \in CutOff
  /\ admin' = NoAdmin
  /\ UNCHANGED <<server, accounts, locked, ses, salts, password, history>>

-----------------------------------------------------------------------------
(* The server process stops and starts.                                    *)

(* A file that only a save of the server would have filled stays empty. *)
Stop ==
  /\ server = "up"
  /\ Crashes \/ ~\E s \in Sessions : Changing(s)
  /\ server' = "down" /\ accounts' = Empty /\ locked' = None
  /\ ses' = [s \in Sessions |-> Fresh] /\ found' = [s \in Sessions |-> NothingFound]
  /\ file' = IF file.form = "empty" /\ admin.at # "write" THEN [file EXCEPT !.form = "broken"]
             ELSE file
  /\ UNCHANGED <<admin, salts, password, torn, promised>>

(* NewUserStore: a file that does not parse, and the server exits. *)
Start ==
  /\ server # "up"
  /\ IF file.form = "whole"
     THEN /\ server' = "up" /\ accounts' = Loaded
          /\ password' = [u \in Users |-> PasswordOf(Loaded[u])]
          /\ torn' = {u \in Users : Loaded[u].of # Loaded[u].salt}
     ELSE server' = "refused" /\ UNCHANGED <<accounts, password, torn>>
  /\ UNCHANGED <<locked, ses, file, admin, salts, found, promised>>

Init ==
  /\ server = "up" /\ locked = None
  /\ salts = Cardinality({u \in Users : Registered[u] # NoAccount})
  /\ accounts = Registered /\ file = [data |-> Registered, form |-> "whole"]
  /\ password = [u \in Users |-> Registered[u].pw]
  /\ promised = [u \in Users |-> {Registered[u].pw}]
  /\ torn = {} /\ found = [s \in Sessions |-> NothingFound]
  /\ ses = [s \in Sessions |-> Fresh] /\ admin = NoAdmin

Next ==
  \/ \E s \in Sessions : Step(s)
  \/ \E s \in Sessions, u \in Users, p \in Passwords, q \in Passwords \cup {None} : Call(s, u, p, q)
  \/ \E u \in Users, p \in Passwords \cup {None} : AdminLoad(u, p)
  \/ AdminTruncate \/ AdminWrite \/ AdminFails
  \/ Stop \/ Start

Spec == Init /\ [][Next]_vars

-----------------------------------------------------------------------------
(* However the reads of an account interleave with its change, a login or  *)
(* passwd is accepted only with a password that was the user's at some     *)
(* moment of the call, and the right one is refused only when a change of  *)
(* that account overlaps the call: the new salt with the old hash          *)
(* (users.go:71-104).                                                      *)
Decides(s, v) == /\ ses[s].at \in {"lookup", "readHash"} /\ ses'[s].at # ses[s].at
                 /\ ses'[s].verdict = v
VerdictWasRight ==
  [][\A s \in Sessions :
       /\ Decides(s, "accepted") => ses[s].old \in ses[s].could
       /\ Decides(s, "refused") /\ ses[s].alone => ses[s].old \notin ses[s].could]_vars

(* No account in memory is left with the salt of one change and the hash   *)
(* of another, which nobody could log in to, once nobody is changing it    *)
(* (users.go:85-104), unless the file had it so when the server started.   *)
MemoryWhole ==
  locked = None => \A u \in Users \ torn : accounts[u].of = accounts[u].salt

(* Changes may overlap, saves may fail or be cut off, the server may stop,  *)
(* and useradd and userdel may run beside it: whenever the file is whole,   *)
(* a start finds of each user what was acknowledged last, or what came      *)
(* after, unless a save that had begun before the acknowledgement wrote the *)
(* file after it, with the password it found, or a torn account if that     *)
(* was being replaced, or useradd met a running server.  A save that ends  *)
(* leaves no empty file (ChangePassword, saveLocked).                      *)
AcknowledgedIsKept ==
  /\ file.form = "whole" => \A u \in Users : PasswordOf(file.data[u]) \in promised[u]
  /\ file.form = "empty" => admin.at = "write" \/ \E s \in Sessions : In(s, "write")
=============================================================================
