----------------------------- MODULE ServedTree ------------------------------
(***************************************************************************)
(* The directory the server serves, and the sessions that change it: one   *)
(* handler per connection, no lock between them.  A handler resolves the   *)
(* paths of its request (fsutil.ResolveCwd), then works on the tree, one   *)
(* system call after another, while the others work on it too.             *)
(*                                                                         *)
(* A path is the sequence of names below the served directory, which is    *)
(* << >>.  Open files are held by inode, as the kernel holds them; open    *)
(* directories by where they are, which a move changes.  MkdirAll, Remove, *)
(* RemoveAll and Rename are those of Go's package os on Linux.  There are  *)
(* no symbolic or hard links, and owners, modes and times are left out.  A *)
(* directory that is uploaded or downloaded is the matter of Session.      *)
(***************************************************************************)
EXTENDS Naturals, Sequences, SequencesExt

CONSTANTS Sessions,
          Names,      \* of the entries of a directory, in the order ReadDir lists them
          Trees,      \* the trees the server may start on: path to Dir or an inode
          Targets,    \* the paths clients write: so many "..", then names
          Ops,        \* the requests they make
          MaxRequests,\* bound: requests of a session
          MaxPath,    \* the longest path a system call takes (PATH_MAX)
          MaxIno,     \* the files the disk has room for
          Old, Hole   \* a chunk of a file that was there, of one never written

Dir == 0
Inos == 1..MaxIno
AllOps == {"look", "cd", "mkdir", "delete", "copy", "move", "upload"}

Paths == Seq(Names)

ASSUME OpsAssumption ==
  /\ Ops \subseteq AllOps /\ MaxRequests \in Nat /\ MaxPath \in Nat /\ MaxIno \in Nat
  /\ Names \subseteq Nat /\ \A t \in Targets : t.up \in Nat /\ t.names \in Paths

(* What lies on the way to an entry is a directory; a file has one name. *)
ASSUME TreesAssumption ==
  \A t \in Trees :
    /\ IsFiniteSet(DOMAIN t) /\ DOMAIN t \subseteq Paths
    /\ t \in [DOMAIN t -> {Dir} \cup Inos] /\ << >> \in DOMAIN t /\ t[<< >>] = Dir
    /\ \A p \in DOMAIN t : \A n \in 0..(Len(p) - 1) :
         SubSeq(p, 1, n) \in DOMAIN t /\ t[SubSeq(p, 1, n)] = Dir
    /\ \A p, q \in DOMAIN t : t[p] = t[q] /\ t[p] # Dir => p = q

VARIABLES tree,      \* the directory entries
          data,      \* the chunks of each file
          cwd,       \* currentDir of each session
          pc, req,   \* what a handler does, and the paths it does it to
          todo,      \* the calls of CopyDir and CopyFile still to make, the next first
          dirs,      \* the directories RemoveAll has open, the innermost last
          from, to,  \* the files a handler reads and writes
          off,       \* how far, in the file or on the way MkdirAll makes
          result,    \* what it answers
          asked,     \* requests so far
          disturbed, \* another session has changed what this request is about
          gone       \* what this request deletes was not there at some moment of it

disk == <<tree, data>>
files == <<from, to, off>>
work == <<todo, dirs, files>>
vars == <<disk, cwd, pc, req, work, result, asked, disturbed, gone>>

Request(o, p, q) == [op |-> o, src |-> p, dst |-> q]
NoRequest == Request("none", << >>, << >>)

(* The two chunks a session uploads. *)
Payload(s) == <<s, s>>

Init ==
  /\ tree \in Trees
  /\ data = [i \in Inos |-> IF \E p \in DOMAIN tree : tree[p] = i THEN <<Old, Old, Old>> ELSE << >>]
  /\ cwd \in [Sessions -> {p \in DOMAIN tree : tree[p] = Dir}]
  /\ pc = [s \in Sessions |-> "idle"] /\ req = [s \in Sessions |-> NoRequest]
  /\ todo = [s \in Sessions |-> << >>] /\ dirs = [s \in Sessions |-> << >>]
  /\ from = [s \in Sessions |-> 0] /\ to = [s \in Sessions |-> 0]
  /\ off = [s \in Sessions |-> 0] /\ result = [s \in Sessions |-> "none"]
  /\ asked = [s \in Sessions |-> 0]
  /\ disturbed = [s \in Sessions |-> FALSE] /\ gone = [s \in Sessions |-> FALSE]

-----------------------------------------------------------------------------
(* System calls.                                                           *)

Exists(p) == p \in DOMAIN tree /\ Len(p) <= MaxPath
IsDir(p) == Exists(p) /\ tree[p] = Dir
IsFile(p) == Exists(p) /\ tree[p] # Dir
Under(p) == {q \in DOMAIN tree : IsPrefix(p, q)}
Children(p) == {q \in DOMAIN tree : q # << >> /\ Front(q) = p}

Without(t, Q) == [q \in DOMAIN t \ Q |-> t[q]]
With(t, Q, v) == [q \in DOMAIN t \cup Q |-> IF q \in Q THEN v ELSE t[q]]

(* The disk becomes t and d; a file nobody names or has open is gone. *)
Disk(t, d) ==
  /\ tree' = t
  /\ data' = [i \in Inos |->
                IF \/ \E p \in DOMAIN tree' : tree'[p] = i
                   \/ \E s \in Sessions : i \in {from'[s], to'[s]}
                THEN d[i] ELSE << >>]

(* What is on the way to p: with a file there, no call finds anything at p. *)
Way(p) == {SubSeq(p, 1, n) : n \in 0..Len(p)}
NoEntry(p) == Len(p) <= MaxPath /\ p \notin DOMAIN tree /\ \A q \in Way(p) : ~IsFile(q)

(* Mkdir, of a directory that may be there already. *)
MayMkdir(p) ==
  IsDir(p) \/ (p \notin DOMAIN tree /\ Len(p) <= MaxPath /\ (p = << >> \/ IsDir(Front(p))))

(* OpenFile(p, O_CREATE|O_WRONLY|O_TRUNC): the inode it opens, if any. *)
Free == Inos \ ({tree[p] : p \in DOMAIN tree} \cup {from[s] : s \in Sessions}
                  \cup {to[s] : s \in Sessions})
Opens(p) ==
  CASE IsFile(p) -> {tree[p]}
    [] ~Exists(p) /\ Len(p) \in 1..MaxPath /\ IsDir(Front(p)) /\ Free # {}
         -> {CHOOSE i \in Free : TRUE}
    [] OTHER -> {}

WriteAt(file, n, c) ==
  [k \in 1..(IF Len(file) > n THEN Len(file) ELSE n + 1) |->
     IF k = n + 1 THEN c ELSE IF k <= Len(file) THEN file[k] ELSE Hole]

(* Rename: a directory is never replaced, nor moved below itself. *)
MayRename(p, q) ==
  /\ Exists(p) /\ ~IsDir(q) /\ Len(q) \in 1..MaxPath /\ IsDir(Front(q))
  /\ IsDir(p) => ~Exists(q) /\ ~IsPrefix(p, q)
Renamed(p, q) ==
  LET kept == Without(tree, Under(p))
      moved == {q \o SubSeq(r, Len(p) + 1, Len(r)) : r \in Under(p)}
  IN [r \in DOMAIN kept \cup moved |->
        IF r \in moved THEN tree[p \o SubSeq(r, Len(q) + 1, Len(r))] ELSE kept[r]]

(* An open directory goes where it is moved, and is nowhere once removed. *)
Moving(ds, p, q) ==
  [s \in Sessions |-> [k \in DOMAIN ds[s] |-> [ds[s][k] EXCEPT !.dir =
     {IF IsPrefix(p, d) THEN q \o SubSeq(d, Len(p) + 1, Len(d)) ELSE d : d \in @}]]]
Losing(ds, Q) ==
  [s \in Sessions |-> [k \in DOMAIN ds[s] |-> [ds[s][k] EXCEPT !.dir = @ \ Q]]]

-----------------------------------------------------------------------------
(* A handler.                                                              *)

Goes(s, a, b) == pc[s] = a /\ pc' = [pc EXCEPT ![s] = b]
Says(s, r) == result' = [result EXCEPT ![s] = r]
Done(s, a, r) == Goes(s, a, "done") /\ Says(s, r)
Here(s) == req[s].dst
NoWork == UNCHANGED work

(* ResolveCwd: the path a client writes, cleaned, from its directory; it   *)
(* stays below the served one, and exists or its directory does.           *)
Outside(s, t) == t.up > Len(cwd[s])
Join(s, t) == SubSeq(cwd[s], 1, Len(cwd[s]) - t.up) \o t.names
Resolves(s, t) ==
  /\ ~Outside(s, t)
  /\ \/ Exists(Join(s, t))
     \/ Join(s, t) # << >> /\ IsDir(Front(Join(s, t)))

First(o) == CASE o = "delete" -> "unlink" [] o = "copy" -> "copy"
              [] o \in {"mkdir", "upload"} -> "stat" [] OTHER -> "act"

TwoPaths == {"copy", "move"}

(* The request is read and its paths are resolved. *)
Begin(s, o, t, u) ==
  /\ pc[s] = "idle" /\ asked[s] < MaxRequests /\ asked' = [asked EXCEPT ![s] = @ + 1]
  /\ o \notin TwoPaths => t = u
  /\ IF Resolves(s, t) /\ Resolves(s, u) /\ ~(o = "delete" /\ Join(s, t) = << >>)
     THEN /\ Goes(s, "idle", First(o)) /\ UNCHANGED result
          /\ req' = [req EXCEPT ![s] = Request(o, Join(s, t), Join(s, u))]
          /\ todo' = [todo EXCEPT ![s] =
                        IF o = "copy" THEN <<<<Join(s, t), Join(s, u), "CopyDir">>>> ELSE << >>]
     ELSE Done(s, "idle", "refused") /\ UNCHANGED <<req, todo>>
  /\ UNCHANGED <<disk, cwd, dirs, files>>

(* handleListDir, handleGetInfo; handleChDir. *)
Look(s) ==
  /\ req[s].op = "look" /\ Done(s, "act", IF Exists(Here(s)) THEN "ok" ELSE "error")
  /\ NoWork /\ UNCHANGED <<disk, cwd, req, asked>>

ChDir(s) ==
  /\ req[s].op = "cd"
  /\ IF IsDir(Here(s)) THEN Done(s, "act", "ok") /\ cwd' = [cwd EXCEPT ![s] = Here(s)]
                       ELSE Done(s, "act", "error") /\ UNCHANGED cwd
  /\ NoWork /\ UNCHANGED <<disk, req, asked>>

Move(s) ==
  /\ req[s].op = "move" /\ UNCHANGED <<todo, files>>
  /\ LET p == req[s].src  q == req[s].dst IN
     IF MayRename(p, q)
     THEN Done(s, "act", "ok") /\ Disk(Renamed(p, q), data) /\ dirs' = Moving(dirs, p, q)
     ELSE Done(s, "act", "error") /\ UNCHANGED <<disk, dirs>>
  /\ UNCHANGED <<cwd, req, asked>>

Fail(s, a) ==
  /\ Done(s, a, "error")
  /\ todo' = [todo EXCEPT ![s] = << >>] /\ from' = [from EXCEPT ![s] = 0]
  /\ to' = [to EXCEPT ![s] = 0] /\ off' = [off EXCEPT ![s] = 0] /\ UNCHANGED dirs

-----------------------------------------------------------------------------
(* MkdirAll, for handleMkdir, for the directory an upload goes to and for  *)
(* the one CopyDir copies into: it looks for what there is on the way,     *)
(* from the end, and makes the rest a name at a time; what others have     *)
(* made meanwhile will do.                                                 *)

Goal(s) == CASE req[s].op = "mkdir" -> Here(s) [] req[s].op = "upload" -> Front(Here(s))
             [] OTHER -> Head(todo[s])[2]
AboveRoot(s) == req[s].op = "upload" /\ Here(s) = << >>
Upto(s, n) == SubSeq(Goal(s), 1, n)

Made(s, a) ==
  /\ CASE req[s].op = "mkdir" -> Done(s, a, "ok")
       [] req[s].op = "upload" -> Goes(s, a, "create") /\ UNCHANGED result
       [] OTHER -> Goes(s, a, "readdir") /\ UNCHANGED result
  /\ off' = [off EXCEPT ![s] = 0] /\ UNCHANGED <<todo, dirs, from, to>>

Stat(s) ==
  /\ pc[s] = "stat"
  /\ \/ (AboveRoot(s) \/ IsDir(Goal(s))) /\ Made(s, "stat")
     \/ ~AboveRoot(s) /\ (\E n \in 0..Len(Goal(s)) : IsFile(Upto(s, n))) /\ Fail(s, "stat")
     \/ /\ ~AboveRoot(s) /\ Goes(s, "stat", "mkdir") /\ UNCHANGED <<todo, dirs, from, to, result>>
        /\ \E n \in 0..Len(Goal(s)) :
             /\ \A k \in n..Len(Goal(s)) : ~Exists(Upto(s, k))
             /\ n > 0 => IsDir(Upto(s, n - 1))
             /\ off' = [off EXCEPT ![s] = n]
  /\ UNCHANGED <<disk, cwd, req, asked>>

Mkdir(s) ==
  /\ pc[s] = "mkdir"
  /\ LET p == Upto(s, off[s]) IN
     IF MayMkdir(p)
     THEN /\ IF off[s] < Len(Goal(s))
             THEN /\ off' = [off EXCEPT ![s] = @ + 1]
                  /\ UNCHANGED <<pc, result, todo, dirs, from, to>>
             ELSE Made(s, "mkdir")
          /\ Disk(With(tree, {p}, Dir), data)
     ELSE Fail(s, "mkdir") /\ UNCHANGED disk
  /\ UNCHANGED <<cwd, req, asked>>

-----------------------------------------------------------------------------
(* handleDelete: RemoveAll.  It tries unlink and rmdir on the path.  Else  *)
(* it opens the directory the path lies in, and names no path from there   *)
(* on: each entry is unlinked in the directory that is open, or that     *)
(* entry is opened, emptied in the same way and removed.  So a directory   *)
(* that another session moves meanwhile goes on being emptied where it is  *)
(* now.  At most 1023 entries in a directory: they are read once.          *)

Held(D, ns) == [dir |-> D, left |-> ns]
Top(s) == dirs[s][Len(dirs[s])]
Entry(s) == {Append(d, Head(Top(s).left)) : d \in Top(s).dir} \cap DOMAIN tree
EntryIsDir(s) == \E p \in Entry(s) : tree[p] = Dir

Unlink(s) ==
  /\ pc[s] = "unlink" /\ UNCHANGED <<cwd, req, todo, dirs, files, asked>>
  /\ IF IsFile(Here(s))
     THEN Done(s, "unlink", "ok") /\ Disk(Without(tree, {Here(s)}), data)
     ELSE /\ Goes(s, "unlink", IF NoEntry(Here(s)) THEN "noentry" ELSE "rmdir")
          /\ UNCHANGED <<disk, result>>

(* Nothing there, for either call, is as good as removed. *)
Rmdir(s, a) ==
  /\ pc[s] = a /\ UNCHANGED <<cwd, req, todo, files, asked>>
  /\ LET p == Here(s) IN
     CASE NoEntry(p) \/ (a = "noentry" /\ \E q \in Way(p) : IsFile(q)) ->
            Done(s, a, "ok") /\ UNCHANGED <<disk, dirs>>
       [] IsDir(p) /\ Children(p) = {} ->
            /\ Done(s, a, "ok")
            /\ Disk(Without(tree, {p}), data) /\ dirs' = Losing(dirs, {p})
       [] OTHER -> Goes(s, a, "opendir") /\ UNCHANGED <<disk, dirs, result>>

OpenParent(s) ==
  /\ LET d == Front(Here(s)) IN
     CASE NoEntry(d) -> Done(s, "opendir", "ok") /\ UNCHANGED dirs
       [] IsDir(d) ->
            /\ Goes(s, "opendir", "unlinkat") /\ UNCHANGED result
            /\ dirs' = [dirs EXCEPT ![s] = <<Held({d}, <<Last(Here(s))>>)>>]
       [] OTHER -> Done(s, "opendir", "error") /\ UNCHANGED dirs
  /\ UNCHANGED <<disk, cwd, req, todo, files, asked>>

\* a seeded fault: the handler does not look at the error of RemoveAll
ReturnsQuietly(s, a, ds, r) ==
  IF Len(ds[s]) = 1
  THEN Done(s, a, "ok") /\ dirs' = [ds EXCEPT ![s] = << >>]
  ELSE /\ Goes(s, a, "unlinkat") /\ UNCHANGED result
       /\ dirs' = [ds EXCEPT ![s][Len(ds[s])].left = Tail(@)]

(* removeAllFrom is done with a name.  It goes on whatever the outcome: an *)
(* entry that could not be removed shows when its directory is.            *)
Returns(s, a, ds, r) ==
  IF Len(ds[s]) = 1
  THEN Done(s, a, r) /\ dirs' = [ds EXCEPT ![s] = << >>]
  ELSE /\ Goes(s, a, "unlinkat") /\ UNCHANGED result
       /\ dirs' = [ds EXCEPT ![s][Len(ds[s])].left = Tail(@)]

Unlinkat(s) ==
  /\ pc[s] = "unlinkat" /\ Top(s).left # << >> /\ UNCHANGED <<cwd, req, todo, files, asked>>
  /\ IF EntryIsDir(s)
     THEN Goes(s, "unlinkat", "openat") /\ UNCHANGED <<disk, dirs, result>>
     ELSE Returns(s, "unlinkat", dirs, "ok") /\ Disk(Without(tree, Entry(s)), data)

Openat(s) ==
  /\ pc[s] = "openat"
  /\ IF EntryIsDir(s)
     THEN /\ Goes(s, "openat", "names") /\ UNCHANGED result
          /\ dirs' = [dirs EXCEPT ![s] = Append(@, Held(Entry(s), << >>))]
     ELSE Returns(s, "openat", dirs, IF Entry(s) = {} THEN "ok" ELSE "error")
  /\ UNCHANGED <<disk, cwd, req, todo, files, asked>>

(* In any order; a directory that is removed by now is left at that. *)
Readdirnames(s) ==
  /\ pc[s] = "names"
  /\ IF Top(s).dir = {}
     THEN Returns(s, "names", [dirs EXCEPT ![s] = Front(@)], "ok")
     ELSE /\ Goes(s, "names", "unlinkat") /\ UNCHANGED result
          /\ \E d \in Top(s).dir : \E ns \in SetToSeqs({Last(q) : q \in Children(d)}) :
               dirs' = [dirs EXCEPT ![s][Len(dirs[s])].left = ns]
  /\ UNCHANGED <<disk, cwd, req, todo, files, asked>>

CloseDir(s) ==
  /\ Goes(s, "unlinkat", "rmdirat") /\ Top(s).left = << >>
  /\ dirs' = [dirs EXCEPT ![s] = Front(@)]
  /\ UNCHANGED <<disk, cwd, req, todo, files, result, asked>>

Rmdirat(s) ==
  /\ pc[s] = "rmdirat" /\ UNCHANGED <<cwd, req, todo, files, asked>>
  /\ IF \E p \in Entry(s) : tree[p] # Dir \/ Children(p) # {}
     THEN Returns(s, "rmdirat", dirs, "error") /\ UNCHANGED disk
     ELSE /\ Returns(s, "rmdirat", Losing(dirs, Entry(s)), "ok")
          /\ Disk(Without(tree, Entry(s)), data)

-----------------------------------------------------------------------------
(* handleCopy: CopyDir, its recursion as the calls still to make.          *)

Call(s) == Head(todo[s])
CopyCall(s, f) == pc[s] = "copy" /\ todo[s] # << >> /\ Call(s)[3] = f

(* CopyDir looks what the source is.  Of a directory: MkdirAll of the      *)
(* destination, then ReadDir.                                              *)
CopyDir(s) ==
  /\ CopyCall(s, "CopyDir") /\ Exists(Call(s)[1])
  /\ IF IsDir(Call(s)[1])
     THEN Goes(s, "copy", "stat") /\ UNCHANGED todo
     ELSE /\ todo' = [todo EXCEPT ![s] = <<<<Call(s)[1], Call(s)[2], "CopyFile">>>> \o Tail(@)]
          /\ UNCHANGED pc
  /\ UNCHANGED <<disk, cwd, req, dirs, files, result, asked>>

(* The sequences of a set of names in order: there is one. *)
InOrder(S) ==
  {ns \in Surjection(1..Cardinality(S), S) : \A j, k \in DOMAIN ns : j < k => ns[j] < ns[k]}

\* a seeded fault: an entry that is a directory is passed over
EntriesFlat(p) == InOrder({Last(q) : q \in {r \in Children(p) : IsFile(r)}})

Entries(p) == InOrder({Last(q) : q \in Children(p)})

(* CopyDir is called for an entry that is listed as a directory, CopyFile  *)
(* for any other: by its turn it may have become something else.           *)
Calls(p, d, ns) ==
  [k \in DOMAIN ns |-> <<Append(p, ns[k]), Append(d, ns[k]),
                         IF tree[Append(p, ns[k])] = Dir THEN "CopyDir" ELSE "CopyFile">>]

ReadDir(s) ==
  /\ pc[s] = "readdir"
  /\ LET p == Call(s)[1]  d == Call(s)[2] IN
     IF IsDir(p)
     THEN /\ Goes(s, "readdir", "copy")
          /\ \E ns \in Entries(p) : todo' = [todo EXCEPT ![s] = Calls(p, d, ns) \o Tail(@)]
          /\ UNCHANGED <<dirs, files, result>>
     ELSE Fail(s, "readdir")
  /\ UNCHANGED <<disk, cwd, req, asked>>

(* CopyFile: the source is opened, then the destination, emptied.  A       *)
(* directory opens as well, and the first read of it fails.                *)
OpenSource(s) ==
  /\ CopyCall(s, "CopyFile") /\ Exists(Call(s)[1])
  /\ Goes(s, "copy", "open") /\ from' = [from EXCEPT ![s] = tree[Call(s)[1]]]
  /\ UNCHANGED <<disk, cwd, req, todo, dirs, to, off, result, asked>>

OpenDestination(s) ==
  /\ pc[s] = "open"
  /\ \E i \in Opens(Call(s)[2]) :
       /\ Goes(s, "open", IF from[s] = Dir THEN "eisdir" ELSE "chunks")
       /\ to' = [to EXCEPT ![s] = i]
       /\ UNCHANGED <<todo, dirs, from, off>>
       /\ Disk(With(tree, {Call(s)[2]}, i), [data EXCEPT ![i] = << >>])
  /\ UNCHANGED <<cwd, req, result, asked>>

\* a seeded fault: no error when the destination cannot be opened
CopyFailsIfGone(s) ==
  /\ CopyCall(s, "CopyDir") \/ CopyCall(s, "CopyFile")
  /\ ~Exists(Call(s)[1]) /\ Fail(s, "copy")
  /\ UNCHANGED <<disk, cwd, req, asked>>

(* The source is gone, or the destination cannot be opened. *)
CopyFails(s) ==
  /\ \/ todo[s] # << >> /\ ~Exists(Call(s)[1]) /\ Fail(s, "copy")
     \/ pc[s] = "open" /\ Opens(Call(s)[2]) = {} /\ Fail(s, "open")
  /\ Disk(tree, data) /\ UNCHANGED <<cwd, req, asked>>

CopyChunk(s) ==
  /\ pc[s] = "chunks" /\ off[s] < Len(data[from[s]])
  /\ off' = [off EXCEPT ![s] = @ + 1]
  /\ UNCHANGED <<todo, dirs, from, to>>
  /\ Disk(tree, [data EXCEPT ![to[s]] = WriteAt(@, off[s], data[from[s]][off[s] + 1])])
  /\ UNCHANGED <<cwd, pc, req, result, asked>>

(* io.Copy: a read or a write fails. *)
CopyBreaks(s) ==
  /\ \E a \in {"chunks", "eisdir"} : Fail(s, a)
  /\ Disk(tree, data) /\ UNCHANGED <<cwd, req, asked>>

CopiedFile(s) ==
  /\ Goes(s, "chunks", "copy") /\ off[s] >= Len(data[from[s]])
  /\ todo' = [todo EXCEPT ![s] = Tail(@)] /\ from' = [from EXCEPT ![s] = 0]
  /\ to' = [to EXCEPT ![s] = 0] /\ off' = [off EXCEPT ![s] = 0]
  /\ Disk(tree, data)
  /\ UNCHANGED <<cwd, req, dirs, result, asked>>

Copied(s) ==
  /\ todo[s] = << >> /\ Done(s, "copy", "ok")
  /\ NoWork /\ UNCHANGED <<disk, cwd, req, asked>>

-----------------------------------------------------------------------------
(* handleUpload of a file, after its first OK and the MkdirAll.            *)

\* a seeded fault: without O_TRUNC
CreateKeeping(s) ==
  /\ \E i \in Opens(Here(s)) :
       /\ Goes(s, "create", "receive")
       /\ to' = [to EXCEPT ![s] = i] /\ UNCHANGED <<todo, dirs, from, off>>
       /\ Disk(With(tree, {Here(s)}, i), data)
  /\ UNCHANGED <<cwd, req, result, asked>>

(* receiveFileToPath *)
Create(s) ==
  /\ \E i \in Opens(Here(s)) :
       /\ Goes(s, "create", "receive")
       /\ to' = [to EXCEPT ![s] = i] /\ UNCHANGED <<todo, dirs, from, off>>
       /\ Disk(With(tree, {Here(s)}, i), [data EXCEPT ![i] = << >>])
  /\ UNCHANGED <<cwd, req, result, asked>>

(* The path cannot be opened, or the sender is gone before it has named   *)
(* the file.                                                              *)
CreateFails(s) ==
  /\ Goes(s, "create", "cleanup") /\ Says(s, "error")
  /\ NoWork /\ UNCHANGED <<disk, cwd, req, asked>>

Receive(s) ==
  /\ pc[s] = "receive" /\ off[s] < Len(Payload(s))
  /\ off' = [off EXCEPT ![s] = @ + 1] /\ UNCHANGED <<todo, dirs, from, to>>
  /\ Disk(tree, [data EXCEPT ![to[s]] = WriteAt(@, off[s], Payload(s)[off[s] + 1])])
  /\ UNCHANGED <<cwd, pc, req, result, asked>>

Close(s) ==
  /\ to' = [to EXCEPT ![s] = 0] /\ off' = [off EXCEPT ![s] = 0]
  /\ UNCHANGED <<todo, dirs, from>> /\ Disk(tree, data)

(* TransferEnd, with the checksum of what was received. *)
Received(s) ==
  /\ off[s] = Len(Payload(s)) /\ Done(s, "receive", "ok") /\ Close(s)
  /\ UNCHANGED <<cwd, req, asked>>

(* The link, the sender, a chunk or a write fails, or the checksum is wrong. *)
ReceiveFails(s) ==
  /\ Goes(s, "receive", "cleanup") /\ Says(s, "error") /\ Close(s)
  /\ UNCHANGED <<cwd, req, asked>>

\* a seeded fault: os.RemoveAll for os.Remove
CleanupAll(s) ==
  /\ Goes(s, "cleanup", "done") /\ UNCHANGED <<todo, files, result>>
  /\ Disk(Without(tree, Under(Here(s))), data) /\ dirs' = Losing(dirs, Under(Here(s)))
  /\ UNCHANGED <<cwd, req, asked>>

(* The error is sent, then os.Remove takes the path away, whatever is      *)
(* there now: a file, or a directory that is empty.                        *)
Cleanup(s) ==
  /\ Goes(s, "cleanup", "done") /\ UNCHANGED <<todo, files, result>>
  /\ IF Exists(Here(s)) /\ Children(Here(s)) = {}
     THEN Disk(Without(tree, {Here(s)}), data) /\ dirs' = Losing(dirs, {Here(s)})
     ELSE UNCHANGED <<disk, dirs>>
  /\ UNCHANGED <<cwd, req, asked>>

-----------------------------------------------------------------------------
(* The answer is sent; the handler reads the next request. *)
Answer(s) ==
  /\ Goes(s, "done", "idle") /\ req' = [req EXCEPT ![s] = NoRequest]
  /\ Says(s, "none") /\ NoWork /\ UNCHANGED <<disk, cwd, asked>>

Handler(s) ==
  \/ Look(s) \/ ChDir(s) \/ Move(s) \/ Stat(s) \/ Mkdir(s)
  \/ Unlink(s) \/ Rmdir(s, "noentry") \/ Rmdir(s, "rmdir") \/ OpenParent(s)
  \/ Unlinkat(s) \/ Openat(s) \/ Readdirnames(s) \/ CloseDir(s) \/ Rmdirat(s)
  \/ CopyDir(s) \/ ReadDir(s) \/ OpenSource(s) \/ OpenDestination(s) \/ CopyFails(s)
  \/ CopyChunk(s) \/ CopyBreaks(s) \/ CopiedFile(s) \/ Copied(s)
  \/ Create(s) \/ CreateFails(s) \/ Receive(s) \/ Received(s)
  \/ ReceiveFails(s) \/ Cleanup(s) \/ Answer(s)

(* Where a step changes the tree, or the contents of a file in it. *)
Changed ==
  {p \in DOMAIN tree \cup DOMAIN tree' :
     \/ p \notin DOMAIN tree \cap DOMAIN tree'
     \/ tree[p] # tree'[p]
     \/ tree[p] # Dir /\ data[tree[p]] # data'[tree[p]]}

(* Bookkeeping for the properties: a step of s disturbs every request whose *)
(* paths, or open files, it changes.                                        *)
Disturbs(s, t) ==
  /\ s # t
  /\ \/ \E p \in Changed : \E q \in {req[t].src, req[t].dst} : IsPrefix(p, q) \/ IsPrefix(q, p)
     \/ \E i \in {from[t], to[t]} \ {0} : data'[i] # data[i]

Exactly == {"copy", "upload"}
Watch(s) ==
  /\ disturbed' = [t \in Sessions |-> req'[t].op \in Exactly /\ (disturbed[t] \/ Disturbs(s, t))]
  /\ gone' = [t \in Sessions |->
                req'[t].op = "delete" /\ (gone[t] \/ req'[t].dst \notin DOMAIN tree')]

Next == \E s \in Sessions :
          /\ Handler(s) \/ \E o \in Ops, t, u \in Targets : Begin(s, o, t, u)
          /\ Watch(s)

(* Handlers run; a client goes on sending, or its link breaks. *)
Spec == Init /\ [][Next]_vars
             /\ \A s \in Sessions : WF_vars(Handler(s) /\ Watch(s))

-----------------------------------------------------------------------------
(* Properties.                                                             *)

(* The types, and what a handler holds open at each place in its code. *)
TypeOK ==
  /\ \A p \in DOMAIN tree :
       /\ tree[p] \in {Dir} \cup Inos
       /\ p # << >> => Front(p) \in DOMAIN tree /\ tree[Front(p)] = Dir
  /\ \A i \in Inos : data[i] \in Seq({Old, Hole} \cup Sessions)
  /\ \A s \in Sessions : from[s] \in 0..MaxIno /\ to[s] \in 0..MaxIno /\ off[s] \in Nat
  /\ \A s \in Sessions : from[s] # 0 => pc[s] \in {"open", "chunks"}
  /\ \A s \in Sessions : pc[s] = "chunks" => from[s] # 0
  /\ \A s \in Sessions : (to[s] # 0) = (pc[s] \in {"chunks", "eisdir", "receive"})

Kept(s, o) == pc[s] = "done" /\ result[s] = "ok" /\ req[s].op = o /\ ~disturbed[s]

Same(p, q) ==
  /\ p \in DOMAIN tree /\ q \in DOMAIN tree /\ (tree[p] = Dir) = (tree[q] = Dir)
  /\ tree[p] # Dir => data[tree[p]] = data[tree[q]]

(* An upload that is answered OK has left exactly the client's bytes at    *)
(* its path, nothing of a longer file that was there, unless another       *)
(* session changed it meanwhile (receiveFileToPath).                       *)
UploadIsExact ==
  \A s \in Sessions :
    Kept(s, "upload") => IsFile(Here(s)) /\ data[tree[Here(s)]] = Payload(s)

(* A copy that is answered OK has left the source whole and an equal entry *)
(* for each of its entries, unless another session changed either, or one  *)
(* of the two lies in the other (CopyDir, CopyFile).                       *)
CopyIsExact ==
  \A s \in Sessions :
    LET p == req[s].src  q == req[s].dst IN
    Kept(s, "copy") /\ ~IsPrefix(p, q) /\ ~IsPrefix(q, p) =>
      \A r \in Under(p) \cup {p} : Same(r, q \o SubSeq(r, Len(p) + 1, Len(r)))

(* The names a request may add, and those it may take away: at its paths   *)
(* and below, and the directories on the way to its destination.           *)
MayAdd(s, p) ==
  LET r == req[s] IN
  \/ r.op \in {"mkdir", "upload", "copy"} /\ IsPrefix(p, r.dst)
  \/ r.op \in TwoPaths /\ IsPrefix(r.dst, p)
MayTake(s, p) ==
  LET r == req[s] IN
  \/ r.op \in {"delete", "move"} /\ p # << >> /\ IsPrefix(r.src, p)
  \/ r.op = "upload" /\ p = r.dst
  \/ \E k \in DOMAIN dirs[s] : \E d \in dirs[s][k].dir :
       IF k = 1 THEN IsPrefix(Append(d, Last(r.dst)), p) ELSE p # d /\ IsPrefix(d, p)

(* No entry appears that a request in progress does not name.  None goes   *)
(* but one that such a request names, or that lies in a directory a delete *)
(* has opened on the way down from its path, wherever that directory has   *)
(* been moved since.  And the contents of a file change only while one     *)
(* that writes has it open.                                                *)
OnlyWhatIsNamed ==
  [][/\ \A p \in DOMAIN tree' \ DOMAIN tree : \E s \in Sessions : MayAdd(s, p)
     /\ \A p \in DOMAIN tree \ DOMAIN tree' : \E s \in Sessions : MayTake(s, p)
     /\ \A p \in DOMAIN tree \cap DOMAIN tree' :
          tree'[p] = tree[p] /\ tree[p] # Dir /\ data'[tree[p]] # data[tree[p]] =>
            \E s \in Sessions : tree[p] \in {to[s], to'[s]}]_vars

(* A delete that is answered OK has had its way: at some moment between    *)
(* the request and the answer there was nothing at its path, though others *)
(* fill, move and remove the directories it is emptying (RemoveAll).       *)
DeleteMeansGone ==
  \A s \in Sessions :
    pc[s] = "done" /\ result[s] = "ok" /\ req[s].op = "delete" => gone[s]

(* Every request is answered, a copy of a directory into itself included:  *)
(* the length of a path ends it (CopyDir).                                 *)
RequestEnds == \A s \in Sessions : pc[s] # "idle" ~> pc[s] = "idle"

(* "cannot delete root directory" (handleDelete, server.go:483).           *)
RootStays == << >> \in DOMAIN tree
=============================================================================
