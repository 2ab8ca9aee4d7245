-------------------------- MODULE ServedTreeProofs ---------------------------
(***************************************************************************)
(* Proofs about ServedTree, for any number of sessions, any trees, any     *)
(* requests: an upload and a copy that nobody disturbs are exact, a delete *)
(* that is answered OK has seen its path gone, and no handler reaches what *)
(* its request does not name.                                              *)
(*                                                                         *)
(* StepInv is the inductive invariant.  The steps of the others touch      *)
(* nothing an undisturbed request looks at (Calm), and move or remove the  *)
(* directories a delete has open, no more (Carries).  So what has to be    *)
(* shown of each action is what it does to the disk (DiskStep), to its     *)
(* handler (HandStep) and to the open directories (FramesStep), and that   *)
(* the upload or the copy of its own session still has done what it was to *)
(* do so far (Promises): an upload has the chunks it received at its path, *)
(* and each entry of the source of a copy has its equal or lies where      *)
(* there still is a call to make.                                          *)
(***************************************************************************)
EXTENDS ServedTree, SequenceTheorems, FunctionTheorems, FiniteSetTheorems, TLAPS

Pre(p, n) == SubSeq(p, 1, n)

(* The path that is to q what r is to p. *)
To(p, q, r) == q \o SubSeq(r, Len(p) + 1, Len(r))

(* Neither of two paths leads to the other. *)
Apart(p, q) == ~IsPrefix(p, q) /\ ~IsPrefix(q, p)

-----------------------------------------------------------------------------
(* The inductive invariant.                                                *)

Chunks == {Old, Hole} \cup Sessions
(* Where a delete works on a path, where on open directories; and a copy. *)
PathPcs == {"unlink", "noentry", "rmdir", "opendir"}
AtPcs == {"unlinkat", "openat", "names", "rmdirat"}
CopyPcs == {"copy", "stat", "mkdir", "readdir", "open", "chunks", "eisdir"}
Pcs == PathPcs \cup AtPcs \cup CopyPcs
         \cup {"idle", "act", "create", "receive", "cleanup", "done"}
Results == {"none", "ok", "error", "refused"}
Pending == Paths \X Paths \X {"CopyDir", "CopyFile"}
Requests == [op : AllOps \cup {"none"}, src : Paths, dst : Paths]
Frame == [dir : SUBSET Paths, left : Seq(Names)]
Frames == Seq(Frame)

(* A tree: entries that are directories or files, finitely many; only      *)
(* directories on the way to an entry; and one name for a file: with two,  *)
(* to write the one would change the other.                                *)
Entered(t) ==
  t \in [DOMAIN t -> {Dir} \cup Inos] /\ DOMAIN t \subseteq Paths /\ IsFiniteSet(DOMAIN t)
Closed(t) ==
  /\ << >> \in DOMAIN t => t[<< >>] = Dir
  /\ \A p \in DOMAIN t : \A n \in 0..(Len(p) - 1) : Pre(p, n) \in DOMAIN t /\ t[Pre(p, n)] = Dir
OneName(t) == \A p, q \in DOMAIN t : t[p] = t[q] /\ t[p] # Dir => p = q
GoodTree(t) == Entered(t) /\ Closed(t) /\ OneName(t)
GoodData(d) == d \in [Inos -> Seq(Chunks)]

HandlersOK ==
  /\ cwd \in [Sessions -> Paths] /\ pc \in [Sessions -> Pcs] /\ req \in [Sessions -> Requests]
  /\ todo \in [Sessions -> Seq(Pending)]
  /\ from \in [Sessions -> 0..MaxIno] /\ to \in [Sessions -> 0..MaxIno]
  /\ off \in [Sessions -> Nat]
  /\ result \in [Sessions -> Results]
WatchOK == disturbed \in [Sessions -> BOOLEAN]

(* What a handler has in hand at each place in its code. *)
OpAt(s) ==
  /\ pc[s] = "idle" => req[s].op = "none"
  /\ pc[s] = "act" => req[s].op \in {"look", "cd", "move"}
  /\ pc[s] \in PathPcs \cup AtPcs => req[s].op = "delete"
  /\ pc[s] \in {"stat", "mkdir"} => req[s].op \in {"mkdir", "upload", "copy"}
  /\ pc[s] \in CopyPcs \ {"stat", "mkdir"} => req[s].op = "copy"
  /\ pc[s] \in {"create", "receive", "cleanup"} => req[s].op = "upload"
  /\ req[s].op \notin TwoPaths => req[s].src = req[s].dst
  /\ req[s].op = "delete" => req[s].src # << >>
FilesAt(s) ==
  /\ from[s] # 0 => pc[s] \in {"open", "chunks"}
  /\ pc[s] = "chunks" => from[s] # 0
  /\ (to[s] # 0) = (pc[s] \in {"chunks", "eisdir", "receive"})
  /\ pc[s] \notin {"mkdir", "chunks", "receive"} => off[s] = 0
  /\ pc[s] = "cleanup" => result[s] = "error"
MkdirAt(s) == pc[s] = "mkdir" => ~AboveRoot(s) /\ off[s] <= Len(Goal(s))
CallAt(s, k) ==
  /\ IsPrefix(req[s].src, todo[s][k][1])
  /\ todo[s][k][2] = To(req[s].src, req[s].dst, todo[s][k][1])
TodoAt(s) ==
  /\ pc[s] \notin CopyPcs \/ req[s].op # "copy" => todo[s] = << >>
  /\ pc[s] \in CopyPcs \ {"copy", "eisdir"} /\ req[s].op = "copy" => todo[s] # << >>
  /\ \A k \in DOMAIN todo[s] : CallAt(s, k)

(* The directories a delete of p has open, and the names left in each: the *)
(* first is the one p lies in, and all but the innermost have the name     *)
(* that the next is for.                                                   *)
Lefts(p, b, h) ==
  /\ h # << >> /\ h[1].left = <<Last(p)>>
  /\ \A k \in 1..Len(h) : k # Len(h) \/ b \in {"openat", "rmdirat"} => h[k].left # << >>
  /\ b = "names" => Len(h) > 1
HeldAt(s) == pc[s] \in AtPcs => Lefts(req[s].dst, pc[s], dirs[s])

(* Until p has been gone, the first two are where they were opened. *)
OnPath(p, h) == h[1].dir = {Front(p)} /\ (Len(h) > 1 => h[2].dir = {p})
GoneAt(s) ==
  req[s].op = "delete" =>
    /\ pc[s] = "noentry" => gone[s]
    /\ pc[s] \in AtPcs => gone[s] \/ OnPath(req[s].dst, dirs[s])
    /\ pc[s] = "done" /\ result[s] = "ok" => gone[s]

(* An upload nobody disturbs has what it received so far at its path. *)
Receiving(s) ==
  pc[s] = "receive" /\ ~disturbed[s] =>
    /\ IsFile(Here(s)) /\ tree[Here(s)] = to[s]
    /\ off[s] <= Len(Payload(s)) /\ data[to[s]] = Pre(Payload(s), off[s])

(* A copy nobody disturbs, of two paths that are apart: each entry of the  *)
(* source has its equal, or lies where there still is a call to make.      *)
Copying(s) ==
  /\ ~disturbed[s] /\ req[s].op = "copy" /\ Apart(req[s].src, req[s].dst)
  /\ pc[s] \in CopyPcs \ {"eisdir"} \/ (pc[s] = "done" /\ result[s] = "ok")
Waits(s, r) == \E k \in DOMAIN todo[s] : IsPrefix(todo[s][k][1], r)
EqualOrWaits(s) ==
  \A r \in Under(req[s].src) \cup {req[s].src} :
    Same(r, To(req[s].src, req[s].dst, r)) \/ Waits(s, r)
MadeDir(s) ==
  pc[s] = "readdir" => todo[s][1][2] \in DOMAIN tree /\ tree[todo[s][1][2]] = Dir
AtSource(s) ==
  pc[s] \in {"open", "chunks"} =>
    todo[s][1][1] \in DOMAIN tree /\ tree[todo[s][1][1]] = from[s]
AtChunk(s) ==
  pc[s] = "chunks" =>
    /\ todo[s][1][2] \in DOMAIN tree /\ tree[todo[s][1][2]] = to[s]
    /\ off[s] <= Len(data[from[s]]) /\ data[to[s]] = Pre(data[from[s]], off[s])
CopyAt(s) == Copying(s) => EqualOrWaits(s) /\ MadeDir(s) /\ AtSource(s) /\ AtChunk(s)

Hand(s) == OpAt(s) /\ FilesAt(s) /\ MkdirAt(s) /\ TodoAt(s)
KeptUpload(s) == Kept(s, "upload") => IsFile(Here(s)) /\ data[tree[Here(s)]] = Payload(s)
Promises(s) == Receiving(s) /\ KeptUpload(s) /\ CopyAt(s)

StepInv ==
  /\ GoodTree(tree) /\ GoodData(data) /\ HandlersOK /\ WatchOK /\ dirs \in [Sessions -> Frames]
  /\ \A s \in Sessions : Hand(s) /\ HeldAt(s) /\ GoneAt(s) /\ Promises(s)

-----------------------------------------------------------------------------
(* Paths.                                                                  *)

(* The first n names of a path are a path of n names. *)
LEMMA PreIs ==
  ASSUME NEW p \in Paths, NEW n \in 0..Len(p)
  PROVE  /\ Pre(p, n) \in Paths /\ Len(Pre(p, n)) = n
         /\ \A i \in 1..n : Pre(p, n)[i] = p[i]
<1> USE DEF Paths
<1>1. Len(p) \in Nat /\ \A i \in 1..n : p[i] \in Names
  BY LenProperties, ElementOfSeq
<1>2. n \in Int /\ 1 \in Int
  BY <1>1
<1> QED
  BY <1>1, <1>2, SubSeqProperties DEF Pre

(* Paths with the same names are the same. *)
LEMMA PathsEqual ==
  ASSUME NEW p \in Paths, NEW q \in Paths, Len(p) = Len(q),
         \A i \in 1..Len(p) : p[i] = q[i]
  PROVE  p = q
BY SeqEqual DEF Paths

LEMMA PathLen ==
  ASSUME NEW p \in Paths
  PROVE  /\ Len(p) \in Nat /\ \A i \in 1..Len(p) : p[i] \in Names
         /\ << >> \in Paths /\ Len(<< >>) = 0 /\ (Len(p) = 0 => p = << >>)
BY LenProperties, ElementOfSeq, EmptySeq DEF Paths

(* One path leads to another when the other begins with its names. *)
LEMMA PrefixIs ==
  ASSUME NEW p \in Paths, NEW q \in Paths
  PROVE  /\ IsPrefix(p, q) <=> Len(p) <= Len(q) /\ \A i \in 1..Len(p) : p[i] = q[i]
         /\ IsPrefix(p, q) <=> Len(p) <= Len(q) /\ p = Pre(q, Len(p))
<1>1. Len(p) \in Nat /\ Len(q) \in Nat /\ Len(p) \in 0..Len(p)
  BY PathLen
<1>2. Pre(p, Len(p)) = p
  BY <1>1, PreIs, PathsEqual
<1>3. CASE ~(Len(p) <= Len(q))
  BY <1>3 DEF IsPrefix
<1>4. CASE Len(p) <= Len(q)
  <2>1. Len(p) \in 0..Len(q)
    BY <1>1, <1>4
  <2>2. /\ Pre(q, Len(p)) \in Paths /\ Len(Pre(q, Len(p))) = Len(p)
        /\ \A i \in 1..Len(p) : Pre(q, Len(p))[i] = q[i]
    BY <2>1, PreIs
  <2>3. p = Pre(q, Len(p)) <=> \A i \in 1..Len(p) : p[i] = q[i]
    BY <2>2, PathsEqual
  <2>4. IsPrefix(p, q) <=> p = Pre(q, Len(p))
    BY <1>2, <1>4 DEF IsPrefix, Pre
  <2> QED
    BY <1>4, <2>3, <2>4
<1> QED
  BY <1>3, <1>4

(* To lead to is an order, and what leads to one path is in a line. *)
LEMMA PrefixOrder ==
  ASSUME NEW p \in Paths, NEW q \in Paths, NEW r \in Paths
  PROVE  /\ IsPrefix(p, p) /\ IsPrefix(<< >>, p)
         /\ IsPrefix(p, q) /\ IsPrefix(q, r) => IsPrefix(p, r)
         /\ IsPrefix(p, q) /\ IsPrefix(q, p) => p = q
         /\ IsPrefix(p, q) /\ Len(p) = Len(q) => p = q
         /\ IsPrefix(p, r) /\ IsPrefix(q, r) => IsPrefix(p, q) \/ IsPrefix(q, p)
<1>1. Len(p) \in Nat /\ Len(q) \in Nat /\ Len(r) \in Nat /\ << >> \in Paths /\ Len(<< >>) = 0
  BY PathLen
<1>2. IsPrefix(p, p) /\ IsPrefix(<< >>, p)
  BY <1>1, PrefixIs
<1>3. IsPrefix(p, q) /\ IsPrefix(q, r) => IsPrefix(p, r)
  BY <1>1, PrefixIs
<1>4. IsPrefix(p, q) /\ Len(p) = Len(q) => p = q
  BY <1>1, PrefixIs, PathsEqual
<1>5. IsPrefix(p, q) /\ IsPrefix(q, p) => Len(p) = Len(q)
  BY <1>1, PrefixIs
<1>6. IsPrefix(p, r) /\ IsPrefix(q, r) => IsPrefix(p, q) \/ IsPrefix(q, p)
  BY <1>1, PrefixIs
<1> QED
  BY <1>2, <1>3, <1>4, <1>5, <1>6

(* What lies on the way to p: its first names, for any number of them. *)
LEMMA PreOrder ==
  ASSUME NEW p \in Paths, NEW n \in 0..Len(p)
  PROVE  /\ IsPrefix(Pre(p, n), p) /\ Pre(p, Len(p)) = p /\ Pre(p, 0) = << >>
         /\ \A m \in 0..n : Pre(Pre(p, n), m) = Pre(p, m)
         /\ \A q \in Paths : IsPrefix(q, p) /\ Len(q) = n => q = Pre(p, n)
         /\ \A q \in Paths : IsPrefix(q, p) /\ Len(q) <= n => IsPrefix(q, Pre(p, n))
<1>1. Len(p) \in Nat /\ 0 \in 0..Len(p) /\ Len(p) \in 0..Len(p)
  BY PathLen
<1>2. \A k \in 0..Len(p) : /\ Pre(p, k) \in Paths /\ Len(Pre(p, k)) = k
                           /\ \A i \in 1..k : Pre(p, k)[i] = p[i]
  BY PreIs
<1>3. IsPrefix(Pre(p, n), p)
  BY <1>1, <1>2, PrefixIs
<1>4. Pre(p, Len(p)) = p
  BY <1>1, <1>2, PathsEqual
<1>5. Pre(p, 0) = << >>
  BY <1>1, <1>2, PathLen
<1>6. ASSUME NEW m \in 0..n
      PROVE  Pre(Pre(p, n), m) = Pre(p, m)
  <2>1. m \in 0..Len(p) /\ m \in 0..Len(Pre(p, n))
    BY <1>1, <1>2
  <2>2. /\ Pre(Pre(p, n), m) \in Paths /\ Len(Pre(Pre(p, n), m)) = m
        /\ \A i \in 1..m : Pre(Pre(p, n), m)[i] = Pre(p, n)[i]
    BY <1>2, <2>1, PreIs
  <2>3. \A i \in 1..m : Pre(p, n)[i] = p[i]
    BY <1>2
  <2> QED
    BY <1>2, <2>1, <2>2, <2>3, PathsEqual
<1>7. ASSUME NEW q \in Paths, IsPrefix(q, p), Len(q) = n
      PROVE  q = Pre(p, n)
  BY <1>7, PrefixIs
<1>8. ASSUME NEW q \in Paths, IsPrefix(q, p), Len(q) <= n
      PROVE  IsPrefix(q, Pre(p, n))
  <2>1. Len(q) \in Nat /\ \A i \in 1..Len(q) : q[i] = p[i]
    BY <1>8, PrefixIs, PathLen
  <2> QED
    BY <1>2, <1>8, <2>1, PrefixIs
<1> QED
  BY <1>3, <1>4, <1>5, <1>6, <1>7, <1>8

(* The directory an entry lies in. *)
LEMMA FrontIs ==
  ASSUME NEW p \in Paths, p # << >>
  PROVE  /\ Len(p) - 1 \in 0..Len(p) /\ Front(p) = Pre(p, Len(p) - 1)
         /\ Front(p) \in Paths /\ Len(Front(p)) = Len(p) - 1 /\ IsPrefix(Front(p), p)
<1>1. Len(p) - 1 \in 0..Len(p)
  BY PathLen
<1> QED
  BY <1>1, PreIs, PreOrder DEF Front, Pre

(* The names of u: those of q, then those that r has more than p. *)
Follows(u, p, q, r) ==
  /\ u \in Paths /\ Len(u) = Len(q) + (Len(r) - Len(p))
  /\ \A i \in 1..Len(q) : u[i] = q[i]
  /\ \A i \in (Len(q) + 1)..(Len(q) + (Len(r) - Len(p))) : u[i] = r[i - Len(q) + Len(p)]

(* The way from q that the way to r is from p. *)
LEMMA ToIs ==
  ASSUME NEW p \in Paths, NEW q \in Paths, NEW r \in Paths, IsPrefix(p, r)
  PROVE  To(p, q, r) \in Paths /\ Follows(To(p, q, r), p, q, r)
<1> DEFINE u == SubSeq(r, Len(p) + 1, Len(r))
<1>1. /\ Len(p) \in Nat /\ Len(q) \in Nat /\ Len(r) \in Nat /\ Len(p) <= Len(r)
      /\ \A i \in 1..Len(r) : r[i] \in Names
  BY PathLen, PrefixIs
<1>2. \A i \in (Len(p) + 1)..Len(r) : r[i] \in Names
  BY <1>1
<1>3. Len(p) + 1 \in Int /\ Len(r) \in Int
  BY <1>1
<1>4. /\ u \in Seq(Names)
      /\ Len(u) = (IF Len(p) + 1 <= Len(r) THEN Len(r) - (Len(p) + 1) + 1 ELSE 0)
      /\ \A i \in 1..(Len(r) - (Len(p) + 1) + 1) : u[i] = r[(Len(p) + 1) + i - 1]
  BY <1>2, <1>3, SubSeqProperties
<1>5. Len(u) = Len(r) - Len(p)
  BY <1>1, <1>4
<1>6. \A i \in 1..Len(u) : u[i] = r[i + Len(p)]
  BY <1>1, <1>4, <1>5
<1>7. q \in Seq(Names)
  BY DEF Paths
<1> HIDE DEF u
<1>8. /\ q \o u \in Seq(Names) /\ Len(q \o u) = Len(q) + Len(u)
      /\ \A i \in 1..(Len(q) + Len(u)) : (q \o u)[i] = IF i <= Len(q) THEN q[i] ELSE u[i - Len(q)]
  BY <1>4, <1>7, ConcatProperties
<1>9. To(p, q, r) = q \o u
  BY DEF To, u
<1>10. PICK v : v = q \o u
  OBVIOUS
<1>11. /\ v \in Seq(Names) /\ Len(v) = Len(q) + Len(u)
       /\ \A i \in 1..(Len(q) + Len(u)) : v[i] = IF i <= Len(q) THEN q[i] ELSE u[i - Len(q)]
  BY <1>8, <1>10, Zenon
<1>12. ASSUME NEW i \in (Len(q) + 1)..(Len(q) + (Len(r) - Len(p)))
       PROVE  v[i] = r[i - Len(q) + Len(p)]
  <2>1. i - Len(q) \in 1..Len(u) /\ i \in 1..(Len(q) + Len(u)) /\ ~(i <= Len(q))
    BY <1>1, <1>5
  <2>2. v[i] = u[i - Len(q)]
    BY <1>11, <2>1
  <2>3. u[i - Len(q)] = r[i - Len(q) + Len(p)]
    BY <1>6, <2>1
  <2> QED
    BY <2>2, <2>3
<1>13. \A i \in 1..Len(q) : v[i] = q[i]
  BY <1>1, <1>5, <1>11
<1>14. Follows(v, p, q, r)
  BY <1>1, <1>5, <1>11, <1>12, <1>13 DEF Follows, Paths
<1>15. v = To(p, q, r) /\ v \in Paths
  BY <1>9, <1>10, <1>11 DEF Paths
<1> QED
  BY <1>14, <1>15, Zenon

(* The move is undone by the move back, goes below q what is below p, and  *)
(* keeps the order of what it moves.                                       *)
LEMMA ToOrder ==
  ASSUME NEW p \in Paths, NEW q \in Paths, NEW r \in Paths, IsPrefix(p, r)
  PROVE  /\ IsPrefix(q, To(p, q, r)) /\ To(q, p, To(p, q, r)) = r /\ To(p, q, p) = q
         /\ \A t \in Paths : IsPrefix(p, t) /\ To(p, q, t) = To(p, q, r) => t = r
         /\ \A n \in 0..Len(q) : Pre(To(p, q, r), n) = Pre(q, n)
<1> DEFINE u == To(p, q, r)
<1>1. /\ Len(p) \in Nat /\ Len(q) \in Nat /\ Len(r) \in Nat /\ Len(p) <= Len(r)
  BY PathLen, PrefixIs
<1>2. /\ u \in Paths /\ Len(u) = Len(q) + (Len(r) - Len(p))
      /\ \A i \in 1..Len(q) : u[i] = q[i]
      /\ \A i \in (Len(q) + 1)..(Len(q) + (Len(r) - Len(p))) : u[i] = r[i - Len(q) + Len(p)]
  BY ToIs DEF Follows
<1> HIDE DEF u
<1>3. IsPrefix(q, u)
  BY <1>1, <1>2, PrefixIs
<1>4. \A t \in Paths : IsPrefix(p, t) /\ To(p, q, t) = u => t = r
  <2> SUFFICES ASSUME NEW t \in Paths, IsPrefix(p, t), To(p, q, t) = u PROVE t = r
    OBVIOUS
  <2>4. Follows(u, p, q, t)
    BY ToIs
  <2>1. /\ Len(u) = Len(q) + (Len(t) - Len(p)) /\ Len(t) \in Nat
        /\ \A i \in (Len(q) + 1)..(Len(q) + (Len(t) - Len(p))) : u[i] = t[i - Len(q) + Len(p)]
    BY <2>4, PathLen DEF Follows
  <2>2. Len(t) = Len(r)
    BY <1>1, <1>2, <2>1
  <2>3. ASSUME NEW i \in 1..Len(t) PROVE t[i] = r[i]
    <3>1. CASE i <= Len(p)
      BY <1>1, <2>2, <3>1, PrefixIs
    <3>2. CASE ~(i <= Len(p))
      <4>1. i - Len(p) + Len(q) \in (Len(q) + 1)..(Len(q) + (Len(r) - Len(p)))
        BY <1>1, <2>2, <3>2
      <4>2. (i - Len(p) + Len(q)) - Len(q) + Len(p) = i
        BY <1>1
      <4> QED
        BY <1>2, <2>1, <2>2, <4>1, <4>2
    <3> QED
      BY <3>1, <3>2
  <2> QED
    BY <2>2, <2>3, PathsEqual
<1>5. To(q, p, u) = r
  <2>1. /\ To(q, p, u) \in Paths /\ Len(To(q, p, u)) = Len(p) + (Len(u) - Len(q))
        /\ \A i \in 1..Len(p) : To(q, p, u)[i] = p[i]
        /\ \A i \in (Len(p) + 1)..(Len(p) + (Len(u) - Len(q))) :
             To(q, p, u)[i] = u[i - Len(p) + Len(q)]
    <3>1. To(q, p, u) \in Paths /\ Follows(To(q, p, u), q, p, u)
      BY <1>2, <1>3, ToIs
    <3> QED
      BY <3>1 DEF Follows
  <2>2. Len(To(q, p, u)) = Len(r)
    BY <1>1, <1>2, <2>1
  <2>3. ASSUME NEW i \in 1..Len(r) PROVE To(q, p, u)[i] = r[i]
    <3>1. CASE i <= Len(p)
      BY <1>1, <2>1, <3>1, PrefixIs
    <3>2. CASE ~(i <= Len(p))
      <4>1. i - Len(p) + Len(q) \in (Len(q) + 1)..(Len(q) + (Len(r) - Len(p)))
        BY <1>1, <3>2
      <4>2. (i - Len(p) + Len(q)) - Len(q) + Len(p) = i
        BY <1>1
      <4>3. i \in (Len(p) + 1)..(Len(p) + (Len(u) - Len(q)))
        BY <1>1, <1>2, <3>2
      <4> QED
        BY <1>2, <2>1, <4>1, <4>2, <4>3
    <3> QED
      BY <3>1, <3>2
  <2> QED
    BY <2>1, <2>2, <2>3, PathsEqual
<1>6. To(p, q, p) = q
  <2>1. IsPrefix(p, p)
    BY PrefixOrder
  <2>2. /\ To(p, q, p) \in Paths /\ Len(To(p, q, p)) = Len(q) + (Len(p) - Len(p))
        /\ \A i \in 1..Len(q) : To(p, q, p)[i] = q[i]
    BY <2>1, ToIs DEF Follows
  <2> QED
    BY <1>1, <2>2, PathsEqual
<1>7. \A n \in 0..Len(q) : Pre(u, n) = Pre(q, n)
  <2> SUFFICES ASSUME NEW n \in 0..Len(q) PROVE Pre(u, n) = Pre(q, n)
    OBVIOUS
  <2>1. n \in 0..Len(u)
    BY <1>1, <1>2
  <2>2. /\ Pre(u, n) \in Paths /\ Len(Pre(u, n)) = n /\ \A i \in 1..n : Pre(u, n)[i] = u[i]
        /\ Pre(q, n) \in Paths /\ Len(Pre(q, n)) = n /\ \A i \in 1..n : Pre(q, n)[i] = q[i]
    BY <1>2, <2>1, PreIs
  <2>3. \A i \in 1..n : u[i] = q[i]
    BY <1>1, <1>2
  <2> QED
    BY <2>2, <2>3, PathsEqual
<1> QED
  BY <1>3, <1>4, <1>5, <1>6, <1>7 DEF u

(* The way to what is moved is what the way was, moved. *)
LEMMA ToPre ==
  ASSUME NEW p \in Paths, NEW q \in Paths, NEW r \in Paths, IsPrefix(p, r),
         NEW n \in Len(q)..Len(To(p, q, r)), NEW m, m = n - Len(q) + Len(p)
  PROVE  /\ m \in Len(p)..Len(r) /\ IsPrefix(p, Pre(r, m))
         /\ Pre(To(p, q, r), n) = To(p, q, Pre(r, m))
<1>1. PICK u \in Paths : u = To(p, q, r)
  BY ToIs
<1>2. Follows(u, p, q, r)
  BY <1>1, ToIs
<1>3. /\ Len(p) \in Nat /\ Len(q) \in Nat /\ Len(r) \in Nat /\ Len(p) <= Len(r)
      /\ Len(u) = Len(q) + (Len(r) - Len(p)) /\ n \in Len(q)..Len(u)
      /\ \A i \in 1..Len(q) : u[i] = q[i]
      /\ \A i \in (Len(q) + 1)..(Len(q) + (Len(r) - Len(p))) : u[i] = r[i - Len(q) + Len(p)]
  BY <1>1, <1>2, PathLen, PrefixIs DEF Follows
<1>4. m \in Len(p)..Len(r) /\ m \in 0..Len(r) /\ n \in 0..Len(u)
  BY <1>3
<1>5. IsPrefix(p, Pre(r, m)) /\ Pre(u, n) = To(p, q, Pre(r, m))
  <2>3. IsPrefix(p, Pre(r, m)) /\ Pre(r, m) \in Paths /\ Len(Pre(r, m)) = m
    BY <1>3, <1>4, PreIs, PreOrder
  <2>4. /\ Pre(u, n) \in Paths /\ Len(Pre(u, n)) = n /\ \A i \in 1..n : Pre(u, n)[i] = u[i]
    BY <1>4, PreIs
  <2>5. PICK v \in Paths : v = To(p, q, Pre(r, m))
    BY <2>3, ToIs
  <2>6. Follows(v, p, q, Pre(r, m))
    BY <2>3, <2>5, ToIs
  <2>7. /\ Len(v) = Len(q) + (m - Len(p)) /\ Len(v) = n
        /\ \A i \in 1..Len(q) : v[i] = q[i]
        /\ \A i \in (Len(q) + 1)..(Len(q) + (m - Len(p))) : v[i] = Pre(r, m)[i - Len(q) + Len(p)]
    BY <1>3, <2>3, <2>6 DEF Follows
  <2>8. ASSUME NEW i \in 1..n PROVE Pre(u, n)[i] = v[i]
    <3>1. CASE i <= Len(q)
      BY <1>3, <2>4, <2>7, <3>1
    <3>2. CASE ~(i <= Len(q))
      <4>1. /\ i \in (Len(q) + 1)..(Len(q) + (Len(r) - Len(p)))
            /\ i \in (Len(q) + 1)..(Len(q) + (m - Len(p)))
            /\ i - Len(q) + Len(p) \in 1..m
        BY <1>3, <1>4, <3>2
      <4>2. Pre(r, m)[i - Len(q) + Len(p)] = r[i - Len(q) + Len(p)]
        BY <1>4, <4>1, PreIs
      <4> QED
        BY <1>3, <2>4, <2>7, <4>1, <4>2
    <3> QED
      BY <3>1, <3>2
  <2>9. Pre(u, n) = v
    BY <2>4, <2>7, <2>8, PathsEqual
  <2> QED
    BY <2>3, <2>5, <2>9
<1> QED
  BY <1>1, <1>4, <1>5

(* The next name on the way from p to r. *)
LEMMA NextName ==
  ASSUME NEW p \in Paths, NEW r \in Paths, IsPrefix(p, r), p # r
  PROVE  \E c \in Paths :
           /\ c # << >> /\ Front(c) = p /\ IsPrefix(c, r) /\ Len(c) = Len(p) + 1
           /\ c = Pre(r, Len(p) + 1) /\ Last(c) \in Names /\ c = Append(p, Last(c))
<1>1. Len(p) \in Nat /\ Len(r) \in Nat /\ Len(p) < Len(r)
  BY PathLen, PrefixIs, PrefixOrder
<1>2. Len(p) + 1 \in 0..Len(r)
  BY <1>1
<1>3. PICK c \in Paths : c = Pre(r, Len(p) + 1)
  BY <1>2, PreIs
<1>4. Len(c) = Len(p) + 1 /\ \A i \in 1..(Len(p) + 1) : c[i] = r[i]
  BY <1>2, <1>3, PreIs
<1>5. c # << >>
  BY <1>1, <1>4, PathLen
<1>6. Front(c) \in Paths /\ Len(Front(c)) = Len(p) /\ IsPrefix(Front(c), c)
  BY <1>1, <1>4, <1>5, FrontIs
<1>7. IsPrefix(c, r) /\ IsPrefix(Front(c), r)
  BY <1>2, <1>3, <1>6, PreOrder, PrefixOrder
<1>8. Front(c) = p
  BY <1>1, <1>6, <1>7, PrefixIs
<1>9. Last(c) \in Names
  <2>1. Len(c) \in 1..Len(c)
    BY <1>1, <1>4
  <2> QED
    BY <2>1, PathLen DEF Last
<1>10. c = Append(p, Last(c))
  <2>1. p \in Seq(Names)
    BY DEF Paths
  <2>2. PICK x \in Names : x = Last(c)
    BY <1>9
  <2>3. /\ Append(p, x) \in Seq(Names) /\ Len(Append(p, x)) = Len(p) + 1
        /\ \A i \in 1..Len(p) : Append(p, x)[i] = p[i]
        /\ Append(p, x)[Len(p) + 1] = x
    BY <2>1, AppendProperties
  <2>4. \A i \in 1..Len(p) : p[i] = r[i]
    BY PrefixIs
  <2>5. c[Len(p) + 1] = x
    BY <1>4, <2>2 DEF Last
  <2>6. \A i \in 1..Len(c) : c[i] = Append(p, x)[i]
    BY <1>1, <1>4, <2>3, <2>4, <2>5
  <2>7. c = Append(p, x)
    BY <1>4, <2>3, <2>6, PathsEqual DEF Paths
  <2> QED
    BY <2>2, <2>7
<1> QED
  BY <1>3, <1>4, <1>5, <1>7, <1>8, <1>9, <1>10

(* A path and one name more. *)
LEMMA AppendIs ==
  ASSUME NEW p \in Paths, NEW x \in Names
  PROVE  /\ Append(p, x) \in Paths /\ Len(Append(p, x)) = Len(p) + 1
         /\ IsPrefix(p, Append(p, x)) /\ Append(p, x) # << >>
         /\ Front(Append(p, x)) = p /\ Last(Append(p, x)) = x
<1>1. p \in Seq(Names)
  BY DEF Paths
<1>2. PICK c : c = Append(p, x)
  OBVIOUS
<1>3. /\ c \in Paths /\ c # << >> /\ Len(c) = Len(p) + 1
      /\ \A i \in 1..Len(p) : c[i] = p[i]
      /\ c[Len(p) + 1] = x
  BY <1>1, <1>2, AppendProperties DEF Paths
<1>4. Len(p) \in Nat
  BY PathLen
<1>5. IsPrefix(p, c)
  BY <1>3, <1>4, PrefixIs
<1>6. Front(c) \in Paths /\ Len(Front(c)) = Len(p) /\ IsPrefix(Front(c), c)
  BY <1>3, <1>4, FrontIs
<1>7. Front(c) = p
  BY <1>3, <1>4, <1>5, <1>6, PrefixIs
<1> QED
  BY <1>2, <1>3, <1>5, <1>7 DEF Last

(* An entry goes where its directory goes, by its own name. *)
LEMMA ToAppend ==
  ASSUME NEW p \in Paths, NEW q \in Paths, NEW r \in Paths, IsPrefix(p, r), NEW x \in Names
  PROVE  To(p, q, Append(r, x)) = Append(To(p, q, r), x)
<1>1. PICK c \in Paths : c = Append(r, x)
  BY AppendIs
<1>2. PICK d \in Paths : d = To(p, q, r)
  BY ToIs
<1>3. PICK e \in Paths : e = Append(d, x)
  BY AppendIs
<1>4. /\ Len(p) \in Nat /\ Len(q) \in Nat /\ Len(r) \in Nat /\ Len(p) <= Len(r)
  BY PathLen, PrefixIs
<1>5. IsPrefix(r, c) /\ IsPrefix(p, c)
  BY <1>1, AppendIs, PrefixOrder
<1>6. r \in Seq(Names) /\ d \in Seq(Names)
  BY DEF Paths
<1>7. Len(c) = Len(r) + 1 /\ (\A i \in 1..Len(r) : c[i] = r[i]) /\ c[Len(r) + 1] = x
  BY <1>1, <1>6, AppendProperties
<1>8. Len(e) = Len(d) + 1 /\ (\A i \in 1..Len(d) : e[i] = d[i]) /\ e[Len(d) + 1] = x
  BY <1>3, <1>6, AppendProperties
<1>14. Follows(d, p, q, r)
  BY <1>2, ToIs
<1>9. /\ Len(d) = Len(q) + (Len(r) - Len(p))
      /\ \A i \in 1..Len(q) : d[i] = q[i]
      /\ \A i \in (Len(q) + 1)..(Len(q) + (Len(r) - Len(p))) : d[i] = r[i - Len(q) + Len(p)]
  BY <1>14 DEF Follows
<1>10. PICK u \in Paths : u = To(p, q, c)
  BY <1>5, ToIs
<1>15. Follows(u, p, q, c)
  BY <1>5, <1>10, ToIs
<1>11. /\ Len(u) = Len(q) + (Len(c) - Len(p))
       /\ \A i \in 1..Len(q) : u[i] = q[i]
       /\ \A i \in (Len(q) + 1)..(Len(q) + (Len(c) - Len(p))) : u[i] = c[i - Len(q) + Len(p)]
  BY <1>15 DEF Follows
<1>12. Len(u) = Len(e)
  BY <1>4, <1>7, <1>8, <1>9, <1>11
<1>13. ASSUME NEW i \in 1..Len(u) PROVE u[i] = e[i]
  <2>1. CASE i <= Len(q)
    BY <1>4, <1>8, <1>9, <1>11, <2>1
  <2>2. CASE ~(i <= Len(q)) /\ i <= Len(d)
    <3>1. i \in (Len(q) + 1)..(Len(q) + (Len(r) - Len(p))) /\ i - Len(q) + Len(p) \in 1..Len(r)
      BY <1>4, <1>9, <2>2
    <3>2. i \in (Len(q) + 1)..(Len(q) + (Len(c) - Len(p))) /\ i \in 1..Len(d)
      BY <1>4, <1>7, <1>9, <2>2
    <3> QED
      BY <1>7, <1>8, <1>9, <1>11, <3>1, <3>2
  <2>3. CASE ~(i <= Len(d))
    <3>1. i = Len(d) + 1 /\ i - Len(q) + Len(p) = Len(r) + 1
      BY <1>4, <1>7, <1>8, <1>9, <1>12, <2>3
    <3>2. i \in (Len(q) + 1)..(Len(q) + (Len(c) - Len(p)))
      BY <1>4, <1>7, <1>9, <3>1
    <3> QED
      BY <1>7, <1>8, <1>11, <3>1, <3>2
  <2> QED
    BY <2>1, <2>2, <2>3
<1> QED
  BY <1>1, <1>2, <1>3, <1>10, <1>12, <1>13, PathsEqual

-----------------------------------------------------------------------------
(* What the system calls leave of a good tree.                             *)

(* What a good tree has on the way to an entry. *)
LEMMA Named ==
  ASSUME NEW t, GoodTree(t), NEW p \in DOMAIN t
  PROVE  /\ p \in Paths /\ t[p] \in {Dir} \cup Inos
         /\ \A q \in Paths : IsPrefix(q, p) /\ q # p => q \in DOMAIN t /\ t[q] = Dir
<1>1. p \in Paths /\ t[p] \in {Dir} \cup Inos
  BY DEF GoodTree, Entered
<1>2. ASSUME NEW q \in Paths, IsPrefix(q, p), q # p
      PROVE  q \in DOMAIN t /\ t[q] = Dir
  <2>1. Len(q) \in Nat /\ Len(p) \in Nat /\ Len(q) <= Len(p) /\ Len(q) # Len(p)
    BY <1>1, <1>2, PathLen, PrefixIs, PrefixOrder
  <2>2. q = Pre(p, Len(q)) /\ Len(q) \in 0..(Len(p) - 1)
    BY <1>1, <1>2, <2>1, PrefixIs
  <2> QED
    BY <2>2 DEF GoodTree, Closed
<1> QED
  BY <1>1, <1>2

(* The converse: what has to be shown of a tree. *)
LEMMA IsGood ==
  ASSUME NEW t, Entered(t), OneName(t), << >> \in DOMAIN t => t[<< >>] = Dir,
         \A p \in DOMAIN t, q \in Paths : IsPrefix(q, p) /\ q # p => q \in DOMAIN t /\ t[q] = Dir
  PROVE  GoodTree(t)
<1>1. ASSUME NEW p \in DOMAIN t, NEW n \in 0..(Len(p) - 1)
      PROVE  Pre(p, n) \in DOMAIN t /\ t[Pre(p, n)] = Dir
  <2>1. p \in Paths /\ Len(p) \in Nat
    BY PathLen DEF Entered
  <2>2. n \in 0..Len(p) /\ n # Len(p)
    BY <2>1
  <2>3. Pre(p, n) \in Paths /\ IsPrefix(Pre(p, n), p) /\ Len(Pre(p, n)) = n
    BY <2>1, <2>2, PreIs, PreOrder
  <2>4. Pre(p, n) # p
    BY <2>2, <2>3
  <2> QED
    BY <2>3, <2>4
<1> QED
  BY <1>1 DEF GoodTree, Closed

(* A subset, an image and one more of finitely many are finitely many. *)
LEMMA FiniteImage ==
  ASSUME NEW S, NEW T, IsFiniteSet(S), NEW f \in [S -> T]
  PROVE  IsFiniteSet({f[x] : x \in S})
<1>1. f \in Surjection(S, {f[x] : x \in S})
  BY DEF Surjection
<1> QED
  BY <1>1, FS_Surjection

(* A tree with the same entries and some more, or without some. *)
Adds(w, t, Q, v) ==
  /\ DOMAIN w = DOMAIN t \cup Q /\ w = [r \in DOMAIN w |-> w[r]]
  /\ \A r \in Q : w[r] = v
  /\ \A r \in DOMAIN t \ Q : w[r] = t[r]

LEMMA WithIs ==
  ASSUME NEW t, NEW Q, NEW v
  PROVE  Adds(With(t, Q, v), t, Q, v)
BY DEF With, Adds

(* A new entry, in a directory that is there. *)
NewAt(p, v) ==
  /\ p \notin DOMAIN tree /\ v \in {Dir} \cup Inos
  /\ \A r \in DOMAIN tree : tree[r] = v => v = Dir
  /\ p = << >> => v = Dir
  /\ p # << >> => Front(p) \in DOMAIN tree /\ tree[Front(p)] = Dir

Grown(t, p, v) ==
  /\ GoodTree(t) /\ DOMAIN t = DOMAIN tree \cup {p} /\ t[p] = v
  /\ \A r \in DOMAIN tree : t[r] = tree[r]

LEMMA NewGood ==
  ASSUME GoodTree(tree), NEW p \in Paths, NEW v, NewAt(p, v), NEW t, t = With(tree, {p}, v)
  PROVE  Grown(t, p, v)
<1> USE DEF NewAt
<1>1. /\ DOMAIN t = DOMAIN tree \cup {p} /\ t[p] = v /\ t = [r \in DOMAIN t |-> t[r]]
      /\ \A r \in DOMAIN tree : t[r] = tree[r]
  <2>1. Adds(t, tree, {p}, v)
    BY WithIs
  <2> QED
    BY <2>1 DEF Adds
<1>2. /\ IsFiniteSet(DOMAIN tree) /\ DOMAIN tree \subseteq Paths
      /\ \A r \in DOMAIN tree : tree[r] \in {Dir} \cup Inos
  BY DEF GoodTree, Entered
<1>3. Entered(t)
  <2>1. IsFiniteSet(DOMAIN t)
    BY <1>1, <1>2, FS_AddElement
  <2>2. \A r \in DOMAIN t : t[r] \in {Dir} \cup Inos
    BY <1>1, <1>2
  <2>3. t \in [DOMAIN t -> {Dir} \cup Inos]
    BY <1>1, <2>2
  <2> QED
    BY <1>1, <1>2, <2>1, <2>3 DEF Entered
<1>4. OneName(t)
  <2> SUFFICES ASSUME NEW r \in DOMAIN t, NEW u \in DOMAIN t, t[r] = t[u], t[r] # Dir
               PROVE  r = u
    BY DEF OneName
  <2>1. \A x, y \in DOMAIN tree : tree[x] = tree[y] /\ tree[x] # Dir => x = y
    BY DEF GoodTree, OneName
  <2>2. CASE r \in DOMAIN tree /\ u \in DOMAIN tree
    BY <1>1, <2>1, <2>2
  <2>3. CASE r = p \/ u = p
    BY <1>1, <2>3
  <2> QED
    BY <1>1, <2>2, <2>3
<1>5. << >> \in DOMAIN t => t[<< >>] = Dir
  BY <1>1 DEF GoodTree, Closed
<1>6. ASSUME NEW r \in DOMAIN t, NEW q \in Paths, IsPrefix(q, r), q # r
      PROVE  q \in DOMAIN t /\ t[q] = Dir
  <2>1. CASE r \in DOMAIN tree
    BY <1>1, <1>6, <2>1, Named
  <2>2. CASE r = p
    <3>1. Len(q) \in Nat /\ Len(p) \in Nat /\ Len(q) <= Len(p) /\ Len(q) # Len(p)
      BY <1>6, <2>2, PathLen, PrefixIs, PrefixOrder
    <3>2. p # << >>
      BY <3>1, PathLen
    <3>3. Front(p) \in Paths /\ Len(Front(p)) = Len(p) - 1 /\ IsPrefix(Front(p), p)
      BY <3>2, FrontIs
    <3>4. IsPrefix(q, Front(p)) \/ IsPrefix(Front(p), q)
      BY <1>6, <2>2, <3>3, PrefixOrder
    <3>5. Len(Front(p)) <= Len(q) => Len(Front(p)) = Len(q)
      BY <3>1, <3>3
    <3>6. IsPrefix(Front(p), q) => Front(p) = q
      BY <3>3, <3>5, PrefixIs, PrefixOrder
    <3>7. IsPrefix(q, Front(p))
      BY <3>3, <3>4, <3>6, PrefixOrder
    <3>8. q \in DOMAIN tree /\ tree[q] = Dir
      BY <3>2, <3>7, Named
    <3> QED
      BY <1>1, <3>8
  <2> QED
    BY <1>1, <2>1, <2>2
<1> QED
  BY <1>1, <1>3, <1>4, <1>5, <1>6, IsGood DEF Grown

(* An entry that is put where it is already changes nothing. *)
LEMMA SameWith ==
  ASSUME GoodTree(tree), NEW p \in DOMAIN tree, NEW t, t = With(tree, {p}, tree[p])
  PROVE  t = tree
<1>1. /\ DOMAIN t = DOMAIN tree \cup {p} /\ t[p] = tree[p] /\ t = [r \in DOMAIN t |-> t[r]]
      /\ \A r \in DOMAIN tree \ {p} : t[r] = tree[r]
  <2>1. Adds(t, tree, {p}, tree[p])
    BY WithIs
  <2> QED
    BY <2>1 DEF Adds
<1>2. DOMAIN t = DOMAIN tree /\ \A r \in DOMAIN tree : t[r] = tree[r]
  BY <1>1
<1>3. tree = [r \in DOMAIN tree |-> tree[r]]
  BY DEF GoodTree, Entered
<1> QED
  BY <1>1, <1>2, <1>3

(* Mkdir: the directory is at its path now, the other entries are as before. *)
LEMMA MkdirGood ==
  ASSUME GoodTree(tree), NEW p \in Paths, MayMkdir(p), NEW t, t = With(tree, {p}, Dir)
  PROVE  Grown(t, p, Dir)
<1>1. CASE p \in DOMAIN tree
  <2>1. tree[p] = Dir
    BY <1>1 DEF MayMkdir, IsDir
  <2>2. t = tree
    BY <1>1, <2>1, SameWith
  <2> QED
    BY <1>1, <2>1, <2>2 DEF Grown
<1>2. CASE p \notin DOMAIN tree
  <2>1. p # << >> => Front(p) \in DOMAIN tree /\ tree[Front(p)] = Dir
    BY <1>2 DEF MayMkdir, IsDir, Exists
  <2>2. NewAt(p, Dir)
    BY <1>2, <2>1 DEF NewAt
  <2> QED
    BY <2>2, NewGood
<1> QED
  BY <1>1, <1>2

(* OpenFile: the file is at its path now, the other entries are as before. *)
Opened(t, p, i) ==
  /\ GoodTree(t) /\ DOMAIN t = DOMAIN tree \cup {p} /\ t[p] = i
  /\ i \in Inos /\ i # Dir /\ Len(p) <= MaxPath
  /\ \A r \in DOMAIN tree : t[r] = tree[r]
  /\ \A r \in DOMAIN tree : tree[r] = i => r = p

LEMMA PutGood ==
  ASSUME GoodTree(tree), MaxPath \in Nat, MaxIno \in Nat, NEW p \in Paths, NEW i \in Opens(p),
         NEW t, t = With(tree, {p}, i)
  PROVE  Opened(t, p, i)
<1>1. CASE IsFile(p)
  <2>1. i = tree[p] /\ p \in DOMAIN tree /\ Len(p) <= MaxPath /\ tree[p] # Dir
    BY <1>1 DEF Opens, IsFile, Exists
  <2>2. t = tree
    BY <2>1, SameWith
  <2>3. \A r \in DOMAIN tree : tree[r] = i => r = p
    BY <2>1 DEF GoodTree, OneName
  <2>4. i \in Inos
    BY <2>1, Named
  <2>5. DOMAIN t = DOMAIN tree \cup {p}
    BY <2>1, <2>2
  <2> QED
    BY <2>1, <2>2, <2>3, <2>4, <2>5 DEF Opened
<1>2. CASE ~IsFile(p)
  <2>1. ~Exists(p) /\ Len(p) \in 1..MaxPath /\ IsDir(Front(p)) /\ Free # {}
    BY <1>2 DEF Opens
  <2>2. i \in Free
    <3>1. i = CHOOSE j \in Free : TRUE
      BY <1>2, <2>1 DEF Opens
    <3> QED
      BY <2>1, <3>1
  <2>3. p \notin DOMAIN tree /\ Len(p) <= MaxPath
    BY <2>1 DEF Exists
  <2>4. i \in Inos /\ \A r \in DOMAIN tree : tree[r] # i
    BY <2>2 DEF Free
  <2>5. i # Dir
    BY <2>4 DEF Inos, Dir
  <2>6. p # << >> /\ Front(p) \in DOMAIN tree /\ tree[Front(p)] = Dir
    BY <2>1, PathLen DEF IsDir, Exists
  <2>8. NewAt(p, i)
    BY <2>3, <2>4, <2>6 DEF NewAt
  <2>7. Grown(t, p, i)
    BY <2>8, NewGood
  <2> QED
    BY <2>3, <2>4, <2>5, <2>7 DEF Opened, Grown
<1> QED
  BY <1>1, <1>2

(* Entries that have none below them are taken away. *)
LEMMA TookGood ==
  ASSUME GoodTree(tree), NEW Q, \A q \in Q : Children(q) = {}, NEW t, t = Without(tree, Q)
  PROVE  /\ GoodTree(t) /\ DOMAIN t = DOMAIN tree \ Q
         /\ \A r \in DOMAIN t : t[r] = tree[r]
<1>1. /\ DOMAIN t = DOMAIN tree \ Q /\ t = [r \in DOMAIN t |-> t[r]]
      /\ \A r \in DOMAIN t : t[r] = tree[r]
  BY DEF Without
<1>2. Entered(t)
  <2>1. IsFiniteSet(DOMAIN t)
    BY <1>1, FS_Subset DEF GoodTree, Entered
  <2>2. \A r \in DOMAIN t : r \in Paths /\ t[r] \in {Dir} \cup Inos
    BY <1>1 DEF GoodTree, Entered
  <2>3. t \in [DOMAIN t -> {Dir} \cup Inos]
    BY <1>1, <2>2
  <2> QED
    BY <2>1, <2>2, <2>3 DEF Entered
<1>3. OneName(t)
  BY <1>1 DEF GoodTree, OneName
<1>4. << >> \in DOMAIN t => t[<< >>] = Dir
  BY <1>1 DEF GoodTree, Closed
<1>5. ASSUME NEW r \in DOMAIN t, NEW q \in Paths, IsPrefix(q, r), q # r
      PROVE  q \in DOMAIN t /\ t[q] = Dir
  <2>1. q \in DOMAIN tree /\ tree[q] = Dir /\ r \in Paths /\ r \in DOMAIN tree
    BY <1>1, <1>5, Named
  <2>2. ASSUME q \in Q PROVE FALSE
    <3>1. PICK c \in Paths : c # << >> /\ Front(c) = q /\ IsPrefix(c, r)
      BY <1>5, <2>1, NextName
    <3>2. c \in DOMAIN tree
      BY <2>1, <3>1, Named
    <3>3. c \in Children(q)
      BY <3>1, <3>2 DEF Children
    <3> QED
      BY <2>2, <3>3
  <2> QED
    BY <1>1, <2>1, <2>2
<1> QED
  BY <1>1, <1>2, <1>3, <1>4, <1>5, IsGood

(* A file has none below it. *)
LEMMA FileAlone ==
  ASSUME GoodTree(tree), NEW p \in DOMAIN tree, tree[p] # Dir
  PROVE  Children(p) = {}
<1> SUFFICES ASSUME NEW c \in Children(p) PROVE FALSE
  OBVIOUS
<1>1. c \in DOMAIN tree /\ c # << >> /\ Front(c) = p /\ c \in Paths
  BY DEF Children, GoodTree, Entered
<1>2. p \in Paths /\ Len(p) = Len(c) - 1 /\ IsPrefix(p, c)
  BY <1>1, FrontIs
<1>3. p # c
  BY <1>1, <1>2, PathLen
<1> QED
  BY <1>1, <1>2, <1>3, Named

(* Rename: what lies below p lies below q. *)
LEMMA RenamedGood ==
  ASSUME GoodTree(tree), MaxPath \in Nat, NEW p \in Paths, NEW q \in Paths, MayRename(p, q),
         NEW t, t = Renamed(p, q)
  PROVE  /\ GoodTree(t) /\ p # << >>
         /\ \A r \in DOMAIN t \ DOMAIN tree : IsPrefix(q, r)
         /\ \A r \in DOMAIN tree \ DOMAIN t : IsPrefix(p, r)
<1> DEFINE moved == {To(p, q, r) : r \in Under(p)}
<1>1. /\ p \in DOMAIN tree /\ Len(q) \in 1..MaxPath
      /\ Front(q) \in DOMAIN tree /\ tree[Front(q)] = Dir
      /\ q \in DOMAIN tree => tree[q] # Dir
      /\ tree[p] = Dir => ~IsPrefix(p, q)
  BY DEF MayRename, Exists, IsDir
<1>2. /\ IsFiniteSet(DOMAIN tree) /\ DOMAIN tree \subseteq Paths
      /\ \A r \in DOMAIN tree : tree[r] \in {Dir} \cup Inos
  BY DEF GoodTree, Entered
<1>3. Under(p) = {r \in DOMAIN tree : IsPrefix(p, r)} /\ Under(p) \subseteq Paths
  BY <1>2 DEF Under
<1>4. \A x \in Under(p) : /\ To(p, q, x) \in Paths /\ IsPrefix(q, To(p, q, x))
                          /\ To(q, p, To(p, q, x)) = x
  BY <1>3, ToIs, ToOrder
<1>5. /\ DOMAIN t = (DOMAIN tree \ Under(p)) \cup moved /\ t = [r \in DOMAIN t |-> t[r]]
      /\ \A r \in moved : t[r] = tree[To(q, p, r)]
      /\ \A r \in DOMAIN t \ moved : t[r] = tree[r] /\ r \in DOMAIN tree /\ ~IsPrefix(p, r)
  <2>1. DOMAIN Without(tree, Under(p)) = DOMAIN tree \ Under(p)
        /\ \A r \in DOMAIN tree \ Under(p) : Without(tree, Under(p))[r] = tree[r]
    BY DEF Without
  <2>2. t = [r \in DOMAIN Without(tree, Under(p)) \cup moved |->
               IF r \in moved THEN tree[To(q, p, r)] ELSE Without(tree, Under(p))[r]]
    BY DEF Renamed, To
  <2>3. \A r \in DOMAIN tree \ Under(p) : ~IsPrefix(p, r)
    BY <1>3
  <2> HIDE DEF moved
  <2> QED
    BY <2>1, <2>2, <2>3
<1>6. \A x \in Under(p) : To(p, q, x) \in moved /\ t[To(p, q, x)] = tree[x]
  BY <1>4, <1>5
<1>7. \A r \in moved : /\ r \in Paths /\ IsPrefix(q, r) /\ To(q, p, r) \in Under(p)
                       /\ r = To(p, q, To(q, p, r)) /\ t[r] = tree[To(q, p, r)]
  BY <1>4, <1>5
<1>8. IsFiniteSet(moved)
  <2> DEFINE f == [r \in Under(p) |-> To(p, q, r)]
  <2>1. IsFiniteSet(Under(p))
    BY <1>2, <1>3, FS_Subset
  <2>2. f \in [Under(p) -> Paths]
    BY <1>4
  <2>3. IsFiniteSet({f[r] : r \in Under(p)})
    <3> HIDE DEF f
    <3> QED
      BY <2>1, <2>2, FiniteImage
  <2>4. {f[r] : r \in Under(p)} = moved
    OBVIOUS
  <2> QED
    BY <2>3, <2>4
<1> HIDE DEF moved
(* Above q there are directories, which stay. *)
<1>9. ASSUME NEW a \in Paths, IsPrefix(a, q), a # q
      PROVE  a \in DOMAIN t /\ t[a] = Dir
  <2>1. q # << >> /\ Len(q) \in Nat /\ Len(a) \in Nat /\ Len(a) <= Len(q) /\ Len(a) # Len(q)
    BY <1>1, <1>9, PathLen, PrefixIs, PrefixOrder
  <2>2. Front(q) = Pre(q, Len(q) - 1) /\ Len(q) - 1 \in 0..Len(q) /\ Len(a) <= Len(q) - 1
    BY <2>1, FrontIs
  <2>3. IsPrefix(a, Front(q))
    BY <1>9, <2>2, PreOrder
  <2>4. a \in DOMAIN tree /\ tree[a] = Dir
    BY <1>1, <2>3, Named
  <2>5. ~IsPrefix(p, a)
    <3>1. CASE tree[p] = Dir
      BY <1>1, <1>2, <1>9, <3>1, PrefixOrder
    <3>2. CASE tree[p] # Dir
      BY <1>1, <1>2, <2>4, <3>2, Named
    <3> QED
      BY <3>1, <3>2
  <2>6. a \notin moved
    BY <1>7, <1>9, PrefixOrder
  <2> QED
    BY <1>3, <1>5, <2>4, <2>5, <2>6
(* Below q there was nothing. *)
<1>10. ASSUME NEW r \in DOMAIN tree, IsPrefix(q, r) PROVE r = q
  BY <1>1, <1>10, Named
<1>11. Entered(t)
  <2>1. IsFiniteSet(DOMAIN tree \ Under(p))
    BY <1>2, FS_Subset
  <2>2. IsFiniteSet((DOMAIN tree \ Under(p)) \cup moved)
    BY <1>8, <2>1, FS_Union
  <2>3. \A r \in DOMAIN t : r \in Paths /\ t[r] \in {Dir} \cup Inos
    BY <1>2, <1>3, <1>5, <1>7
  <2>4. t \in [DOMAIN t -> {Dir} \cup Inos]
    BY <1>5, <2>3
  <2>5. IsFiniteSet(DOMAIN t)
    BY <1>5, <2>2
  <2> QED
    BY <2>3, <2>4, <2>5 DEF Entered
<1>12. OneName(t)
  <2> SUFFICES ASSUME NEW r \in DOMAIN t, NEW u \in DOMAIN t, t[r] = t[u], t[r] # Dir
               PROVE  r = u
    BY DEF OneName
  <2>1. \A x, y \in DOMAIN tree : tree[x] = tree[y] /\ tree[x] # Dir => x = y
    BY DEF GoodTree, OneName
  <2>2. CASE r \in moved /\ u \in moved
    <3>1. To(q, p, r) \in DOMAIN tree /\ To(q, p, u) \in DOMAIN tree
      BY <1>3, <1>7, <2>2
    <3>2. To(q, p, r) = To(q, p, u)
      BY <1>7, <2>1, <2>2, <3>1
    <3> QED
      BY <1>7, <2>2, <3>2
  <2>3. CASE r \in moved /\ u \notin moved
    <3>1. To(q, p, r) \in DOMAIN tree /\ u \in DOMAIN tree /\ ~IsPrefix(p, u) /\ t[u] = tree[u]
      BY <1>3, <1>5, <1>7, <2>3
    <3>2. To(q, p, r) = u
      BY <1>7, <2>1, <2>3, <3>1
    <3> QED
      BY <1>3, <1>7, <2>3, <3>1, <3>2
  <2>4. CASE r \notin moved /\ u \in moved
    <3>1. To(q, p, u) \in DOMAIN tree /\ r \in DOMAIN tree /\ ~IsPrefix(p, r) /\ t[r] = tree[r]
      BY <1>3, <1>5, <1>7, <2>4
    <3>2. To(q, p, u) = r
      BY <1>7, <2>1, <2>4, <3>1
    <3> QED
      BY <1>3, <1>7, <2>4, <3>1, <3>2
  <2>5. CASE r \notin moved /\ u \notin moved
    BY <1>5, <2>1, <2>5
  <2> QED
    BY <2>2, <2>3, <2>4, <2>5
<1>13. << >> \in DOMAIN t => t[<< >>] = Dir
  <2>1. << >> \in Paths /\ IsPrefix(<< >>, q) /\ << >> # q
    BY <1>1, PathLen, PrefixOrder
  <2> QED
    BY <1>9, <2>1
<1>14. ASSUME NEW r \in DOMAIN t, NEW a \in Paths, IsPrefix(a, r), a # r
       PROVE  a \in DOMAIN t /\ t[a] = Dir
  <2>1. CASE r \in moved
    <3>1. r \in Paths /\ IsPrefix(q, r)
      BY <1>7, <2>1
    <3>2. CASE IsPrefix(a, q) /\ a # q
      BY <1>9, <3>2
    <3>3. CASE ~(IsPrefix(a, q) /\ a # q)
      <4>1. IsPrefix(q, a)
        BY <1>14, <3>1, <3>3, PrefixOrder
      <4>2. PICK x \in Under(p) : x = To(q, p, r) /\ r = To(p, q, x)
        BY <1>7, <2>1
      <4>3. x \in Paths /\ x \in DOMAIN tree /\ IsPrefix(p, x)
        BY <1>3, <4>2
      <4>4. PICK n \in Nat : n = Len(a)
        BY PathLen
      <4>5. n \in Len(q)..Len(r) /\ a = Pre(r, n) /\ n # Len(r)
        BY <1>14, <3>1, <4>1, <4>4, PrefixIs, PathLen, PrefixOrder
      <4>6. PICK m \in Nat : m = n - Len(q) + Len(p)
        <5>1. Len(q) \in Nat /\ Len(p) \in Nat /\ Len(q) <= n
          BY <4>5, PathLen
        <5>2. n - Len(q) + Len(p) \in Nat
          BY <5>1
        <5> QED
          BY <5>2
      <4>7. m \in Len(p)..Len(x) /\ IsPrefix(p, Pre(x, m)) /\ Pre(r, n) = To(p, q, Pre(x, m))
        <5>1. n \in Len(q)..Len(To(p, q, x))
          BY <4>2, <4>5
        <5>2. /\ m \in Len(p)..Len(x) /\ IsPrefix(p, Pre(x, m))
              /\ Pre(To(p, q, x), n) = To(p, q, Pre(x, m))
          BY <4>3, <4>6, <5>1, ToPre
        <5> QED
          BY <4>2, <5>2
      <4>8. m # Len(x) /\ m \in 0..Len(x)
        <5>3. Follows(r, p, q, x)
          BY <4>2, <4>3, ToIs
        <5>1. Len(r) = Len(q) + (Len(x) - Len(p))
          BY <5>3 DEF Follows
        <5>2. Len(q) \in Nat /\ Len(p) \in Nat /\ Len(x) \in Nat
          BY <4>3, PathLen
        <5> QED
          BY <4>5, <4>6, <4>7, <5>1, <5>2
      <4>9. Pre(x, m) \in Paths /\ Len(Pre(x, m)) = m /\ IsPrefix(Pre(x, m), x)
        BY <4>3, <4>8, PreIs, PreOrder
      <4>10. Pre(x, m) \in DOMAIN tree /\ tree[Pre(x, m)] = Dir
        <5>1. Pre(x, m) # x
          BY <4>8, <4>9
        <5> QED
          BY <4>3, <4>9, <5>1, Named
      <4>11. Pre(x, m) \in Under(p)
        BY <1>3, <4>7, <4>10
      <4> QED
        BY <1>5, <1>6, <4>5, <4>7, <4>10, <4>11
    <3> QED
      BY <3>2, <3>3
  <2>2. CASE r \notin moved
    <3>1. r \in DOMAIN tree /\ ~IsPrefix(p, r) /\ r \in Paths
      BY <1>2, <1>5, <2>2
    <3>2. a \in DOMAIN tree /\ tree[a] = Dir
      BY <1>14, <3>1, Named
    <3>3. ~IsPrefix(p, a)
      BY <1>14, <3>1, PrefixOrder
    <3>4. a \notin moved
      <4>1. ASSUME IsPrefix(q, a) PROVE FALSE
        <5>1. IsPrefix(q, r)
          BY <1>14, <3>1, <4>1, PrefixOrder
        <5>2. r = q /\ a = q
          BY <1>10, <3>1, <3>2, <4>1, <5>1
        <5> QED
          BY <1>14, <5>2
      <4> QED
        BY <1>7, <4>1
    <3> QED
      BY <1>3, <1>5, <3>2, <3>3, <3>4
  <2> QED
    BY <2>1, <2>2
<1>15. p # << >>
  BY <1>1, PrefixOrder DEF GoodTree, Closed
<1>16. \A r \in DOMAIN t \ DOMAIN tree : IsPrefix(q, r)
  BY <1>5, <1>7
<1>17. \A r \in DOMAIN tree \ DOMAIN t : IsPrefix(p, r)
  BY <1>3, <1>5
<1>18. GoodTree(t)
  BY <1>11, <1>12, <1>13, <1>14, IsGood
<1> QED
  BY <1>15, <1>16, <1>17, <1>18

(* What is below a path that is moved is there no more. *)
LEMMA Swept ==
  ASSUME GoodTree(tree), MaxPath \in Nat, NEW p \in Paths, NEW q \in Paths, MayRename(p, q),
         p # q, NEW t, t = Renamed(p, q), NEW d \in Paths, IsPrefix(p, d)
  PROVE  d \notin DOMAIN t
<1> DEFINE moved == {To(p, q, r) : r \in Under(p)}
<1>1. /\ p \in DOMAIN tree /\ Len(q) \in 1..MaxPath
      /\ Front(q) \in DOMAIN tree /\ tree[Front(q)] = Dir
      /\ q \in DOMAIN tree => tree[q] # Dir
      /\ tree[p] = Dir => q \notin DOMAIN tree /\ ~IsPrefix(p, q)
  BY DEF MayRename, Exists, IsDir
<1>2. Under(p) = {r \in DOMAIN tree : IsPrefix(p, r)} /\ Under(p) \subseteq Paths
  BY DEF Under, GoodTree, Entered
<1>3. DOMAIN t = (DOMAIN tree \ Under(p)) \cup moved
  BY DEF Renamed, To, Without
<1>4. \A r \in moved : r \in Paths /\ IsPrefix(q, r)
  BY <1>2, ToIs, ToOrder
<1> HIDE DEF moved
<1>5. ~IsPrefix(p, q)
  <2>1. CASE tree[p] = Dir
    BY <1>1, <2>1
  <2>2. CASE tree[p] # Dir
    <3>1. q # << >> /\ Front(q) \in Paths /\ Len(Front(q)) = Len(q) - 1 /\ Len(q) \in Nat
      BY <1>1, FrontIs, PathLen
    <3>2. ASSUME IsPrefix(p, q) PROVE FALSE
      <4>1. Len(p) \in Nat /\ Len(p) <= Len(q) /\ Len(p) # Len(q)
        BY <3>2, PathLen, PrefixIs, PrefixOrder
      <4>2. Front(q) = Pre(q, Len(q) - 1) /\ Len(q) - 1 \in 0..Len(q) /\ Len(p) <= Len(q) - 1
        BY <3>1, <4>1, FrontIs
      <4>3. IsPrefix(p, Front(q))
        BY <3>2, <4>2, PreOrder
      <4>4. p = Front(q)
        BY <1>1, <2>2, <4>3, Named
      <4> QED
        BY <1>1, <2>2, <4>4
    <3> QED
      BY <3>2
  <2> QED
    BY <2>1, <2>2
<1>6. ASSUME d \in moved PROVE FALSE
  <2>1. IsPrefix(q, p)
    BY <1>4, <1>5, <1>6, PrefixOrder
  <2>2. q \in DOMAIN tree /\ tree[q] = Dir
    BY <1>1, <2>1, Named
  <2> QED
    BY <1>1, <2>2
<1> QED
  BY <1>2, <1>3, <1>6

-----------------------------------------------------------------------------
(* The contents of files.                                                  *)

(* The first n chunks of a sequence of chunks. *)
LEMMA FirstChunks ==
  ASSUME NEW w \in Seq(Chunks), NEW n \in 0..Len(w)
  PROVE  /\ Pre(w, n) \in Seq(Chunks) /\ Len(Pre(w, n)) = n
         /\ \A i \in 1..n : Pre(w, n)[i] = w[i]
         /\ Pre(w, 0) = << >> /\ Pre(w, Len(w)) = w
<1>1. Len(w) \in Nat /\ \A i \in 1..Len(w) : w[i] \in Chunks
  BY LenProperties, ElementOfSeq
<1>2. ASSUME NEW k \in 0..Len(w)
      PROVE  /\ Pre(w, k) \in Seq(Chunks) /\ Len(Pre(w, k)) = k
             /\ \A i \in 1..k : Pre(w, k)[i] = w[i]
  <2>1. k \in Int /\ 1 \in Int /\ \A i \in 1..k : w[i] \in Chunks
    BY <1>1
  <2> QED
    BY <2>1, SubSeqProperties DEF Pre
<1>3. Pre(w, 0) = << >>
  BY SubSeqEmpty DEF Pre
<1>4. Pre(w, Len(w)) = w
  BY <1>1, <1>2, SeqEqual
<1> QED
  BY <1>2, <1>3, <1>4

LEMMA WriteTyped ==
  ASSUME NEW w \in Seq(Chunks), NEW n \in Nat, NEW c \in Chunks
  PROVE  WriteAt(w, n, c) \in Seq(Chunks)
<1>1. Len(w) \in Nat /\ \A i \in 1..Len(w) : w[i] \in Chunks
  BY LenProperties, ElementOfSeq
<1>2. PICK m \in Nat : m = IF Len(w) > n THEN Len(w) ELSE n + 1
  BY <1>1
<1>3. WriteAt(w, n, c) =
        [k \in 1..m |-> IF k = n + 1 THEN c ELSE IF k <= Len(w) THEN w[k] ELSE Hole]
  BY <1>2 DEF WriteAt
<1>4. Hole \in Chunks
  BY DEF Chunks
<1>5. [k \in 1..m |-> IF k = n + 1 THEN c ELSE IF k <= Len(w) THEN w[k] ELSE Hole]
        \in [1..m -> Chunks]
  BY <1>1, <1>4
<1> QED
  BY <1>3, <1>5, SeqDef

(* Written at its end, the start of a file becomes a longer start of it. *)
LEMMA WriteNext ==
  ASSUME NEW w \in Seq(Chunks), NEW n \in 0..(Len(w) - 1)
  PROVE  WriteAt(Pre(w, n), n, w[n + 1]) = Pre(w, n + 1)
<1>1. Len(w) \in Nat /\ n \in Nat /\ n \in 0..Len(w) /\ n + 1 \in 0..Len(w) /\ n + 1 \in 1..Len(w)
  BY LenProperties
<1>2. w[n + 1] \in Chunks
  BY <1>1, ElementOfSeq
<1>3. PICK u \in Seq(Chunks) : u = Pre(w, n)
  BY <1>1, FirstChunks
<1>4. Len(u) = n /\ \A i \in 1..n : u[i] = w[i]
  BY <1>1, <1>3, FirstChunks
<1>5. PICK v \in Seq(Chunks) : v = Pre(w, n + 1)
  BY <1>1, FirstChunks
<1>6. Len(v) = n + 1 /\ \A i \in 1..(n + 1) : v[i] = w[i]
  BY <1>1, <1>5, FirstChunks
<1>7. PICK x \in Seq(Chunks) : x = WriteAt(u, n, w[n + 1])
  BY <1>1, <1>2, WriteTyped
<1>8. x = [k \in 1..(n + 1) |-> IF k = n + 1 THEN w[n + 1] ELSE IF k <= n THEN u[k] ELSE Hole]
  BY <1>1, <1>4, <1>7 DEF WriteAt
<1>9. DOMAIN x = 1..(n + 1) /\ \A k \in 1..(n + 1) : x[k] = v[k]
  BY <1>1, <1>4, <1>6, <1>8
<1>10. Len(x) = n + 1
  BY <1>1, <1>9, LenProperties
<1>11. x = v
  BY <1>6, <1>9, <1>10, SeqEqual
<1> QED
  BY <1>3, <1>5, <1>7, <1>11

(* The disk keeps the chunks of the files that have a name or are open. *)
LEMMA DiskIs ==
  ASSUME NEW t, NEW d, GoodData(d), Disk(t, d)
  PROVE  /\ tree' = t /\ GoodData(data')
         /\ \A p \in DOMAIN t : t[p] \in Inos => data'[t[p]] = d[t[p]]
         /\ \A s \in Sessions : from'[s] \in Inos => data'[from'[s]] = d[from'[s]]
         /\ \A s \in Sessions : to'[s] \in Inos => data'[to'[s]] = d[to'[s]]
<1>1. PICK named : named = {i \in Inos : \/ \E p \in DOMAIN t : t[p] = i
                                         \/ \E s \in Sessions : i \in {from'[s], to'[s]}}
  OBVIOUS
<1>2. tree' = t /\ data' = [i \in Inos |-> IF i \in named THEN d[i] ELSE << >>]
  BY <1>1 DEF Disk
<1>3. << >> \in Seq(Chunks)
  BY EmptySeq
<1>4. GoodData(data')
  BY <1>2, <1>3 DEF GoodData
<1>5. \A i \in named : i \in Inos => data'[i] = d[i]
  BY <1>2
<1> QED
  BY <1>1, <1>2, <1>4, <1>5

-----------------------------------------------------------------------------
(* What a step of s does to the disk.                                      *)

(* It reaches what the request of s names, and no more. *)
Reaches(s) ==
  /\ \A p \in DOMAIN tree' \ DOMAIN tree : MayAdd(s, p)
  /\ \A p \in DOMAIN tree \ DOMAIN tree' : MayTake(s, p)
  /\ \A p \in DOMAIN tree \cap DOMAIN tree' :
       tree'[p] = tree[p] /\ tree[p] # Dir /\ data'[tree[p]] # data[tree[p]] =>
         tree[p] \in {to[s], to'[s]}
DiskStep(s) == GoodTree(tree') /\ GoodData(data') /\ Reaches(s)

(* The types of what one handler has in hand. *)
LEMMA InHand ==
  ASSUME HandlersOK, NEW s \in Sessions
  PROVE  /\ req[s] \in Requests /\ req[s].src \in Paths /\ req[s].dst \in Paths
         /\ Here(s) = req[s].dst /\ Here(s) \in Paths
         /\ cwd[s] \in Paths /\ pc[s] \in Pcs /\ todo[s] \in Seq(Pending)
         /\ from[s] \in 0..MaxIno /\ to[s] \in 0..MaxIno /\ off[s] \in Nat
         /\ from[s] # 0 => from[s] \in Inos
         /\ to[s] # 0 => to[s] \in Inos
<1>1. req[s] \in Requests
  BY DEF HandlersOK
<1>2. req[s].src \in Paths /\ req[s].dst \in Paths
  BY <1>1 DEF Requests
<1>3. /\ cwd[s] \in Paths /\ pc[s] \in Pcs /\ todo[s] \in Seq(Pending)
      /\ from[s] \in 0..MaxIno /\ to[s] \in 0..MaxIno /\ off[s] \in Nat
  BY DEF HandlersOK
<1>4. /\ from[s] # 0 => from[s] \in Inos
      /\ to[s] # 0 => to[s] \in Inos
  BY <1>3, OpsAssumption DEF Inos
<1> QED
  BY <1>1, <1>2, <1>3, <1>4 DEF Here

(* The call a copy makes next. *)
LEMMA NextCall ==
  ASSUME HandlersOK, NEW s \in Sessions, TodoAt(s), todo[s] # << >>
  PROVE  \E x \in Paths, y \in Paths :
           /\ Head(todo[s])[1] = x /\ Head(todo[s])[2] = y
           /\ todo[s][1][1] = x /\ todo[s][1][2] = y /\ 1 \in DOMAIN todo[s]
           /\ IsPrefix(req[s].src, x) /\ IsPrefix(req[s].dst, y)
           /\ y = To(req[s].src, req[s].dst, x)
<1>1. todo[s] \in Seq(Pending) /\ req[s].src \in Paths /\ req[s].dst \in Paths
  BY InHand
<1>2. Len(todo[s]) \in Nat \ {0} /\ DOMAIN todo[s] = 1..Len(todo[s])
  BY <1>1, EmptySeq, LenProperties
<1>3. 1 \in DOMAIN todo[s] /\ 1 \in 1..Len(todo[s])
  BY <1>2
<1>4. todo[s][1] \in Pending
  BY <1>1, <1>3, ElementOfSeq
<1>5. Head(todo[s]) = todo[s][1]
  BY <1>1
<1>6. PICK x \in Paths, y \in Paths : todo[s][1][1] = x /\ todo[s][1][2] = y
  BY <1>4 DEF Pending
<1>7. IsPrefix(req[s].src, x) /\ y = To(req[s].src, req[s].dst, x)
  BY <1>3, <1>6 DEF TodoAt, CallAt
<1>8. IsPrefix(req[s].dst, y)
  BY <1>1, <1>7, ToOrder
<1> QED
  BY <1>3, <1>5, <1>6, <1>7, <1>8

(* Steps that change the tree where s may, and only the file s has open. *)
LEMMA DiskKeeps ==
  ASSUME GoodTree(tree), GoodData(data), NEW s \in Sessions,
         NEW t, GoodTree(t), NEW d, GoodData(d), Disk(t, d),
         \A j \in Inos \ {to[s], to'[s]} : d[j] = data[j],
         \A p \in DOMAIN t \ DOMAIN tree : MayAdd(s, p),
         \A p \in DOMAIN tree \ DOMAIN t : MayTake(s, p)
  PROVE  DiskStep(s)
<1>1. /\ tree' = t /\ GoodData(data')
      /\ \A p \in DOMAIN t : t[p] \in Inos => data'[t[p]] = d[t[p]]
  BY DiskIs
<1>2. ASSUME NEW p \in DOMAIN tree \cap DOMAIN t,
             t[p] = tree[p], tree[p] # Dir, data'[tree[p]] # data[tree[p]]
      PROVE  tree[p] \in {to[s], to'[s]}
  <2>1. tree[p] \in Inos
    BY <1>2, Named
  <2> QED
    BY <1>1, <1>2, <2>1
<1> QED
  BY <1>1, <1>2 DEF DiskStep, Reaches

(* Steps that leave the disk alone, or only close a file. *)
LEMMA DiskRests ==
  ASSUME GoodTree(tree), GoodData(data), NEW s \in Sessions,
         UNCHANGED disk \/ Disk(tree, data)
  PROVE  DiskStep(s)
<1>1. CASE UNCHANGED disk
  BY <1>1 DEF disk, DiskStep, Reaches
<1>2. CASE Disk(tree, data)
  BY <1>2, DiskKeeps
<1> QED
  BY <1>1, <1>2

(* O_TRUNC. *)
LEMMA EmptiedGood ==
  ASSUME GoodData(data), NEW i \in Inos
  PROVE  /\ GoodData([data EXCEPT ![i] = << >>])
         /\ [data EXCEPT ![i] = << >>][i] = << >>
         /\ \A j \in Inos : j # i => [data EXCEPT ![i] = << >>][j] = data[j]
<1>1. << >> \in Seq(Chunks)
  BY EmptySeq
<1> QED
  BY <1>1 DEF GoodData

(* The disk as d, with one chunk written. *)
Wrote(d, i, n, c) ==
  /\ GoodData(d) /\ d[i] = WriteAt(data[i], n, c)
  /\ \A j \in Inos : j # i => d[j] = data[j]

LEMMA WrittenGood ==
  ASSUME GoodData(data), NEW i \in Inos, NEW n \in Nat, NEW c \in Chunks
  PROVE  Wrote([data EXCEPT ![i] = WriteAt(@, n, c)], i, n, c)
<1>1. data[i] \in Seq(Chunks)
  BY DEF GoodData
<1>2. WriteAt(data[i], n, c) \in Seq(Chunks)
  BY <1>1, WriteTyped
<1> QED
  BY <1>2 DEF GoodData, Wrote

(* The innermost of the directories a delete has open. *)
LEMMA TopIs ==
  ASSUME dirs \in [Sessions -> Frames], NEW s \in Sessions, dirs[s] # << >>
  PROVE  \E n \in Nat \ {0}, D \in SUBSET Paths, ns \in Seq(Names) :
           /\ Len(dirs[s]) = n /\ DOMAIN dirs[s] = 1..n
           /\ dirs[s][n].dir = D /\ dirs[s][n].left = ns
           /\ Top(s).dir = D /\ Top(s).left = ns
           /\ ns # << >> => Head(ns) \in Names
<1>1. PICK h \in Seq(Frame) : h = dirs[s] /\ h # << >>
  BY DEF Frames
<1>2. PICK n \in Nat : n = Len(h) /\ DOMAIN h = 1..n
  BY <1>1, LenProperties
<1>3. n # 0 /\ n \in 1..n
  BY <1>1, <1>2, EmptySeq
<1>4. h[n] \in Frame
  BY <1>2, <1>3, ElementOfSeq
<1>5. PICK D \in SUBSET Paths, ns \in Seq(Names) : h[n].dir = D /\ h[n].left = ns
  BY <1>4 DEF Frame
<1>6. ns # << >> => Head(ns) \in Names
  BY HeadTailProperties
<1>7. Top(s).dir = D /\ Top(s).left = ns
  BY <1>1, <1>2, <1>5 DEF Top
<1> QED
  BY <1>1, <1>2, <1>3, <1>5, <1>6, <1>7

(* An entry a delete is at is there, and its to take. *)
LEMMA EntryTaken ==
  ASSUME HandlersOK, dirs \in [Sessions -> Frames], NEW s \in Sessions, HeldAt(s),
         pc[s] \in AtPcs, Top(s).left # << >>, NEW p \in Entry(s)
  PROVE  p \in DOMAIN tree /\ p \in Paths /\ MayTake(s, p)
<1>1. Lefts(req[s].dst, pc[s], dirs[s]) /\ dirs[s] # << >>
  BY DEF HeldAt, Lefts
<1>2. PICK n \in Nat \ {0}, D \in SUBSET Paths, ns \in Seq(Names) :
           /\ Len(dirs[s]) = n /\ DOMAIN dirs[s] = 1..n
           /\ dirs[s][n].dir = D /\ dirs[s][n].left = ns
           /\ Top(s).dir = D /\ Top(s).left = ns
           /\ ns # << >> => Head(ns) \in Names
  BY <1>1, TopIs
<1>3. PICK d \in D : p = Append(d, Head(ns)) /\ p \in DOMAIN tree
  BY <1>2 DEF Entry
<1>4. PICK x \in Names : x = Head(ns)
  BY <1>2
<1>5. d \in Paths /\ p = Append(d, x)
  BY <1>3, <1>4
<1>6. p \in Paths /\ IsPrefix(d, p) /\ p # d
  <2>1. Len(p) = Len(d) + 1 /\ p \in Paths /\ IsPrefix(d, p)
    BY <1>5, AppendIs
  <2> QED
    BY <1>5, <2>1, PathLen
<1>7. n \in DOMAIN dirs[s] /\ d \in dirs[s][n].dir
  BY <1>2
<1>8. CASE n = 1
  <2>1. ns = <<Last(req[s].dst)>>
    BY <1>1, <1>2, <1>8 DEF Lefts
  <2>2. x = Last(req[s].dst)
    BY <1>4, <2>1
  <2>3. IsPrefix(Append(d, Last(req[s].dst)), p)
    BY <1>5, <1>6, <2>2, PrefixOrder
  <2> QED
    BY <1>3, <1>6, <1>7, <1>8, <2>3 DEF MayTake
<1>9. CASE n # 1
  BY <1>3, <1>6, <1>7, <1>9 DEF MayTake
<1> QED
  BY <1>8, <1>9

(* What MkdirAll is to make, and what lies on the way. *)
LEMMA GoalIs ==
  ASSUME HandlersOK, NEW s \in Sessions, Hand(s), pc[s] \in {"stat", "mkdir"}, ~AboveRoot(s)
  PROVE  \E g \in Paths :
           /\ Goal(s) = g /\ \A r \in Paths : IsPrefix(r, g) => MayAdd(s, r)
           /\ req[s].op = "copy" => g = todo[s][1][2]
<1>1. /\ req[s].op \in {"mkdir", "upload", "copy"} /\ req[s].dst \in Paths
      /\ Here(s) = req[s].dst
  BY InHand DEF Hand, OpAt
<1>2. CASE req[s].op = "mkdir"
  BY <1>1, <1>2 DEF Goal, MayAdd
<1>3. CASE req[s].op = "upload"
  <2>1. Here(s) # << >>
    BY <1>3 DEF AboveRoot
  <2>2. PICK g \in Paths : g = Front(Here(s)) /\ IsPrefix(g, Here(s))
    BY <1>1, <2>1, FrontIs
  <2>3. Goal(s) = g
    BY <1>3, <2>2 DEF Goal
  <2>4. \A r \in Paths : IsPrefix(r, g) => IsPrefix(r, req[s].dst)
    BY <1>1, <2>2, PrefixOrder
  <2> QED
    BY <1>3, <2>3, <2>4 DEF MayAdd
<1>4. CASE req[s].op = "copy"
  <2>1. todo[s] # << >> /\ TodoAt(s)
    BY <1>4 DEF Hand, TodoAt, CopyPcs
  <2>2. PICK g \in Paths : Head(todo[s])[2] = g /\ todo[s][1][2] = g /\ IsPrefix(req[s].dst, g)
    BY <2>1, NextCall
  <2>3. Goal(s) = g
    BY <1>4, <2>2 DEF Goal
  <2>4. \A r \in Paths : IsPrefix(r, g) => IsPrefix(r, req[s].dst) \/ IsPrefix(req[s].dst, r)
    BY <1>1, <2>2, PrefixOrder
  <2> QED
    BY <1>4, <2>2, <2>3, <2>4 DEF MayAdd, TwoPaths
<1> QED
  BY <1>1, <1>2, <1>3, <1>4

LEMMA MkdirDisk ==
  ASSUME StepInv, NEW s \in Sessions, Mkdir(s)
  PROVE  DiskStep(s)
<1>1. GoodTree(tree) /\ GoodData(data) /\ HandlersOK /\ Hand(s)
  BY DEF StepInv
<1>2. pc[s] = "mkdir" /\ ~AboveRoot(s) /\ off[s] <= Len(Goal(s)) /\ off[s] \in Nat
  BY <1>1, InHand DEF Mkdir, Hand, MkdirAt
<1>3. PICK g \in Paths : Goal(s) = g /\ \A r \in Paths : IsPrefix(r, g) => MayAdd(s, r)
  BY <1>1, <1>2, GoalIs
<1>4. off[s] \in 0..Len(g)
  BY <1>2, <1>3, PathLen
<1>5. PICK p \in Paths : p = Upto(s, off[s]) /\ IsPrefix(p, g)
  BY <1>3, <1>4, PreIs, PreOrder DEF Upto, Pre
<1>6. UNCHANGED disk \/ (MayMkdir(p) /\ Disk(With(tree, {p}, Dir), data))
  BY <1>5 DEF Mkdir
<1>7. CASE MayMkdir(p) /\ Disk(With(tree, {p}, Dir), data)
  <2>1. PICK t : t = With(tree, {p}, Dir)
    OBVIOUS
  <2>2. Grown(t, p, Dir)
    BY <1>1, <1>7, <2>1, MkdirGood
  <2>3. \A r \in DOMAIN t \ DOMAIN tree : MayAdd(s, r)
    BY <1>3, <1>5, <2>2 DEF Grown
  <2>4. GoodTree(t) /\ DOMAIN tree \subseteq DOMAIN t
    BY <2>2 DEF Grown
  <2>5. Disk(t, data)
    BY <1>7, <2>1
  <2> QED
    BY <1>1, <2>3, <2>4, <2>5, DiskKeeps
<1> QED
  BY <1>1, <1>6, <1>7, DiskRests

LEMMA MoveDisk ==
  ASSUME StepInv, NEW s \in Sessions, Move(s)
  PROVE  DiskStep(s)
<1>1. GoodTree(tree) /\ GoodData(data) /\ HandlersOK
  BY DEF StepInv
<1>2. PICK p \in Paths, q \in Paths : p = req[s].src /\ q = req[s].dst
  BY <1>1, InHand
<1>3. UNCHANGED disk \/ (MayRename(p, q) /\ Disk(Renamed(p, q), data))
  BY <1>2 DEF Move
<1>4. CASE MayRename(p, q) /\ Disk(Renamed(p, q), data)
  <2>1. PICK t : t = Renamed(p, q)
    OBVIOUS
  <2>2. /\ GoodTree(t) /\ p # << >>
        /\ \A r \in DOMAIN t \ DOMAIN tree : IsPrefix(q, r)
        /\ \A r \in DOMAIN tree \ DOMAIN t : IsPrefix(p, r)
    BY <1>1, <1>4, <2>1, OpsAssumption, RenamedGood
  <2>3. req[s].op = "move"
    BY DEF Move
  <2>4. \A r \in DOMAIN t \ DOMAIN tree : MayAdd(s, r)
    BY <1>2, <2>2, <2>3 DEF MayAdd, TwoPaths
  <2>5. \A r \in DOMAIN tree \ DOMAIN t : MayTake(s, r)
    <3>1. \A r \in Paths : IsPrefix(p, r) => r # << >>
      BY <2>2, PathLen, PrefixIs
    <3>2. DOMAIN tree \subseteq Paths
      BY <1>1 DEF GoodTree, Entered
    <3> QED
      BY <1>2, <2>2, <2>3, <3>1, <3>2 DEF MayTake
  <2>6. Disk(t, data)
    BY <1>4, <2>1
  <2> QED
    BY <1>1, <2>2, <2>4, <2>5, <2>6, DiskKeeps
<1> QED
  BY <1>1, <1>3, <1>4, DiskRests

(* Entries that have none below them, and are its to take, are taken away. *)
LEMMA TakeStep ==
  ASSUME GoodTree(tree), GoodData(data), NEW s \in Sessions, NEW Q,
         \A q \in Q : Children(q) = {} /\ (q \in DOMAIN tree => MayTake(s, q)),
         Disk(Without(tree, Q), data)
  PROVE  DiskStep(s)
<1>1. PICK t : t = Without(tree, Q)
  OBVIOUS
<1>2. GoodTree(t) /\ DOMAIN t = DOMAIN tree \ Q
  BY <1>1, TookGood
<1>3. Disk(t, data)
  BY <1>1
<1> QED
  BY <1>2, <1>3, DiskKeeps

LEMMA CleanupDisk ==
  ASSUME StepInv, NEW s \in Sessions, Cleanup(s)
  PROVE  DiskStep(s)
<1>1. GoodTree(tree) /\ GoodData(data) /\ HandlersOK /\ Hand(s)
  BY DEF StepInv
<1>2. pc[s] = "cleanup"
  BY DEF Cleanup, Goes
<1>3. PICK p \in Paths : p = Here(s) /\ p = req[s].dst
  BY <1>1, InHand
<1>4. MayTake(s, p)
  BY <1>1, <1>2, <1>3 DEF Hand, OpAt, MayTake
<1>5. UNCHANGED disk \/ (Children(p) = {} /\ Disk(Without(tree, {p}), data))
  BY <1>3 DEF Cleanup
<1> QED
  BY <1>1, <1>4, <1>5, TakeStep, DiskRests

(* The path of a delete is its to take. *)
LEMMA PathTaken ==
  ASSUME HandlersOK, NEW s \in Sessions, Hand(s), pc[s] \in PathPcs
  PROVE  Here(s) \in Paths /\ MayTake(s, Here(s))
<1>1. req[s].op = "delete" /\ req[s].src = req[s].dst /\ req[s].src # << >>
  BY DEF Hand, OpAt, TwoPaths
<1>2. Here(s) \in Paths /\ Here(s) = req[s].src
  BY <1>1, InHand
<1>3. IsPrefix(req[s].src, Here(s))
  BY <1>2, PrefixOrder
<1> QED
  BY <1>1, <1>2, <1>3 DEF MayTake

LEMMA PathDisk ==
  ASSUME StepInv, NEW s \in Sessions, Unlink(s) \/ Rmdir(s, "noentry") \/ Rmdir(s, "rmdir")
  PROVE  DiskStep(s)
<1>1. GoodTree(tree) /\ GoodData(data) /\ HandlersOK /\ Hand(s)
  BY DEF StepInv
<1>2. pc[s] \in PathPcs
  BY DEF Unlink, Rmdir, PathPcs
<1>3. PICK p \in Paths : p = Here(s) /\ MayTake(s, p)
  BY <1>1, <1>2, PathTaken
<1>4. UNCHANGED disk \/ (Children(p) = {} /\ Disk(Without(tree, {p}), data))
  <2>1. IsFile(p) => Children(p) = {}
    BY <1>1, FileAlone DEF IsFile, Exists
  <2>2. CASE Unlink(s)
    BY <1>3, <2>1, <2>2 DEF Unlink
  <2>3. CASE Rmdir(s, "noentry") \/ Rmdir(s, "rmdir")
    BY <1>3, <2>3 DEF Rmdir, disk
  <2> QED
    BY <2>2, <2>3
<1> QED
  BY <1>1, <1>3, <1>4, TakeStep, DiskRests

LEMMA AtDisk ==
  ASSUME StepInv, NEW s \in Sessions, Unlinkat(s) \/ Rmdirat(s)
  PROVE  DiskStep(s)
<1>1. /\ GoodTree(tree) /\ GoodData(data) /\ HandlersOK /\ HeldAt(s)
      /\ dirs \in [Sessions -> Frames]
  BY DEF StepInv
<1>2. pc[s] \in AtPcs /\ Top(s).left # << >>
  <2>1. CASE Unlinkat(s)
    BY <2>1 DEF Unlinkat, AtPcs
  <2>2. CASE Rmdirat(s)
    <3>1. Lefts(req[s].dst, pc[s], dirs[s]) /\ pc[s] = "rmdirat"
      BY <1>1, <2>2 DEF Rmdirat, HeldAt, AtPcs
    <3>2. dirs[s] # << >>
      BY <3>1 DEF Lefts
    <3>3. PICK n \in Nat \ {0} : Len(dirs[s]) = n
      BY <1>1, <3>2, TopIs
    <3>4. dirs[s][n].left # << >>
      BY <3>1, <3>3 DEF Lefts
    <3> QED
      BY <3>1, <3>3, <3>4 DEF Top, AtPcs
  <2> QED
    BY <2>1, <2>2
<1>3. \A p \in Entry(s) : p \in DOMAIN tree /\ MayTake(s, p)
  BY <1>1, <1>2, EntryTaken
<1>4. UNCHANGED disk \/ ((\A p \in Entry(s) : Children(p) = {}) /\ Disk(Without(tree, Entry(s)), data))
  <2>1. CASE Unlinkat(s)
    <3>1. UNCHANGED disk \/ ((\A p \in Entry(s) : tree[p] # Dir) /\ Disk(Without(tree, Entry(s)), data))
      BY <2>1 DEF Unlinkat, EntryIsDir
    <3>2. \A p \in Entry(s) : tree[p] # Dir => Children(p) = {}
      BY <1>1, <1>3, FileAlone
    <3> QED
      BY <3>1, <3>2
  <2>2. CASE Rmdirat(s)
    BY <2>2 DEF Rmdirat
  <2> QED
    BY <2>1, <2>2
<1>5. PICK Q : Q = Entry(s)
  OBVIOUS
<1>6. UNCHANGED disk \/ ((\A p \in Q : Children(p) = {}) /\ Disk(Without(tree, Q), data))
  BY <1>4, <1>5
<1>7. \A p \in Q : MayTake(s, p)
  BY <1>3, <1>5
<1> QED
  BY <1>1, <1>6, <1>7, TakeStep, DiskRests

(* A file is opened, and emptied, at a path s may add. *)
LEMMA OpenStep ==
  ASSUME GoodTree(tree), GoodData(data), NEW s \in Sessions, NEW p \in Paths, NEW i \in Opens(p),
         to'[s] = i, Disk(With(tree, {p}, i), [data EXCEPT ![i] = << >>]), MayAdd(s, p)
  PROVE  DiskStep(s)
<1>1. PICK t : t = With(tree, {p}, i)
  OBVIOUS
<1>2. GoodTree(t) /\ DOMAIN t = DOMAIN tree \cup {p} /\ i \in Inos
  <2>1. Opened(t, p, i)
    BY <1>1, OpsAssumption, PutGood
  <2> QED
    BY <2>1 DEF Opened
<1>3. PICK d : d = [data EXCEPT ![i] = << >>]
  OBVIOUS
<1>4. GoodData(d) /\ \A j \in Inos : j # i => d[j] = data[j]
  BY <1>2, <1>3, EmptiedGood
<1>5. Disk(t, d)
  BY <1>1, <1>3
<1> QED
  BY <1>2, <1>4, <1>5, DiskKeeps

LEMMA OpenDestinationDisk ==
  ASSUME StepInv, NEW s \in Sessions, OpenDestination(s)
  PROVE  DiskStep(s)
<1>1. GoodTree(tree) /\ GoodData(data) /\ HandlersOK /\ Hand(s)
  BY DEF StepInv
<1>2. pc[s] = "open" /\ todo[s] # << >> /\ req[s].op = "copy"
  BY <1>1 DEF OpenDestination, Hand, OpAt, TodoAt, CopyPcs
<1>3. PICK d \in Paths : Head(todo[s])[2] = d /\ IsPrefix(req[s].dst, d)
  BY <1>1, <1>2, NextCall DEF Hand
<1>4. MayAdd(s, d)
  BY <1>2, <1>3 DEF MayAdd, TwoPaths
<1>5. PICK i \in Opens(d) : to' = [to EXCEPT ![s] = i]
                            /\ Disk(With(tree, {d}, i), [data EXCEPT ![i] = << >>])
  BY <1>3 DEF OpenDestination, Call
<1>6. to'[s] = i
  BY <1>1, <1>5 DEF HandlersOK
<1> QED
  BY <1>1, <1>4, <1>5, <1>6, OpenStep

LEMMA CreateDisk ==
  ASSUME StepInv, NEW s \in Sessions, Create(s)
  PROVE  DiskStep(s)
<1>1. GoodTree(tree) /\ GoodData(data) /\ HandlersOK /\ Hand(s)
  BY DEF StepInv
<1>2. PICK d \in Paths : d = Here(s) /\ d = req[s].dst
  BY <1>1, InHand
<1>3. pc[s] = "create" /\ req[s].op = "upload"
  BY <1>1 DEF Create, Goes, Hand, OpAt
<1>4. MayAdd(s, d)
  BY <1>2, <1>3, PrefixOrder DEF MayAdd
<1>5. PICK i \in Opens(d) : to' = [to EXCEPT ![s] = i]
                            /\ Disk(With(tree, {d}, i), [data EXCEPT ![i] = << >>])
  BY <1>2 DEF Create
<1>6. to'[s] = i
  BY <1>1, <1>5 DEF HandlersOK
<1> QED
  BY <1>1, <1>4, <1>5, <1>6, OpenStep

(* A chunk is written to the file s has open. *)
LEMMA WriteStep ==
  ASSUME GoodTree(tree), GoodData(data), NEW s \in Sessions, to[s] \in Inos,
         NEW n \in Nat, NEW c \in Chunks,
         Disk(tree, [data EXCEPT ![to[s]] = WriteAt(@, n, c)])
  PROVE  DiskStep(s)
<1>1. PICK i \in Inos : i = to[s]
  OBVIOUS
<1>2. PICK d : d = [data EXCEPT ![i] = WriteAt(@, n, c)]
  OBVIOUS
<1>5. Wrote(d, i, n, c)
  BY <1>2, WrittenGood
<1>3. GoodData(d) /\ \A j \in Inos : j # i => d[j] = data[j]
  BY <1>5 DEF Wrote
<1>4. Disk(tree, d)
  BY <1>1, <1>2
<1> QED
  BY <1>1, <1>3, <1>4, DiskKeeps

LEMMA CopyChunkDisk ==
  ASSUME StepInv, NEW s \in Sessions, CopyChunk(s)
  PROVE  DiskStep(s)
<1>1. GoodTree(tree) /\ GoodData(data) /\ HandlersOK /\ Hand(s)
  BY DEF StepInv
<1>2. pc[s] = "chunks" /\ off[s] < Len(data[from[s]])
      /\ Disk(tree, [data EXCEPT ![to[s]] = WriteAt(@, off[s], data[from[s]][off[s] + 1])])
  BY DEF CopyChunk
<1>3. from[s] \in Inos /\ to[s] \in Inos /\ off[s] \in Nat
  BY <1>1, <1>2, InHand DEF Hand, FilesAt
<1>4. data[from[s]] \in Seq(Chunks)
  BY <1>1, <1>3 DEF GoodData
<1>5. off[s] + 1 \in 1..Len(data[from[s]])
  BY <1>2, <1>3, <1>4, LenProperties
<1>6. data[from[s]][off[s] + 1] \in Chunks
  BY <1>4, <1>5, ElementOfSeq
<1> QED
  BY <1>1, <1>2, <1>3, <1>6, WriteStep

LEMMA PayloadIs ==
  ASSUME NEW s \in Sessions
  PROVE  /\ Payload(s) \in Seq(Chunks) /\ Len(Payload(s)) = 2
         /\ \A n \in 0..1 : Payload(s)[n + 1] \in Chunks
<1>1. s \in Chunks
  BY DEF Chunks
<1>2. Payload(s) \in Seq(Chunks) /\ Len(Payload(s)) = 2
  BY <1>1 DEF Payload
<1> QED
  BY <1>2, ElementOfSeq

LEMMA ReceiveDisk ==
  ASSUME StepInv, NEW s \in Sessions, Receive(s)
  PROVE  DiskStep(s)
<1>1. GoodTree(tree) /\ GoodData(data) /\ HandlersOK /\ Hand(s)
  BY DEF StepInv
<1>2. pc[s] = "receive" /\ off[s] < Len(Payload(s))
      /\ Disk(tree, [data EXCEPT ![to[s]] = WriteAt(@, off[s], Payload(s)[off[s] + 1])])
  BY DEF Receive
<1>3. to[s] \in Inos /\ off[s] \in Nat
  BY <1>1, <1>2, InHand DEF Hand, FilesAt
<1>4. Payload(s)[off[s] + 1] \in Chunks
  BY <1>2, <1>3, PayloadIs
<1> QED
  BY <1>1, <1>2, <1>3, <1>4, WriteStep

(* Every step of a handler reaches only what its request names. *)
LEMMA AnyDiskStep ==
  ASSUME StepInv, NEW s \in Sessions,
         Handler(s) \/ \E o \in Ops, t, u \in Targets : Begin(s, o, t, u)
  PROVE  DiskStep(s)
<1>1. GoodTree(tree) /\ GoodData(data)
  BY DEF StepInv
<1>2. ASSUME UNCHANGED disk \/ Disk(tree, data) PROVE DiskStep(s)
  BY <1>1, <1>2, DiskRests
<1>3. CASE \E o \in Ops, t, u \in Targets : Begin(s, o, t, u)
  BY <1>2, <1>3 DEF Begin, disk
<1>4. CASE Look(s) \/ ChDir(s) \/ Stat(s)
  BY <1>2, <1>4 DEF Look, ChDir, Stat, disk
<1>5. CASE Mkdir(s)
  BY <1>5, MkdirDisk
<1>6. CASE Move(s)
  BY <1>6, MoveDisk
<1>7. CASE Unlink(s) \/ Rmdir(s, "noentry") \/ Rmdir(s, "rmdir")
  BY <1>7, PathDisk
<1>8. CASE Unlinkat(s) \/ Rmdirat(s)
  BY <1>8, AtDisk
<1>9. CASE OpenParent(s) \/ Openat(s) \/ Readdirnames(s) \/ CloseDir(s)
  BY <1>2, <1>9 DEF OpenParent, Openat, Readdirnames, CloseDir, disk
<1>10. CASE CopyDir(s) \/ ReadDir(s) \/ OpenSource(s) \/ Copied(s)
  BY <1>2, <1>10 DEF CopyDir, ReadDir, OpenSource, Copied, disk
<1>11. CASE OpenDestination(s)
  BY <1>11, OpenDestinationDisk
<1>12. CASE CopyChunk(s)
  BY <1>12, CopyChunkDisk
<1>13. CASE CopyFails(s) \/ CopyBreaks(s) \/ CopiedFile(s)
  BY <1>2, <1>13 DEF CopyFails, CopyBreaks, CopiedFile
<1>14. CASE CreateFails(s) \/ Answer(s)
  BY <1>2, <1>14 DEF CreateFails, Answer, disk
<1>15. CASE Create(s)
  BY <1>15, CreateDisk
<1>16. CASE Receive(s)
  BY <1>16, ReceiveDisk
<1>17. CASE Received(s) \/ ReceiveFails(s)
  BY <1>2, <1>17 DEF Received, ReceiveFails, Close
<1>18. CASE Cleanup(s)
  BY <1>18, CleanupDisk
<1> QED
  BY <1>3, <1>4, <1>5, <1>6, <1>7, <1>8, <1>9, <1>10, <1>11, <1>12, <1>13, <1>14, <1>15,
     <1>16, <1>17, <1>18 DEF Handler

-----------------------------------------------------------------------------
(* What a step of s does to its handler, and that it does nothing to those *)
(* of the others.                                                          *)

Others(s) ==
  \A t \in Sessions \ {s} :
    /\ pc'[t] = pc[t] /\ req'[t] = req[t] /\ result'[t] = result[t] /\ todo'[t] = todo[t]
    /\ from'[t] = from[t] /\ to'[t] = to[t] /\ off'[t] = off[t]
HandStep(s) == HandlersOK' /\ Others(s) /\ Hand(s)'

(* w is v, with x for s. *)
Now(v, w, s, x) == w = [v EXCEPT ![s] = x] \/ (w = v /\ x = v[s])

Sets(v, w, s, x, T) ==
  /\ w \in [Sessions -> T] /\ w[s] = x
  /\ \A t \in Sessions \ {s} : w[t] = v[t]

LEMMA NowIs ==
  ASSUME NEW T, NEW v \in [Sessions -> T], NEW w, NEW s \in Sessions, NEW x \in T,
         Now(v, w, s, x)
  PROVE  Sets(v, w, s, x, T)
BY DEF Now, Sets

Becomes(s, c, b, r, q, td, f, g, n) ==
  /\ Now(cwd, cwd', s, c) /\ Now(pc, pc', s, b) /\ Now(result, result', s, r)
  /\ Now(req, req', s, q) /\ Now(todo, todo', s, td)
  /\ Now(from, from', s, f) /\ Now(to, to', s, g) /\ Now(off, off', s, n)

Became(s, c, b, r, q, td, f, g, n) ==
  /\ HandlersOK' /\ Others(s)
  /\ cwd'[s] = c /\ pc'[s] = b /\ result'[s] = r /\ req'[s] = q /\ todo'[s] = td
  /\ from'[s] = f /\ to'[s] = g /\ off'[s] = n

(* A step that sets the eight things a handler has in hand. *)
LEMMA BecomesIs ==
  ASSUME HandlersOK, NEW s \in Sessions, NEW c \in Paths, NEW b \in Pcs, NEW r \in Results,
         NEW q \in Requests, NEW td \in Seq(Pending),
         NEW f \in 0..MaxIno, NEW g \in 0..MaxIno, NEW n \in Nat,
         Becomes(s, c, b, r, q, td, f, g, n)
  PROVE  Became(s, c, b, r, q, td, f, g, n)
<1>10. /\ Now(cwd, cwd', s, c) /\ Now(pc, pc', s, b) /\ Now(result, result', s, r)
       /\ Now(req, req', s, q) /\ Now(todo, todo', s, td)
       /\ Now(from, from', s, f) /\ Now(to, to', s, g) /\ Now(off, off', s, n)
  BY DEF Becomes
<1>11. /\ cwd \in [Sessions -> Paths] /\ pc \in [Sessions -> Pcs]
       /\ req \in [Sessions -> Requests] /\ todo \in [Sessions -> Seq(Pending)]
       /\ from \in [Sessions -> 0..MaxIno] /\ to \in [Sessions -> 0..MaxIno]
       /\ off \in [Sessions -> Nat] /\ result \in [Sessions -> Results]
  BY DEF HandlersOK
<1>1. Sets(cwd, cwd', s, c, Paths)
  BY <1>10, <1>11, NowIs
<1>2. Sets(pc, pc', s, b, Pcs)
  BY <1>10, <1>11, NowIs
<1>3. Sets(result, result', s, r, Results)
  BY <1>10, <1>11, NowIs
<1>4. Sets(req, req', s, q, Requests)
  BY <1>10, <1>11, NowIs
<1>5. Sets(todo, todo', s, td, Seq(Pending))
  BY <1>10, <1>11, NowIs
<1>7. Sets(from, from', s, f, 0..MaxIno)
  BY <1>10, <1>11, NowIs
<1>8. Sets(to, to', s, g, 0..MaxIno)
  BY <1>10, <1>11, NowIs
<1>9. Sets(off, off', s, n, Nat)
  BY <1>10, <1>11, NowIs
<1> QED
  BY <1>1, <1>2, <1>3, <1>4, <1>5, <1>7, <1>8, <1>9 DEF HandlersOK, Others, Sets, Became

(* The places between which a handler goes with its answer alone. *)
DeletePcs == PathPcs \cup AtPcs
GoesOn(a, b) ==
  \/ a \in DeletePcs /\ b \in DeletePcs \cup {"done"}
  \/ <<a, b>> \in {<<"act", "done">>, <<"create", "cleanup">>, <<"cleanup", "done">>,
                   <<"copy", "done">>, <<"copy", "stat">>}

(* Where nothing of s but its place and its answer changes. *)
LEMMA MovesOn ==
  ASSUME HandlersOK, NEW s \in Sessions, Hand(s), NEW b \in Pcs, NEW r \in Results,
         NEW c \in Paths, Now(cwd, cwd', s, c), Now(pc, pc', s, b), Now(result, result', s, r),
         UNCHANGED <<req, todo, files>>, GoesOn(pc[s], b),
         pc[s] = "copy" /\ b = "done" => todo[s] = << >>,
         pc[s] = "copy" /\ b = "stat" => todo[s] # << >>,
         b = "cleanup" => r = "error"
  PROVE  HandStep(s)
<1>1. /\ req[s] \in Requests /\ todo[s] \in Seq(Pending)
      /\ from[s] \in 0..MaxIno /\ to[s] \in 0..MaxIno /\ off[s] \in Nat
  BY InHand
<1>2. Becomes(s, c, b, r, req[s], todo[s], from[s], to[s], off[s])
  BY DEF Becomes, Now, files
<1>10. Became(s, c, b, r, req[s], todo[s], from[s], to[s], off[s])
  BY <1>1, <1>2, BecomesIs
<1>3. /\ HandlersOK' /\ Others(s)
      /\ cwd'[s] = c /\ pc'[s] = b /\ result'[s] = r /\ req'[s] = req[s] /\ todo'[s] = todo[s]
      /\ from'[s] = from[s] /\ to'[s] = to[s] /\ off'[s] = off[s]
  BY <1>10 DEF Became
<1> USE DEF GoesOn, DeletePcs, PathPcs, AtPcs, CopyPcs
<1>4. OpAt(s)'
  BY <1>3 DEF Hand, OpAt
<1>5. FilesAt(s)'
  BY <1>3 DEF Hand, FilesAt
<1>6. MkdirAt(s)'
  BY <1>3 DEF MkdirAt
<1>7. TodoAt(s)'
  BY <1>3 DEF Hand, TodoAt, CallAt
<1> QED
  BY <1>3, <1>4, <1>5, <1>6, <1>7 DEF HandStep, Hand

LEMMA Stays ==
  ASSUME HandlersOK, NEW s \in Sessions
  PROVE  /\ Now(cwd, cwd, s, cwd[s]) /\ Now(result, result, s, result[s])
         /\ cwd[s] \in Paths /\ result[s] \in Results
BY InHand DEF Now, HandlersOK

(* Requests that are done in one step. *)
LEMMA ActHand ==
  ASSUME StepInv, NEW s \in Sessions, Look(s) \/ ChDir(s) \/ Move(s)
  PROVE  HandStep(s)
<1>1. HandlersOK /\ Hand(s)
  BY DEF StepInv
<1>2. pc[s] = "act" /\ pc' = [pc EXCEPT ![s] = "done"]
  BY DEF Look, ChDir, Move, Done, Goes
<1>3. PICK r \in {"ok", "error"} : result' = [result EXCEPT ![s] = r]
  BY DEF Look, ChDir, Move, Done, Says
<1>4. UNCHANGED <<req, todo, files>>
  BY DEF Look, ChDir, Move, NoWork, work
<1>5. cwd' = cwd \/ cwd' = [cwd EXCEPT ![s] = Here(s)]
  BY DEF Look, ChDir, Move
<1>6. PICK c \in Paths : Now(cwd, cwd', s, c)
  BY <1>1, <1>5, InHand DEF Now
<1>7. Now(pc, pc', s, "done") /\ Now(result, result', s, r)
  BY <1>2, <1>3 DEF Now
<1>8. "done" \in Pcs /\ r \in Results
  BY DEF Pcs, Results
<1>9. GoesOn(pc[s], "done")
  BY <1>2 DEF GoesOn
<1> QED
  BY <1>1, <1>2, <1>4, <1>6, <1>7, <1>8, <1>9, MovesOn

(* Steps of a delete go on or end. *)
LEMMA DeleteMoves ==
  ASSUME StepInv, NEW s \in Sessions,
         \/ Unlink(s) \/ Rmdir(s, "noentry") \/ Rmdir(s, "rmdir") \/ OpenParent(s)
         \/ Unlinkat(s) \/ Openat(s) \/ Readdirnames(s) \/ CloseDir(s) \/ Rmdirat(s)
  PROVE  /\ UNCHANGED <<cwd, req, todo, files>> /\ pc[s] \in DeletePcs
         /\ \E b \in DeletePcs \cup {"done"} : pc' = [pc EXCEPT ![s] = b]
         /\ UNCHANGED result \/ \E r \in {"ok", "error"} : result' = [result EXCEPT ![s] = r]
<1> USE DEF DeletePcs, PathPcs, AtPcs
<1>1. CASE Unlink(s)
  BY <1>1 DEF Unlink, Done, Goes, Says
<1>2. CASE Rmdir(s, "noentry") \/ Rmdir(s, "rmdir")
  BY <1>2 DEF Rmdir, Done, Goes, Says
<1>3. CASE OpenParent(s)
  BY <1>3 DEF OpenParent, Done, Goes, Says
<1>4. CASE Unlinkat(s)
  BY <1>4 DEF Unlinkat, Returns, Done, Goes, Says
<1>5. CASE Openat(s)
  BY <1>5 DEF Openat, Returns, Done, Goes, Says
<1>6. CASE Readdirnames(s)
  BY <1>6 DEF Readdirnames, Returns, Done, Goes, Says
<1>7. CASE CloseDir(s)
  BY <1>7 DEF CloseDir, Goes
<1>8. CASE Rmdirat(s)
  BY <1>8 DEF Rmdirat, Returns, Done, Goes, Says
<1> QED
  BY <1>1, <1>2, <1>3, <1>4, <1>5, <1>6, <1>7, <1>8

LEMMA DeleteHand ==
  ASSUME StepInv, NEW s \in Sessions,
         \/ Unlink(s) \/ Rmdir(s, "noentry") \/ Rmdir(s, "rmdir") \/ OpenParent(s)
         \/ Unlinkat(s) \/ Openat(s) \/ Readdirnames(s) \/ CloseDir(s) \/ Rmdirat(s)
  PROVE  HandStep(s)
<1>1. HandlersOK /\ Hand(s)
  BY DEF StepInv
<1>2. PICK b \in DeletePcs \cup {"done"} :
        /\ UNCHANGED <<cwd, req, todo, files>>
        /\ pc' = [pc EXCEPT ![s] = b] /\ pc[s] \in DeletePcs
        /\ UNCHANGED result \/ \E r \in {"ok", "error"} : result' = [result EXCEPT ![s] = r]
  BY DeleteMoves
<1>3. b \in Pcs /\ b \notin {"cleanup", "stat"} /\ pc[s] # "copy" /\ GoesOn(pc[s], b)
  BY <1>2 DEF GoesOn, DeletePcs, PathPcs, AtPcs, Pcs
<1>4. PICK r \in Results : Now(result, result', s, r)
  BY <1>1, <1>2, Stays DEF Now, Results
<1>5. Now(cwd, cwd', s, cwd[s]) /\ cwd[s] \in Paths
  BY <1>1, <1>2, Stays
<1>6. Now(pc, pc', s, b)
  BY <1>2 DEF Now
<1> QED
  BY <1>1, <1>2, <1>3, <1>4, <1>5, <1>6, MovesOn

(* The other steps that end, or go on to the next place, with nothing else. *)
LEMMA EndHand ==
  ASSUME StepInv, NEW s \in Sessions, Copied(s) \/ CreateFails(s) \/ Cleanup(s)
  PROVE  HandStep(s)
<1>1. HandlersOK /\ Hand(s)
  BY DEF StepInv
<1>2. UNCHANGED <<cwd, req, todo, files>>
  BY DEF Copied, CreateFails, Cleanup, NoWork, work
<1>3. Now(cwd, cwd', s, cwd[s]) /\ cwd[s] \in Paths
  BY <1>1, <1>2, Stays
<1>4. PICK b \in {"done", "cleanup"} : pc' = [pc EXCEPT ![s] = b] /\
        <<pc[s], b>> \in {<<"create", "cleanup">>, <<"cleanup", "done">>, <<"copy", "done">>}
  BY DEF Copied, CreateFails, Cleanup, Done, Goes
<1>5. PICK r \in Results : Now(result, result', s, r) /\ (b = "cleanup" => r = "error")
  <2>1. CASE Copied(s)
    <3>1. b # "cleanup" /\ result' = [result EXCEPT ![s] = "ok"]
      BY <1>4, <2>1 DEF Copied, Done, Goes, Says
    <3> QED
      BY <3>1 DEF Now, Results
  <2>2. CASE CreateFails(s)
    BY <2>2 DEF CreateFails, Says, Now, Results
  <2>3. CASE Cleanup(s)
    <3>1. b # "cleanup" /\ UNCHANGED result
      BY <1>4, <2>3 DEF Cleanup, Goes
    <3> QED
      BY <1>1, <3>1, Stays
  <2> QED
    BY <2>1, <2>2, <2>3
<1>7. pc[s] = "copy" /\ b = "done" => todo[s] = << >>
  BY DEF Copied, CreateFails, Cleanup, Done, Goes
<1>8. b \in Pcs /\ b # "stat" /\ GoesOn(pc[s], b)
  BY <1>4 DEF Pcs, GoesOn
<1>9. Now(pc, pc', s, b)
  BY <1>4 DEF Now
<1> QED
  BY <1>1, <1>2, <1>3, <1>4, <1>5, <1>7, <1>8, <1>9, MovesOn

(* A MkdirAll or a copy that fails. *)
LEMMA FailHand ==
  ASSUME HandlersOK, NEW s \in Sessions, Hand(s),
         NEW a \in CopyPcs, Fail(s, a),
         UNCHANGED <<cwd, req>>
  PROVE  HandStep(s)
<1>1. /\ req[s] \in Requests /\ 0 \in 0..MaxIno
      /\ << >> \in Seq(Pending) /\ "done" \in Pcs /\ "error" \in Results /\ cwd[s] \in Paths
  BY InHand, OpsAssumption, EmptySeq DEF Pcs, Results
<1>2. Becomes(s, cwd[s], "done", "error", req[s], << >>, 0, 0, 0)
  BY DEF Becomes, Now, Fail, Done, Goes, Says
<1>3. Became(s, cwd[s], "done", "error", req[s], << >>, 0, 0, 0)
  BY <1>1, <1>2, BecomesIs
<1>4. /\ HandlersOK' /\ Others(s) /\ pc'[s] = "done" /\ req'[s] = req[s] /\ todo'[s] = << >>
      /\ from'[s] = 0 /\ to'[s] = 0 /\ off'[s] = 0
  BY <1>3 DEF Became
<1>5. pc[s] = a
  BY DEF Fail, Done, Goes
<1>6. OpAt(s)' /\ FilesAt(s)' /\ MkdirAt(s)'
  BY <1>4, <1>5 DEF Hand, OpAt, FilesAt, MkdirAt, PathPcs, AtPcs, CopyPcs
<1>7. TodoAt(s)'
  BY <1>4, EmptySeq DEF TodoAt, CopyPcs
<1> QED
  BY <1>4, <1>6, <1>7 DEF HandStep, Hand

LEMMA CopyFailsHand ==
  ASSUME StepInv, NEW s \in Sessions, CopyFails(s) \/ CopyBreaks(s)
  PROVE  HandStep(s)
BY FailHand DEF StepInv, CopyFails, CopyBreaks, CopyPcs

(* MkdirAll is done, and what asked for it goes on. *)
LEMMA MadeHand ==
  ASSUME HandlersOK, NEW s \in Sessions, Hand(s), NEW a \in {"stat", "mkdir"}, Made(s, a),
         UNCHANGED <<cwd, req>>
  PROVE  HandStep(s)
<1>1. /\ req[s] \in Requests /\ 0 \in 0..MaxIno /\ 0 \in Nat /\ todo[s] \in Seq(Pending)
      /\ cwd[s] \in Paths /\ from[s] \in 0..MaxIno /\ to[s] \in 0..MaxIno
      /\ result[s] \in Results
  BY InHand, OpsAssumption DEF HandlersOK
<1>2. pc[s] = a /\ req[s].op \in {"mkdir", "upload", "copy"}
  BY DEF Made, Done, Goes, Hand, OpAt
<1>3. PICK b \in {"done", "create", "readdir"}, r \in Results :
        /\ Now(pc, pc', s, b) /\ Now(result, result', s, r)
        /\ b = "create" => req[s].op = "upload"
        /\ b = "readdir" <=> req[s].op = "copy"
  <2>1. CASE req[s].op = "mkdir"
    <3>1. pc' = [pc EXCEPT ![s] = "done"] /\ result' = [result EXCEPT ![s] = "ok"]
      BY <2>1 DEF Made, Done, Goes, Says
    <3> QED
      BY <2>1, <3>1 DEF Now, Results
  <2>2. CASE req[s].op = "upload"
    <3>1. pc' = [pc EXCEPT ![s] = "create"] /\ result' = result
      BY <2>2 DEF Made, Goes
    <3> QED
      BY <1>1, <2>2, <3>1 DEF Now
  <2>3. CASE req[s].op = "copy"
    <3>1. pc' = [pc EXCEPT ![s] = "readdir"] /\ result' = result
      BY <2>3 DEF Made, Goes
    <3> QED
      BY <1>1, <2>3, <3>1 DEF Now
  <2> QED
    BY <1>2, <2>1, <2>2, <2>3
<1>4. Becomes(s, cwd[s], b, r, req[s], todo[s], from[s], to[s], 0)
  BY <1>3 DEF Becomes, Now, Made
<1>5. b \in Pcs
  BY DEF Pcs, CopyPcs
<1>6. Became(s, cwd[s], b, r, req[s], todo[s], from[s], to[s], 0)
  BY <1>1, <1>4, <1>5, BecomesIs
<1>7. /\ HandlersOK' /\ Others(s) /\ pc'[s] = b /\ req'[s] = req[s] /\ todo'[s] = todo[s]
      /\ from'[s] = from[s] /\ to'[s] = to[s] /\ off'[s] = 0
  BY <1>6 DEF Became
<1>8. OpAt(s)' /\ FilesAt(s)' /\ MkdirAt(s)'
  BY <1>2, <1>3, <1>7 DEF Hand, OpAt, FilesAt, MkdirAt, PathPcs, AtPcs, CopyPcs
<1>9. TodoAt(s)'
  BY <1>2, <1>3, <1>7 DEF Hand, TodoAt, CallAt, CopyPcs
<1> QED
  BY <1>7, <1>8, <1>9 DEF HandStep, Hand

(* The names on the way are made, from the one that is off. *)
LEMMA MakesHand ==
  ASSUME HandlersOK, NEW s \in Sessions, Hand(s), pc[s] \in {"stat", "mkdir"}, ~AboveRoot(s),
         Now(pc, pc', s, "mkdir"), UNCHANGED <<cwd, req, result, todo, from, to>>,
         NEW n \in Nat, n <= Len(Goal(s)), off' = [off EXCEPT ![s] = n]
  PROVE  HandStep(s)
<1>1. /\ req[s] \in Requests /\ todo[s] \in Seq(Pending) /\ cwd[s] \in Paths
      /\ from[s] \in 0..MaxIno /\ to[s] \in 0..MaxIno /\ result[s] \in Results /\ "mkdir" \in Pcs
  BY InHand DEF HandlersOK, Pcs, CopyPcs
<1>2. Becomes(s, cwd[s], "mkdir", result[s], req[s], todo[s], from[s], to[s], n)
  BY DEF Becomes, Now
<1>3. Became(s, cwd[s], "mkdir", result[s], req[s], todo[s], from[s], to[s], n)
  BY <1>1, <1>2, BecomesIs
<1>4. /\ HandlersOK' /\ Others(s) /\ pc'[s] = "mkdir" /\ req'[s] = req[s] /\ todo'[s] = todo[s]
      /\ from'[s] = from[s] /\ to'[s] = to[s] /\ off'[s] = n
  BY <1>3 DEF Became
<1>5. OpAt(s)' /\ FilesAt(s)'
  BY <1>4 DEF Hand, OpAt, FilesAt, PathPcs, AtPcs, CopyPcs
<1>6. TodoAt(s)'
  BY <1>4 DEF Hand, TodoAt, CallAt, CopyPcs
<1>7. Goal(s)' = Goal(s) /\ AboveRoot(s)' = AboveRoot(s)
  BY <1>4 DEF Goal, AboveRoot, Here
<1>8. MkdirAt(s)'
  BY <1>4, <1>7 DEF MkdirAt
<1> QED
  BY <1>4, <1>5, <1>6, <1>8 DEF HandStep, Hand

LEMMA StatHand ==
  ASSUME StepInv, NEW s \in Sessions, Stat(s)
  PROVE  HandStep(s)
<1>1. HandlersOK /\ Hand(s) /\ UNCHANGED <<cwd, req>> /\ pc[s] = "stat"
  BY DEF StepInv, Stat
<1>2. CASE Made(s, "stat")
  BY <1>1, <1>2, MadeHand
<1>3. CASE Fail(s, "stat")
  BY <1>1, <1>3, FailHand DEF CopyPcs
<1>4. CASE ~Made(s, "stat") /\ ~Fail(s, "stat")
  <2>1. ~AboveRoot(s) /\ Goes(s, "stat", "mkdir") /\ UNCHANGED <<todo, from, to, result>>
    BY <1>4 DEF Stat
  <2>2. PICK n \in 0..Len(Goal(s)) : off' = [off EXCEPT ![s] = n]
    BY <1>4 DEF Stat
  <2>3. PICK g \in Paths : Goal(s) = g
    BY <1>1, <2>1, GoalIs
  <2>4. n \in Nat /\ n <= Len(Goal(s))
    BY <2>2, <2>3, PathLen
  <2>5. Now(pc, pc', s, "mkdir")
    BY <2>1 DEF Goes, Now
  <2> QED
    BY <1>1, <2>1, <2>2, <2>4, <2>5, MakesHand
<1> QED
  BY <1>2, <1>3, <1>4

LEMMA MkdirHand ==
  ASSUME StepInv, NEW s \in Sessions, Mkdir(s)
  PROVE  HandStep(s)
<1>1. HandlersOK /\ Hand(s) /\ UNCHANGED <<cwd, req>> /\ pc[s] = "mkdir"
  BY DEF StepInv, Mkdir
<1>2. CASE Made(s, "mkdir")
  BY <1>1, <1>2, MadeHand
<1>3. CASE Fail(s, "mkdir")
  BY <1>1, <1>3, FailHand DEF CopyPcs
<1>4. CASE ~Made(s, "mkdir") /\ ~Fail(s, "mkdir")
  <2>1. /\ off[s] < Len(Goal(s)) /\ off' = [off EXCEPT ![s] = off[s] + 1]
        /\ UNCHANGED <<pc, result, todo, from, to>>
    BY <1>4 DEF Mkdir
  <2>2. ~AboveRoot(s)
    BY <1>1 DEF Hand, MkdirAt
  <2>3. PICK g \in Paths : Goal(s) = g
    BY <1>1, <2>2, GoalIs
  <2>4. PICK n \in Nat : n = off[s] + 1 /\ n <= Len(Goal(s))
    BY <1>1, <2>1, <2>3, InHand, PathLen
  <2>5. Now(pc, pc', s, "mkdir")
    BY <1>1, <2>1 DEF Now
  <2> QED
    BY <1>1, <2>1, <2>2, <2>4, <2>5, MakesHand
<1> QED
  BY <1>2, <1>3, <1>4

(* The path a client writes, where it stays below the served directory. *)
LEMMA JoinTyped ==
  ASSUME HandlersOK, NEW s \in Sessions, NEW t \in Targets, ~Outside(s, t)
  PROVE  Join(s, t) \in Paths
<1>1. cwd[s] \in Paths /\ t.up \in Nat /\ t.names \in Paths /\ t.up <= Len(cwd[s])
  BY OpsAssumption, InHand, PathLen DEF Outside
<1>2. Len(cwd[s]) - t.up \in 0..Len(cwd[s])
  BY <1>1, PathLen
<1>3. Pre(cwd[s], Len(cwd[s]) - t.up) \in Paths
  BY <1>1, <1>2, PreIs
<1> QED
  BY <1>1, <1>3 DEF Join, Pre, Paths

LEMMA BeginHand ==
  ASSUME StepInv, NEW s \in Sessions, NEW o \in Ops, NEW t \in Targets, NEW u \in Targets,
         Begin(s, o, t, u)
  PROVE  HandStep(s)
<1>1. HandlersOK /\ Hand(s) /\ UNCHANGED <<cwd, from, to, off>> /\ pc[s] = "idle"
  BY DEF StepInv, Begin, files
<1>2. /\ req[s] \in Requests /\ todo[s] \in Seq(Pending)
      /\ from[s] \in 0..MaxIno /\ to[s] \in 0..MaxIno /\ off[s] \in Nat /\ cwd[s] \in Paths
      /\ result[s] \in Results /\ req[s].op = "none"
  BY <1>1, InHand DEF HandlersOK, Hand, OpAt
<1>3. CASE Done(s, "idle", "refused") /\ UNCHANGED <<req, todo>>
  <2>1. Becomes(s, cwd[s], "done", "refused", req[s], todo[s], from[s], to[s], off[s])
    BY <1>1, <1>3 DEF Becomes, Now, Done, Goes, Says
  <2>2. Became(s, cwd[s], "done", "refused", req[s], todo[s], from[s], to[s], off[s])
    <3>1. "done" \in Pcs /\ "refused" \in Results
      BY DEF Pcs, Results
    <3> QED
      BY <1>1, <1>2, <2>1, <3>1, BecomesIs
  <2>3. /\ HandlersOK' /\ Others(s) /\ pc'[s] = "done" /\ req'[s] = req[s] /\ todo'[s] = todo[s]
        /\ from'[s] = from[s] /\ to'[s] = to[s] /\ off'[s] = off[s]
    BY <2>2 DEF Became
  <2>4. OpAt(s)' /\ FilesAt(s)' /\ MkdirAt(s)'
    BY <1>1, <2>3 DEF Hand, OpAt, FilesAt, MkdirAt, PathPcs, AtPcs, CopyPcs
  <2>5. TodoAt(s)'
    BY <1>1, <2>3 DEF Hand, TodoAt, CallAt, CopyPcs
  <2> QED
    BY <2>3, <2>4, <2>5 DEF HandStep, Hand
<1>4. CASE /\ Resolves(s, t) /\ Resolves(s, u) /\ ~(o = "delete" /\ Join(s, t) = << >>)
           /\ Goes(s, "idle", First(o)) /\ UNCHANGED result
           /\ req' = [req EXCEPT ![s] = Request(o, Join(s, t), Join(s, u))]
           /\ todo' = [todo EXCEPT ![s] =
                         IF o = "copy" THEN <<<<Join(s, t), Join(s, u), "CopyDir">>>> ELSE << >>]
  <2>1. PICK p \in Paths, q \in Paths : p = Join(s, t) /\ q = Join(s, u)
    BY <1>1, <1>4, JoinTyped DEF Resolves
  <2>2. PICK td \in Seq(Pending) : td = IF o = "copy" THEN <<<<p, q, "CopyDir">>>> ELSE << >>
    <3>1. PICK x \in Pending : x = <<p, q, "CopyDir">>
      BY DEF Pending
    <3>2. <<x>> \in Seq(Pending) /\ << >> \in Seq(Pending)
      BY EmptySeq
    <3> QED
      BY <3>1, <3>2
  <2>3. PICK b \in Pcs : b = First(o)
    BY DEF First, Pcs, PathPcs, CopyPcs
  <2>4. o \in AllOps
    BY OpsAssumption
  <2>5. PICK r \in Requests : r = Request(o, p, q)
    BY <2>4 DEF Requests, Request
  <2>6. r.op = o /\ r.src = p /\ r.dst = q
    BY <2>5 DEF Request
  <2>7. Becomes(s, cwd[s], b, result[s], r, td, from[s], to[s], off[s])
    <3>1. pc' = [pc EXCEPT ![s] = b] /\ req' = [req EXCEPT ![s] = r]
      BY <1>4, <2>1, <2>3, <2>5 DEF Goes
    <3>2. todo' = [todo EXCEPT ![s] = td]
      BY <1>4, <2>1, <2>2
    <3> QED
      BY <1>1, <1>4, <3>1, <3>2 DEF Becomes, Now
  <2>8. Became(s, cwd[s], b, result[s], r, td, from[s], to[s], off[s])
    BY <1>1, <1>2, <2>7, BecomesIs
  <2>9. /\ HandlersOK' /\ Others(s) /\ pc'[s] = b /\ req'[s] = r /\ todo'[s] = td
        /\ from'[s] = from[s] /\ to'[s] = to[s] /\ off'[s] = off[s]
    BY <2>8 DEF Became
  <2>10. o \notin TwoPaths => p = q
    BY <2>1 DEF Begin
  <2>11. o = "delete" => p # << >>
    BY <1>4, <2>1
  <2>12. OpAt(s)'
    BY <2>3, <2>4, <2>6, <2>9, <2>10, <2>11 DEF OpAt, First, AllOps, PathPcs, AtPcs, CopyPcs
  <2>13. FilesAt(s)' /\ MkdirAt(s)'
    BY <1>1, <2>3, <2>9 DEF Hand, FilesAt, MkdirAt, First, PathPcs, AtPcs, CopyPcs
  <2>14. TodoAt(s)'
    <3>1. CASE o = "copy"
      <4>1. td = <<<<p, q, "CopyDir">>>> /\ DOMAIN td = {1} /\ td[1][1] = p /\ td[1][2] = q
        BY <2>2, <3>1
      <4>2. IsPrefix(p, p) /\ q = To(p, q, p)
        BY PrefixOrder, ToOrder
      <4> QED
        BY <2>3, <2>6, <2>9, <3>1, <4>1, <4>2 DEF TodoAt, CallAt, First, CopyPcs
    <3>2. CASE o # "copy"
      <4>1. td = << >> /\ DOMAIN td = {}
        BY <2>2, <3>2
      <4>2. b \notin CopyPcs \/ (b = "stat" /\ r.op # "copy")
        BY <2>3, <2>4, <2>6, <3>2 DEF First, AllOps, CopyPcs
      <4> QED
        BY <2>6, <2>9, <4>1, <4>2 DEF TodoAt, CopyPcs
    <3> QED
      BY <3>1, <3>2
  <2> QED
    BY <2>9, <2>12, <2>13, <2>14 DEF HandStep, Hand
<1> QED
  BY <1>3, <1>4 DEF Begin

LEMMA AnswerHand ==
  ASSUME StepInv, NEW s \in Sessions, Answer(s)
  PROVE  HandStep(s)
<1>1. /\ HandlersOK /\ Hand(s) /\ UNCHANGED <<cwd, todo, from, to, off>>
      /\ Goes(s, "done", "idle") /\ Says(s, "none") /\ req' = [req EXCEPT ![s] = NoRequest]
  BY DEF StepInv, Answer, NoWork, work, files
<1>2. /\ todo[s] \in Seq(Pending) /\ cwd[s] \in Paths
      /\ from[s] \in 0..MaxIno /\ to[s] \in 0..MaxIno /\ off[s] \in Nat
      /\ "none" \in Results /\ "idle" \in Pcs
  BY <1>1, InHand DEF Results, Pcs
<1>3. PICK q \in Requests : q = NoRequest
  BY EmptySeq DEF NoRequest, Request, Requests, Paths
<1>9. q.op = "none" /\ q.src = q.dst
  BY <1>3 DEF NoRequest, Request
<1>4. Becomes(s, cwd[s], "idle", "none", q, todo[s], from[s], to[s], off[s])
  BY <1>1, <1>3 DEF Becomes, Now, Goes, Says
<1>5. Became(s, cwd[s], "idle", "none", q, todo[s], from[s], to[s], off[s])
  BY <1>1, <1>2, <1>4, BecomesIs
<1>6. /\ HandlersOK' /\ Others(s) /\ pc'[s] = "idle" /\ req'[s] = q /\ todo'[s] = todo[s]
      /\ from'[s] = from[s] /\ to'[s] = to[s] /\ off'[s] = off[s]
  BY <1>5 DEF Became
<1>10. pc[s] = "done"
  BY <1>1 DEF Goes
<1>7. OpAt(s)' /\ FilesAt(s)' /\ MkdirAt(s)'
  BY <1>1, <1>6, <1>9, <1>10 DEF Hand, OpAt, FilesAt, MkdirAt, PathPcs, AtPcs, CopyPcs
<1>8. TodoAt(s)'
  <2>1. todo[s] = << >>
    BY <1>1, <1>10 DEF Hand, TodoAt, CopyPcs
  <2> QED
    BY <1>6, <2>1, EmptySeq DEF TodoAt, CopyPcs
<1> QED
  BY <1>6, <1>7, <1>8 DEF HandStep, Hand

(* The names ReadDir lists: those of the entries, all of them. *)
Lists(ns, p) ==
  /\ ns \in Seq(Names)
  /\ \A c \in Children(p) : \E k \in DOMAIN ns : Append(p, ns[k]) = c

LEMMA EntriesList ==
  ASSUME GoodTree(tree), NEW p \in Paths, NEW ns \in Entries(p)
  PROVE  Lists(ns, p)
<1>1. Children(p) \subseteq Paths /\ Children(p) \subseteq DOMAIN tree /\ IsFiniteSet(DOMAIN tree)
  BY DEF Children, GoodTree, Entered
<1>2. ASSUME NEW c \in Children(p) PROVE Last(c) \in Names /\ c = Append(p, Last(c))
  <2>1. c \in Paths /\ c # << >> /\ Front(c) = p
    BY <1>1 DEF Children
  <2>2. IsPrefix(p, c) /\ Len(p) = Len(c) - 1
    BY <2>1, FrontIs
  <2>3. p # c
    BY <2>2, PathLen
  <2>4. PICK d \in Paths : /\ IsPrefix(d, c) /\ Len(d) = Len(p) + 1 /\ Last(d) \in Names
                           /\ d = Append(p, Last(d))
    BY <2>1, <2>2, <2>3, NextName
  <2>5. Len(d) = Len(c)
    BY <2>1, <2>2, <2>4, PathLen
  <2>6. d = c
    BY <2>1, <2>4, <2>5, PrefixOrder
  <2> QED
    BY <2>4, <2>6
<1>3. PICK S : S = {Last(q) : q \in Children(p)}
  OBVIOUS
<1>4. S \subseteq Names
  BY <1>2, <1>3
<1>5. IsFiniteSet(S)
  <2>1. IsFiniteSet(Children(p))
    BY <1>1, FS_Subset
  <2> DEFINE f == [q \in Children(p) |-> Last(q)]
  <2>2. f \in [Children(p) -> Names]
    BY <1>2
  <2>3. IsFiniteSet({f[q] : q \in Children(p)})
    BY <2>1, <2>2, FiniteImage
  <2>4. {f[q] : q \in Children(p)} = S
    BY <1>3
  <2> QED
    BY <2>3, <2>4
<1>6. Cardinality(S) \in Nat
  BY <1>5, FS_CardinalityType
<1>7. PICK n \in Nat : n = Cardinality(S)
  BY <1>6
<1>8. ns \in Surjection(1..n, S)
  BY <1>3, <1>7 DEF Entries, InOrder
<1>9. ns \in [1..n -> S] /\ \A x \in S : \E k \in 1..n : ns[k] = x
  BY <1>8 DEF Surjection
<1>10. ns \in [1..n -> Names] /\ DOMAIN ns = 1..n
  BY <1>4, <1>9
<1>11. ns \in Seq(Names)
  BY <1>10
<1>12. ASSUME NEW c \in Children(p) PROVE \E k \in DOMAIN ns : Append(p, ns[k]) = c
  BY <1>2, <1>3, <1>9, <1>10
<1> QED
  BY <1>11, <1>12 DEF Lists

(* The calls that come first now are c, those after the next of t follow. *)
Spliced(w, c, t) ==
  /\ \A k \in DOMAIN w : \/ \E j \in DOMAIN c : w[k] = c[j]
                         \/ \E j \in DOMAIN t : j # 1 /\ w[k] = t[j]
  /\ \A j \in DOMAIN c : \E k \in DOMAIN w : w[k] = c[j]
  /\ \A j \in DOMAIN t : j # 1 => \E k \in DOMAIN w : w[k] = t[j]

LEMMA SplicedIs ==
  ASSUME NEW S, NEW c \in Seq(S), NEW t \in Seq(S), t # << >>
  PROVE  c \o Tail(t) \in Seq(S) /\ Spliced(c \o Tail(t), c, t)
<1>1. PICK u \in Seq(S) : u = Tail(t)
  BY HeadTailProperties
<1>2. Len(t) \in Nat \ {0} /\ DOMAIN t = 1..Len(t) /\ Len(c) \in Nat /\ DOMAIN c = 1..Len(c)
  BY EmptySeq, LenProperties
<1>3. Len(u) = Len(t) - 1 /\ \A k \in 1..Len(u) : u[k] = t[k + 1]
  BY <1>1, HeadTailProperties
<1>4. PICK w \in Seq(S) : w = c \o u
  BY ConcatProperties
<1>5. /\ Len(w) = Len(c) + Len(u) /\ DOMAIN w = 1..Len(w)
      /\ \A k \in 1..Len(c) : w[k] = c[k]
      /\ \A k \in (Len(c) + 1)..(Len(c) + Len(u)) : w[k] = u[k - Len(c)]
  BY <1>4, ConcatProperties, LenProperties
<1>6. ASSUME NEW k \in DOMAIN w
      PROVE  (\E j \in DOMAIN c : w[k] = c[j]) \/ (\E j \in DOMAIN t : j # 1 /\ w[k] = t[j])
  <2>1. CASE k <= Len(c)
    BY <1>2, <1>5, <1>6, <2>1
  <2>2. CASE k > Len(c)
    <3>1. k - Len(c) \in 1..Len(u) /\ k - Len(c) + 1 \in DOMAIN t /\ k - Len(c) + 1 # 1
      BY <1>2, <1>3, <1>5, <1>6, <2>2
    <3>2. w[k] = u[k - Len(c)]
      <4>1. k \in (Len(c) + 1)..(Len(c) + Len(u))
        BY <1>2, <1>3, <1>5, <1>6, <2>2
      <4> QED
        BY <1>5, <4>1
    <3>3. w[k] = t[k - Len(c) + 1]
      BY <1>3, <3>1, <3>2
    <3> QED
      BY <3>1, <3>3
  <2> QED
    BY <1>2, <1>5, <2>1, <2>2
<1>7. ASSUME NEW j \in DOMAIN c PROVE \E k \in DOMAIN w : w[k] = c[j]
  BY <1>2, <1>3, <1>5
<1>8. ASSUME NEW j \in DOMAIN t, j # 1 PROVE \E k \in DOMAIN w : w[k] = t[j]
  <2>1. j - 1 \in 1..Len(u) /\ u[j - 1] = t[j]
    BY <1>2, <1>3, <1>8
  <2>2. Len(c) + (j - 1) \in DOMAIN w /\ Len(c) + (j - 1) \in (Len(c) + 1)..(Len(c) + Len(u))
    BY <1>2, <1>3, <1>5, <2>1
  <2>3. w[Len(c) + (j - 1)] = u[j - 1]
    BY <1>2, <1>5, <2>1, <2>2
  <2> QED
    BY <2>1, <2>2, <2>3
<1>9. Spliced(w, c, t)
  BY <1>6, <1>7, <1>8 DEF Spliced
<1> QED
  BY <1>1, <1>4, <1>9

(* The calls for the names ns in x: below x, and to where x goes. *)
Below(c, p, q, x, ns) ==
  /\ c \in Seq(Pending) /\ DOMAIN c = DOMAIN ns
  /\ \A k \in DOMAIN c : c[k][1] = Append(x, ns[k]) /\ IsPrefix(p, c[k][1])
                         /\ c[k][2] = To(p, q, c[k][1])

LEMMA CallsBelow ==
  ASSUME NEW p \in Paths, NEW q \in Paths, NEW x \in Paths, IsPrefix(p, x), NEW y \in Paths,
         y = To(p, q, x), NEW ns \in Seq(Names)
  PROVE  Below(Calls(x, y, ns), p, q, x, ns)
<1>1. PICK c : c = Calls(x, y, ns)
  OBVIOUS
<1>2. PICK f : f = [k \in DOMAIN ns |->
                      IF tree[Append(x, ns[k])] = Dir THEN "CopyDir" ELSE "CopyFile"]
  OBVIOUS
<1>8. c = [k \in DOMAIN ns |-> <<Append(x, ns[k]), Append(y, ns[k]), f[k]>>]
  BY <1>1, <1>2 DEF Calls
<1>9. \A k \in DOMAIN ns : f[k] \in {"CopyDir", "CopyFile"}
  BY <1>2
<1>3. Len(ns) \in Nat /\ DOMAIN ns = 1..Len(ns) /\ \A k \in DOMAIN ns : ns[k] \in Names
  BY LenProperties, ElementOfSeq
<1>4. ASSUME NEW k \in DOMAIN ns
      PROVE  /\ c[k] = <<Append(x, ns[k]), Append(y, ns[k]), f[k]>>
             /\ Append(x, ns[k]) \in Paths /\ Append(y, ns[k]) \in Paths
             /\ IsPrefix(p, Append(x, ns[k])) /\ Append(y, ns[k]) = To(p, q, Append(x, ns[k]))
  <2>1. PICK e \in Names : e = ns[k]
    BY <1>3
  <2>2. Append(x, e) \in Paths /\ IsPrefix(x, Append(x, e)) /\ Append(y, e) \in Paths
    BY AppendIs
  <2>3. IsPrefix(p, Append(x, e))
    BY <2>2, PrefixOrder
  <2>4. To(p, q, Append(x, e)) = Append(To(p, q, x), e)
    BY ToAppend
  <2> QED
    BY <1>8, <2>1, <2>2, <2>3, <2>4
<1>5. c \in Seq(Pending)
  <2>1. c \in [1..Len(ns) -> Pending]
    BY <1>3, <1>4, <1>8, <1>9 DEF Pending
  <2> QED
    BY <1>3, <2>1
<1>6. DOMAIN c = DOMAIN ns
  BY <1>8
<1>7. \A k \in DOMAIN c : c[k][1] = Append(x, ns[k]) /\ c[k][2] = Append(y, ns[k])
  BY <1>4, <1>6
<1> QED
  BY <1>1, <1>4, <1>5, <1>6, <1>7 DEF Below

LEMMA ReadDirHand ==
  ASSUME StepInv, NEW s \in Sessions, ReadDir(s)
  PROVE  HandStep(s)
<1>1. HandlersOK /\ Hand(s) /\ GoodTree(tree) /\ UNCHANGED <<cwd, req>> /\ TodoAt(s)
  BY DEF StepInv, ReadDir, Hand
<1>2. PICK t \in Seq(Pending), p \in Paths, q \in Paths :
        t = todo[s] /\ p = req[s].src /\ q = req[s].dst
  BY <1>1, InHand
<1>3. pc[s] = "readdir" /\ todo[s] # << >> /\ req[s].op = "copy"
  BY <1>1 DEF ReadDir, Hand, OpAt, TodoAt, CopyPcs
<1>4. PICK x \in Paths, y \in Paths :
        Head(todo[s])[1] = x /\ Head(todo[s])[2] = y /\ IsPrefix(p, x) /\ y = To(p, q, x)
  BY <1>1, <1>2, <1>3, NextCall
<1>5. CASE Fail(s, "readdir")
  BY <1>1, <1>5, FailHand DEF CopyPcs
<1>6. CASE /\ Goes(s, "readdir", "copy") /\ UNCHANGED <<files, result>>
           /\ \E ns \in Entries(x) : todo' = [todo EXCEPT ![s] = Calls(x, y, ns) \o Tail(@)]
  <2>1. PICK ns \in Entries(x) : todo' = [todo EXCEPT ![s] = Calls(x, y, ns) \o Tail(@)]
    BY <1>6
  <2>2. ns \in Seq(Names)
    BY <1>1, EntriesList DEF Lists
  <2>3. PICK c : c = Calls(x, y, ns)
    OBVIOUS
  <2>4. Below(c, p, q, x, ns)
    BY <1>4, <2>2, <2>3, CallsBelow
  <2>5. c \in Seq(Pending)
    BY <2>4 DEF Below
  <2>6. PICK w : w = c \o Tail(t)
    OBVIOUS
  <2>7. Spliced(w, c, t)
    BY <1>2, <1>3, <2>5, <2>6, SplicedIs
  <2>8. w \in Seq(Pending)
    BY <1>2, <1>3, <2>5, <2>6, SplicedIs
  <2>9. todo' = [todo EXCEPT ![s] = w]
    BY <1>2, <2>1, <2>3, <2>6
  <2>10. /\ req[s] \in Requests /\ cwd[s] \in Paths
         /\ from[s] \in 0..MaxIno /\ to[s] \in 0..MaxIno /\ off[s] \in Nat
         /\ result[s] \in Results /\ "copy" \in Pcs
    BY <1>1, InHand DEF HandlersOK, Pcs, CopyPcs
  <2>11. Becomes(s, cwd[s], "copy", result[s], req[s], w, from[s], to[s], off[s])
    BY <1>1, <1>6, <2>9 DEF Becomes, Now, Goes, files
  <2>12. Became(s, cwd[s], "copy", result[s], req[s], w, from[s], to[s], off[s])
    BY <1>1, <2>8, <2>10, <2>11, BecomesIs
  <2>13. /\ HandlersOK' /\ Others(s) /\ pc'[s] = "copy" /\ req'[s] = req[s] /\ todo'[s] = w
         /\ from'[s] = from[s] /\ to'[s] = to[s] /\ off'[s] = off[s]
    BY <2>12 DEF Became
  <2>14. OpAt(s)' /\ FilesAt(s)' /\ MkdirAt(s)'
    BY <1>1, <1>3, <2>13 DEF Hand, OpAt, FilesAt, MkdirAt, PathPcs, AtPcs, CopyPcs
  <2>15. ASSUME NEW k \in DOMAIN w PROVE IsPrefix(p, w[k][1]) /\ w[k][2] = To(p, q, w[k][1])
    <3>1. CASE \E j \in DOMAIN c : w[k] = c[j]
      BY <2>4, <3>1 DEF Below
    <3>2. CASE \E j \in DOMAIN t : w[k] = t[j]
      BY <1>1, <1>2, <3>2 DEF TodoAt, CallAt
    <3> QED
      BY <2>7, <3>1, <3>2 DEF Spliced
  <2>16. TodoAt(s)'
    BY <1>2, <1>3, <2>13, <2>15 DEF TodoAt, CallAt, CopyPcs
  <2> QED
    BY <2>13, <2>14, <2>16 DEF HandStep, Hand
<1> QED
  BY <1>4, <1>5, <1>6 DEF ReadDir, Call

(* A file to be opened is none of the directories. *)
LEMMA OpensFiles ==
  ASSUME GoodTree(tree), NEW p, NEW i \in Opens(p)
  PROVE  i \in Inos /\ i # 0 /\ i \in 0..MaxIno
<1>1. i \in Inos
  <2>1. CASE IsFile(p)
    <3>1. i = tree[p] /\ p \in DOMAIN tree /\ tree[p] # Dir
      BY <2>1 DEF Opens, IsFile, Exists
    <3> QED
      BY <3>1, Named
  <2>2. CASE ~IsFile(p)
    <3>1. i \in {CHOOSE j \in Free : TRUE} /\ Free # {}
      BY <2>2 DEF Opens
    <3>2. i \in Free
      BY <3>1
    <3> QED
      BY <3>2 DEF Free
  <2> QED
    BY <2>1, <2>2
<1> QED
  BY <1>1, OpsAssumption DEF Inos

LEMMA CopyDirHand ==
  ASSUME StepInv, NEW s \in Sessions, CopyDir(s)
  PROVE  HandStep(s)
<1>1. /\ HandlersOK /\ Hand(s) /\ UNCHANGED <<cwd, req, from, to, off, result>>
      /\ pc[s] = "copy" /\ todo[s] # << >>
  BY DEF StepInv, CopyDir, CopyCall, files
<1>2. CASE Goes(s, "copy", "stat") /\ UNCHANGED todo
  <2>1. Now(cwd, cwd', s, cwd[s]) /\ Now(result, result', s, result[s])
        /\ cwd[s] \in Paths /\ result[s] \in Results
    BY <1>1, Stays
  <2>2. Now(pc, pc', s, "stat") /\ "stat" \in Pcs /\ GoesOn(pc[s], "stat")
    BY <1>1, <1>2 DEF Goes, Now, Pcs, CopyPcs, GoesOn
  <2>3. UNCHANGED <<req, todo, files>>
    BY <1>1, <1>2 DEF files
  <2> QED
    BY <1>1, <2>1, <2>2, <2>3, MovesOn
<1>3. CASE /\ todo' = [todo EXCEPT ![s] = <<<<Call(s)[1], Call(s)[2], "CopyFile">>>> \o Tail(@)]
           /\ UNCHANGED pc
  <2>1. PICK t \in Seq(Pending), p \in Paths, q \in Paths :
          t = todo[s] /\ p = req[s].src /\ q = req[s].dst
    BY <1>1, InHand
  <2>2. TodoAt(s)
    BY <1>1 DEF Hand
  <2>3. PICK x \in Paths, y \in Paths :
          Head(todo[s])[1] = x /\ Head(todo[s])[2] = y /\ IsPrefix(p, x) /\ y = To(p, q, x)
    BY <1>1, <2>1, <2>2, NextCall
  <2>4. PICK e \in Pending : e = <<x, y, "CopyFile">>
    BY DEF Pending
  <2>5. PICK c \in Seq(Pending) : c = <<e>>
    <3>1. <<e>> \in Seq(Pending)
      OBVIOUS
    <3> QED
      BY <3>1
  <2>6. DOMAIN c = {1} /\ c[1] = e /\ e[1] = x /\ e[2] = y
    BY <2>4, <2>5
  <2>7. PICK w \in Seq(Pending) : w = c \o Tail(t) /\ Spliced(w, c, t)
    BY <1>1, <2>1, SplicedIs
  <2>8. todo' = [todo EXCEPT ![s] = w]
    BY <1>3, <2>1, <2>3, <2>4, <2>5, <2>7 DEF Call
  <2>9. /\ req[s] \in Requests /\ cwd[s] \in Paths /\ from[s] \in 0..MaxIno
        /\ to[s] \in 0..MaxIno /\ off[s] \in Nat /\ result[s] \in Results /\ pc[s] \in Pcs
    BY <1>1, InHand DEF HandlersOK
  <2>10. Becomes(s, cwd[s], pc[s], result[s], req[s], w, from[s], to[s], off[s])
    BY <1>1, <1>3, <2>8 DEF Becomes, Now
  <2>11. Became(s, cwd[s], pc[s], result[s], req[s], w, from[s], to[s], off[s])
    BY <1>1, <2>7, <2>9, <2>10, BecomesIs
  <2>12. /\ HandlersOK' /\ Others(s) /\ pc'[s] = pc[s] /\ req'[s] = req[s] /\ todo'[s] = w
         /\ from'[s] = from[s] /\ to'[s] = to[s] /\ off'[s] = off[s]
    BY <2>11 DEF Became
  <2>13. OpAt(s)' /\ FilesAt(s)' /\ MkdirAt(s)'
    BY <1>1, <2>12 DEF Hand, OpAt, FilesAt, MkdirAt, PathPcs, AtPcs, CopyPcs
  <2>14. ASSUME NEW k \in DOMAIN w PROVE IsPrefix(p, w[k][1]) /\ w[k][2] = To(p, q, w[k][1])
    <3>1. CASE \E j \in DOMAIN c : w[k] = c[j]
      BY <2>3, <2>6, <3>1
    <3>2. CASE \E j \in DOMAIN t : w[k] = t[j]
      BY <2>1, <2>2, <3>2 DEF TodoAt, CallAt
    <3> QED
      BY <2>7, <3>1, <3>2 DEF Spliced
  <2>15. OpAt(s) /\ req[s].op = "copy"
    BY <1>1 DEF Hand, OpAt, CopyPcs
  <2>16. TodoAt(s)'
    BY <1>1, <2>1, <2>12, <2>14, <2>15 DEF TodoAt, CallAt, CopyPcs
  <2> QED
    BY <2>12, <2>13, <2>16 DEF HandStep, Hand
<1> QED
  BY <1>2, <1>3 DEF CopyDir

LEMMA OpenSourceHand ==
  ASSUME StepInv, NEW s \in Sessions, OpenSource(s)
  PROVE  HandStep(s)
<1>1. /\ HandlersOK /\ Hand(s) /\ GoodTree(tree) /\ pc[s] = "copy" /\ todo[s] # << >>
      /\ UNCHANGED <<cwd, req, todo, to, off, result>> /\ Goes(s, "copy", "open")
      /\ Call(s)[1] \in DOMAIN tree /\ from' = [from EXCEPT ![s] = tree[Call(s)[1]]]
  BY DEF StepInv, OpenSource, CopyCall, Exists
<1>2. PICK f \in {Dir} \cup Inos : f = tree[Call(s)[1]]
  BY <1>1, Named
<1>3. f \in 0..MaxIno
  BY OpsAssumption DEF Inos, Dir
<1>4. /\ req[s] \in Requests /\ cwd[s] \in Paths /\ to[s] \in 0..MaxIno /\ off[s] \in Nat
      /\ todo[s] \in Seq(Pending) /\ result[s] \in Results /\ "open" \in Pcs
  BY <1>1, InHand DEF HandlersOK, Pcs, CopyPcs
<1>5. Becomes(s, cwd[s], "open", result[s], req[s], todo[s], f, to[s], off[s])
  BY <1>1, <1>2 DEF Becomes, Now, Goes
<1>6. Became(s, cwd[s], "open", result[s], req[s], todo[s], f, to[s], off[s])
  BY <1>1, <1>3, <1>4, <1>5, BecomesIs
<1>7. /\ HandlersOK' /\ Others(s) /\ pc'[s] = "open" /\ req'[s] = req[s] /\ todo'[s] = todo[s]
      /\ from'[s] = f /\ to'[s] = to[s] /\ off'[s] = off[s]
  BY <1>6 DEF Became
<1>8. OpAt(s)' /\ FilesAt(s)' /\ MkdirAt(s)'
  BY <1>1, <1>7 DEF Hand, OpAt, FilesAt, MkdirAt, PathPcs, AtPcs, CopyPcs
<1>9. TodoAt(s)'
  BY <1>1, <1>7 DEF Hand, TodoAt, CallAt, CopyPcs
<1> QED
  BY <1>7, <1>8, <1>9 DEF HandStep, Hand

LEMMA OpenDestinationHand ==
  ASSUME StepInv, NEW s \in Sessions, OpenDestination(s)
  PROVE  HandStep(s)
<1>1. /\ HandlersOK /\ Hand(s) /\ GoodTree(tree) /\ pc[s] = "open"
      /\ UNCHANGED <<cwd, req, todo, from, off, result>>
  BY DEF StepInv, OpenDestination
<1>2. PICK i \in Opens(Call(s)[2]) :
        /\ Goes(s, "open", IF from[s] = Dir THEN "eisdir" ELSE "chunks")
        /\ to' = [to EXCEPT ![s] = i]
  BY DEF OpenDestination
<1>3. i \in 0..MaxIno /\ i # 0
  BY <1>1, OpensFiles
<1>4. PICK b \in {"chunks", "eisdir"} :
        pc' = [pc EXCEPT ![s] = b] /\ (from[s] # 0) = (b = "chunks")
  BY <1>2 DEF Goes, Dir
<1>5. /\ req[s] \in Requests /\ cwd[s] \in Paths /\ from[s] \in 0..MaxIno /\ off[s] \in Nat
      /\ todo[s] \in Seq(Pending) /\ result[s] \in Results /\ b \in Pcs
  BY <1>1, InHand DEF HandlersOK, Pcs, CopyPcs
<1>6. Becomes(s, cwd[s], b, result[s], req[s], todo[s], from[s], i, off[s])
  BY <1>1, <1>2, <1>4 DEF Becomes, Now
<1>7. Became(s, cwd[s], b, result[s], req[s], todo[s], from[s], i, off[s])
  BY <1>1, <1>3, <1>5, <1>6, BecomesIs
<1>8. /\ HandlersOK' /\ Others(s) /\ pc'[s] = b /\ req'[s] = req[s] /\ todo'[s] = todo[s]
      /\ from'[s] = from[s] /\ to'[s] = i /\ off'[s] = off[s]
  BY <1>7 DEF Became
<1>9. OpAt(s)' /\ FilesAt(s)' /\ MkdirAt(s)'
  BY <1>1, <1>3, <1>4, <1>8 DEF Hand, OpAt, FilesAt, MkdirAt, PathPcs, AtPcs, CopyPcs
<1>10. TodoAt(s)'
  BY <1>1, <1>8 DEF Hand, TodoAt, CallAt, CopyPcs
<1> QED
  BY <1>8, <1>9, <1>10 DEF HandStep, Hand

(* A chunk more is copied, or received. *)
LEMMA ChunkHand ==
  ASSUME StepInv, NEW s \in Sessions, CopyChunk(s) \/ Receive(s)
  PROVE  HandStep(s)
<1>1. /\ HandlersOK /\ Hand(s) /\ pc[s] \in {"chunks", "receive"}
      /\ UNCHANGED <<cwd, pc, req, todo, from, to, result>>
      /\ off' = [off EXCEPT ![s] = @ + 1]
  BY DEF StepInv, CopyChunk, Receive
<1>6. /\ req[s] \in Requests /\ cwd[s] \in Paths
      /\ todo[s] \in Seq(Pending) /\ result[s] \in Results /\ pc[s] \in Pcs
      /\ from[s] \in 0..MaxIno /\ to[s] \in 0..MaxIno /\ off[s] \in Nat
  BY <1>1, InHand DEF HandlersOK
<1>7. PICK n \in Nat : n = off[s] + 1
  BY <1>6
<1>8. Becomes(s, cwd[s], pc[s], result[s], req[s], todo[s], from[s], to[s], n)
  BY <1>1, <1>7 DEF Becomes, Now
<1>9. Became(s, cwd[s], pc[s], result[s], req[s], todo[s], from[s], to[s], n)
  BY <1>1, <1>6, <1>8, BecomesIs
<1>10. /\ HandlersOK' /\ Others(s) /\ pc'[s] = pc[s] /\ req'[s] = req[s]
       /\ todo'[s] = todo[s]
       /\ from'[s] = from[s] /\ to'[s] = to[s] /\ off'[s] = n
  BY <1>9 DEF Became
<1>11. OpAt(s)' /\ FilesAt(s)' /\ MkdirAt(s)'
  BY <1>1, <1>10 DEF Hand, OpAt, FilesAt, MkdirAt, PathPcs, AtPcs, CopyPcs
<1>12. TodoAt(s)'
  BY <1>1, <1>10 DEF Hand, TodoAt, CallAt, CopyPcs
<1> QED
  BY <1>10, <1>11, <1>12 DEF HandStep, Hand

LEMMA CopiedFileHand ==
  ASSUME StepInv, NEW s \in Sessions, CopiedFile(s)
  PROVE  HandStep(s)
<1>1. /\ HandlersOK /\ Hand(s) /\ UNCHANGED <<cwd, req, result>>
      /\ pc[s] = "chunks" /\ pc' = [pc EXCEPT ![s] = "copy"]
      /\ todo' = [todo EXCEPT ![s] = Tail(@)] /\ from' = [from EXCEPT ![s] = 0]
      /\ to' = [to EXCEPT ![s] = 0] /\ off' = [off EXCEPT ![s] = 0]
  BY DEF StepInv, CopiedFile, Goes
<1>2. PICK t \in Seq(Pending) : t = todo[s]
  BY <1>1, InHand
<1>3. t # << >>
  BY <1>1, <1>2 DEF Hand, OpAt, TodoAt, CopyPcs
<1>4. PICK w \in Seq(Pending) : w = Tail(t)
  BY <1>3, HeadTailProperties
<1>5. /\ req[s] \in Requests /\ cwd[s] \in Paths
      /\ result[s] \in Results /\ "copy" \in Pcs /\ 0 \in Nat /\ 0 \in 0..MaxIno
  BY <1>1, InHand, OpsAssumption DEF HandlersOK, Pcs, CopyPcs
<1>6. Becomes(s, cwd[s], "copy", result[s], req[s], w, 0, 0, 0)
  BY <1>1, <1>2, <1>4 DEF Becomes, Now
<1>7. Became(s, cwd[s], "copy", result[s], req[s], w, 0, 0, 0)
  BY <1>1, <1>5, <1>6, BecomesIs
<1>8. /\ HandlersOK' /\ Others(s) /\ pc'[s] = "copy" /\ req'[s] = req[s]
      /\ todo'[s] = w /\ from'[s] = 0 /\ to'[s] = 0 /\ off'[s] = 0
  BY <1>7 DEF Became
<1>9. OpAt(s)' /\ FilesAt(s)' /\ MkdirAt(s)'
  BY <1>1, <1>8 DEF Hand, OpAt, FilesAt, MkdirAt, PathPcs, AtPcs, CopyPcs
<1>10. ASSUME NEW k \in DOMAIN w PROVE \E j \in DOMAIN t : w[k] = t[j]
  <2>1. Len(w) = Len(t) - 1 /\ (\A i \in 1..Len(w) : w[i] = t[i + 1])
    BY <1>3, <1>4, HeadTailProperties
  <2>2. Len(t) \in Nat /\ DOMAIN t = 1..Len(t) /\ DOMAIN w = 1..Len(w)
    BY LenProperties
  <2>3. k + 1 \in DOMAIN t /\ w[k] = t[k + 1]
    BY <1>10, <2>1, <2>2
  <2> QED
    BY <2>3
<1>11. TodoAt(s)'
  BY <1>1, <1>2, <1>8, <1>10 DEF Hand, TodoAt, CallAt, CopyPcs
<1> QED
  BY <1>8, <1>9, <1>11 DEF HandStep, Hand

LEMMA CreateHand ==
  ASSUME StepInv, NEW s \in Sessions, Create(s)
  PROVE  HandStep(s)
<1>1. /\ HandlersOK /\ Hand(s) /\ GoodTree(tree)
      /\ UNCHANGED <<cwd, req, todo, from, off, result>>
  BY DEF StepInv, Create
<1>2. PICK i \in Opens(Here(s)) : Goes(s, "create", "receive") /\ to' = [to EXCEPT ![s] = i]
  BY DEF Create
<1>3. i \in 0..MaxIno /\ i # 0
  BY <1>1, OpensFiles
<1>6. /\ req[s] \in Requests /\ cwd[s] \in Paths
      /\ todo[s] \in Seq(Pending) /\ result[s] \in Results /\ "receive" \in Pcs
      /\ from[s] \in 0..MaxIno /\ off[s] \in Nat
  BY <1>1, InHand DEF HandlersOK, Pcs, CopyPcs
<1>7. Becomes(s, cwd[s], "receive", result[s], req[s], todo[s], from[s], i, off[s])
  BY <1>1, <1>2 DEF Becomes, Now, Goes
<1>8. Became(s, cwd[s], "receive", result[s], req[s], todo[s], from[s], i, off[s])
  BY <1>1, <1>3, <1>6, <1>7, BecomesIs
<1>9. /\ HandlersOK' /\ Others(s) /\ pc'[s] = "receive" /\ req'[s] = req[s]
      /\ todo'[s] = todo[s]
      /\ from'[s] = from[s] /\ to'[s] = i /\ off'[s] = off[s]
  BY <1>8 DEF Became
<1>10. pc[s] = "create"
  BY <1>2 DEF Goes
<1>11. OpAt(s)' /\ FilesAt(s)' /\ MkdirAt(s)'
  BY <1>1, <1>3, <1>9, <1>10 DEF Hand, OpAt, FilesAt, MkdirAt, PathPcs, AtPcs, CopyPcs
<1>12. TodoAt(s)'
  BY <1>1, <1>9, <1>10 DEF Hand, TodoAt, CallAt, CopyPcs
<1> QED
  BY <1>9, <1>11, <1>12 DEF HandStep, Hand

LEMMA CloseHand ==
  ASSUME StepInv, NEW s \in Sessions, Received(s) \/ ReceiveFails(s)
  PROVE  HandStep(s)
<1>1. /\ HandlersOK /\ Hand(s) /\ UNCHANGED <<cwd, req, todo, from>>
      /\ pc[s] = "receive" /\ to' = [to EXCEPT ![s] = 0] /\ off' = [off EXCEPT ![s] = 0]
  BY DEF StepInv, Received, ReceiveFails, Close, Done, Goes
<1>2. PICK b \in {"done", "cleanup"}, r \in {"ok", "error"} :
        /\ pc' = [pc EXCEPT ![s] = b] /\ result' = [result EXCEPT ![s] = r]
        /\ b = "cleanup" => r = "error"
  BY DEF Received, ReceiveFails, Done, Goes, Says
<1>5. /\ req[s] \in Requests /\ cwd[s] \in Paths
      /\ todo[s] \in Seq(Pending) /\ from[s] \in 0..MaxIno
      /\ r \in Results /\ b \in Pcs /\ 0 \in Nat /\ 0 \in 0..MaxIno
  BY <1>1, InHand, OpsAssumption DEF HandlersOK, Pcs, CopyPcs, Results
<1>6. Becomes(s, cwd[s], b, r, req[s], todo[s], from[s], 0, 0)
  BY <1>1, <1>2 DEF Becomes, Now
<1>7. Became(s, cwd[s], b, r, req[s], todo[s], from[s], 0, 0)
  BY <1>1, <1>5, <1>6, BecomesIs
<1>8. /\ HandlersOK' /\ Others(s) /\ pc'[s] = b /\ req'[s] = req[s] /\ result'[s] = r
      /\ todo'[s] = todo[s]
      /\ from'[s] = from[s] /\ to'[s] = 0 /\ off'[s] = 0
  BY <1>7 DEF Became
<1>9. OpAt(s)' /\ FilesAt(s)' /\ MkdirAt(s)'
  BY <1>1, <1>2, <1>8 DEF Hand, OpAt, FilesAt, MkdirAt, PathPcs, AtPcs, CopyPcs
<1>10. TodoAt(s)'
  BY <1>1, <1>2, <1>8 DEF Hand, TodoAt, CallAt, CopyPcs
<1> QED
  BY <1>8, <1>9, <1>10 DEF HandStep, Hand

(* Every step keeps what its handler has in hand in order. *)
LEMMA AnyHandStep ==
  ASSUME StepInv, NEW s \in Sessions,
         Handler(s) \/ \E o \in Ops, t, u \in Targets : Begin(s, o, t, u)
  PROVE  HandStep(s)
<1>1. CASE \E o \in Ops, t, u \in Targets : Begin(s, o, t, u)
  BY <1>1, BeginHand
<1>2. CASE Look(s) \/ ChDir(s) \/ Move(s)
  BY <1>2, ActHand
<1>3. CASE Stat(s) \/ Mkdir(s)
  BY <1>3, StatHand, MkdirHand
<1>4. CASE \/ Unlink(s) \/ Rmdir(s, "noentry") \/ Rmdir(s, "rmdir") \/ OpenParent(s)
           \/ Unlinkat(s) \/ Openat(s) \/ Readdirnames(s) \/ CloseDir(s) \/ Rmdirat(s)
  BY <1>4, DeleteHand
<1>5. CASE Copied(s) \/ CreateFails(s) \/ Cleanup(s)
  BY <1>5, EndHand
<1>6. CASE CopyDir(s) \/ ReadDir(s)
  BY <1>6, CopyDirHand, ReadDirHand
<1>7. CASE OpenSource(s) \/ OpenDestination(s)
  BY <1>7, OpenSourceHand, OpenDestinationHand
<1>8. CASE CopyFails(s) \/ CopyBreaks(s)
  BY <1>8, CopyFailsHand
<1>9. CASE CopyChunk(s) \/ Receive(s)
  BY <1>9, ChunkHand
<1>10. CASE CopiedFile(s)
  BY <1>10, CopiedFileHand
<1>11. CASE Create(s)
  BY <1>11, CreateHand
<1>12. CASE Received(s) \/ ReceiveFails(s)
  BY <1>12, CloseHand
<1>13. CASE Answer(s)
  BY <1>13, AnswerHand
<1> QED
  BY <1>1, <1>2, <1>3, <1>4, <1>5, <1>6, <1>7, <1>8, <1>9, <1>10, <1>11, <1>12, <1>13 DEF Handler

-----------------------------------------------------------------------------
(* The directories that are open.                                          *)

(* Frames h as g: the same names left, in the same directories, or where   *)
(* those are now, or in none that is at its path now.                      *)
Carried(h, g) ==
  /\ g \in Frames /\ Len(g) = Len(h)
  /\ \A k \in 1..Len(h) :
       /\ g[k].left = h[k].left
       /\ \A d \in Paths : h[k].dir = {d} => g[k].dir = {d} \/ d \notin DOMAIN tree'

LEMMA SameCarried ==
  ASSUME NEW h \in Frames
  PROVE  Carried(h, h)
BY DEF Carried

LEMMA ToSame ==
  ASSUME NEW p \in Paths, NEW r \in Paths, IsPrefix(p, r)
  PROVE  To(p, p, r) = r
<1>1. PICK u \in Paths : u = To(p, p, r) /\ Follows(u, p, p, r)
  BY ToIs
<1>2. Len(p) \in Nat /\ Len(r) \in Nat /\ Len(p) <= Len(r) /\ \A i \in 1..Len(p) : p[i] = r[i]
  BY PathLen, PrefixIs
<1>3. Len(u) = Len(r)
  BY <1>1, <1>2 DEF Follows
<1>4. ASSUME NEW i \in 1..Len(u) PROVE u[i] = r[i]
  <2>1. CASE i <= Len(p)
    BY <1>1, <1>2, <1>3, <1>4, <2>1 DEF Follows
  <2>2. CASE i > Len(p)
    <3>1. i \in (Len(p) + 1)..(Len(p) + (Len(r) - Len(p))) /\ i - Len(p) + Len(p) = i
      BY <1>2, <1>3, <1>4, <2>2
    <3> QED
      BY <1>1, <3>1 DEF Follows
  <2> QED
    BY <1>2, <1>4, <2>1, <2>2
<1> QED
  BY <1>1, <1>3, <1>4, PathsEqual

(* The frames h, of the directories D. *)
In(h, D) == [k \in DOMAIN h |-> [h[k] EXCEPT !.dir = D[k]]]

LEMMA FramesIn ==
  ASSUME NEW h \in Frames, NEW D \in [DOMAIN h -> SUBSET Paths], NEW g, g = In(h, D)
  PROVE  /\ g \in Frames /\ Len(g) = Len(h)
         /\ \A k \in 1..Len(h) : g[k].left = h[k].left /\ g[k].dir = D[k]
<1> USE DEF In
<1>1. PICK n \in Nat : n = Len(h) /\ DOMAIN h = 1..n
  BY LenProperties DEF Frames
<1>2. \A k \in 1..n : h[k] \in Frame
  BY <1>1, ElementOfSeq DEF Frames
<1>3. \A k \in 1..n : [h[k] EXCEPT !.dir = D[k]] \in Frame
  BY <1>1, <1>2 DEF Frame
<1>4. \A k \in 1..n : g[k].left = h[k].left /\ g[k].dir = D[k]
  BY <1>1, <1>2 DEF Frame
<1>5. g \in [1..n -> Frame]
  BY <1>1, <1>3
<1>6. g \in Seq(Frame)
  BY <1>5
<1>7. Len(g) = n
  BY <1>1, <1>6, LenProperties
<1> QED
  BY <1>1, <1>4, <1>6, <1>7 DEF Frames

LEMMA MovingCarries ==
  ASSUME GoodTree(tree), MaxPath \in Nat, dirs \in [Sessions -> Frames],
         NEW p \in Paths, NEW q \in Paths, MayRename(p, q), tree' = Renamed(p, q),
         NEW s \in Sessions
  PROVE  Carried(dirs[s], Moving(dirs, p, q)[s])
<1>1. PICK h \in Frames : h = dirs[s]
  OBVIOUS
<1>2. PICK D : D = [k \in DOMAIN h |-> {IF IsPrefix(p, d) THEN To(p, q, d) ELSE d : d \in h[k].dir}]
  OBVIOUS
<1>3. PICK n \in Nat : n = Len(h) /\ DOMAIN h = 1..n
  BY LenProperties DEF Frames
<1>4. \A k \in 1..n : h[k].dir \in SUBSET Paths
  <2>1. \A k \in 1..n : h[k] \in Frame
    BY <1>3, ElementOfSeq DEF Frames
  <2> QED
    BY <2>1 DEF Frame
<1>5. \A d \in Paths : IsPrefix(p, d) => To(p, q, d) \in Paths
  BY ToIs
<1>6. D \in [DOMAIN h -> SUBSET Paths]
  BY <1>2, <1>3, <1>4, <1>5
<1>7. PICK g : g = In(h, D)
  OBVIOUS
<1>8. g = Moving(dirs, p, q)[s]
  BY <1>1, <1>2, <1>7 DEF Moving, To, In
<1>9. /\ g \in Frames /\ Len(g) = Len(h)
      /\ \A k \in 1..Len(h) : g[k].left = h[k].left /\ g[k].dir = D[k]
  BY <1>6, <1>7, FramesIn
<1>10. ASSUME NEW k \in 1..Len(h), NEW d \in Paths, h[k].dir = {d}
       PROVE  g[k].dir = {d} \/ d \notin DOMAIN tree'
  <2>1. g[k].dir = {IF IsPrefix(p, d) THEN To(p, q, d) ELSE d}
    BY <1>2, <1>3, <1>9, <1>10
  <2>2. CASE ~IsPrefix(p, d)
    BY <2>1, <2>2
  <2>3. CASE IsPrefix(p, d) /\ p = q
    BY <2>1, <2>3, ToSame
  <2>4. CASE IsPrefix(p, d) /\ p # q
    <3>1. PICK t : t = tree'
      OBVIOUS
    <3>2. d \notin DOMAIN t
      BY <2>4, <3>1, Swept
    <3> QED
      BY <3>1, <3>2
  <2> QED
    BY <2>2, <2>3, <2>4
<1> QED
  BY <1>1, <1>8, <1>9, <1>10 DEF Carried

LEMMA LosingCarries ==
  ASSUME dirs \in [Sessions -> Frames], NEW Q, \A r \in Q : r \notin DOMAIN tree',
         NEW s \in Sessions
  PROVE  Carried(dirs[s], Losing(dirs, Q)[s])
<1>1. PICK h \in Frames : h = dirs[s]
  OBVIOUS
<1>2. PICK D : D = [k \in DOMAIN h |-> h[k].dir \ Q]
  OBVIOUS
<1>3. PICK n \in Nat : n = Len(h) /\ DOMAIN h = 1..n
  BY LenProperties DEF Frames
<1>4. \A k \in 1..n : h[k].dir \in SUBSET Paths
  <2>1. \A k \in 1..n : h[k] \in Frame
    BY <1>3, ElementOfSeq DEF Frames
  <2> QED
    BY <2>1 DEF Frame
<1>6. D \in [DOMAIN h -> SUBSET Paths]
  BY <1>2, <1>3, <1>4
<1>7. PICK g : g = In(h, D)
  OBVIOUS
<1>8. g = Losing(dirs, Q)[s]
  BY <1>1, <1>2, <1>7 DEF Losing, In
<1>9. /\ g \in Frames /\ Len(g) = Len(h)
      /\ \A k \in 1..Len(h) : g[k].left = h[k].left /\ g[k].dir = D[k]
  BY <1>6, <1>7, FramesIn
<1>10. ASSUME NEW k \in 1..Len(h), NEW d \in Paths, h[k].dir = {d}
       PROVE  g[k].dir = {d} \/ d \notin DOMAIN tree'
  BY <1>2, <1>3, <1>9, <1>10
<1> QED
  BY <1>1, <1>8, <1>9, <1>10 DEF Carried

(* The frames h, n of them, with other names left in the innermost. *)
TopWith(h, n, ns) == [h EXCEPT ![n].left = ns]

LEMMA TopSet ==
  ASSUME NEW h \in Frames, NEW n \in Nat \ {0}, n = Len(h), NEW ns \in Seq(Names),
         NEW g, g = TopWith(h, n, ns)
  PROVE  /\ g \in Frames /\ Len(g) = n
         /\ \A k \in 1..n : g[k].dir = h[k].dir /\ (k # n => g[k].left = h[k].left)
<1>1. DOMAIN h = 1..n /\ h \in [1..n -> Frame] /\ n \in 1..n
  BY LenProperties DEF Frames
<1>2. \A k \in 1..n : h[k] \in Frame
  BY <1>1
<1>3. [h[n] EXCEPT !.left = ns] \in Frame
  BY <1>1, <1>2 DEF Frame
<1>4. \A k \in 1..n : g[k] = IF k = n THEN [h[n] EXCEPT !.left = ns] ELSE h[k]
  BY <1>1, <1>3 DEF TopWith
<1>6. DOMAIN g = 1..n /\ g \in [1..n -> Frame]
  BY <1>1, <1>3 DEF TopWith
<1>5. g \in Seq(Frame)
  <2>1. n \in Nat /\ g \in [1..n -> Frame]
    BY <1>6
  <2>2. \A i \in 1..n : g[i] \in Frame
    BY <2>1
  <2>3. g = [i \in 1..n |-> g[i]]
    BY <2>1
  <2>4. [i \in 1..n |-> g[i]] \in Seq(Frame)
    BY <2>1, <2>2
  <2> QED
    BY <2>3, <2>4
<1>7. Len(g) = n
  BY <1>5, <1>6, LenProperties
<1>8. [h[n] EXCEPT !.left = ns].dir = h[n].dir
  BY <1>1, <1>2 DEF Frame
<1> QED
  BY <1>4, <1>5, <1>7, <1>8 DEF Frames

(* The innermost directory is closed. *)
LEMMA TopClosed ==
  ASSUME NEW h \in Frames, NEW n \in Nat \ {0}, n = Len(h)
  PROVE  /\ Front(h) \in Frames /\ Len(Front(h)) = n - 1
         /\ \A k \in 1..(n - 1) : Front(h)[k] = h[k]
<1>1. h \in [1..n -> Frame] /\ n - 1 \in Int /\ 1 \in Int
  BY LenProperties DEF Frames
<1>2. \A k \in 1..(n - 1) : h[k] \in Frame
  BY <1>1
<1>3. /\ SubSeq(h, 1, n - 1) \in Seq(Frame)
      /\ Len(SubSeq(h, 1, n - 1)) = IF 1 <= n - 1 THEN (n - 1) - 1 + 1 ELSE 0
      /\ \A i \in 1..((n - 1) - 1 + 1) : SubSeq(h, 1, n - 1)[i] = h[1 + i - 1]
  BY <1>1, <1>2, SubSeqProperties
<1>4. Front(h) = SubSeq(h, 1, n - 1)
  BY DEF Front
<1>5. Len(Front(h)) = n - 1
  BY <1>3, <1>4
<1>6. ASSUME NEW k \in 1..(n - 1) PROVE Front(h)[k] = h[k]
  <2>1. k \in 1..((n - 1) - 1 + 1) /\ 1 + k - 1 = k
    OBVIOUS
  <2> QED
    BY <1>3, <1>4, <2>1
<1> QED
  BY <1>3, <1>4, <1>5, <1>6 DEF Frames

(* What is noted of deletes at a step of s. *)
GoneNoted ==
  \A t \in Sessions :
    gone'[t] <=> req'[t].op = "delete" /\ (gone[t] \/ req'[t].dst \notin DOMAIN tree')

LEMMA GoneWatched ==
  ASSUME NEW s \in Sessions, Watch(s)
  PROVE  GoneNoted
<1>1. gone' = [t \in Sessions |->
                 req'[t].op = "delete" /\ (gone[t] \/ req'[t].dst \notin DOMAIN tree')]
  BY DEF Watch
<1> QED
  BY <1>1, Zenon DEF GoneNoted

(* Frames that are carried still lead to p, or p is no more. *)
LEMMA CarriedOnPath ==
  ASSUME NEW t, t = tree', GoodTree(t), NEW p \in Paths, p # << >>, NEW h \in Frames, NEW g,
         h # << >>, Carried(h, g), OnPath(p, h)
  PROVE  OnPath(p, g) \/ p \notin DOMAIN t
<1>1. Front(p) \in Paths /\ IsPrefix(Front(p), p) /\ Front(p) # p
  BY FrontIs, PathLen
<1>2. p \in DOMAIN t => Front(p) \in DOMAIN t
  BY <1>1, Named
<1>3. Len(h) \in Nat \ {0} /\ Len(g) = Len(h)
  BY EmptySeq DEF Frames, Carried
<1>4. h[1].dir = {Front(p)} /\ (Len(h) > 1 => h[2].dir = {p})
  BY DEF OnPath
<1>5. g[1].dir = {Front(p)} \/ Front(p) \notin DOMAIN t
  <2>1. 1 \in 1..Len(h)
    BY <1>3
  <2> QED
    BY <1>1, <1>4, <2>1 DEF Carried
<1>6. Len(h) > 1 => g[2].dir = {p} \/ p \notin DOMAIN t
  <2>1. Len(h) > 1 => 2 \in 1..Len(h)
    BY <1>3
  <2> QED
    BY <1>4, <2>1 DEF Carried
<1> QED
  BY <1>2, <1>3, <1>5, <1>6 DEF OnPath

LEMMA CarriedLefts ==
  ASSUME NEW p, NEW b, NEW h \in Frames, NEW g, Carried(h, g), Lefts(p, b, h)
  PROVE  g # << >> /\ Lefts(p, b, g)
<1>1. h # << >>
  BY DEF Lefts
<1>2. Len(h) \in Nat \ {0} /\ Len(g) = Len(h)
  BY <1>1, EmptySeq DEF Frames, Carried
<1>3. g # << >>
  BY <1>2, EmptySeq
<1>4. 1 \in 1..Len(h)
  BY <1>2
<1>5. \A k \in 1..Len(h) : g[k].left = h[k].left
  BY DEF Carried
<1> QED
  BY <1>2, <1>3, <1>4, <1>5 DEF Lefts

(* A delete of another session, whose directories are carried along. *)
LEMMA OthersAt ==
  ASSUME StepInv, NEW s \in Sessions, HandStep(s), GoodTree(tree'), GoneNoted,
         NEW t \in Sessions \ {s}, Carried(dirs[t], dirs'[t])
  PROVE  HeldAt(t)' /\ GoneAt(t)'
<1>1. pc'[t] = pc[t] /\ req'[t] = req[t] /\ result'[t] = result[t]
  BY DEF HandStep, Others
<1>2. HandlersOK /\ OpAt(t) /\ HeldAt(t) /\ GoneAt(t) /\ dirs[t] \in Frames
  BY DEF StepInv, Hand
<1>3. PICK p \in Paths, h \in Frames : p = req[t].dst /\ h = dirs[t]
  BY <1>2, InHand
<1>4. PICK g, u : g = dirs'[t] /\ u = tree'
  OBVIOUS
<1>5. Carried(h, g) /\ GoodTree(u)
  BY <1>3, <1>4
<1>6. HeldAt(t)'
  <2> SUFFICES ASSUME pc[t] \in AtPcs PROVE Lefts(p, pc[t], g)
    BY <1>1, <1>3, <1>4 DEF HeldAt
  <2>1. Lefts(p, pc[t], h)
    BY <1>2, <1>3 DEF HeldAt
  <2> QED
    BY <1>5, <2>1, CarriedLefts
<1>7. GoneAt(t)'
  <2> SUFFICES ASSUME req[t].op = "delete"
               PROVE  /\ pc[t] = "noentry" => gone'[t]
                      /\ pc[t] \in AtPcs => gone'[t] \/ OnPath(p, g)
                      /\ pc[t] = "done" /\ result[t] = "ok" => gone'[t]
    BY <1>1, <1>3, <1>4 DEF GoneAt
  <2>1. gone'[t] <=> gone[t] \/ p \notin DOMAIN u
    BY <1>1, <1>3, <1>4 DEF GoneNoted
  <2>2. /\ pc[t] = "noentry" => gone[t]
        /\ pc[t] \in AtPcs => gone[t] \/ OnPath(p, h)
        /\ pc[t] = "done" /\ result[t] = "ok" => gone[t]
    BY <1>2, <1>3 DEF GoneAt
  <2>3. ASSUME pc[t] \in AtPcs, OnPath(p, h) PROVE gone'[t] \/ OnPath(p, g)
    <3>1. Lefts(p, pc[t], h)
      BY <1>2, <1>3, <2>3 DEF HeldAt
    <3>2. h # << >>
      BY <3>1 DEF Lefts
    <3>3. p # << >>
      BY <1>2, <1>3 DEF OpAt, TwoPaths
    <3>4. OnPath(p, g) \/ p \notin DOMAIN u
      BY <1>3, <1>4, <1>5, <2>3, <3>2, <3>3, CarriedOnPath
    <3> QED
      BY <2>1, <3>4
  <2> QED
    BY <2>1, <2>2, <2>3
<1> QED
  BY <1>6, <1>7

(* The directories that are open after a step of s. *)
FramesStep(s) ==
  /\ dirs' \in [Sessions -> Frames]
  /\ \A t \in Sessions \ {s} : Carried(dirs[t], dirs'[t])
  /\ HeldAt(s)' /\ GoneAt(s)'

(* Where s itself has none open, or no more. *)
LEMMA NoneOpen ==
  ASSUME NEW s \in Sessions, dirs' \in [Sessions -> Frames],
         \A t \in Sessions \ {s} : Carried(dirs[t], dirs'[t]), pc'[s] \notin AtPcs,
         req'[s].op = "delete" =>
           /\ pc'[s] = "noentry" => gone'[s]
           /\ pc'[s] = "done" /\ result'[s] = "ok" => gone'[s]
  PROVE  FramesStep(s)
BY DEF FramesStep, HeldAt, GoneAt

(* The directories of all the sessions are carried along. *)
AllCarried == dirs' \in [Sessions -> Frames] /\ \A t \in Sessions : Carried(dirs[t], dirs'[t])

LEMMA Rest ==
  ASSUME dirs \in [Sessions -> Frames], UNCHANGED dirs
  PROVE  AllCarried
BY SameCarried DEF AllCarried

LEMMA Lose ==
  ASSUME dirs \in [Sessions -> Frames], NEW Q, \A r \in Q : r \notin DOMAIN tree',
         NEW ds, ds = Losing(dirs, Q)
  PROVE  ds \in [Sessions -> Frames] /\ \A t \in Sessions : Carried(dirs[t], ds[t])
<1>1. \A t \in Sessions : Carried(dirs[t], ds[t])
  BY LosingCarries
<1>2. \A t \in Sessions : ds[t] \in Frames
  BY <1>1 DEF Carried
<1>3. ds = [t \in Sessions |-> ds[t]]
  BY DEF Losing
<1> QED
  BY <1>1, <1>2, <1>3

LEMMA MoveFrames ==
  ASSUME StepInv, NEW s \in Sessions, Move(s)
  PROVE  AllCarried
<1>1. GoodTree(tree) /\ HandlersOK /\ dirs \in [Sessions -> Frames] /\ MaxPath \in Nat
  BY OpsAssumption DEF StepInv
<1>2. PICK p \in Paths, q \in Paths : p = req[s].src /\ q = req[s].dst
  BY <1>1, InHand
<1>3. CASE UNCHANGED dirs
  BY <1>1, <1>3, Rest
<1>4. CASE MayRename(p, q) /\ Disk(Renamed(p, q), data) /\ dirs' = Moving(dirs, p, q)
  <2>1. tree' = Renamed(p, q)
    BY <1>4 DEF Disk
  <2>2. \A t \in Sessions : Carried(dirs[t], Moving(dirs, p, q)[t])
    BY <1>1, <1>4, <2>1, MovingCarries
  <2>3. \A t \in Sessions : Carried(dirs[t], dirs'[t])
    BY <1>4, <2>2
  <2>4. \A t \in Sessions : dirs'[t] \in Frames
    BY <2>3 DEF Carried
  <2>5. dirs' = [t \in Sessions |-> dirs'[t]]
    BY <1>4 DEF Moving
  <2> QED
    BY <2>3, <2>4, <2>5 DEF AllCarried
<1> QED
  BY <1>2, <1>3, <1>4 DEF Move

LEMMA CleanupFrames ==
  ASSUME StepInv, NEW s \in Sessions, Cleanup(s)
  PROVE  AllCarried
<1>1. dirs \in [Sessions -> Frames]
  BY DEF StepInv
<1>2. CASE UNCHANGED dirs
  BY <1>1, <1>2, Rest
<1>3. CASE Disk(Without(tree, {Here(s)}), data) /\ dirs' = Losing(dirs, {Here(s)})
  <2>1. PICK Q : Q = {Here(s)}
    OBVIOUS
  <2>2. tree' = Without(tree, Q)
    BY <1>3, <2>1 DEF Disk
  <2>3. \A r \in Q : r \notin DOMAIN tree'
    BY <2>2 DEF Without
  <2>4. PICK ds : ds = Losing(dirs, Q) /\ dirs' = ds
    BY <1>3, <2>1
  <2>5. ds \in [Sessions -> Frames] /\ \A t \in Sessions : Carried(dirs[t], ds[t])
    BY <1>1, <2>3, <2>4, Lose
  <2> QED
    BY <2>4, <2>5 DEF AllCarried
<1> QED
  BY <1>2, <1>3 DEF Cleanup

(* Requests that are no deletes leave none open. *)
LEMMA PlainFrames ==
  ASSUME StepInv, NEW s \in Sessions, HandStep(s), AllCarried, UNCHANGED req,
         pc[s] \notin DeletePcs \cup {"idle", "done"}
  PROVE  FramesStep(s)
<1>1. HandlersOK /\ OpAt(s) /\ HandlersOK' /\ OpAt(s)'
  BY DEF StepInv, HandStep, Hand
<1>2. pc[s] \in Pcs
  BY <1>1 DEF HandlersOK
<1>3. req'[s].op # "delete"
  BY <1>1, <1>2 DEF OpAt, Pcs, DeletePcs, PathPcs, AtPcs, CopyPcs
<1>4. pc'[s] \notin AtPcs
  BY <1>1, <1>3 DEF OpAt
<1> QED
  BY <1>3, <1>4, NoneOpen DEF AllCarried

LEMMA BeginFrames ==
  ASSUME StepInv, NEW s \in Sessions, HandStep(s), NEW o \in Ops, NEW t \in Targets,
         NEW u \in Targets, Begin(s, o, t, u)
  PROVE  FramesStep(s)
<1>1. HandlersOK /\ dirs \in [Sessions -> Frames] /\ UNCHANGED dirs
  BY DEF StepInv, Begin
<1>2. AllCarried
  BY <1>1, Rest
<1>3. pc'[s] \notin AtPcs \cup {"noentry"} /\ ~(pc'[s] = "done" /\ result'[s] = "ok")
  <2>1. CASE Done(s, "idle", "refused")
    <3>1. pc'[s] = "done" /\ result'[s] = "refused"
      BY <1>1, <2>1 DEF Done, Goes, Says, HandlersOK
    <3> QED
      BY <3>1 DEF AtPcs
  <2>2. CASE Goes(s, "idle", First(o))
    <3>1. pc'[s] = First(o)
      BY <1>1, <2>2 DEF Goes, HandlersOK
    <3> QED
      BY <3>1 DEF First, AtPcs
  <2> QED
    BY <2>1, <2>2 DEF Begin
<1> QED
  BY <1>2, <1>3, NoneOpen DEF AllCarried

LEMMA AnswerFrames ==
  ASSUME StepInv, NEW s \in Sessions, HandStep(s), Answer(s)
  PROVE  FramesStep(s)
<1>1. HandlersOK /\ dirs \in [Sessions -> Frames] /\ UNCHANGED dirs
  BY DEF StepInv, Answer, NoWork, work
<1>2. AllCarried
  BY <1>1, Rest
<1>3. pc'[s] = "idle"
  BY <1>1 DEF Answer, Goes, HandlersOK
<1>4. pc'[s] \notin AtPcs \cup {"noentry", "done"}
  BY <1>3 DEF AtPcs
<1> QED
  BY <1>2, <1>4, NoneOpen DEF AllCarried

-----------------------------------------------------------------------------
(* What the steps of a delete do to the directories it has open.           *)

LEMMA LastIs ==
  ASSUME NEW p \in Paths, p # << >>
  PROVE  Last(p) \in Names /\ p = Append(Front(p), Last(p)) /\ Front(p) \in Paths
<1>1. /\ Front(p) \in Paths /\ IsPrefix(Front(p), p) /\ Len(Front(p)) = Len(p) - 1
      /\ Len(p) \in Nat
  BY FrontIs, PathLen
<1>2. Front(p) # p
  BY <1>1
<1>3. PICK c \in Paths : /\ IsPrefix(c, p) /\ Len(c) = Len(Front(p)) + 1 /\ Last(c) \in Names
                         /\ c = Append(Front(p), Last(c))
  BY <1>1, <1>2, NextName
<1>4. Len(c) = Len(p)
  BY <1>1, <1>3
<1>5. c = p
  BY <1>3, <1>4, PrefixOrder
<1> QED
  BY <1>1, <1>3, <1>5

(* Its request, and the frames it has. *)
LEMMA DeleteHas ==
  ASSUME StepInv, NEW s \in Sessions, pc[s] \in DeletePcs
  PROVE  /\ req[s].op = "delete" /\ req[s].dst \in Paths /\ Here(s) = req[s].dst
         /\ req[s].dst # << >> /\ dirs[s] \in Frames
         /\ pc[s] = "noentry" => gone[s]
         /\ pc[s] \in AtPcs => /\ Lefts(req[s].dst, pc[s], dirs[s])
                               /\ gone[s] \/ OnPath(req[s].dst, dirs[s])
<1>1. HandlersOK /\ OpAt(s) /\ HeldAt(s) /\ GoneAt(s) /\ dirs[s] \in Frames
  BY DEF StepInv, Hand
<1>2. req[s].op = "delete"
  BY <1>1 DEF OpAt, DeletePcs
<1>3. req[s].dst # << >>
  BY <1>1, <1>2 DEF OpAt, TwoPaths
<1>4. req[s].dst \in Paths /\ Here(s) = req[s].dst
  BY <1>1, InHand
<1> QED
  BY <1>1, <1>2, <1>3, <1>4 DEF HeldAt, GoneAt

(* At the first of its directories, where that was opened: the entry it is *)
(* at is its path.                                                         *)
LEMMA EntryIs ==
  ASSUME NEW s \in Sessions, NEW p \in Paths, p # << >>, Len(dirs[s]) = 1,
         dirs[s][1].left = <<Last(p)>>, dirs[s][1].dir = {Front(p)}
  PROVE  Entry(s) = {p} \cap DOMAIN tree
<1>1. Top(s).left = <<Last(p)>> /\ Top(s).dir = {Front(p)}
  BY DEF Top
<1>2. PICK x : x = Last(p)
  OBVIOUS
<1>3. Head(Top(s).left) = x
  BY <1>1, <1>2
<1>4. {Append(d, Head(Top(s).left)) : d \in Top(s).dir} = {Append(Front(p), x)}
  BY <1>1, <1>3
<1>5. Append(Front(p), x) = p
  BY <1>2, LastIs
<1> QED
  BY <1>4, <1>5 DEF Entry

(* Where s goes on with the frames h. *)
LEMMA OwnFrames ==
  ASSUME NEW s \in Sessions, NEW h \in Frames, NEW ds \in [Sessions -> Frames],
         dirs' = [ds EXCEPT ![s] = h], \A t \in Sessions \ {s} : Carried(dirs[t], ds[t]),
         NEW p, req'[s].dst = p, NEW b \in AtPcs, pc'[s] = b, Lefts(p, b, h),
         gone'[s] \/ OnPath(p, h)
  PROVE  FramesStep(s)
<1>1. dirs' \in [Sessions -> Frames] /\ dirs'[s] = h /\ \A t \in Sessions \ {s} : dirs'[t] = ds[t]
  OBVIOUS
<1>2. HeldAt(s)'
  BY <1>1 DEF HeldAt
<1>3. GoneAt(s)'
  BY <1>1 DEF GoneAt, AtPcs
<1> QED
  BY <1>1, <1>2, <1>3 DEF FramesStep

LEMMA ReturnsFrames ==
  ASSUME HandlersOK, NEW s \in Sessions, NEW a, NEW r, NEW ds \in [Sessions -> Frames],
         Returns(s, a, ds, r), \A t \in Sessions \ {s} : Carried(dirs[t], ds[t]),
         NEW p, req'[s].dst = p, ds[s] # << >>, ds[s][1].left = <<Last(p)>>,
         \A k \in 1..Len(ds[s]) : ds[s][k].left # << >>, gone'[s] \/ OnPath(p, ds[s]),
         Len(ds[s]) = 1 /\ r = "ok" => gone'[s]
  PROVE  FramesStep(s)
<1>1. PICK h \in Frames, n \in Nat \ {0} : h = ds[s] /\ n = Len(h) /\ DOMAIN h = 1..n
  BY EmptySeq, LenProperties DEF Frames
<1>2. CASE n = 1
  <2>1. Done(s, a, r) /\ dirs' = [ds EXCEPT ![s] = << >>]
    BY <1>1, <1>2 DEF Returns
  <2>2. pc'[s] = "done" /\ result'[s] = r
    BY <2>1 DEF Done, Goes, Says, HandlersOK
  <2>3. << >> \in Frames
    BY EmptySeq DEF Frames
  <2>4. dirs' \in [Sessions -> Frames] /\ \A t \in Sessions \ {s} : Carried(dirs[t], dirs'[t])
    BY <2>1, <2>3
  <2>5. pc'[s] \notin AtPcs \cup {"noentry"}
    BY <2>2 DEF AtPcs
  <2>6. result'[s] = "ok" => gone'[s]
    BY <1>1, <1>2, <2>2
  <2> QED
    BY <2>4, <2>5, <2>6, NoneOpen
<1>3. CASE n # 1
  <2>1. Goes(s, a, "unlinkat") /\ dirs' = [ds EXCEPT ![s][n].left = Tail(h[n].left)]
    BY <1>1, <1>3 DEF Returns
  <2>2. h[n] \in Frame /\ n \in 1..n /\ 1 \in 1..n
    BY <1>1, ElementOfSeq DEF Frames
  <2>3. h[n].left \in Seq(Names) /\ h[n].left # << >>
    BY <1>1, <2>2 DEF Frame
  <2>4. PICK ns \in Seq(Names) : ns = Tail(h[n].left)
    BY <2>3, HeadTailProperties
  <2>5. PICK g : g = TopWith(h, n, ns)
    OBVIOUS
  <2>6. /\ g \in Frames /\ Len(g) = n
        /\ \A k \in 1..n : g[k].dir = h[k].dir /\ (k # n => g[k].left = h[k].left)
    BY <1>1, <2>5, TopSet
  <2>7. dirs' = [ds EXCEPT ![s] = g]
    BY <1>1, <2>1, <2>4, <2>5 DEF TopWith
  <2>8. pc'[s] = "unlinkat" /\ "unlinkat" \in AtPcs
    BY <2>1 DEF Goes, HandlersOK, AtPcs
  <2>9. Lefts(p, "unlinkat", g)
    <3>1. g # << >>
      BY <2>6, EmptySeq
    <3> QED
      BY <1>1, <1>3, <2>2, <2>6, <3>1 DEF Lefts
  <2>10. OnPath(p, h) => OnPath(p, g)
    <3>1. n > 1 => 2 \in 1..n
      BY <1>1
    <3> QED
      BY <1>1, <2>2, <2>6, <3>1 DEF OnPath
  <2> QED
    BY <1>1, <2>6, <2>7, <2>8, <2>9, <2>10, OwnFrames
<1> QED
  BY <1>2, <1>3

(* What a step of a delete has to show of gone. *)
LEMMA DeleteNotes ==
  ASSUME StepInv, NEW s \in Sessions, pc[s] \in DeletePcs, UNCHANGED req, GoneNoted
  PROVE  /\ req'[s].op = "delete" /\ req'[s].dst = req[s].dst
         /\ gone'[s] <=> gone[s] \/ req[s].dst \notin DOMAIN tree'
<1>1. req[s].op = "delete"
  BY DeleteHas
<1> QED
  BY <1>1 DEF GoneNoted

LEMMA UnlinkFrames ==
  ASSUME StepInv, NEW s \in Sessions, GoneNoted, Unlink(s)
  PROVE  FramesStep(s)
<1>1. /\ HandlersOK /\ dirs \in [Sessions -> Frames] /\ UNCHANGED <<req, dirs>>
      /\ pc[s] = "unlink" /\ pc[s] \in DeletePcs
  BY DEF StepInv, Unlink, DeletePcs, PathPcs
<1>2. AllCarried
  BY <1>1, Rest
<1>3. PICK p \in Paths : p = req[s].dst /\ Here(s) = p /\ (gone'[s] <=> gone[s] \/ p \notin DOMAIN tree')
  BY <1>1, DeleteHas, DeleteNotes
<1>4. CASE IsFile(p)
  <2>1. Done(s, "unlink", "ok") /\ Disk(Without(tree, {p}), data)
    BY <1>3, <1>4 DEF Unlink
  <2>2. p \notin DOMAIN tree'
    BY <2>1 DEF Disk, Without
  <2>3. pc'[s] = "done"
    BY <1>1, <2>1 DEF Done, Goes, HandlersOK
  <2> QED
    BY <1>2, <1>3, <2>2, <2>3, NoneOpen DEF AllCarried, AtPcs
<1>5. CASE ~IsFile(p) /\ NoEntry(p)
  <2>1. Goes(s, "unlink", "noentry") /\ UNCHANGED tree
    BY <1>3, <1>5 DEF Unlink, disk
  <2>2. pc'[s] = "noentry"
    BY <1>1, <2>1 DEF Goes, HandlersOK
  <2>3. gone'[s]
    BY <1>3, <1>5, <2>1 DEF NoEntry
  <2> QED
    BY <1>2, <2>2, <2>3, NoneOpen DEF AllCarried, AtPcs
<1>6. CASE ~IsFile(p) /\ ~NoEntry(p)
  <2>1. Goes(s, "unlink", "rmdir")
    BY <1>3, <1>6 DEF Unlink
  <2>2. pc'[s] = "rmdir"
    BY <1>1, <2>1 DEF Goes, HandlersOK
  <2> QED
    BY <1>2, <2>2, NoneOpen DEF AllCarried, AtPcs
<1> QED
  BY <1>4, <1>5, <1>6

LEMMA FileOnWay ==
  ASSUME GoodTree(tree), NEW p \in Paths, NEW q \in Way(p), IsFile(q)
  PROVE  ~IsDir(p)
<1>1. PICK n \in 0..Len(p) : q = Pre(p, n)
  BY DEF Way, Pre
<1>2. q \in Paths /\ IsPrefix(q, p)
  BY <1>1, PreIs, PreOrder
<1>3. tree[q] # Dir /\ q \in DOMAIN tree
  BY DEF IsFile, Exists
<1>4. ASSUME p \in DOMAIN tree, tree[p] = Dir PROVE FALSE
  BY <1>2, <1>3, <1>4, Named
<1> QED
  BY <1>4 DEF IsDir, Exists

LEMMA RmdirFrames ==
  ASSUME StepInv, NEW s \in Sessions, GoneNoted, NEW a \in {"noentry", "rmdir"}, Rmdir(s, a)
  PROVE  FramesStep(s)
<1>1. /\ HandlersOK /\ dirs \in [Sessions -> Frames] /\ UNCHANGED req
      /\ pc[s] = a /\ pc[s] \in DeletePcs /\ GoodTree(tree)
  BY DEF StepInv, Rmdir, DeletePcs, PathPcs
<1>2. PICK p \in Paths : p = req[s].dst /\ Here(s) = p /\ (gone'[s] <=> gone[s] \/ p \notin DOMAIN tree')
  BY <1>1, DeleteHas, DeleteNotes
<1>3. UNCHANGED dirs => AllCarried
  BY <1>1, Rest
<1>4. a = "noentry" => gone[s]
  BY <1>1, DeleteHas
<1>5. CASE NoEntry(p) \/ (a = "noentry" /\ \E q \in Way(p) : IsFile(q))
  <2>1. ~IsDir(p)
    <3>1. CASE NoEntry(p)
      BY <3>1 DEF NoEntry, IsDir, Exists
    <3>2. CASE \E q \in Way(p) : IsFile(q)
      BY <1>1, <3>2, FileOnWay
    <3> QED
      BY <1>5, <3>1, <3>2
  <2>4. Done(s, a, "ok") /\ UNCHANGED <<tree, dirs>>
    BY <1>2, <1>5, <2>1 DEF Rmdir, disk
  <2>2. gone'[s]
    BY <1>2, <1>4, <1>5, <2>4 DEF NoEntry
  <2>3. pc'[s] = "done"
    BY <1>1, <2>4 DEF Done, Goes, HandlersOK
  <2> QED
    BY <1>3, <2>2, <2>3, <2>4, NoneOpen DEF AllCarried, AtPcs
<1>6. CASE /\ ~(NoEntry(p) \/ (a = "noentry" /\ \E q \in Way(p) : IsFile(q)))
           /\ IsDir(p) /\ Children(p) = {}
  <2>1. Done(s, a, "ok") /\ Disk(Without(tree, {p}), data) /\ dirs' = Losing(dirs, {p})
    BY <1>2, <1>6 DEF Rmdir
  <2>2. PICK Q : Q = {p}
    OBVIOUS
  <2>3. tree' = Without(tree, Q)
    BY <2>1, <2>2 DEF Disk
  <2>4. \A r \in Q : r \notin DOMAIN tree'
    BY <2>3 DEF Without
  <2>5. PICK ds : ds = Losing(dirs, Q) /\ dirs' = ds
    BY <2>1, <2>2
  <2>6. ds \in [Sessions -> Frames] /\ \A t \in Sessions : Carried(dirs[t], ds[t])
    BY <1>1, <2>4, <2>5, Lose
  <2>7. gone'[s]
    BY <1>2, <2>2, <2>4
  <2>8. pc'[s] = "done"
    BY <1>1, <2>1 DEF Done, Goes, HandlersOK
  <2> QED
    BY <2>5, <2>6, <2>7, <2>8, NoneOpen DEF AtPcs
<1>7. CASE /\ ~(NoEntry(p) \/ (a = "noentry" /\ \E q \in Way(p) : IsFile(q)))
           /\ ~(IsDir(p) /\ Children(p) = {})
  <2>1. Goes(s, a, "opendir") /\ UNCHANGED dirs
    BY <1>2, <1>7 DEF Rmdir
  <2>2. pc'[s] = "opendir"
    BY <1>1, <2>1 DEF Goes, HandlersOK
  <2> QED
    BY <1>3, <2>1, <2>2, NoneOpen DEF AllCarried, AtPcs
<1> QED
  BY <1>5, <1>6, <1>7

(* The parent is opened. *)
LEMMA FirstHeld ==
  ASSUME NEW p \in Paths, p # << >>, NEW h, h = <<Held({Front(p)}, <<Last(p)>>)>>
  PROVE  h \in Frames /\ Lefts(p, "unlinkat", h) /\ OnPath(p, h)
<1>1. PICK d \in Paths, x \in Names : d = Front(p) /\ x = Last(p)
  BY LastIs
<1>2. PICK f : f = Held({d}, <<x>>)
  OBVIOUS
<1>3. f \in Frame /\ f.dir = {d} /\ f.left = <<x>>
  BY <1>2 DEF Held, Frame
<1>4. h = <<f>>
  BY <1>1, <1>2
<1>5. h \in Frames /\ Len(h) = 1 /\ h[1] = f /\ h # << >>
  BY <1>3, <1>4 DEF Frames
<1>6. Lefts(p, "unlinkat", h)
  <2>1. \A k \in 1..Len(h) : h[k] = f
    BY <1>5
  <2>2. <<x>> # << >> /\ "unlinkat" # "names"
    OBVIOUS
  <2> QED
    BY <1>1, <1>3, <1>5, <2>1, <2>2 DEF Lefts
<1> QED
  BY <1>1, <1>3, <1>5, <1>6 DEF OnPath

LEMMA OpenParentFrames ==
  ASSUME StepInv, NEW s \in Sessions, GoneNoted, OpenParent(s)
  PROVE  FramesStep(s)
<1>1. /\ HandlersOK /\ dirs \in [Sessions -> Frames] /\ UNCHANGED <<req, tree>>
      /\ pc[s] = "opendir" /\ pc[s] \in DeletePcs /\ GoodTree(tree)
  BY DEF StepInv, OpenParent, DeletePcs, PathPcs, Goes, Done, disk
<1>2. PICK p \in Paths : /\ p = req[s].dst /\ Here(s) = p /\ p # << >> /\ req'[s].dst = p
                         /\ gone'[s] <=> gone[s] \/ p \notin DOMAIN tree
  BY <1>1, DeleteHas, DeleteNotes
<1>3. UNCHANGED dirs => AllCarried
  BY <1>1, Rest
<1>4. CASE NoEntry(Front(p))
  <2>1. Done(s, "opendir", "ok") /\ UNCHANGED dirs
    BY <1>2, <1>4 DEF OpenParent, NoEntry, IsDir, Exists
  <2>2. Front(p) \notin DOMAIN tree
    BY <1>4 DEF NoEntry
  <2>3. Front(p) \in Paths /\ IsPrefix(Front(p), p) /\ Front(p) # p
    BY <1>2, FrontIs, PathLen
  <2>4. p \notin DOMAIN tree
    BY <1>1, <2>2, <2>3, Named
  <2>5. pc'[s] = "done"
    BY <1>1, <2>1 DEF Done, Goes, HandlersOK
  <2> QED
    BY <1>2, <1>3, <2>1, <2>4, <2>5, NoneOpen DEF AllCarried, AtPcs
<1>5. CASE ~NoEntry(Front(p)) /\ IsDir(Front(p))
  <2>1. PICK h : h = <<Held({Front(p)}, <<Last(p)>>)>>
    OBVIOUS
  <2>2. Goes(s, "opendir", "unlinkat") /\ dirs' = [dirs EXCEPT ![s] = h]
    BY <1>2, <1>5, <2>1 DEF OpenParent
  <2>3. h \in Frames /\ Lefts(p, "unlinkat", h) /\ OnPath(p, h)
    BY <1>2, <2>1, FirstHeld
  <2>4. pc'[s] = "unlinkat" /\ "unlinkat" \in AtPcs
    BY <1>1, <2>2 DEF Goes, HandlersOK, AtPcs
  <2>5. \A t \in Sessions \ {s} : Carried(dirs[t], dirs[t])
    BY <1>1, SameCarried
  <2> QED
    BY <1>1, <1>2, <2>2, <2>3, <2>4, <2>5, OwnFrames
<1>6. CASE ~NoEntry(Front(p)) /\ ~IsDir(Front(p))
  <2>1. Done(s, "opendir", "error") /\ UNCHANGED dirs
    BY <1>2, <1>6 DEF OpenParent
  <2>2. pc'[s] = "done" /\ result'[s] = "error"
    BY <1>1, <2>1 DEF Done, Goes, Says, HandlersOK
  <2> QED
    BY <1>3, <2>1, <2>2, NoneOpen DEF AllCarried, AtPcs
<1> QED
  BY <1>4, <1>5, <1>6

(* A delete of p at the entry it is at, with the frames h, n of them: what *)
(* it has open, and what is known of the entry at the first.               *)
AtEntry(s, p, h, n) ==
  /\ HandlersOK /\ dirs \in [Sessions -> Frames] /\ GoodTree(tree)
  /\ pc[s] \in AtPcs /\ p \in Paths /\ p # << >> /\ p = req[s].dst /\ req'[s].dst = p
  /\ gone'[s] <=> gone[s] \/ p \notin DOMAIN tree'
  /\ h \in Frames /\ n \in Nat \ {0} /\ h = dirs[s] /\ n = Len(h) /\ DOMAIN h = 1..n
  /\ Lefts(p, pc[s], h) /\ h[1].left = <<Last(p)>> /\ Top(s) = h[n]
  /\ gone[s] \/ OnPath(p, h)
  /\ n = 1 /\ OnPath(p, h) => Entry(s) = {p} \cap DOMAIN tree

LEMMA AtAnEntry ==
  ASSUME StepInv, NEW s \in Sessions, GoneNoted, pc[s] \in AtPcs, UNCHANGED req
  PROVE  \E p, h, n : AtEntry(s, p, h, n)
<1>1. HandlersOK /\ dirs \in [Sessions -> Frames] /\ GoodTree(tree) /\ pc[s] \in DeletePcs
  BY DEF StepInv, DeletePcs
<1>2. /\ req[s].op = "delete" /\ req[s].dst \in Paths /\ req[s].dst # << >> /\ dirs[s] \in Frames
      /\ Lefts(req[s].dst, pc[s], dirs[s]) /\ (gone[s] \/ OnPath(req[s].dst, dirs[s]))
  BY <1>1, DeleteHas
<1>3. PICK p \in Paths, h \in Frames : p = req[s].dst /\ h = dirs[s] /\ p # << >>
  BY <1>2
<1>4. gone'[s] <=> gone[s] \/ p \notin DOMAIN tree'
  BY <1>1, <1>3, DeleteNotes
<1>9. Lefts(p, pc[s], h) /\ (gone[s] \/ OnPath(p, h))
  BY <1>2, <1>3
<1>5. h # << >> /\ h[1].left = <<Last(p)>>
  BY <1>9 DEF Lefts
<1>6. PICK n \in Nat \ {0} : n = Len(h) /\ DOMAIN h = 1..n
  BY <1>5, EmptySeq, LenProperties DEF Frames
<1>7. n = 1 /\ OnPath(p, h) => Entry(s) = {p} \cap DOMAIN tree
  BY <1>3, <1>5, <1>6, EntryIs DEF OnPath
<1>8. Top(s) = h[n]
  BY <1>3, <1>6 DEF Top
<1> QED
  BY <1>1, <1>3, <1>4, <1>5, <1>6, <1>7, <1>8, <1>9 DEF AtEntry

(* All names left but for the innermost are there. *)
LEMMA AllLeft ==
  ASSUME NEW s, NEW p, NEW h, NEW n, AtEntry(s, p, h, n), Top(s).left # << >>
  PROVE  \A k \in 1..n : h[k].left # << >>
BY DEF AtEntry, Lefts

LEMMA UnlinkatFrames ==
  ASSUME StepInv, NEW s \in Sessions, GoneNoted, Unlinkat(s)
  PROVE  FramesStep(s)
<1>1. UNCHANGED req /\ pc[s] \in AtPcs /\ Top(s).left # << >>
  BY DEF Unlinkat, AtPcs
<1>2. PICK p, h, n : AtEntry(s, p, h, n)
  BY <1>1, AtAnEntry
<1>3. \A k \in 1..n : h[k].left # << >>
  BY <1>1, <1>2, AllLeft
<1>4. \A t \in Sessions \ {s} : Carried(dirs[t], dirs[t])
  BY <1>2, SameCarried DEF AtEntry
<1>5. CASE EntryIsDir(s)
  <2>1. Goes(s, "unlinkat", "openat") /\ UNCHANGED dirs
    BY <1>5 DEF Unlinkat
  <2>2. pc'[s] = "openat" /\ "openat" \in AtPcs
    BY <1>2, <2>1 DEF Goes, HandlersOK, AtPcs, AtEntry
  <2>3. dirs' = [dirs EXCEPT ![s] = h]
    BY <1>2, <2>1 DEF AtEntry
  <2>4. pc[s] = "unlinkat"
    BY DEF Unlinkat
  <2>5. Lefts(p, "openat", h)
    BY <1>2, <1>3 DEF AtEntry, Lefts
  <2>6. gone'[s] \/ OnPath(p, h)
    BY <1>2 DEF AtEntry
  <2>7. req'[s].dst = p /\ h \in Frames /\ dirs \in [Sessions -> Frames]
    BY <1>2 DEF AtEntry
  <2> QED
    BY <1>4, <2>2, <2>3, <2>5, <2>6, <2>7, OwnFrames
<1>6. CASE ~EntryIsDir(s)
  <2>1. Returns(s, "unlinkat", dirs, "ok") /\ Disk(Without(tree, Entry(s)), data)
    BY <1>6 DEF Unlinkat
  <2>2. tree' = Without(tree, Entry(s))
    BY <2>1 DEF Disk
  <2>3. n = 1 => gone'[s]
    <3>1. CASE gone[s]
      BY <1>2, <3>1 DEF AtEntry
    <3>2. CASE OnPath(p, h) /\ n = 1
      <4>1. Entry(s) = {p} \cap DOMAIN tree
        BY <1>2, <3>2 DEF AtEntry
      <4>2. p \notin DOMAIN tree'
        BY <2>2, <4>1 DEF Without
      <4> QED
        BY <1>2, <4>2 DEF AtEntry
    <3> QED
      BY <1>2, <3>1, <3>2 DEF AtEntry
  <2> QED
    BY <1>2, <1>3, <1>4, <2>1, <2>3, ReturnsFrames DEF AtEntry, Lefts
<1> QED
  BY <1>5, <1>6

(* One more directory is opened, of the entries E. *)
WithOpen(h, E) == Append(h, Held(E, << >>))

LEMMA PushHeld ==
  ASSUME NEW h \in Frames, NEW n \in Nat \ {0}, n = Len(h), NEW E \in SUBSET Paths,
         NEW g, g = WithOpen(h, E)
  PROVE  /\ g \in Frames /\ Len(g) = n + 1 /\ \A k \in 1..n : g[k] = h[k]
         /\ g[n + 1].dir = E
<1>1. PICK f : f = Held(E, << >>)
  OBVIOUS
<1>2. f \in Frame /\ f.dir = E
  BY <1>1 DEF Held, Frame
<1>3. h \in Seq(Frame) /\ g = Append(h, f)
  BY <1>1 DEF Frames, WithOpen
<1> QED
  BY <1>2, <1>3, AppendProperties DEF Frames

LEMMA OpenatFrames ==
  ASSUME StepInv, NEW s \in Sessions, HandStep(s), GoneNoted, Openat(s)
  PROVE  FramesStep(s)
<1>1. UNCHANGED <<req, tree>> /\ pc[s] \in AtPcs /\ pc[s] = "openat"
  BY DEF Openat, AtPcs, disk
<1>2. PICK p, h, n : AtEntry(s, p, h, n)
  BY <1>1, AtAnEntry
<1>3. \A k \in 1..n : h[k].left # << >>
  BY <1>1, <1>2 DEF AtEntry, Lefts
<1>4. \A t \in Sessions \ {s} : Carried(dirs[t], dirs[t])
  BY <1>2, SameCarried DEF AtEntry
<1>5. CASE EntryIsDir(s)
  <2>10. PICK E : E = Entry(s)
    OBVIOUS
  <2>1. PICK g : g = WithOpen(h, E)
    OBVIOUS
  <2>2. Goes(s, "openat", "names") /\ dirs' = [dirs EXCEPT ![s] = g]
    BY <1>2, <1>5, <2>1, <2>10 DEF Openat, AtEntry, WithOpen
  <2>3. pc'[s] = "names" /\ "names" \in AtPcs
    BY <1>2, <2>2 DEF Goes, HandlersOK, AtPcs, AtEntry
  <2>4. E \in SUBSET Paths /\ E # {}
    BY <1>2, <1>5, <2>10 DEF Entry, EntryIsDir, AtEntry, GoodTree, Entered
  <2>5. h \in Frames /\ n \in Nat \ {0} /\ n = Len(h)
    BY <1>2 DEF AtEntry
  <2>6. /\ g \in Frames /\ Len(g) = n + 1 /\ \A k \in 1..n : g[k] = h[k]
        /\ g[n + 1].dir = E
    BY <2>1, <2>4, <2>5, PushHeld
  <2>7. Lefts(p, "names", g)
    <3>1. g # << >>
      BY <2>5, <2>6, EmptySeq
    <3>2. 1 \in 1..n
      BY <2>5
    <3>3. h[1].left = <<Last(p)>>
      BY <1>2 DEF AtEntry
    <3> QED
      BY <1>3, <2>5, <2>6, <3>1, <3>2, <3>3 DEF Lefts
  <2>8. gone'[s] \/ OnPath(p, g)
    <3>1. CASE gone[s]
      BY <1>2, <3>1 DEF AtEntry
    <3>2. CASE OnPath(p, h)
      <4>1. h[1].dir = {Front(p)} /\ (n > 1 => h[2].dir = {p})
        BY <2>5, <3>2 DEF OnPath
      <4>2. n = 1 => g[2].dir = {p}
        BY <1>2, <2>4, <2>6, <2>10, <3>2 DEF AtEntry
      <4>3. n > 1 => 2 \in 1..n
        BY <2>5
      <4> QED
        BY <2>5, <2>6, <4>1, <4>2, <4>3 DEF OnPath
    <3> QED
      BY <1>2, <3>1, <3>2 DEF AtEntry
  <2>9. req'[s].dst = p /\ dirs \in [Sessions -> Frames]
    BY <1>2 DEF AtEntry
  <2> QED
    BY <1>4, <2>2, <2>3, <2>6, <2>7, <2>8, <2>9, OwnFrames
<1>6. CASE ~EntryIsDir(s)
  <2>1. PICK r : r = IF Entry(s) = {} THEN "ok" ELSE "error"
    OBVIOUS
  <2>2. Returns(s, "openat", dirs, r)
    BY <1>6, <2>1 DEF Openat
  <2>3. n = 1 /\ r = "ok" => gone'[s]
    <3>1. CASE gone[s]
      BY <1>2, <3>1 DEF AtEntry
    <3>2. CASE OnPath(p, h) /\ n = 1 /\ r = "ok"
      <4>1. Entry(s) = {p} \cap DOMAIN tree /\ Entry(s) = {}
        BY <1>2, <2>1, <3>2 DEF AtEntry
      <4>2. p \notin DOMAIN tree'
        BY <1>1, <4>1
      <4> QED
        BY <1>2, <4>2 DEF AtEntry
    <3> QED
      BY <1>2, <3>1, <3>2 DEF AtEntry
  <2> QED
    BY <1>2, <1>3, <1>4, <2>2, <2>3, ReturnsFrames DEF AtEntry, Lefts
<1> QED
  BY <1>5, <1>6


(* The names in an open directory, in any order. *)
LEMMA NamesRead ==
  ASSUME GoodTree(tree), NEW d \in Paths, NEW ns \in SetToSeqs({Last(q) : q \in Children(d)})
  PROVE  ns \in Seq(Names)
<1>1. PICK S : S = {Last(q) : q \in Children(d)}
  OBVIOUS
<1>2. Children(d) \subseteq DOMAIN tree /\ DOMAIN tree \subseteq Paths /\ IsFiniteSet(DOMAIN tree)
  BY DEF Children, GoodTree, Entered
<1>3. IsFiniteSet(Children(d))
  BY <1>2, FS_Subset
<1>4. IsFiniteSet(S)
  <2>1. PICK f : f = [q \in Children(d) |-> Last(q)]
    OBVIOUS
  <2>2. PICK T : T = {f[q] : q \in Children(d)}
    OBVIOUS
  <2>3. f \in [Children(d) -> T] /\ S = {f[q] : q \in Children(d)}
    BY <1>1, <2>1, <2>2
  <2>4. IsFiniteSet({f[q] : q \in Children(d)})
    BY <1>3, <2>3, FiniteImage
  <2> QED
    BY <2>3, <2>4
<1>5. S \subseteq Names
  <2> SUFFICES ASSUME NEW q \in Children(d) PROVE Last(q) \in Names
    BY <1>1
  <2>1. q \in Paths /\ q # << >>
    BY <1>2 DEF Children
  <2> QED
    BY <2>1, LastIs
<1>6. Cardinality(S) \in Nat
  BY <1>4, FS_CardinalityType
<1>7. ns \in [1..Cardinality(S) -> S]
  BY <1>1 DEF SetToSeqs, Injection, IsInjective
<1>8. \A i \in 1..Cardinality(S) : ns[i] \in Names
  BY <1>5, <1>7
<1>9. ns = [i \in 1..Cardinality(S) |-> ns[i]]
  BY <1>7
<1> QED
  BY <1>6, <1>8, <1>9

LEMMA ReaddirnamesFrames ==
  ASSUME StepInv, NEW s \in Sessions, GoneNoted, Readdirnames(s)
  PROVE  FramesStep(s)
<1>1. UNCHANGED req /\ pc[s] \in AtPcs /\ pc[s] = "names"
  BY DEF Readdirnames, AtPcs
<1>2. PICK p, h, n : AtEntry(s, p, h, n)
  BY <1>1, AtAnEntry
<1>3. n > 1 /\ \A k \in 1..(n - 1) : h[k].left # << >>
  BY <1>1, <1>2 DEF AtEntry, Lefts
<1>4. \A t \in Sessions \ {s} : Carried(dirs[t], dirs[t])
  BY <1>2, SameCarried DEF AtEntry
<1>5. /\ h \in Frames /\ n \in Nat \ {0} /\ n = Len(h) /\ h = dirs[s] /\ DOMAIN h = 1..n
      /\ req'[s].dst = p /\ dirs \in [Sessions -> Frames] /\ h[1].left = <<Last(p)>>
      /\ gone[s] \/ OnPath(p, h)
      /\ gone[s] => gone'[s]
  BY <1>2 DEF AtEntry
<1>6. CASE Top(s).dir = {}
  <2>1. PICK f, ds : f = Front(h) /\ ds = [dirs EXCEPT ![s] = f]
    OBVIOUS
  <2>2. Returns(s, "names", ds, "ok")
    BY <1>5, <1>6, <2>1 DEF Readdirnames
  <2>3. f \in Frames /\ Len(f) = n - 1 /\ \A k \in 1..(n - 1) : f[k] = h[k]
    BY <1>5, <2>1, TopClosed
  <2>4. ds \in [Sessions -> Frames] /\ ds[s] = f /\ \A t \in Sessions \ {s} : ds[t] = dirs[t]
    BY <1>5, <2>1, <2>3
  <2>5. 1 \in 1..(n - 1) /\ n - 1 \in Nat
    BY <1>3, <1>5
  <2>6. f # << >> /\ f[1].left = <<Last(p)>> /\ \A k \in 1..Len(f) : f[k].left # << >>
    BY <1>3, <1>5, <2>3, <2>5, EmptySeq
  <2>7. gone'[s] \/ OnPath(p, f)
    <3>1. ASSUME OnPath(p, h) PROVE OnPath(p, f)
      <4>1. n - 1 > 1 => 2 \in 1..(n - 1)
        BY <1>5
      <4> QED
        BY <1>5, <2>3, <2>5, <3>1, <4>1 DEF OnPath
    <3> QED
      BY <1>5, <3>1
  <2>8. Len(f) = 1 => gone'[s]
    <3>1. ASSUME Len(f) = 1, OnPath(p, h) PROVE FALSE
      <4>3. n = 2
        <5>1. n \in Nat /\ n - 1 = 1
          BY <1>5, <2>3, <3>1
        <5> QED
          BY <5>1
      <4>1. n = 2 /\ h[2].dir = {p}
        BY <1>5, <3>1, <4>3 DEF OnPath
      <4> QED
        BY <1>2, <1>6, <4>1 DEF AtEntry
    <3> QED
      BY <1>5, <3>1
  <2> QED
    BY <1>2, <1>4, <1>5, <2>2, <2>4, <2>6, <2>7, <2>8, ReturnsFrames DEF AtEntry
<1>7. CASE Top(s).dir # {}
  <2>0. PICK d \in Top(s).dir :
          /\ Goes(s, "names", "unlinkat")
          /\ \E ns \in SetToSeqs({Last(q) : q \in Children(d)}) :
               dirs' = [dirs EXCEPT ![s][Len(dirs[s])].left = ns]
    BY <1>7 DEF Readdirnames
  <2>1. PICK ns \in SetToSeqs({Last(q) : q \in Children(d)}) :
          dirs' = [dirs EXCEPT ![s][Len(dirs[s])].left = ns]
    BY <2>0
  <2>2. h[n] \in Frame
    BY <1>5, ElementOfSeq DEF Frames
  <2>3. d \in Paths
    BY <1>2, <2>2 DEF AtEntry, Frame
  <2>4. ns \in Seq(Names)
    BY <1>2, <2>3, NamesRead DEF AtEntry
  <2>5. PICK g : g = TopWith(h, n, ns)
    OBVIOUS
  <2>6. /\ g \in Frames /\ Len(g) = n
        /\ \A k \in 1..n : g[k].dir = h[k].dir /\ (k # n => g[k].left = h[k].left)
    BY <1>5, <2>4, <2>5, TopSet
  <2>7. dirs' = [dirs EXCEPT ![s] = g]
    BY <1>5, <2>1, <2>5 DEF TopWith
  <2>8. pc'[s] = "unlinkat" /\ "unlinkat" \in AtPcs
    BY <1>2, <2>0 DEF Goes, HandlersOK, AtPcs, AtEntry
  <2>9. 1 \in 1..n /\ 1 # n /\ \A k \in 1..n : k # n => k \in 1..(n - 1)
    <3>1. n \in Nat /\ n > 1
      BY <1>3, <1>5
    <3> QED
      BY <3>1
  <2>10. Lefts(p, "unlinkat", g)
    <3>1. g # << >>
      BY <1>5, <2>6, EmptySeq
    <3>2. g[1].left = <<Last(p)>>
      BY <1>5, <2>6, <2>9
    <3>3. \A k \in 1..n : k # n => g[k].left # << >>
      BY <1>3, <2>6, <2>9
    <3> QED
      BY <2>6, <3>1, <3>2, <3>3 DEF Lefts
  <2>11. OnPath(p, h) => OnPath(p, g)
    <3>1. 2 \in 1..n
      BY <1>3, <1>5
    <3> QED
      BY <1>5, <2>6, <2>9, <3>1 DEF OnPath
  <2> QED
    BY <1>4, <1>5, <2>6, <2>7, <2>8, <2>10, <2>11, OwnFrames
<1> QED
  BY <1>6, <1>7

LEMMA CloseDirFrames ==
  ASSUME StepInv, NEW s \in Sessions, GoneNoted, CloseDir(s)
  PROVE  FramesStep(s)
<1>1. UNCHANGED req /\ pc[s] \in AtPcs /\ pc[s] = "unlinkat" /\ Top(s).left = << >>
  BY DEF CloseDir, AtPcs, Goes
<1>2. PICK p, h, n : AtEntry(s, p, h, n)
  BY <1>1, AtAnEntry
<1>4. \A t \in Sessions \ {s} : Carried(dirs[t], dirs[t])
  BY <1>2, SameCarried DEF AtEntry
<1>5. /\ h \in Frames /\ n \in Nat \ {0} /\ n = Len(h) /\ h = dirs[s] /\ DOMAIN h = 1..n
      /\ req'[s].dst = p /\ dirs \in [Sessions -> Frames] /\ h[1].left = <<Last(p)>>
      /\ gone[s] \/ OnPath(p, h)
      /\ gone[s] => gone'[s]
  BY <1>2 DEF AtEntry
<1>6. n > 1 /\ \A k \in 1..(n - 1) : h[k].left # << >>
  <2>1. h[n].left = << >>
    BY <1>1, <1>2 DEF AtEntry
  <2>3. <<Last(p)>> # << >>
    OBVIOUS
  <2>2. n # 1
    BY <1>5, <2>1, <2>3
  <2> QED
    BY <1>2, <1>5, <2>2 DEF AtEntry, Lefts
<1>7. PICK f : f = Front(h)
  OBVIOUS
<1>8. f \in Frames /\ Len(f) = n - 1 /\ \A k \in 1..(n - 1) : f[k] = h[k]
  BY <1>5, <1>7, TopClosed
<1>9. dirs' = [dirs EXCEPT ![s] = f]
  BY <1>5, <1>7 DEF CloseDir
<1>10. pc'[s] = "rmdirat" /\ "rmdirat" \in AtPcs
  BY <1>2 DEF CloseDir, Goes, HandlersOK, AtPcs, AtEntry
<1>11. 1 \in 1..(n - 1) /\ n - 1 \in Nat
  BY <1>5, <1>6
<1>12. Lefts(p, "rmdirat", f)
  <2>1. f # << >>
    BY <1>8, <1>11, EmptySeq
  <2> QED
    BY <1>5, <1>6, <1>8, <1>11, <2>1 DEF Lefts
<1>13. OnPath(p, h) => OnPath(p, f)
  <2>1. n - 1 > 1 => 2 \in 1..(n - 1)
    BY <1>5
  <2> QED
    BY <1>5, <1>6, <1>8, <1>11, <2>1 DEF OnPath
<1> QED
  BY <1>4, <1>5, <1>8, <1>9, <1>10, <1>12, <1>13, OwnFrames

LEMMA RmdiratFrames ==
  ASSUME StepInv, NEW s \in Sessions, GoneNoted, GoodTree(tree'), Rmdirat(s)
  PROVE  FramesStep(s)
<1>1. UNCHANGED req /\ pc[s] \in AtPcs /\ pc[s] = "rmdirat"
  BY DEF Rmdirat, AtPcs
<1>2. PICK p, h, n : AtEntry(s, p, h, n)
  BY <1>1, AtAnEntry
<1>3. Lefts(p, "rmdirat", h) /\ HandlersOK
  BY <1>1, <1>2 DEF AtEntry
<1>4. \A t \in Sessions \ {s} : Carried(dirs[t], dirs[t])
  BY <1>2, SameCarried DEF AtEntry
<1>5. /\ h \in Frames /\ n \in Nat \ {0} /\ n = Len(h) /\ h = dirs[s] /\ p \in Paths /\ p # << >>
      /\ req'[s].dst = p /\ dirs \in [Sessions -> Frames] /\ (gone[s] \/ OnPath(p, h))
      /\ gone'[s] <=> gone[s] \/ p \notin DOMAIN tree'
      /\ n = 1 /\ OnPath(p, h) => Entry(s) = {p} \cap DOMAIN tree
  BY <1>2 DEF AtEntry
<1>6. CASE \E q \in Entry(s) : tree[q] # Dir \/ Children(q) # {}
  <2>1. Returns(s, "rmdirat", dirs, "error")
    BY <1>6 DEF Rmdirat
  <2>2. h # << >> /\ h[1].left = <<Last(p)>> /\ \A k \in 1..Len(h) : h[k].left # << >>
    BY <1>3 DEF Lefts
  <2> QED
    <3>1. dirs[s] # << >> /\ dirs[s][1].left = <<Last(p)>>
      BY <1>5, <2>2
    <3>2. \A k \in 1..Len(dirs[s]) : dirs[s][k].left # << >>
      BY <1>5, <2>2
    <3>3. gone'[s] \/ OnPath(p, dirs[s])
      BY <1>5
    <3>4. req'[s].dst = p /\ dirs \in [Sessions -> Frames]
      BY <1>2 DEF AtEntry
    <3>5. Len(dirs[s]) = 1 /\ "error" = "ok" => gone'[s]
      OBVIOUS
    <3> QED
      BY <1>3, <1>4, <2>1, <3>1, <3>2, <3>3, <3>4, <3>5, ReturnsFrames
<1>7. CASE ~ \E q \in Entry(s) : tree[q] # Dir \/ Children(q) # {}
  <2>1. PICK ds, Q : Q = Entry(s) /\ ds = Losing(dirs, Q)
    OBVIOUS
  <2>11. PICK t : t = tree'
    OBVIOUS
  <2>2. Returns(s, "rmdirat", ds, "ok") /\ tree' = Without(tree, Q)
    BY <1>7, <2>1 DEF Rmdirat, Disk
  <2>3. \A r \in Q : r \notin DOMAIN tree'
    BY <2>2 DEF Without
  <2>12. dirs \in [Sessions -> Frames] /\ ds = Losing(dirs, Q)
    BY <1>2, <2>1 DEF AtEntry
  <2>4. ds \in [Sessions -> Frames] /\ \A u \in Sessions : Carried(dirs[u], ds[u])
    BY <2>3, <2>12, Lose
  <2>5. PICK g : g = ds[s]
    OBVIOUS
  <2>6. Carried(h, g)
    BY <1>5, <2>4, <2>5
  <2>7. g # << >> /\ Lefts(p, "rmdirat", g) /\ Len(g) = n
    BY <1>3, <1>5, <2>6, CarriedLefts DEF Carried
  <2>8. g # << >> /\ g[1].left = <<Last(p)>> /\ \A k \in 1..Len(g) : g[k].left # << >>
    BY <2>7 DEF Lefts
  <2>9. gone'[s] \/ OnPath(p, g)
    <3>1. CASE gone[s]
      BY <1>5, <3>1
    <3>2. CASE OnPath(p, h)
      <4>1. h # << >> /\ GoodTree(t)
        BY <1>3, <2>11 DEF Lefts
      <4>2. OnPath(p, g) \/ p \notin DOMAIN t
        BY <1>5, <2>11, <2>6, <3>2, <4>1, CarriedOnPath
      <4> QED
        BY <1>5, <2>11, <4>2
    <3> QED
      BY <1>5, <3>1, <3>2
  <2>10. n = 1 => gone'[s]
    <3>1. CASE gone[s]
      BY <1>5, <3>1
    <3>2. CASE OnPath(p, h) /\ n = 1
      <4>1. Q = {p} \cap DOMAIN tree
        BY <1>5, <2>1, <3>2
      <4>2. p \notin DOMAIN tree'
        BY <2>2, <4>1 DEF Without
      <4> QED
        BY <1>5, <4>2
    <3> QED
      BY <1>5, <3>1, <3>2
  <2> QED
    <3>1. ds[s] # << >> /\ ds[s][1].left = <<Last(p)>>
      BY <2>5, <2>8
    <3>2. \A k \in 1..Len(ds[s]) : ds[s][k].left # << >>
      BY <2>5, <2>8
    <3>3. gone'[s] \/ OnPath(p, ds[s])
      BY <2>5, <2>9
    <3>4. req'[s].dst = p /\ ds \in [Sessions -> Frames]
      BY <1>2, <2>4 DEF AtEntry
    <3>5. Len(ds[s]) = 1 /\ "ok" = "ok" => gone'[s]
      BY <2>5, <2>7, <2>10
    <3>6. \A u \in Sessions \ {s} : Carried(dirs[u], ds[u])
      BY <2>4
    <3> QED
      BY <1>3, <2>2, <3>1, <3>2, <3>3, <3>4, <3>5, <3>6, ReturnsFrames
<1> QED
  BY <1>6, <1>7

LEMMA AnyFramesStep ==
  ASSUME StepInv, NEW s \in Sessions, HandStep(s), GoodTree(tree'), GoneNoted,
         Handler(s) \/ \E o \in Ops, t, u \in Targets : Begin(s, o, t, u)
  PROVE  FramesStep(s)
<1>1. dirs \in [Sessions -> Frames]
  BY DEF StepInv
<1>2. CASE \E o \in Ops, t, u \in Targets : Begin(s, o, t, u)
  BY <1>2, BeginFrames
<1>3. CASE Answer(s)
  BY <1>3, AnswerFrames
<1>4. CASE Move(s)
  <2>1. UNCHANGED req /\ pc[s] = "act"
    BY <1>4 DEF Move, Done, Goes
  <2>2. pc[s] \notin DeletePcs \cup {"idle", "done"}
    BY <2>1 DEF DeletePcs, PathPcs, AtPcs
  <2> QED
    BY <1>4, <2>1, <2>2, MoveFrames, PlainFrames
<1>5. CASE Cleanup(s)
  <2>1. UNCHANGED req /\ pc[s] = "cleanup"
    BY <1>5 DEF Cleanup, Goes
  <2>2. pc[s] \notin DeletePcs \cup {"idle", "done"}
    BY <2>1 DEF DeletePcs, PathPcs, AtPcs
  <2> QED
    BY <1>5, <2>1, <2>2, CleanupFrames, PlainFrames
<1>6. CASE \/ Look(s) \/ ChDir(s) \/ CreateFails(s) \/ Received(s) \/ ReceiveFails(s) \/ Receive(s)
           \/ Create(s) \/ CopyFails(s) \/ CopyChunk(s) \/ CopyBreaks(s)
  <2>1. UNCHANGED <<req, dirs>>
    BY <1>6 DEF Look, ChDir, CreateFails, Received, ReceiveFails, Receive, Create, CopyFails,
                CopyChunk, CopyBreaks, NoWork, work, Fail, Close
  <2>2. pc[s] \in {"act", "create", "receive", "copy", "open", "chunks", "eisdir"}
    BY <1>6 DEF Look, ChDir, CreateFails, Received, ReceiveFails, Receive, Create, CopyFails,
                CopyChunk, CopyBreaks, Fail, Done, Goes
  <2>3. pc[s] \notin DeletePcs \cup {"idle", "done"}
    BY <2>2 DEF DeletePcs, PathPcs, AtPcs
  <2> QED
    BY <1>1, <2>1, <2>3, Rest, PlainFrames
<1>7. CASE \/ Stat(s) \/ Mkdir(s) \/ CopyDir(s) \/ ReadDir(s) \/ OpenSource(s) \/ OpenDestination(s)
           \/ CopiedFile(s) \/ Copied(s)
  <2>1. UNCHANGED <<req, dirs>>
    BY <1>7 DEF Stat, Mkdir, CopyDir, ReadDir, OpenSource, OpenDestination, CopiedFile, Copied,
                NoWork, work, Fail, Made
  <2>2. pc[s] \in {"stat", "mkdir", "copy", "readdir", "open", "chunks"}
    BY <1>7 DEF Stat, Mkdir, CopyDir, ReadDir, OpenSource, OpenDestination, CopiedFile, Copied,
                CopyCall, Done, Goes
  <2>3. pc[s] \notin DeletePcs \cup {"idle", "done"}
    BY <2>2 DEF DeletePcs, PathPcs, AtPcs
  <2> QED
    BY <1>1, <2>1, <2>3, Rest, PlainFrames
<1> QED
  BY <1>2, <1>3, <1>4, <1>5, <1>6, <1>7, UnlinkFrames, RmdirFrames, OpenParentFrames,
     UnlinkatFrames, OpenatFrames, ReaddirnamesFrames, CloseDirFrames, RmdiratFrames DEF Handler

-----------------------------------------------------------------------------
(* What a step of s is to the requests of the others.                      *)

(* The record of disturbances after a step of s. *)
LEMMA Watched ==
  ASSUME HandlersOK, WatchOK, HandlersOK', NEW s \in Sessions, Watch(s)
  PROVE  /\ WatchOK'
         /\ disturbed'[s] <=> req'[s].op \in Exactly /\ disturbed[s]
         /\ \A t \in Sessions \ {s} :
              disturbed'[t] <=> req'[t].op \in Exactly /\ (disturbed[t] \/ Disturbs(s, t))
<1>1. disturbed' = [t \in Sessions |-> req'[t].op \in Exactly /\ (disturbed[t] \/ Disturbs(s, t))]
  BY DEF Watch
<1>2. WatchOK'
  BY <1>1, Zenon DEF WatchOK
<1>3. ~Disturbs(s, s)
  BY DEF Disturbs
<1>4. \A t \in Sessions :
        disturbed'[t] = (req'[t].op \in Exactly /\ (disturbed[t] \/ Disturbs(s, t)))
  BY <1>1, Zenon
<1>5. disturbed'[s] <=> req'[s].op \in Exactly /\ disturbed[s]
  BY <1>3, <1>4, Zenon
<1> QED
  BY <1>2, <1>4, <1>5, Zenon

(* What lies on the way to a path of a request, or below one. *)
Near(t, p) == \E q \in {req[t].src, req[t].dst} : IsPrefix(p, q) \/ IsPrefix(q, p)

(* An entry is as it was. *)
AsBefore(p) ==
  /\ p \in DOMAIN tree' <=> p \in DOMAIN tree
  /\ p \in DOMAIN tree =>
       tree'[p] = tree[p] /\ (tree[p] # Dir => data'[tree[p]] = data[tree[p]])

(* A step of another session leaves what an undisturbed request looks at.  *)
LEMMA Calm ==
  ASSUME HandlersOK, WatchOK, HandlersOK', NEW s \in Sessions, Watch(s),
         NEW t \in Sessions \ {s}, req'[t].op \in Exactly, ~disturbed'[t]
  PROVE  /\ ~disturbed[t]
         /\ \A p \in Paths : Near(t, p) => AsBefore(p)
         /\ from[t] # 0 => data'[from[t]] = data[from[t]]
         /\ to[t] # 0 => data'[to[t]] = data[to[t]]
<1>1. ~disturbed[t] /\ ~Disturbs(s, t)
  BY Watched
<1>2. ASSUME NEW p \in Paths, Near(t, p) PROVE AsBefore(p)
  <2>1. p \notin Changed
    BY <1>1, <1>2 DEF Disturbs, Near
  <2>2. CASE p \in DOMAIN tree \cup DOMAIN tree'
    BY <2>1, <2>2 DEF Changed, AsBefore
  <2>3. CASE p \notin DOMAIN tree \cup DOMAIN tree'
    BY <2>3 DEF AsBefore
  <2> QED
    BY <2>2, <2>3
<1>3. \A i \in {from[t], to[t]} \ {0} : data'[i] = data[i]
  BY <1>1 DEF Disturbs
<1> QED
  BY <1>1, <1>2, <1>3

(* A step of s keeps the promises of every other session. *)
LEMMA OthersKept ==
  ASSUME StepInv, NEW s \in Sessions, DiskStep(s), HandStep(s), Watch(s),
         NEW t \in Sessions \ {s}
  PROVE  Promises(t)'
<1>1. /\ HandlersOK /\ WatchOK /\ HandlersOK' /\ Others(s) /\ Hand(t)
      /\ Receiving(t) /\ KeptUpload(t) /\ CopyAt(t)
  BY DEF StepInv, HandStep, Promises
<1>2. /\ pc'[t] = pc[t] /\ req'[t] = req[t] /\ result'[t] = result[t]
      /\ todo'[t] = todo[t] /\ from'[t] = from[t] /\ to'[t] = to[t] /\ off'[t] = off[t]
  BY <1>1 DEF Others
<1>3. req[t].src \in Paths /\ req[t].dst \in Paths /\ Here(t) = req[t].dst /\ Here(t)' = Here(t)
  BY <1>1, <1>2, InHand DEF Here
<1>4. CASE req'[t].op \notin Exactly \/ disturbed'[t]
  <2>1. pc'[t] = "receive" => req'[t].op = "upload"
    BY <1>1, <1>2 DEF Hand, OpAt
  <2> QED
    BY <1>4, <2>1 DEF Exactly, Promises, Receiving, KeptUpload, Kept, CopyAt, Copying
<1>5. CASE req'[t].op \in Exactly /\ ~disturbed'[t]
  <2>1. /\ ~disturbed[t]
        /\ \A p \in Paths : Near(t, p) => AsBefore(p)
        /\ from[t] # 0 => data'[from[t]] = data[from[t]]
        /\ to[t] # 0 => data'[to[t]] = data[to[t]]
    BY <1>1, <1>5, Calm
  <2>2. AsBefore(Here(t))
    BY <1>3, <2>1, PrefixOrder DEF Near
  <2>3. Receiving(t)'
    <3> SUFFICES ASSUME pc[t] = "receive"
                 PROVE  /\ IsFile(Here(t))' /\ tree'[Here(t)] = to[t]
                        /\ off[t] <= Len(Payload(t)) /\ data'[to[t]] = Pre(Payload(t), off[t])
      BY <1>2, <1>3 DEF Receiving
    <3>1. /\ IsFile(Here(t)) /\ tree[Here(t)] = to[t]
          /\ off[t] <= Len(Payload(t)) /\ data[to[t]] = Pre(Payload(t), off[t])
      BY <1>1, <2>1 DEF Receiving
    <3>2. to[t] # 0
      BY <1>1 DEF Hand, FilesAt
    <3> QED
      BY <1>3, <2>1, <2>2, <3>1, <3>2 DEF IsFile, Exists, AsBefore
  <2>4. KeptUpload(t)'
    <3> SUFFICES ASSUME pc[t] = "done" /\ result[t] = "ok" /\ req[t].op = "upload"
                 PROVE  IsFile(Here(t))' /\ data'[tree'[Here(t)]] = Payload(t)
      BY <1>2, <1>3 DEF KeptUpload, Kept, Payload
    <3>1. IsFile(Here(t)) /\ data[tree[Here(t)]] = Payload(t)
      BY <1>1, <2>1 DEF KeptUpload, Kept
    <3> QED
      BY <1>3, <2>2, <3>1 DEF IsFile, Exists, AsBefore
  <2>5. CopyAt(t)'
    <3> SUFFICES ASSUME Copying(t)' 
                 PROVE  EqualOrWaits(t)' /\ MadeDir(t)' /\ AtSource(t)' /\ AtChunk(t)'
      BY DEF CopyAt
    <3>1. EqualOrWaits(t) /\ MadeDir(t) /\ AtSource(t) /\ AtChunk(t)
      <4>1. Copying(t)
        BY <1>2, <2>1 DEF Copying
      <4> QED
        BY <1>1, <4>1 DEF CopyAt
    <3>2. PICK p \in Paths, q \in Paths : p = req[t].src /\ q = req[t].dst
      BY <1>3
    <3>3. \A r \in Paths : IsPrefix(p, r) \/ IsPrefix(q, r) => AsBefore(r)
      BY <2>1, <3>2 DEF Near
    <3>4. DOMAIN tree \subseteq Paths /\ DOMAIN tree' \subseteq Paths
      BY DEF StepInv, DiskStep, GoodTree, Entered
    <3>5. ASSUME NEW r \in Paths, IsPrefix(p, r), Same(r, To(p, q, r))
          PROVE  Same(r, To(p, q, r))'
      <4>1. PICK u \in Paths : u = To(p, q, r) /\ IsPrefix(q, u)
        BY <3>5, ToIs, ToOrder
      <4>2. AsBefore(r) /\ AsBefore(u)
        BY <3>3, <3>5, <4>1
      <4>3. Same(r, u)' <=>
              /\ r \in DOMAIN tree' /\ u \in DOMAIN tree' /\ (tree'[r] = Dir) = (tree'[u] = Dir)
              /\ tree'[r] # Dir => data'[tree'[r]] = data'[tree'[u]]
        BY DEF Same
      <4>4. Same(r, u)'
        BY <3>5, <4>1, <4>2, <4>3 DEF Same, AsBefore
      <4>5. Same(r, u)' <=> Same(r, To(p, q, r))'
        BY <4>1
      <4> QED
        BY <4>4, <4>5
    <3>6. ASSUME NEW r \in Under(p)' \cup {p} PROVE r \in Under(p) \cup {p} /\ IsPrefix(p, r)
      BY <3>3, <3>4, PrefixOrder DEF Under, AsBefore
    <3>7. EqualOrWaits(t)'
      <4> SUFFICES ASSUME NEW r \in Under(p)' \cup {p}
                   PROVE  Same(r, To(p, q, r))' \/ Waits(t, r)'
        BY <1>2, <3>2 DEF EqualOrWaits
      <4>1. Same(r, To(p, q, r)) \/ Waits(t, r)
        BY <3>1, <3>2, <3>6 DEF EqualOrWaits
      <4>2. r \in Paths /\ IsPrefix(p, r)
        BY <3>4, <3>6 DEF Under
      <4>3. Waits(t, r) => Waits(t, r)'
        BY <1>2 DEF Waits
      <4> QED
        BY <3>5, <4>1, <4>2, <4>3
    <3>8. ASSUME pc[t] \in {"readdir", "open", "chunks"}
          PROVE  AsBefore(todo[t][1][1]) /\ AsBefore(todo[t][1][2])
      <4>1. TodoAt(t) /\ todo[t] # << >>
        BY <1>1, <3>8 DEF Hand, OpAt, TodoAt, CopyPcs
      <4>2. PICK x \in Paths, y \in Paths :
              todo[t][1][1] = x /\ todo[t][1][2] = y /\ IsPrefix(p, x) /\ IsPrefix(q, y)
        BY <1>1, <3>2, <4>1, NextCall
      <4> QED
        BY <3>3, <4>2
    <3>9. MadeDir(t)'
      BY <1>2, <3>1, <3>8 DEF MadeDir, AsBefore
    <3>10. AtChunk(t)'
      <4>1. pc[t] = "chunks" => from[t] # 0 /\ to[t] # 0
        BY <1>1 DEF Hand, FilesAt
      <4> QED
        BY <1>2, <2>1, <3>1, <3>8, <4>1 DEF AtChunk, AsBefore
    <3>11. AtSource(t)'
      BY <1>2, <3>1, <3>8 DEF AtSource, AsBefore
    <3> QED
      BY <3>7, <3>9, <3>10, <3>11
  <2> QED
    BY <2>3, <2>4, <2>5 DEF Promises
<1> QED
  BY <1>4, <1>5

-----------------------------------------------------------------------------
(* What a step of s is to its own request.                                 *)

(* Most steps are not the last, or not of an upload or a copy. *)
LEMMA NoPromise ==
  ASSUME NEW s \in Sessions, pc'[s] # "receive",
         req'[s].op = "upload" => ~(pc'[s] = "done" /\ result'[s] = "ok"),
         req'[s].op = "copy" => pc'[s] = "done" /\ result'[s] # "ok"
  PROVE  Promises(s)'
BY DEF Promises, Receiving, KeptUpload, Kept, CopyAt, Copying, CopyPcs

(* A request begins: all of the source of a copy waits. *)
LEMMA BeginPromise ==
  ASSUME StepInv, NEW s \in Sessions, HandStep(s), NEW o \in Ops, NEW t \in Targets,
         NEW u \in Targets, Begin(s, o, t, u)
  PROVE  Promises(s)'
<1>1. HandlersOK /\ Hand(s) /\ HandlersOK' /\ Hand(s)' /\ pc[s] = "idle" /\ req[s].op = "none"
  BY DEF StepInv, HandStep, Begin, Hand, OpAt
<1>2. CASE Done(s, "idle", "refused") /\ UNCHANGED <<req, todo>>
  <2>1. pc'[s] = "done" /\ result'[s] = "refused" /\ req'[s] = req[s]
    BY <1>1, <1>2 DEF Done, Goes, Says, HandlersOK
  <2> QED
    BY <2>1, NoPromise
<1>3. CASE /\ Resolves(s, t) /\ Resolves(s, u) /\ Goes(s, "idle", First(o))
           /\ req' = [req EXCEPT ![s] = Request(o, Join(s, t), Join(s, u))]
           /\ todo' = [todo EXCEPT ![s] =
                         IF o = "copy" THEN <<<<Join(s, t), Join(s, u), "CopyDir">>>> ELSE << >>]
  <2>1. PICK p \in Paths, q \in Paths : p = Join(s, t) /\ q = Join(s, u)
    BY <1>1, <1>3, JoinTyped DEF Resolves
  <2>2. req'[s] = Request(o, p, q)
    BY <1>1, <1>3, <2>1 DEF HandlersOK
  <2>3. req'[s].op = o /\ req'[s].src = p
    BY <2>2 DEF Request
  <2>4. pc'[s] = First(o)
    BY <1>1, <1>3 DEF HandlersOK, Goes
  <2>5. o \in AllOps
    BY OpsAssumption
  <2>6. CASE o # "copy"
    <3>1. pc'[s] # "receive" /\ pc'[s] # "done"
      BY <2>4, <2>5 DEF First, AllOps
    <3> QED
      BY <2>3, <2>6, <3>1, NoPromise
  <2>7. CASE o = "copy"
    <3>1. pc'[s] = "copy"
      BY <2>4, <2>7 DEF First
    <3>2. todo'[s] = <<<<p, q, "CopyDir">>>>
      BY <1>1, <1>3, <2>1, <2>7 DEF HandlersOK
    <3>3. 1 \in DOMAIN todo'[s] /\ todo'[s][1][1] = p
      BY <3>2
    <3>4. ASSUME NEW r \in Under(p)' \cup {p} PROVE Waits(s, r)'
      <4>1. IsPrefix(p, r)
        BY <3>4, PrefixOrder DEF Under
      <4> QED
        BY <3>3, <4>1 DEF Waits
    <3>5. EqualOrWaits(s)'
      BY <2>3, <3>4 DEF EqualOrWaits
    <3>6. CopyAt(s)'
      BY <3>1, <3>5 DEF CopyAt, MadeDir, AtSource, AtChunk
    <3>7. Receiving(s)' /\ KeptUpload(s)'
      BY <3>1 DEF Receiving, KeptUpload, Kept
    <3> QED
      BY <3>6, <3>7 DEF Promises
  <2> QED
    BY <2>6, <2>7
<1> QED
  BY <1>2, <1>3 DEF Begin

(* Requests that promise nothing. *)
LEMMA OtherPromise ==
  ASSUME StepInv, NEW s \in Sessions, HandStep(s),
         Look(s) \/ ChDir(s) \/ Move(s) \/ Answer(s)
  PROVE  Promises(s)'
<1>1. HandlersOK /\ Hand(s) /\ HandlersOK' /\ Hand(s)'
  BY DEF StepInv, HandStep
<1>2. CASE Answer(s)
  <2>1. pc'[s] = "idle"
    BY <1>1, <1>2 DEF Answer, Goes, HandlersOK
  <2>2. req'[s].op = "none"
    BY <1>1, <2>1 DEF Hand, OpAt
  <2> QED
    BY <2>1, <2>2, NoPromise
<1>3. CASE ~Answer(s)
  <2>1. req' = req
    BY <1>3 DEF Look, ChDir, Move
  <2>2. pc[s] = "act"
    BY <1>3 DEF Look, ChDir, Move, Done, Goes
  <2>3. req[s].op \in {"look", "cd", "move"}
    BY <1>1, <2>2 DEF Hand, OpAt
  <2>4. pc'[s] # "receive"
    BY <1>1, <2>1, <2>3 DEF Hand, OpAt
  <2> QED
    BY <2>1, <2>3, <2>4, NoPromise
<1> QED
  BY <1>2, <1>3

LEMMA DeletePromise ==
  ASSUME StepInv, NEW s \in Sessions, HandStep(s), pc[s] \in DeletePcs, UNCHANGED req
  PROVE  Promises(s)'
<1>1. HandlersOK /\ Hand(s) /\ HandlersOK' /\ Hand(s)'
  BY DEF StepInv, HandStep
<1>2. req[s].op = "delete" /\ req'[s].op = "delete"
  BY <1>1 DEF Hand, OpAt, DeletePcs
<1>3. pc'[s] # "receive"
  BY <1>1, <1>2 DEF Hand, OpAt
<1> QED
  BY <1>2, <1>3, NoPromise

(* MkdirAll, for a request other than a copy. *)
LEMMA MkdirAllPromise ==
  ASSUME StepInv, NEW s \in Sessions, HandStep(s), Stat(s) \/ Mkdir(s), req[s].op # "copy"
  PROVE  Promises(s)'
<1>1. HandlersOK /\ Hand(s) /\ HandlersOK' /\ Hand(s)' /\ UNCHANGED req
  BY DEF StepInv, HandStep, Stat, Mkdir
<1>2. pc[s] \in {"stat", "mkdir"} /\ req'[s].op = req[s].op /\ req[s].op \in {"mkdir", "upload"}
  BY <1>1 DEF Stat, Mkdir, Hand, OpAt
<1>3. \/ pc'[s] \in {"mkdir", "create"}
      \/ pc'[s] = "done" /\ (req[s].op = "mkdir" \/ result'[s] = "error")
  <2>1. ASSUME NEW a, Fail(s, a) PROVE pc'[s] = "done" /\ result'[s] = "error"
    BY <1>1, <2>1 DEF Fail, Done, Goes, Says, HandlersOK
  <2>2. ASSUME NEW a, Made(s, a) PROVE pc'[s] = "create" \/ (pc'[s] = "done" /\ req[s].op = "mkdir")
    <3>1. CASE req[s].op = "mkdir"
      <4>1. Done(s, a, "ok")
        BY <2>2, <3>1 DEF Made
      <4> QED
        BY <1>1, <3>1, <4>1 DEF Done, Goes, HandlersOK
    <3>2. CASE req[s].op = "upload"
      <4>1. Goes(s, a, "create")
        BY <2>2, <3>2 DEF Made
      <4> QED
        BY <1>1, <4>1 DEF Goes, HandlersOK
    <3> QED
      BY <1>2, <3>1, <3>2
  <2>3. CASE Stat(s)
    <3>1. Made(s, "stat") \/ Fail(s, "stat") \/ Goes(s, "stat", "mkdir")
      BY <2>3 DEF Stat
    <3>2. Goes(s, "stat", "mkdir") => pc'[s] = "mkdir"
      BY <1>1 DEF Goes, HandlersOK
    <3> QED
      BY <2>1, <2>2, <3>1, <3>2
  <2>4. CASE Mkdir(s)
    <3>1. Made(s, "mkdir") \/ Fail(s, "mkdir") \/ (UNCHANGED pc /\ pc[s] = "mkdir")
      BY <2>4 DEF Mkdir
    <3> QED
      BY <2>1, <2>2, <3>1
  <2> QED
    BY <2>3, <2>4
<1> QED
  BY <1>2, <1>3, NoPromise

LEMMA FailPromise ==
  ASSUME StepInv, NEW s \in Sessions, HandStep(s), NEW a, Fail(s, a)
  PROVE  Promises(s)'
<1>1. pc'[s] = "done" /\ result'[s] = "error"
  BY DEF StepInv, Fail, Done, Goes, Says, HandlersOK
<1> QED
  BY <1>1, NoPromise

-----------------------------------------------------------------------------
(* An upload.                                                              *)

(* The file is at its path, and empty. *)
LEMMA CreatePromise ==
  ASSUME StepInv, NEW s \in Sessions, HandStep(s), Create(s)
  PROVE  Promises(s)'
<1>1. /\ HandlersOK /\ Hand(s) /\ HandlersOK' /\ Hand(s)' /\ GoodTree(tree) /\ GoodData(data)
      /\ UNCHANGED <<req, off>>
  BY DEF StepInv, HandStep, Create
<1>2. PICK p \in Paths : p = Here(s) /\ Here(s)' = p
  BY <1>1, InHand DEF Here
<1>3. PICK i \in Opens(p) :
        /\ Goes(s, "create", "receive") /\ to' = [to EXCEPT ![s] = i]
        /\ Disk(With(tree, {p}, i), [data EXCEPT ![i] = << >>])
  BY <1>2 DEF Create
<1>4. pc[s] = "create" /\ pc'[s] = "receive" /\ to'[s] = i
  BY <1>1, <1>3 DEF HandlersOK, Goes
<1>5. PICK t : t = With(tree, {p}, i)
  OBVIOUS
<1>6. p \in DOMAIN t /\ t[p] = i /\ i \in Inos /\ i # Dir /\ Len(p) <= MaxPath
  <2>1. Opened(t, p, i)
    BY <1>1, <1>5, OpsAssumption, PutGood
  <2> QED
    BY <2>1 DEF Opened
<1>7. PICK d : d = [data EXCEPT ![i] = << >>]
  OBVIOUS
<1>8. GoodData(d) /\ d[i] = << >>
  BY <1>1, <1>6, <1>7, EmptiedGood
<1>9. Disk(t, d)
  BY <1>3, <1>5, <1>7
<1>10. tree' = t /\ data'[i] = << >>
  BY <1>6, <1>8, <1>9, DiskIs
<1>11. off'[s] = 0
  BY <1>1, <1>4 DEF Hand, FilesAt
<1>12. Len(Payload(s)) = 2 /\ Pre(Payload(s), 0) = << >>
  BY PayloadIs, FirstChunks
<1>13. Receiving(s)'
  BY <1>2, <1>4, <1>6, <1>10, <1>11, <1>12 DEF Receiving, IsFile, Exists, Payload
<1>14. req'[s].op = "upload"
  BY <1>1, <1>4 DEF Hand, OpAt
<1> QED
  BY <1>4, <1>13, <1>14 DEF Promises, KeptUpload, Kept, CopyAt, Copying, CopyPcs

(* It has one chunk more of the client's. *)
LEMMA ReceivePromise ==
  ASSUME StepInv, NEW s \in Sessions, HandStep(s), Receive(s),
         disturbed'[s] <=> req'[s].op \in Exactly /\ disturbed[s]
  PROVE  Promises(s)'
<1>1. /\ HandlersOK /\ Hand(s) /\ HandlersOK' /\ Hand(s)' /\ GoodTree(tree) /\ GoodData(data)
      /\ UNCHANGED <<pc, req, to>> /\ pc[s] = "receive" /\ off[s] < Len(Payload(s))
      /\ off' = [off EXCEPT ![s] = @ + 1] /\ Receiving(s)
  BY DEF StepInv, HandStep, Receive, Promises
<1>2. Here(s)' = Here(s) /\ req[s].op = "upload" /\ off[s] \in Nat /\ off'[s] = off[s] + 1
  BY <1>1, InHand DEF Here, Hand, OpAt, HandlersOK
<1>3. PICK i \in Inos, n \in 0..1 : i = to[s] /\ n = off[s]
  <2>1. to[s] \in Inos
    BY <1>1, InHand DEF Hand, FilesAt
  <2>2. off[s] < 2
    BY <1>1, PayloadIs
  <2>3. off[s] \in 0..1
    BY <1>2, <2>2
  <2> QED
    BY <2>1, <2>3
<1>4. PICK w \in Seq(Chunks), c \in Chunks : w = Payload(s) /\ Len(w) = 2 /\ c = w[n + 1]
  BY PayloadIs
<1>13. n \in 0..(Len(w) - 1) /\ n \in Nat
  BY <1>4
<1>5. PICK d : d = [data EXCEPT ![i] = WriteAt(@, n, c)]
  OBVIOUS
<1>6. Disk(tree, d)
  BY <1>3, <1>4, <1>5 DEF Receive
<1>7. Wrote(d, i, n, c)
  BY <1>1, <1>5, <1>13, WrittenGood
<1>8. GoodData(d) /\ d[i] = WriteAt(data[i], n, c)
  BY <1>7 DEF Wrote
<1>9. to'[s] = i
  BY <1>1, <1>3
<1>10. tree' = tree /\ data'[i] = d[i]
  BY <1>6, <1>8, <1>9, DiskIs
<1>11. ASSUME ~disturbed[s]
       PROVE  /\ IsFile(Here(s))' /\ tree'[Here(s)] = i
              /\ off'[s] <= Len(w) /\ data'[i] = Pre(w, off'[s])
  <2>1. IsFile(Here(s)) /\ tree[Here(s)] = i /\ data[i] = Pre(w, n)
    BY <1>1, <1>3, <1>4, <1>11 DEF Receiving
  <2>2. WriteAt(Pre(w, n), n, w[n + 1]) = Pre(w, n + 1)
    BY <1>13, WriteNext
  <2> QED
    BY <1>2, <1>3, <1>4, <1>8, <1>10, <2>1, <2>2 DEF IsFile, Exists
<1>12. Receiving(s)'
  BY <1>1, <1>2, <1>4, <1>9, <1>11 DEF Receiving, Payload, Exactly
<1> QED
  BY <1>1, <1>2, <1>12 DEF Promises, KeptUpload, Kept, CopyAt, Copying, CopyPcs

(* It has all of them. *)
LEMMA ReceivedPromise ==
  ASSUME StepInv, NEW s \in Sessions, HandStep(s), Received(s),
         disturbed'[s] <=> req'[s].op \in Exactly /\ disturbed[s]
  PROVE  Promises(s)'
<1>1. /\ HandlersOK /\ Hand(s) /\ HandlersOK' /\ Hand(s)' /\ GoodTree(tree) /\ GoodData(data)
      /\ UNCHANGED req /\ off[s] = Len(Payload(s)) /\ Done(s, "receive", "ok")
      /\ Disk(tree, data) /\ Receiving(s)
  BY DEF StepInv, HandStep, Received, Close, Promises
<1>2. pc[s] = "receive" /\ pc'[s] = "done" /\ Here(s)' = Here(s) /\ req[s].op = "upload"
  BY <1>1 DEF Done, Goes, HandlersOK, Here, Hand, OpAt
<1>3. PICK i \in Inos : i = to[s]
  BY <1>1, <1>2, InHand DEF Hand, FilesAt
<1>4. tree' = tree /\ \A p \in DOMAIN tree : tree[p] \in Inos => data'[tree[p]] = data[tree[p]]
  BY <1>1, DiskIs
<1>5. ASSUME ~disturbed[s] PROVE IsFile(Here(s))' /\ data'[tree'[Here(s)]] = Payload(s)
  <2>1. IsFile(Here(s)) /\ tree[Here(s)] = i /\ data[i] = Pre(Payload(s), Len(Payload(s)))
    BY <1>1, <1>2, <1>3, <1>5 DEF Receiving
  <2>2. Pre(Payload(s), Len(Payload(s))) = Payload(s)
    BY PayloadIs, FirstChunks
  <2> QED
    BY <1>2, <1>4, <2>1, <2>2 DEF IsFile, Exists
<1>6. KeptUpload(s)'
  BY <1>1, <1>2, <1>5 DEF KeptUpload, Kept, Payload, Exactly
<1> QED
  BY <1>1, <1>2, <1>6 DEF Promises, Receiving, CopyAt, Copying, CopyPcs

LEMMA UploadPromise ==
  ASSUME StepInv, NEW s \in Sessions, HandStep(s),
         CreateFails(s) \/ ReceiveFails(s) \/ Cleanup(s)
  PROVE  Promises(s)'
<1>1. /\ HandlersOK /\ Hand(s) /\ HandlersOK' /\ Hand(s)' /\ UNCHANGED req
      /\ pc[s] \in {"create", "receive", "cleanup"}
  BY DEF StepInv, HandStep, CreateFails, ReceiveFails, Cleanup, Goes
<1>2. req[s].op = "upload" /\ req'[s].op = "upload"
  BY <1>1 DEF Hand, OpAt
<1>3. \/ pc'[s] = "cleanup"
      \/ pc'[s] = "done" /\ result'[s] = "error"
  <2>1. CASE CreateFails(s) \/ ReceiveFails(s)
    BY <1>1, <2>1 DEF CreateFails, ReceiveFails, Goes, HandlersOK
  <2>2. CASE Cleanup(s)
    <3>1. pc[s] = "cleanup" /\ pc'[s] = "done" /\ UNCHANGED result
      BY <1>1, <2>2 DEF Cleanup, Goes, HandlersOK
    <3> QED
      BY <1>1, <3>1 DEF Hand, FilesAt
  <2> QED
    BY <2>1, <2>2
<1> QED
  BY <1>2, <1>3, NoPromise

-----------------------------------------------------------------------------
(* A copy.                                                                 *)

(* What the step of an undisturbed copy finds. *)
LEMMA CopyFinds ==
  ASSUME StepInv, NEW s \in Sessions, pc[s] \in CopyPcs \ {"eisdir"}, Copying(s)',
         UNCHANGED req, disturbed'[s] <=> req'[s].op \in Exactly /\ disturbed[s]
  PROVE  Apart(req[s].src, req[s].dst) /\ EqualOrWaits(s) /\ MadeDir(s) /\ AtSource(s) /\ AtChunk(s)
BY DEF StepInv, Promises, Copying, CopyAt, Apart, Exactly, CopyPcs

(* Two paths, one below each of two that are apart, are not the same. *)
LEMMA ApartBelow ==
  ASSUME NEW p \in Paths, NEW q \in Paths, Apart(p, q), NEW r \in Paths, NEW u \in Paths,
         IsPrefix(p, r), IsPrefix(q, u)
  PROVE  ~IsPrefix(r, u) /\ ~IsPrefix(u, r) /\ r # u
<1>1. ~IsPrefix(p, u) /\ ~IsPrefix(q, r)
  BY PrefixOrder DEF Apart
<1> QED
  BY <1>1, PrefixOrder

(* Two entries that are equal, still are in a tree that has them as it did. *)
LEMMA SameStays ==
  ASSUME NEW r, NEW u, Same(r, u),
         \A p \in {r, u} : /\ p \in DOMAIN tree' /\ tree'[p] = tree[p]
                           /\ tree[p] # Dir => data'[tree[p]] = data[tree[p]]
  PROVE  Same(r, u)'
<1>1. Same(r, u)' <=>
        /\ r \in DOMAIN tree' /\ u \in DOMAIN tree' /\ (tree'[r] = Dir) = (tree'[u] = Dir)
        /\ tree'[r] # Dir => data'[tree'[r]] = data'[tree'[u]]
  BY DEF Same
<1> QED
  BY <1>1 DEF Same

(* What is to be shown of a step of a copy: of the entries of the source,  *)
(* where they are to go, and the call they waited for.                     *)
LEMMA CopyStep ==
  ASSUME StepInv, NEW s \in Sessions, DiskStep(s), HandStep(s), NEW p \in Paths, NEW q \in Paths,
         p = req[s].src, q = req[s].dst, UNCHANGED req, EqualOrWaits(s),
         \A r \in DOMAIN tree' : IsPrefix(p, r) => r \in DOMAIN tree,
         \A r, u \in Paths :
           /\ IsPrefix(p, r) /\ IsPrefix(q, u) /\ u = To(p, q, r)
           /\ r \in Under(p) \cup {p} /\ (Same(r, u) \/ Waits(s, r))
           => Same(r, u)' \/ Waits(s, r)'
  PROVE  EqualOrWaits(s)'
<1>1. DOMAIN tree \subseteq Paths
  BY DEF StepInv, GoodTree, Entered
<1>2. ASSUME NEW r \in Under(p)' \cup {p}
      PROVE  Same(r, To(p, q, r))' \/ Waits(s, r)'
  <2>1. r \in Under(p) \cup {p} /\ r \in Paths /\ IsPrefix(p, r)
    BY <1>1, <1>2, PrefixOrder DEF Under
  <2>2. PICK u \in Paths : u = To(p, q, r) /\ IsPrefix(q, u)
    <3>1. PICK v \in Paths : v = r /\ IsPrefix(p, v)
      BY <2>1
    <3>2. To(p, q, v) \in Paths
      BY <3>1, ToIs
    <3>3. IsPrefix(q, To(p, q, v))
      BY <3>1, ToOrder
    <3> QED
      BY <3>1, <3>2, <3>3
  <2>3. Same(r, u) \/ Waits(s, r)
    BY <2>1, <2>2 DEF EqualOrWaits
  <2>4. Same(r, u)' \/ Waits(s, r)'
    BY <2>1, <2>2, <2>3
  <2>5. Same(r, u)' <=> Same(r, To(p, q, r))'
    BY <2>2
  <2> QED
    BY <2>4, <2>5
<1> QED
  BY <1>2 DEF EqualOrWaits

(* A step that leaves the disk alone, and each entry its call. *)
LEMMA CopyRests ==
  ASSUME StepInv, NEW s \in Sessions, req[s].op = "copy", pc[s] \in CopyPcs \ {"eisdir"},
         UNCHANGED <<req, disk>>, pc'[s] # "receive", \A r : Waits(s, r) => Waits(s, r)',
         Copying(s)' => MadeDir(s)' /\ AtSource(s)' /\ AtChunk(s)',
         disturbed'[s] <=> req'[s].op \in Exactly /\ disturbed[s]
  PROVE  Promises(s)'
<1>1. ASSUME Copying(s)' PROVE EqualOrWaits(s)'
  <2>1. EqualOrWaits(s)
    BY <1>1, CopyFinds
  <2>2. tree' = tree /\ data' = data /\ req'[s] = req[s]
    BY DEF disk
  <2> QED
    BY <2>1, <2>2 DEF EqualOrWaits, Same, Under
<1> QED
  BY <1>1 DEF Promises, Receiving, KeptUpload, Kept, CopyAt

(* The source is a directory, or the call is of CopyFile now. *)
LEMMA CopyDirPromise ==
  ASSUME StepInv, NEW s \in Sessions, CopyDir(s),
         disturbed'[s] <=> req'[s].op \in Exactly /\ disturbed[s]
  PROVE  Promises(s)'
<1>1. /\ HandlersOK /\ Hand(s) /\ UNCHANGED <<req, disk>>
      /\ pc[s] = "copy" /\ todo[s] # << >> /\ req[s].op = "copy" /\ TodoAt(s)
  BY DEF StepInv, CopyDir, CopyCall, Hand, OpAt, CopyPcs
<1>2. PICK td \in Seq(Pending) : td = todo[s]
  BY <1>1, InHand
<1>3. PICK x \in Paths, y \in Paths :
        /\ Head(todo[s])[1] = x /\ Head(todo[s])[2] = y /\ todo[s][1][1] = x
  BY <1>1, NextCall
<1>4. CASE Goes(s, "copy", "stat") /\ UNCHANGED todo
  <2>1. pc'[s] = "stat"
    BY <1>1, <1>4 DEF Goes, HandlersOK
  <2>2. \A r : Waits(s, r) => Waits(s, r)'
    BY <1>4 DEF Waits
  <2> QED
    BY <1>1, <2>1, <2>2, CopyRests DEF CopyPcs, MadeDir, AtSource, AtChunk
<1>5. CASE /\ todo' = [todo EXCEPT ![s] = <<<<Call(s)[1], Call(s)[2], "CopyFile">>>> \o Tail(@)]
           /\ UNCHANGED pc
  <2>1. PICK c : c = <<<<x, y, "CopyFile">>>>
    OBVIOUS
  <2>2. c \in Seq(Pending) /\ 1 \in DOMAIN c /\ c[1][1] = x
    BY <2>1 DEF Pending
  <2>3. PICK w : w = c \o Tail(td)
    OBVIOUS
  <2>4. Spliced(w, c, td)
    BY <1>1, <1>2, <2>2, <2>3, SplicedIs
  <2>5. todo'[s] = w
    BY <1>1, <1>2, <1>3, <1>5, <2>1, <2>3 DEF Call, HandlersOK
  <2>6. ASSUME NEW r, Waits(s, r) PROVE Waits(s, r)'
    <3>1. PICK k \in DOMAIN td : IsPrefix(td[k][1], r)
      BY <1>2, <2>6 DEF Waits
    <3>2. CASE k = 1
      <4>1. PICK j \in DOMAIN w : w[j] = c[1]
        BY <2>2, <2>4 DEF Spliced
      <4> QED
        BY <1>2, <1>3, <2>2, <2>5, <3>1, <3>2, <4>1 DEF Waits
    <3>3. CASE k # 1
      <4>1. PICK j \in DOMAIN w : w[j] = td[k]
        BY <2>4, <3>3 DEF Spliced
      <4> QED
        BY <2>5, <3>1, <4>1 DEF Waits
    <3> QED
      BY <3>2, <3>3
  <2>7. pc'[s] = "copy"
    BY <1>1, <1>5
  <2> QED
    BY <1>1, <2>6, <2>7, CopyRests DEF CopyPcs, MadeDir, AtSource, AtChunk
<1> QED
  BY <1>4, <1>5 DEF CopyDir

(* MkdirAll has found the directory, or what there is on the way to it. *)
LEMMA StatPromise ==
  ASSUME StepInv, NEW s \in Sessions, Stat(s), req[s].op = "copy",
         disturbed'[s] <=> req'[s].op \in Exactly /\ disturbed[s]
  PROVE  Promises(s)'
<1>1. /\ HandlersOK /\ Hand(s) /\ UNCHANGED <<req, disk>> /\ pc[s] = "stat" /\ ~AboveRoot(s)
  BY DEF StepInv, Stat, AboveRoot
<1>2. PICK g \in Paths : Goal(s) = g /\ g = todo[s][1][2]
  BY <1>1, GoalIs
<1>3. CASE Fail(s, "stat")
  <2>1. pc'[s] = "done" /\ result'[s] = "error"
    BY <1>1, <1>3 DEF Fail, Done, Goes, Says, HandlersOK
  <2> QED
    BY <2>1, NoPromise
<1>4. CASE Goes(s, "stat", "mkdir") /\ UNCHANGED todo
  <2>1. pc'[s] = "mkdir"
    BY <1>1, <1>4 DEF Goes, HandlersOK
  <2>2. \A r : Waits(s, r) => Waits(s, r)'
    BY <1>4 DEF Waits
  <2> QED
    BY <1>1, <2>1, <2>2, CopyRests DEF CopyPcs, MadeDir, AtSource, AtChunk
<1>5. CASE IsDir(g) /\ Made(s, "stat")
  <2>1. Goes(s, "stat", "readdir") /\ UNCHANGED todo
    BY <1>5 DEF Made
  <2>2. pc'[s] = "readdir"
    BY <1>1, <2>1 DEF Goes, HandlersOK
  <2>3. \A r : Waits(s, r) => Waits(s, r)'
    BY <2>1 DEF Waits
  <2>4. MadeDir(s)'
    BY <1>1, <1>2, <1>5, <2>1 DEF MadeDir, IsDir, Exists, disk
  <2> QED
    BY <1>1, <2>2, <2>3, <2>4, CopyRests DEF CopyPcs, AtSource, AtChunk
<1> QED
  BY <1>1, <1>2, <1>3, <1>4, <1>5 DEF Stat

(* One directory more on the way; nothing below the source is new. *)
LEMMA MkdirPromise ==
  ASSUME StepInv, NEW s \in Sessions, DiskStep(s), HandStep(s), Mkdir(s), req[s].op = "copy",
         disturbed'[s] <=> req'[s].op \in Exactly /\ disturbed[s]
  PROVE  Promises(s)'
<1>1. /\ HandlersOK /\ Hand(s) /\ GoodTree(tree) /\ GoodData(data) /\ UNCHANGED req
      /\ pc[s] = "mkdir" /\ ~AboveRoot(s) /\ off[s] \in Nat /\ off[s] <= Len(Goal(s))
      /\ TodoAt(s) /\ todo[s] # << >>
  BY InHand DEF StepInv, Mkdir, AboveRoot, Hand, MkdirAt, TodoAt, CopyPcs
<1>2. PICK p \in Paths, q \in Paths : p = req[s].src /\ q = req[s].dst
  BY <1>1, InHand
<1>3. PICK y \in Paths : Goal(s) = y /\ y = todo[s][1][2]
  BY <1>1, GoalIs
<1>4. IsPrefix(q, y)
  BY <1>1, <1>2, <1>3, NextCall
<1>5. off[s] \in 0..Len(y)
  BY <1>1, <1>3, PathLen
<1>6. PICK v \in Paths : /\ v = Upto(s, off[s]) /\ IsPrefix(v, y)
                         /\ off[s] = Len(y) => v = y
  <2>1. PICK v \in Paths : v = Pre(y, off[s]) /\ IsPrefix(v, y) /\ Len(v) = off[s]
    BY <1>5, PreIs, PreOrder
  <2>2. v = Upto(s, off[s])
    BY <1>3, <2>1 DEF Upto, Pre
  <2>3. off[s] = Len(y) => v = y
    BY <2>1, PrefixOrder
  <2> QED
    BY <2>1, <2>2, <2>3
<1>7. CASE Fail(s, "mkdir")
  BY <1>7, FailPromise
<1>8. CASE /\ MayMkdir(v) /\ Disk(With(tree, {v}, Dir), data) /\ UNCHANGED todo
           /\ \/ UNCHANGED pc
              \/ off[s] >= Len(y) /\ Goes(s, "mkdir", "readdir")
  <2>1. \/ pc'[s] = "mkdir"
        \/ pc'[s] = "readdir" /\ v = y
    <3>1. CASE UNCHANGED pc
      BY <1>1, <3>1
    <3>2. CASE off[s] >= Len(y) /\ Goes(s, "mkdir", "readdir")
      <4>1. off[s] = Len(y)
        BY <1>5, <3>2, PathLen
      <4> QED
        BY <1>1, <1>6, <3>2, <4>1 DEF Goes, HandlersOK
    <3> QED
      BY <1>8, <3>1, <3>2
  <2>2. PICK t : t = With(tree, {v}, Dir)
    OBVIOUS
  <2>3. MayMkdir(v) /\ Disk(t, data)
    BY <1>8, <2>2
  <2>4. Grown(t, v, Dir)
    BY <1>1, <2>2, <2>3, OpsAssumption, MkdirGood
  <2>5. tree' = t /\ \A r \in DOMAIN t : t[r] \in Inos => data'[t[r]] = data[t[r]]
    BY <1>1, <2>3, DiskIs
  <2>6. ASSUME Copying(s)' PROVE EqualOrWaits(s)' /\ MadeDir(s)' /\ AtSource(s)' /\ AtChunk(s)'
    <3>1. Apart(p, q) /\ EqualOrWaits(s)
      BY <1>1, <1>2, <2>6, CopyFinds DEF CopyPcs
    <3>2. \A r \in DOMAIN t : IsPrefix(p, r) => r \in DOMAIN tree
      <4>1. ~IsPrefix(p, v)
        BY <1>2, <1>4, <1>6, <3>1, ApartBelow
      <4> QED
        BY <2>4, <4>1 DEF Grown
    <3>3. ASSUME NEW r, NEW u, Same(r, u) PROVE Same(r, u)'
      <4>1. \A a \in {r, u} : a \in DOMAIN tree /\ (tree[a] # Dir => tree[a] \in Inos)
        BY <1>1, <3>3, Named DEF Same
      <4>2. \A a \in DOMAIN tree : a \in DOMAIN t /\ t[a] = tree[a]
        BY <2>4 DEF Grown
      <4> QED
        BY <2>5, <3>3, <4>1, <4>2, SameStays
    <3>4. \A r : Waits(s, r) => Waits(s, r)'
      BY <1>8 DEF Waits
    <3>5. EqualOrWaits(s)'
      BY <1>1, <1>2, <2>5, <3>1, <3>2, <3>3, <3>4, CopyStep
    <3>6. MadeDir(s)'
      BY <1>3, <1>8, <2>1, <2>4, <2>5 DEF MadeDir, Grown
    <3> QED
      BY <2>1, <3>5, <3>6 DEF AtSource, AtChunk
  <2> QED
    BY <1>1, <2>1, <2>6 DEF Promises, Receiving, KeptUpload, Kept, CopyAt
<1> QED
  <2>1. ASSUME Made(s, "mkdir") PROVE Goes(s, "mkdir", "readdir") /\ UNCHANGED todo
    BY <2>1 DEF Made
  <2>2. off[s] < Len(y) \/ off[s] >= Len(y)
    BY <1>5, PathLen
  <2> QED
    BY <1>3, <1>6, <1>7, <1>8, <2>1, <2>2 DEF Mkdir

(* What waits for the call that is next lies at its entry, or below it. *)
LEMMA WaitsNext ==
  ASSUME StepInv, NEW s \in Sessions, NEW x \in Paths, NEW p \in Paths, todo[s][1][1] = x,
         IsPrefix(p, x), NEW r, r \in Under(p) \cup {p}, Waits(s, r)
  PROVE  \/ r = x
         \/ r \in DOMAIN tree /\ r \in Paths /\ IsPrefix(x, r) /\ r # x
         \/ \E k \in DOMAIN todo[s] : k # 1 /\ IsPrefix(todo[s][k][1], r)
<1>1. PICK k \in DOMAIN todo[s] : IsPrefix(todo[s][k][1], r)
  BY DEF Waits
<1>2. CASE k # 1
  BY <1>1, <1>2
<1>3. CASE k = 1 /\ r = p
  <2>1. IsPrefix(x, p)
    BY <1>1, <1>3
  <2> QED
    BY <1>3, <2>1, PrefixOrder
<1>4. CASE k = 1 /\ r \in DOMAIN tree
  BY <1>1, <1>4 DEF StepInv, GoodTree, Entered
<1> QED
  BY <1>2, <1>3, <1>4 DEF Under

(* What waited for the directory waits for one of its entries now. *)
LEMMA ReadDirPromise ==
  ASSUME StepInv, NEW s \in Sessions, DiskStep(s), HandStep(s), ReadDir(s),
         disturbed'[s] <=> req'[s].op \in Exactly /\ disturbed[s]
  PROVE  Promises(s)'
<1>1. /\ HandlersOK /\ Hand(s) /\ GoodTree(tree) /\ GoodData(data) /\ UNCHANGED <<req, disk>>
      /\ pc[s] = "readdir" /\ todo[s] # << >> /\ req[s].op = "copy" /\ TodoAt(s)
  BY DEF StepInv, ReadDir, Hand, OpAt, TodoAt, CopyPcs
<1>2. CASE Fail(s, "readdir")
  BY <1>2, FailPromise
<1>3. CASE ~Fail(s, "readdir")
  <2>1. PICK p \in Paths, q \in Paths, td \in Seq(Pending) :
          p = req[s].src /\ q = req[s].dst /\ td = todo[s]
    BY <1>1, InHand
  <2>2. PICK x \in Paths, y \in Paths :
          /\ Head(todo[s])[1] = x /\ Head(todo[s])[2] = y /\ todo[s][1][1] = x
          /\ todo[s][1][2] = y /\ IsPrefix(p, x) /\ IsPrefix(q, y) /\ y = To(p, q, x)
    BY <1>1, <2>1, NextCall
  <2>3. IsDir(x) /\ Goes(s, "readdir", "copy")
    BY <1>3, <2>2 DEF ReadDir, Call
  <2>4. PICK ns \in Entries(x) : todo' = [todo EXCEPT ![s] = Calls(x, y, ns) \o Tail(@)]
    BY <1>3, <2>2 DEF ReadDir, Call
  <2>5. Lists(ns, x)
    BY <1>1, EntriesList
  <2>6. ns \in Seq(Names)
    BY <2>5 DEF Lists
  <2>7. PICK c : c = Calls(x, y, ns)
    OBVIOUS
  <2>8. Below(c, p, q, x, ns)
    BY <2>2, <2>6, <2>7, CallsBelow
  <2>9. c \in Seq(Pending)
    BY <2>8 DEF Below
  <2>10. PICK w : w = c \o Tail(td)
    OBVIOUS
  <2>11. Spliced(w, c, td)
    BY <1>1, <2>1, <2>9, <2>10, SplicedIs
  <2>12. todo'[s] = w /\ pc'[s] = "copy"
    BY <1>1, <2>1, <2>3, <2>4, <2>7, <2>10 DEF HandlersOK, Goes
  <2>13. ASSUME Copying(s)' PROVE EqualOrWaits(s)'
    <3>1. Apart(p, q) /\ EqualOrWaits(s) /\ MadeDir(s)
      BY <1>1, <2>1, <2>13, CopyFinds DEF CopyPcs
    <3>2. tree' = tree /\ data' = data
      BY <1>1 DEF disk
    <3>3. ASSUME NEW r, NEW u, Same(r, u) PROVE Same(r, u)'
      BY <3>2, <3>3, SameStays DEF Same
    <3>4. ASSUME NEW r \in Paths, IsPrefix(x, r), r # x, r \in DOMAIN tree PROVE Waits(s, r)'
      <4>1. PICK e \in Paths : e # << >> /\ Front(e) = x /\ IsPrefix(e, r)
        BY <3>4, NextName
      <4>2. e \in DOMAIN tree
        BY <1>1, <3>4, <4>1, Named
      <4>3. PICK k \in DOMAIN ns : Append(x, ns[k]) = e
        BY <2>5, <4>1, <4>2 DEF Lists, Children
      <4>4. k \in DOMAIN c /\ c[k][1] = e
        BY <2>8, <4>3 DEF Below
      <4>5. PICK j \in DOMAIN w : w[j] = c[k]
        BY <2>11, <4>4 DEF Spliced
      <4> QED
        BY <2>12, <4>1, <4>4, <4>5 DEF Waits
    <3>5. ASSUME NEW k \in DOMAIN td, k # 1, NEW r, IsPrefix(td[k][1], r) PROVE Waits(s, r)'
      <4>1. PICK j \in DOMAIN w : w[j] = td[k]
        BY <2>11, <3>5 DEF Spliced
      <4> QED
        BY <2>12, <3>5, <4>1 DEF Waits
    <3>6. Same(x, y)
      BY <1>1, <2>2, <2>3, <3>1 DEF MadeDir, Same, IsDir, Exists
    <3>7. ASSUME NEW r \in Paths, NEW u \in Paths, IsPrefix(p, r), u = To(p, q, r),
                 r \in Under(p) \cup {p}, Waits(s, r)
          PROVE  Same(r, u)' \/ Waits(s, r)'
      <4>1. \/ r = x
            \/ r \in DOMAIN tree /\ IsPrefix(x, r) /\ r # x
            \/ \E k \in DOMAIN todo[s] : k # 1 /\ IsPrefix(todo[s][k][1], r)
        BY <2>2, <3>7, WaitsNext
      <4>2. CASE r = x
        <5>1. u = y
          BY <2>2, <3>7, <4>2
        <5> QED
          BY <3>3, <3>6, <4>2, <5>1
      <4> QED
        BY <2>1, <3>4, <3>5, <3>7, <4>1, <4>2
    <3> QED
      BY <1>1, <2>1, <3>1, <3>2, <3>3, <3>7, CopyStep
  <2> QED
    BY <1>1, <2>12, <2>13 DEF Promises, Receiving, KeptUpload, Kept, CopyAt, MadeDir, AtSource, AtChunk
<1> QED
  BY <1>2, <1>3

(* The source is open. *)
LEMMA OpenSourcePromise ==
  ASSUME StepInv, NEW s \in Sessions, OpenSource(s),
         disturbed'[s] <=> req'[s].op \in Exactly /\ disturbed[s]
  PROVE  Promises(s)'
<1>1. /\ HandlersOK /\ Hand(s) /\ UNCHANGED <<req, disk, todo>>
      /\ pc[s] = "copy" /\ todo[s] # << >> /\ req[s].op = "copy" /\ TodoAt(s)
      /\ Exists(Call(s)[1]) /\ Goes(s, "copy", "open")
      /\ from' = [from EXCEPT ![s] = tree[Call(s)[1]]]
  BY DEF StepInv, OpenSource, CopyCall, Hand, OpAt, CopyPcs
<1>2. PICK x \in Paths : Head(todo[s])[1] = x /\ todo[s][1][1] = x
  BY <1>1, NextCall
<1>3. pc'[s] = "open" /\ from'[s] = tree[x] /\ x \in DOMAIN tree
  BY <1>1, <1>2 DEF Goes, HandlersOK, Call, Exists
<1>4. \A r : Waits(s, r) => Waits(s, r)'
  BY <1>1 DEF Waits
<1>5. AtSource(s)'
  BY <1>1, <1>2, <1>3 DEF AtSource, disk
<1> QED
  BY <1>1, <1>3, <1>4, <1>5, CopyRests DEF CopyPcs, MadeDir, AtChunk

(* The file that is emptied is the one the next call is for. *)
LEMMA OpenDestinationPromise ==
  ASSUME StepInv, NEW s \in Sessions, DiskStep(s), HandStep(s), OpenDestination(s),
         disturbed'[s] <=> req'[s].op \in Exactly /\ disturbed[s]
  PROVE  Promises(s)'
<1>1. /\ HandlersOK /\ Hand(s) /\ HandlersOK' /\ GoodTree(tree) /\ GoodData(data)
      /\ UNCHANGED <<req, todo, from, off>>
      /\ pc[s] = "open" /\ todo[s] # << >> /\ req[s].op = "copy" /\ TodoAt(s)
  BY DEF StepInv, HandStep, OpenDestination, Hand, OpAt, TodoAt, CopyPcs
<1>2. PICK p \in Paths, q \in Paths : p = req[s].src /\ q = req[s].dst
  BY <1>1, InHand
<1>3. PICK x \in Paths, y \in Paths :
        /\ Head(todo[s])[1] = x /\ Head(todo[s])[2] = y /\ todo[s][1][1] = x
        /\ todo[s][1][2] = y /\ 1 \in DOMAIN todo[s]
        /\ IsPrefix(p, x) /\ IsPrefix(q, y) /\ y = To(p, q, x)
  BY <1>1, <1>2, NextCall
<1>4. PICK i \in Opens(y) :
        /\ Goes(s, "open", IF from[s] = Dir THEN "eisdir" ELSE "chunks")
        /\ to' = [to EXCEPT ![s] = i]
        /\ Disk(With(tree, {y}, i), [data EXCEPT ![i] = << >>])
  BY <1>3 DEF OpenDestination, Call
<1>5. /\ pc'[s] = (IF from[s] = Dir THEN "eisdir" ELSE "chunks")
      /\ from'[s] = from[s] /\ to'[s] = i /\ off'[s] = 0
  BY <1>1, <1>4 DEF Goes, HandlersOK, Hand, FilesAt
<1>6. PICK t : t = With(tree, {y}, i)
  OBVIOUS
<1>7. Opened(t, y, i)
  BY <1>1, <1>6, OpsAssumption, PutGood
<1>8. PICK d : d = [data EXCEPT ![i] = << >>]
  OBVIOUS
<1>9. i \in Inos
  BY <1>7 DEF Opened
<1>10. GoodData(d) /\ d[i] = << >> /\ \A j \in Inos : j # i => d[j] = data[j]
  BY <1>1, <1>8, <1>9, EmptiedGood
<1>11. Disk(t, d)
  BY <1>4, <1>6, <1>8
<1>12. tree' = t /\ \A r \in DOMAIN t : t[r] \in Inos => data'[t[r]] = d[t[r]]
  BY <1>10, <1>11, DiskIs
(* Only what is opened is new, and only it has lost its chunks. *)
<1>14. /\ DOMAIN t = DOMAIN tree \cup {y} /\ t[y] = i
       /\ \A r \in DOMAIN tree : t[r] = tree[r]
       /\ \A r \in DOMAIN tree : tree[r] # Dir /\ r # y => data'[tree[r]] = data[tree[r]]
  <2>1. /\ DOMAIN t = DOMAIN tree \cup {y} /\ t[y] = i
        /\ \A r \in DOMAIN tree : t[r] = tree[r]
        /\ \A r \in DOMAIN tree : tree[r] = i => r = y
    BY <1>7 DEF Opened
  <2>2. \A r \in DOMAIN tree : tree[r] # Dir => tree[r] \in Inos
    BY <1>1, Named
  <2> QED
    BY <1>10, <1>12, <2>1, <2>2
<1>15. ASSUME Copying(s)' PROVE EqualOrWaits(s)' /\ AtSource(s)' /\ AtChunk(s)'
  <2>1. Apart(p, q) /\ EqualOrWaits(s) /\ AtSource(s)
    BY <1>1, <1>2, <1>15, CopyFinds DEF CopyPcs
  <2>13. from[s] # Dir /\ x \in DOMAIN tree /\ tree[x] = from[s]
    BY <1>1, <1>3, <1>5, <1>15, <2>1 DEF Copying, AtSource
  <2>14. x \in DOMAIN tree /\ tree[x] # Dir /\ tree[x] \in Inos
    <3>1. x \in DOMAIN tree /\ tree[x] # Dir
      BY <2>13
    <3> QED
      BY <1>1, <3>1, Named
  <2>2. \A r \in Paths : IsPrefix(p, r) => r # y
    BY <1>3, <2>1, ApartBelow
  <2>3. \A r \in DOMAIN tree' : IsPrefix(p, r) => r \in DOMAIN tree
    BY <1>3, <1>12, <1>14, <2>1, ApartBelow
  <2>4. ASSUME NEW r \in Paths, NEW u \in Paths, IsPrefix(p, r), u # y, Same(r, u)
        PROVE  Same(r, u)'
    <3>1. r # y /\ r \in DOMAIN tree /\ u \in DOMAIN tree
      BY <2>2, <2>4 DEF Same
    <3> QED
      BY <1>12, <1>14, <2>4, <3>1, SameStays
  <2>5. ASSUME NEW r \in Paths, IsPrefix(p, r), To(p, q, r) = y PROVE Waits(s, r)'
    <3>1. r = x
      BY <1>3, <2>5, ToOrder
    <3>2. IsPrefix(x, x)
      BY PrefixOrder
    <3> QED
      BY <1>1, <1>3, <3>1, <3>2 DEF Waits
  <2>6. \A r : Waits(s, r) => Waits(s, r)'
    BY <1>1 DEF Waits
  <2>7. EqualOrWaits(s)'
    <3>1. ASSUME NEW r \in Paths, NEW u \in Paths, IsPrefix(p, r), u = To(p, q, r),
                 Same(r, u) \/ Waits(s, r)
          PROVE  Same(r, u)' \/ Waits(s, r)'
      BY <2>4, <2>5, <2>6, <3>1
    <3> QED
      BY <1>1, <1>2, <2>1, <2>3, <3>1, CopyStep
  <2>8. x # y
    BY <1>3, <2>2
  <2>9. /\ x \in DOMAIN t /\ t[x] = from'[s] /\ y \in DOMAIN t /\ t[y] = to'[s]
    BY <1>5, <1>14, <2>13
  <2>10. data'[from'[s]] \in Seq(Chunks) /\ data'[to'[s]] = << >>
    <3>1. GoodData(data')
      BY DEF DiskStep
    <3>2. data'[i] = << >>
      BY <1>9, <1>10, <1>12, <1>14
    <3> QED
      BY <1>5, <2>13, <2>14, <3>1, <3>2 DEF GoodData
  <2>11. off'[s] <= Len(data'[from'[s]]) /\ data'[to'[s]] = Pre(data'[from'[s]], off'[s])
    BY <1>5, <2>10, FirstChunks, LenProperties
  <2>12. AtChunk(s)'
    BY <1>1, <1>3, <1>12, <2>9, <2>11 DEF AtChunk
  <2>15. AtSource(s)'
    BY <1>1, <1>3, <1>12, <2>9 DEF AtSource
  <2> QED
    BY <2>7, <2>12, <2>15
<1> QED
  BY <1>1, <1>5, <1>15 DEF Promises, Receiving, KeptUpload, Kept, CopyAt, MadeDir

(* It has one chunk more of its source. *)
LEMMA CopyChunkPromise ==
  ASSUME StepInv, NEW s \in Sessions, DiskStep(s), HandStep(s), CopyChunk(s),
         disturbed'[s] <=> req'[s].op \in Exactly /\ disturbed[s]
  PROVE  Promises(s)'
<1>1. /\ HandlersOK /\ Hand(s) /\ HandlersOK' /\ GoodTree(tree) /\ GoodData(data)
      /\ UNCHANGED <<pc, req, todo, from, to>> /\ off' = [off EXCEPT ![s] = @ + 1]
      /\ pc[s] = "chunks" /\ todo[s] # << >> /\ req[s].op = "copy" /\ TodoAt(s)
      /\ off[s] < Len(data[from[s]])
      /\ Disk(tree, [data EXCEPT ![to[s]] = WriteAt(@, off[s], data[from[s]][off[s] + 1])])
  BY DEF StepInv, HandStep, CopyChunk, Hand, OpAt, TodoAt, CopyPcs
<1>2. PICK p \in Paths, q \in Paths : p = req[s].src /\ q = req[s].dst
  BY <1>1, InHand
<1>3. PICK x \in Paths, y \in Paths :
        /\ todo[s][1][1] = x /\ todo[s][1][2] = y /\ 1 \in DOMAIN todo[s]
        /\ IsPrefix(p, x) /\ IsPrefix(q, y) /\ y = To(p, q, x)
  BY <1>1, <1>2, NextCall
<1>4. PICK i \in Inos, f \in Inos, n \in Nat : i = to[s] /\ f = from[s] /\ n = off[s]
  BY <1>1, InHand DEF Hand, FilesAt
<1>5. PICK w \in Seq(Chunks) : w = data[f]
  BY <1>1 DEF GoodData
<1>6. n < Len(w)
  BY <1>1, <1>4, <1>5
<1>7. n + 1 \in 1..Len(w) /\ n \in 0..(Len(w) - 1)
  BY <1>6, LenProperties
<1>8. PICK c \in Chunks : c = w[n + 1]
  BY <1>7, ElementOfSeq
<1>9. PICK d : d = [data EXCEPT ![i] = WriteAt(@, n, c)]
  OBVIOUS
<1>10. Wrote(d, i, n, c)
  BY <1>1, <1>9, WrittenGood
<1>11. GoodData(d) /\ d[i] = WriteAt(data[i], n, c) /\ \A j \in Inos : j # i => d[j] = data[j]
  BY <1>10 DEF Wrote
<1>12. Disk(tree, d)
  BY <1>1, <1>4, <1>5, <1>8, <1>9
<1>13. /\ tree' = tree
       /\ \A r \in DOMAIN tree : tree[r] \in Inos => data'[tree[r]] = d[tree[r]]
  BY <1>11, <1>12, DiskIs
<1>14. pc'[s] = "chunks" /\ todo' = todo /\ from'[s] = f /\ to'[s] = i /\ off'[s] = n + 1
  BY <1>1, <1>4 DEF HandlersOK
<1>15. ASSUME Copying(s)' PROVE EqualOrWaits(s)' /\ AtSource(s)' /\ AtChunk(s)'
  <2>1. Apart(p, q) /\ EqualOrWaits(s) /\ AtSource(s) /\ AtChunk(s)
    BY <1>1, <1>2, <1>15, CopyFinds DEF CopyPcs
  <2>2. /\ x \in DOMAIN tree /\ tree[x] = f /\ y \in DOMAIN tree /\ tree[y] = i
        /\ data[i] = Pre(w, n)
    BY <1>1, <1>3, <1>4, <1>5, <2>1 DEF AtSource, AtChunk
  <2>3. \A r \in Paths : IsPrefix(p, r) => r # y
    BY <1>3, <2>1, ApartBelow
  <2>4. \A r \in DOMAIN tree : tree[r] = i => r = y
    <3>1. i # Dir
      BY DEF Inos, Dir
    <3> QED
      BY <1>1, <2>2, <3>1 DEF GoodTree, OneName
  <2>5. \A r \in DOMAIN tree : r # y /\ tree[r] # Dir => data'[tree[r]] = data[tree[r]]
    <3>1. \A r \in DOMAIN tree : tree[r] # Dir => tree[r] \in Inos
      BY <1>1, Named
    <3> QED
      BY <1>11, <1>13, <2>4, <3>1
  <2>6. ASSUME NEW r \in Paths, NEW u \in Paths, IsPrefix(p, r), u # y, Same(r, u)
        PROVE  Same(r, u)'
    <3>1. r # y /\ r \in DOMAIN tree /\ u \in DOMAIN tree
      BY <2>3, <2>6 DEF Same
    <3> QED
      BY <1>13, <2>5, <2>6, <3>1, SameStays
  <2>7. ASSUME NEW r \in Paths, IsPrefix(p, r), To(p, q, r) = y PROVE Waits(s, r)'
    <3>1. r = x
      BY <1>3, <2>7, ToOrder
    <3>2. IsPrefix(x, x)
      BY PrefixOrder
    <3> QED
      BY <1>1, <1>3, <3>1, <3>2 DEF Waits
  <2>8. \A r : Waits(s, r) => Waits(s, r)'
    BY <1>1 DEF Waits
  <2>9. EqualOrWaits(s)'
    <3>1. ASSUME NEW r \in Paths, NEW u \in Paths, IsPrefix(p, r), u = To(p, q, r),
                 Same(r, u) \/ Waits(s, r)
          PROVE  Same(r, u)' \/ Waits(s, r)'
      BY <2>6, <2>7, <2>8, <3>1
    <3>2. \A r \in DOMAIN tree' : IsPrefix(p, r) => r \in DOMAIN tree
      BY <1>13
    <3> QED
      BY <1>1, <1>2, <2>1, <3>1, <3>2, CopyStep
  <2>10. data'[f] = w /\ data'[i] = Pre(w, n + 1)
    <3>1. x # y /\ f # Dir
      BY <1>3, <2>3 DEF Inos, Dir
    <3>2. WriteAt(Pre(w, n), n, w[n + 1]) = Pre(w, n + 1)
      BY <1>7, WriteNext
    <3>3. data'[i] = d[i]
      BY <1>13, <2>2
    <3> QED
      BY <1>5, <1>8, <1>11, <2>2, <2>5, <3>1, <3>2, <3>3
  <2>11. AtChunk(s)'
    <3>1. n + 1 <= Len(w)
      BY <1>7
    <3> QED
      BY <1>3, <1>13, <1>14, <2>2, <2>10, <3>1 DEF AtChunk
  <2>12. AtSource(s)'
    BY <1>3, <1>13, <1>14, <2>2 DEF AtSource
  <2> QED
    BY <2>9, <2>11, <2>12
<1> QED
  BY <1>1, <1>14, <1>15 DEF Promises, Receiving, KeptUpload, Kept, CopyAt, MadeDir

(* It has all of them; nothing lies below a file. *)
LEMMA CopiedFilePromise ==
  ASSUME StepInv, NEW s \in Sessions, DiskStep(s), HandStep(s), CopiedFile(s),
         disturbed'[s] <=> req'[s].op \in Exactly /\ disturbed[s]
  PROVE  Promises(s)'
<1>1. /\ HandlersOK /\ Hand(s) /\ HandlersOK' /\ GoodTree(tree) /\ GoodData(data)
      /\ UNCHANGED req /\ todo' = [todo EXCEPT ![s] = Tail(@)] /\ Goes(s, "chunks", "copy")
      /\ pc[s] = "chunks" /\ todo[s] # << >> /\ req[s].op = "copy" /\ TodoAt(s)
      /\ off[s] >= Len(data[from[s]]) /\ Disk(tree, data)
  BY DEF StepInv, HandStep, CopiedFile, Hand, OpAt, TodoAt, CopyPcs, Goes
<1>2. PICK p \in Paths, q \in Paths, td \in Seq(Pending) :
        p = req[s].src /\ q = req[s].dst /\ td = todo[s]
  BY <1>1, InHand
<1>3. PICK x \in Paths, y \in Paths :
        /\ todo[s][1][1] = x /\ todo[s][1][2] = y
        /\ IsPrefix(p, x) /\ IsPrefix(q, y) /\ y = To(p, q, x)
  BY <1>1, <1>2, NextCall
<1>4. PICK i \in Inos, f \in Inos, n \in Nat : i = to[s] /\ f = from[s] /\ n = off[s]
  BY <1>1, InHand DEF Hand, FilesAt
<1>5. PICK w \in Seq(Chunks) : w = data[f]
  BY <1>1 DEF GoodData
<1>6. /\ tree' = tree
      /\ \A r \in DOMAIN tree : tree[r] \in Inos => data'[tree[r]] = data[tree[r]]
  BY <1>1, DiskIs
<1>7. pc'[s] = "copy" /\ todo'[s] = Tail(td)
  BY <1>1, <1>2 DEF HandlersOK, Goes
<1>8. ASSUME Copying(s)' PROVE EqualOrWaits(s)'
  <2>1. Apart(p, q) /\ EqualOrWaits(s) /\ AtSource(s) /\ AtChunk(s)
    BY <1>1, <1>2, <1>8, CopyFinds DEF CopyPcs
  <2>2. /\ x \in DOMAIN tree /\ tree[x] = f /\ y \in DOMAIN tree /\ tree[y] = i
        /\ n <= Len(w) /\ data[i] = Pre(w, n)
    BY <1>1, <1>3, <1>4, <1>5, <2>1 DEF AtSource, AtChunk
  <2>3. data[i] = w
    <3>1. n = Len(w)
      BY <1>1, <1>4, <1>5, <2>2, LenProperties
    <3> QED
      BY <2>2, <3>1, FirstChunks, LenProperties
  <2>4. f # Dir /\ i # Dir
    BY DEF Inos, Dir
  <2>5. Same(x, y)
    BY <1>5, <2>2, <2>3, <2>4 DEF Same
  <2>6. ASSUME NEW r, NEW u, Same(r, u) PROVE Same(r, u)'
    <3>1. \A a \in {r, u} : a \in DOMAIN tree /\ (tree[a] # Dir => tree[a] \in Inos)
      BY <1>1, <2>6, Named DEF Same
    <3> QED
      BY <1>6, <2>6, <3>1, SameStays
  <2>7. ASSUME NEW k \in DOMAIN td, k # 1, NEW r, IsPrefix(td[k][1], r) PROVE Waits(s, r)'
    <3>1. Len(td) \in Nat /\ DOMAIN td = 1..Len(td)
      BY LenProperties
    <3>2. PICK v : v = Tail(td)
      OBVIOUS
    <3>3. v \in Seq(Pending) /\ Len(v) = Len(td) - 1 /\ \A j \in 1..Len(v) : v[j] = td[j + 1]
      BY <1>1, <1>2, <3>2, HeadTailProperties
    <3>4. k - 1 \in 1..Len(v) /\ k - 1 \in DOMAIN v
      BY <2>7, <3>1, <3>3
    <3>5. v[k - 1] = td[k]
      BY <3>1, <3>3, <3>4
    <3> QED
      BY <1>7, <2>7, <3>2, <3>4, <3>5 DEF Waits
  <2>8. ASSUME NEW r \in Paths, NEW u \in Paths, IsPrefix(p, r), u = To(p, q, r),
               r \in Under(p) \cup {p}, Waits(s, r)
        PROVE  Same(r, u)' \/ Waits(s, r)'
    <3>1. \/ r = x
          \/ r \in DOMAIN tree /\ IsPrefix(x, r) /\ r # x
          \/ \E k \in DOMAIN todo[s] : k # 1 /\ IsPrefix(todo[s][k][1], r)
      BY <1>3, <2>8, WaitsNext
    <3>2. CASE r = x
      <4>1. u = y
        BY <1>3, <2>8, <3>2
      <4> QED
        BY <2>5, <2>6, <3>2, <4>1
    <3>3. ~(r \in DOMAIN tree /\ IsPrefix(x, r) /\ r # x)
      BY <1>1, <2>2, <2>4, Named
    <3> QED
      BY <1>2, <2>7, <3>1, <3>2, <3>3
  <2>9. \A r \in DOMAIN tree' : IsPrefix(p, r) => r \in DOMAIN tree
    BY <1>6
  <2> QED
    BY <1>1, <1>2, <2>1, <2>6, <2>8, <2>9, CopyStep
<1> QED
  BY <1>1, <1>7, <1>8 DEF Promises, Receiving, KeptUpload, Kept, CopyAt, MadeDir, AtSource, AtChunk

(* No call is left. *)
LEMMA CopiedPromise ==
  ASSUME StepInv, NEW s \in Sessions, Copied(s),
         disturbed'[s] <=> req'[s].op \in Exactly /\ disturbed[s]
  PROVE  Promises(s)'
<1>1. /\ HandlersOK /\ Hand(s) /\ UNCHANGED <<req, todo, disk>>
      /\ pc[s] = "copy" /\ pc'[s] = "done" /\ req[s].op = "copy"
  BY DEF StepInv, Copied, Hand, OpAt, NoWork, work, Done, Goes, HandlersOK, CopyPcs
<1>2. \A r : Waits(s, r) => Waits(s, r)'
  BY <1>1 DEF Waits
<1> QED
  BY <1>1, <1>2, CopyRests DEF CopyPcs, MadeDir, AtSource, AtChunk

(* A step of s keeps the promises of s. *)
LEMMA AnyPromise ==
  ASSUME StepInv, NEW s \in Sessions, DiskStep(s), HandStep(s),
         Handler(s) \/ \E o \in Ops, t, u \in Targets : Begin(s, o, t, u),
         disturbed'[s] <=> req'[s].op \in Exactly /\ disturbed[s]
  PROVE  Promises(s)'
<1>1. CASE \E o \in Ops, t, u \in Targets : Begin(s, o, t, u)
  BY <1>1, BeginPromise
<1>2. CASE Look(s) \/ ChDir(s) \/ Move(s) \/ Answer(s)
  BY <1>2, OtherPromise
<1>3. CASE \/ Unlink(s) \/ Rmdir(s, "noentry") \/ Rmdir(s, "rmdir") \/ OpenParent(s)
           \/ Unlinkat(s) \/ Openat(s) \/ Readdirnames(s) \/ CloseDir(s) \/ Rmdirat(s)
  <2>1. pc[s] \in DeletePcs /\ UNCHANGED req
    BY <1>3, DeleteMoves
  <2> QED
    BY <2>1, DeletePromise
<1>4. CASE Stat(s)
  BY <1>4, StatPromise, MkdirAllPromise
<1>5. CASE Mkdir(s)
  BY <1>5, MkdirPromise, MkdirAllPromise
<1>6. CASE CreateFails(s) \/ ReceiveFails(s) \/ Cleanup(s)
  BY <1>6, UploadPromise
<1>7. CASE CopyFails(s) \/ CopyBreaks(s)
  BY <1>7, FailPromise DEF CopyFails, CopyBreaks
<1> QED
  BY <1>1, <1>2, <1>3, <1>4, <1>5, <1>6, <1>7, CreatePromise, ReceivePromise, ReceivedPromise,
     CopyDirPromise, ReadDirPromise, OpenSourcePromise, OpenDestinationPromise,
     CopyChunkPromise, CopiedFilePromise, CopiedPromise DEF Handler

-----------------------------------------------------------------------------
(* The theorems.                                                           *)

(* The server starts. *)
LEMMA InitStepInv ==
  ASSUME Init
  PROVE  StepInv
<1>1. GoodTree(tree)
  BY TreesAssumption DEF Init, GoodTree, Entered, Closed, OneName, Pre
<1>2. GoodData(data)
  <2>1. <<Old, Old, Old>> \in Seq(Chunks) /\ << >> \in Seq(Chunks)
    BY EmptySeq DEF Chunks
  <2> QED
    BY <2>1 DEF Init, GoodData
<1>3. HandlersOK
  <2>1. << >> \in Seq(Pending) /\ << >> \in Paths /\ 0 \in 0..MaxIno
    BY EmptySeq, OpsAssumption DEF Paths
  <2>2. NoRequest \in Requests
    BY <2>1 DEF NoRequest, Request, Requests
  <2>3. cwd \in [Sessions -> Paths]
    BY <1>1 DEF Init, GoodTree, Entered
  <2> QED
    BY <2>1, <2>2, <2>3 DEF Init, HandlersOK, Pcs, Results
<1>4. WatchOK
  BY Zenon DEF Init, WatchOK
<1>6. dirs \in [Sessions -> Frames]
  <2>1. << >> \in Frames
    BY EmptySeq DEF Frames
  <2> QED
    BY <2>1 DEF Init
<1>5. ASSUME NEW s \in Sessions PROVE Hand(s) /\ HeldAt(s) /\ GoneAt(s) /\ Promises(s)
  <2>1. /\ pc[s] = "idle" /\ req[s].op = "none" /\ req[s].src = req[s].dst
        /\ todo[s] = << >> /\ from[s] = 0 /\ to[s] = 0 /\ off[s] = 0
    BY DEF Init, NoRequest, Request
  <2>2. OpAt(s) /\ FilesAt(s) /\ MkdirAt(s)
    BY <2>1 DEF OpAt, FilesAt, MkdirAt, PathPcs, AtPcs, CopyPcs, TwoPaths
  <2>3. TodoAt(s)
    BY <2>1, EmptySeq DEF TodoAt, CopyPcs
  <2>4. Promises(s)
    BY <2>1 DEF Promises, Receiving, KeptUpload, Kept, CopyAt, Copying
  <2>5. HeldAt(s) /\ GoneAt(s)
    BY <2>1 DEF HeldAt, GoneAt, AtPcs
  <2> QED
    BY <2>2, <2>3, <2>4, <2>5 DEF Hand
<1> QED
  BY <1>1, <1>2, <1>3, <1>4, <1>5, <1>6 DEF StepInv

(* What every step of every session is. *)
LEMMA AnyStep ==
  ASSUME StepInv, NEW s \in Sessions, Watch(s),
         Handler(s) \/ \E o \in Ops, t, u \in Targets : Begin(s, o, t, u)
  PROVE  StepInv' /\ Reaches(s)
<1>1. DiskStep(s)
  BY AnyDiskStep
<1>2. HandStep(s)
  BY AnyHandStep
<1>3. HandlersOK /\ WatchOK /\ HandlersOK' /\ Others(s) /\ Hand(s)'
  BY <1>2 DEF StepInv, HandStep
<1>4. WatchOK' /\ (disturbed'[s] <=> req'[s].op \in Exactly /\ disturbed[s])
  BY <1>3, Watched
<1>5. Promises(s)'
  BY <1>1, <1>2, <1>4, AnyPromise
<1>8. GoodTree(tree') /\ GoodData(data') /\ Reaches(s)
  BY <1>1 DEF DiskStep
<1>9. GoneNoted
  BY GoneWatched
<1>10. FramesStep(s)
  BY <1>2, <1>8, <1>9, AnyFramesStep
<1>6. ASSUME NEW t \in Sessions \ {s} PROVE Hand(t)' /\ HeldAt(t)' /\ GoneAt(t)' /\ Promises(t)'
  <2>1. Promises(t)'
    BY <1>1, <1>2, OthersKept
  <2>2. /\ pc'[t] = pc[t] /\ req'[t] = req[t] /\ result'[t] = result[t]
        /\ todo'[t] = todo[t]
        /\ from'[t] = from[t] /\ to'[t] = to[t] /\ off'[t] = off[t]
    BY <1>3 DEF Others
  <2>3. Hand(t)
    BY DEF StepInv
  <2>4. OpAt(t)' /\ FilesAt(t)' /\ MkdirAt(t)'
    BY <2>2, <2>3 DEF Hand, OpAt, FilesAt, MkdirAt, AboveRoot, Goal, Here
  <2>5. TodoAt(t)'
    BY <2>2, <2>3 DEF Hand, TodoAt, CallAt
  <2>6. HeldAt(t)' /\ GoneAt(t)'
    BY <1>2, <1>8, <1>9, <1>10, OthersAt DEF FramesStep
  <2> QED
    BY <2>1, <2>4, <2>5, <2>6 DEF Hand
<1>7. \A t \in Sessions : Hand(t)' /\ HeldAt(t)' /\ GoneAt(t)' /\ Promises(t)'
  BY <1>3, <1>5, <1>6, <1>10 DEF FramesStep
<1>11. dirs' \in [Sessions -> Frames]
  BY <1>10 DEF FramesStep
<1> QED
  BY <1>3, <1>4, <1>7, <1>8, <1>11 DEF StepInv

(* A step in which nothing changes. *)
LEMMA RestStepInv ==
  ASSUME StepInv, UNCHANGED vars
  PROVE  StepInv'
<1>1. /\ tree' = tree /\ data' = data /\ cwd' = cwd /\ pc' = pc /\ req' = req /\ todo' = todo
      /\ dirs' = dirs /\ from' = from /\ to' = to /\ off' = off /\ result' = result
      /\ disturbed' = disturbed /\ gone' = gone
  BY DEF vars, disk, work, files
<1>2. /\ GoodTree(tree') /\ GoodData(data') /\ HandlersOK' /\ WatchOK'
      /\ dirs' \in [Sessions -> Frames]
  BY <1>1 DEF StepInv, HandlersOK, WatchOK
<1>3. ASSUME NEW s \in Sessions PROVE Hand(s)' /\ HeldAt(s)' /\ GoneAt(s)' /\ Promises(s)'
  <2>1. Hand(s) /\ HeldAt(s) /\ GoneAt(s) /\ Promises(s)
    BY DEF StepInv
  <2>2. Hand(s)'
    BY <1>1, <2>1 DEF Hand, OpAt, FilesAt, MkdirAt, TodoAt, CallAt, AboveRoot, Goal, Here
  <2>3. Receiving(s)' /\ KeptUpload(s)'
    BY <1>1, <2>1 DEF Promises, Receiving, KeptUpload, Kept, IsFile, Exists, Here, Payload
  <2>4. CopyAt(s)'
    BY <1>1, <2>1 DEF Promises, CopyAt, Copying, EqualOrWaits, MadeDir, AtSource, AtChunk, Same,
                      Waits, Under
  <2>5. HeldAt(s)' /\ GoneAt(s)'
    BY <1>1, <2>1 DEF HeldAt, GoneAt
  <2> QED
    BY <2>2, <2>3, <2>4, <2>5 DEF Promises
<1> QED
  BY <1>2, <1>3 DEF StepInv

(* StepInv is inductive. *)
LEMMA StepInductive ==
  ASSUME StepInv, [Next]_vars
  PROVE  StepInv'
<1>1. CASE Next
  BY <1>1, AnyStep DEF Next
<1>2. CASE UNCHANGED vars
  BY <1>2, RestStepInv
<1> QED
  BY <1>1, <1>2

(* StepInv holds of every state. *)
LEMMA AlwaysStepInv == Spec => []StepInv
<1>1. Init => StepInv
  BY InitStepInv
<1>2. StepInv /\ [Next]_vars => StepInv'
  BY StepInductive
<1> QED
  BY <1>1, <1>2, PTL DEF Spec

(* TypeOK: the tree stays a tree, and a handler has files open only while  *)
(* it copies or receives (OpenSource, OpenDestination, Create, Close).     *)
LEMMA TypesKept == Spec => []TypeOK
<1>1. StepInv => TypeOK
  <2> SUFFICES ASSUME StepInv PROVE TypeOK
    OBVIOUS
  <2>1. GoodTree(tree) /\ GoodData(data) /\ HandlersOK /\ \A s \in Sessions : FilesAt(s)
    BY DEF StepInv, Hand
  <2>2. ASSUME NEW p \in DOMAIN tree
        PROVE  /\ tree[p] \in {Dir} \cup Inos
               /\ p # << >> => Front(p) \in DOMAIN tree /\ tree[Front(p)] = Dir
    <3>1. p \in Paths /\ tree[p] \in {Dir} \cup Inos
      BY <2>1, Named
    <3>2. ASSUME p # << >> PROVE Front(p) \in DOMAIN tree /\ tree[Front(p)] = Dir
      <4>1. Front(p) \in Paths /\ Len(Front(p)) = Len(p) - 1 /\ IsPrefix(Front(p), p)
        BY <3>1, <3>2, FrontIs
      <4>2. Front(p) # p
        BY <3>1, <4>1, PathLen
      <4> QED
        BY <2>1, <4>1, <4>2, Named
    <3> QED
      BY <3>1, <3>2
  <2>3. \A i \in Inos : data[i] \in Seq({Old, Hole} \cup Sessions)
    BY <2>1 DEF GoodData, Chunks
  <2>4. \A s \in Sessions : /\ from[s] \in 0..MaxIno /\ to[s] \in 0..MaxIno /\ off[s] \in Nat
                            /\ from[s] # 0 => pc[s] \in {"open", "chunks"}
                            /\ pc[s] = "chunks" => from[s] # 0
                            /\ (to[s] # 0) = (pc[s] \in {"chunks", "eisdir", "receive"})
    BY <2>1 DEF HandlersOK, FilesAt
  <2> QED
    BY <2>2, <2>3, <2>4 DEF TypeOK
<1> QED
  BY <1>1, AlwaysStepInv, PTL

(* DeleteMeansGone: a delete that is answered OK has, at some moment of    *)
(* the request, seen nothing at its path, whatever the other sessions do   *)
(* to the directories it has open, and wherever they move them             *)
(* (handleDelete, RemoveAll).                                              *)
THEOREM DeletesMeanGone == Spec => []DeleteMeansGone
<1>1. StepInv => DeleteMeansGone
  BY DEF StepInv, GoneAt, DeleteMeansGone
<1> QED
  BY <1>1, AlwaysStepInv, PTL

(* UploadIsExact: an upload that is answered OK, and that no other session *)
(* disturbed, has left exactly the bytes the client sent (handleUpload,    *)
(* receiveFileToPath).                                                     *)
THEOREM UploadAlwaysExact == Spec => []UploadIsExact
<1>1. StepInv => UploadIsExact
  BY DEF StepInv, Promises, KeptUpload, UploadIsExact
<1> QED
  BY <1>1, AlwaysStepInv, PTL

(* CopyIsExact: a copy that is answered OK, of two paths that are apart,   *)
(* and that no other session disturbed, has left an equal of every entry   *)
(* of its source, to any depth and for files of any length (CopyDir,       *)
(* CopyFile).                                                              *)
THEOREM CopyAlwaysExact == Spec => []CopyIsExact
<1>1. StepInv => CopyIsExact
  <2> SUFFICES ASSUME StepInv, NEW s \in Sessions, Kept(s, "copy"),
                      Apart(req[s].src, req[s].dst),
                      NEW r \in Under(req[s].src) \cup {req[s].src}
               PROVE  Same(r, req[s].dst \o SubSeq(r, Len(req[s].src) + 1, Len(r)))
    BY DEF CopyIsExact, Apart
  <2>1. CopyAt(s) /\ TodoAt(s)
    BY DEF StepInv, Hand, Promises
  <2>2. Copying(s) /\ todo[s] = << >>
    BY <2>1 DEF Copying, Kept, TodoAt, CopyPcs
  <2>3. ~Waits(s, r)
    BY <2>2, EmptySeq DEF Waits
  <2>4. Same(r, To(req[s].src, req[s].dst, r))
    BY <2>1, <2>2, <2>3 DEF CopyAt, EqualOrWaits
  <2> QED
    BY <2>4 DEF To
<1> QED
  BY <1>1, AlwaysStepInv, PTL

(* OnlyWhatIsNamed: no entry appears that no request in progress names;    *)
(* none goes that no such request names, unless a delete has the directory *)
(* it lies in open, or one above it, wherever that has been moved; and the *)
(* contents of a file change only while one that writes has it open.       *)
THEOREM NothingUnnamed == Spec => OnlyWhatIsNamed
<1> DEFINE Effect ==
      /\ \A p \in DOMAIN tree' \ DOMAIN tree : \E s \in Sessions : MayAdd(s, p)
      /\ \A p \in DOMAIN tree \ DOMAIN tree' : \E s \in Sessions : MayTake(s, p)
      /\ \A p \in DOMAIN tree \cap DOMAIN tree' :
           tree'[p] = tree[p] /\ tree[p] # Dir /\ data'[tree[p]] # data[tree[p]] =>
             \E s \in Sessions : tree[p] \in {to[s], to'[s]}
<1>1. StepInv /\ [Next]_vars => [Effect]_vars
  <2> SUFFICES ASSUME StepInv, Next PROVE Effect
    OBVIOUS
  <2>1. PICK s \in Sessions : Reaches(s)
    BY AnyStep DEF Next
  <2> QED
    BY <2>1 DEF Reaches
<1> QED
  BY <1>1, AlwaysStepInv, PTL DEF Spec, OnlyWhatIsNamed
=============================================================================
