----------------------------- MODULE MCSession ------------------------------
(* Session on a small tree and two files: in the world of the faults each  *)
(* kind of operation survives, and in the world of every fault.            *)
EXTENDS Session

(* "." , a file of one chunk, a subdirectory, an empty file *)
MCTree == << [dir |-> TRUE, n |-> 0], [dir |-> FALSE, n |-> 1],
             [dir |-> TRUE, n |-> 0], [dir |-> FALSE, n |-> 0] >>

(* "." and a file of one chunk *)
SmallTree == << [dir |-> TRUE, n |-> 0], [dir |-> FALSE, n |-> 1] >>

Every == AllKinds \X AllFaults

(* Two worlds: only faults that are survived, and every fault. *)
MCFaultSets == {Survivable, Every}

(* One fault of one operation, taken to be survived. *)
CannotCreate == {<<"upFile", "create">>}
OnlyCannotCreate == {CannotCreate}
=============================================================================
