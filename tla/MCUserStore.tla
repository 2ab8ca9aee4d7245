---------------------------- MODULE MCUserStore ----------------------------
(* UserStore with two users, the second one to be added later.             *)
EXTENDS UserStore, TLC

CONSTANTS alice, bob, p1, p2, s1, s2

AliceOnly == alice :> Account(p1, 1) @@ bob :> NoAccount

(* The sessions, which may be exchanged. *)
Interchangeable == Permutations(Sessions)
=============================================================================
