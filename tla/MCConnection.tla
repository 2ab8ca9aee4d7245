---------------------------- MODULE MCConnection ----------------------------
(* Clients of every kind and a server whose adapter is the middle one.     *)
EXTENDS Connection

Client(l, m, a) == [login |-> l, mtu |-> m, acl |-> a]

MiddleAcl == <<310, 10>>

(* A large adapter and the right password, an unknown adapter and an empty *)
(* password, a wrong password, and clients without a name, one of them an  *)
(* old one that skips MTU.                                                 *)
Large == Client("right", TRUE, <<1021, 255>>)
Unknown == Client("empty", TRUE, <<0, 10>>)
Wrong == Client("wrong", FALSE, <<310, 10>>)
Nameless == Client("none", TRUE, <<64, 1>>)
Bare == Client("none", FALSE, <<64, 1>>)

(* The kinds of the first, second and third connection. *)
AllThenBare == <<{Large, Unknown, Wrong, Nameless}, {Wrong}, {Bare}>>
=============================================================================
