--------------------------- MODULE MCRemoteShell ---------------------------
(* A call of any kind, and one that reads what the first has left behind.  *)
EXTENDS RemoteShell

AnyThenSimple == <<{"exec", "shell", "simple"}, {"simple"}>>
=============================================================================
