---------------------------- MODULE MCGetFileClient ----------------------------
(***************************************************************************)
(* Instances of GetFileClient for TLC, for up to three threads and two     *)
(* rounds.  With a buffer of 5 and headers of 3 units, "long" (4) needs    *)
(* several reads and "short" (1) may come with its header.                 *)
(***************************************************************************)
EXTENDS GetFileClient

MCWant == <<"long", "missing", "short", "long", "endless", "empty">>
MCReply ==
    [p \in Paths |-> CASE p = "missing" -> "FILE_NOT_FOUND"
                       [] p = "endless" -> "endless"
                       [] OTHER -> "OK"]
MCSize == [p \in Paths |-> CASE p = "long" -> 4 [] p = "short" -> 1 [] OTHER -> 0]
===============================================================================
