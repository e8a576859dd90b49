--------------------------- MODULE MCGetFileServer ---------------------------
(* Instances of GetFileServer for TLC. *)
EXTENDS GetFileServer

MCClients == {"a", "b", "c"}
MCKnown == {"long", "short"}
MCSize == [k \in MCKnown |-> IF k = "long" THEN 3 ELSE 1]

(* Two files and a path without content. *)
MixedPath == [c \in MCClients |-> CASE c = "a" -> "long" [] c = "b" -> "missing" [] OTHER -> "short"]

OnePiece == [c \in MCClients |-> 1]
TwoPieces == [c \in MCClients |-> IF c = "a" THEN 2 ELSE 1]

PlainInline == [detached |-> FALSE, pieces |-> OnePiece, aborts |-> {}]
HardInline == [detached |-> FALSE, pieces |-> TwoPieces, aborts |-> {"b"}]
PlainThreads == [detached |-> TRUE, pieces |-> OnePiece, aborts |-> {}]
HardThreads == [detached |-> TRUE, pieces |-> TwoPieces, aborts |-> {"b"}]

AllSettings == {PlainInline, HardInline, HardThreads}
ThreadSettings == {PlainThreads}
===============================================================================
