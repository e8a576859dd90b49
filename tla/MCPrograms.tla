------------------------------ MODULE MCPrograms ------------------------------
(***************************************************************************)
(* The programs for TLC.  One echo message is shorter than the buffer, one *)
(* longer, one empty; the file takes two full buffers, so that the last    *)
(* read gives nothing; of the origin's files one is missing, one takes two *)
(* pieces, and one is of a length that is not told.                        *)
(***************************************************************************)
EXTENDS Programs

MCEchoLength == [c \in EchoClients |-> <<2, 4, 0>>[c]]
MCOrigin == [r \in Fetches |-> <<-1, 3, 1>>[r]]
===============================================================================
