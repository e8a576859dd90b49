------------------------------- MODULE Programs -------------------------------
(***************************************************************************)
(* The programs that share no state, one of them chosen at the start and   *)
(* run alone: the processes around the IPC objects of the proxy and its    *)
(* cache (ProxyIpc), the curl proxy, the image service, the echo pair and  *)
(* the file transfer pair.                                                 *)
(***************************************************************************)
EXTENDS ProxyIpc, Sequences, FiniteSets

CONSTANTS
    EchoClients, EchoLength, EchoWidth, EchoPending, EchoDescriptors,   \* echo
    FileClients, FileSize, FileBufSize, FilePending,                    \* transfer
    Fetches, Origin, Framed, Chunk, Threads,                            \* curl
    Callers, Work, Wire, Timeout                                        \* minify

(***************************************************************************)
(* Lengths, limits and times are natural numbers, a file that the origin   *)
(* does not have is of length -1, and there are finitely many callers.     *)
(***************************************************************************)
ASSUME ProgramsAssumption ==
    /\ EchoLength \in [EchoClients -> Nat] /\ EchoWidth \in Nat /\ EchoDescriptors \in Nat
    /\ FileSize \in Nat /\ FileBufSize \in Nat \ {0}
    /\ Origin \in [Fetches -> Nat \cup {-1}]
    /\ IsFiniteSet(Callers) /\ Work \in Nat /\ Wire \in Nat /\ Timeout \in Nat

VARIABLES
    program,                                                \* the one that runs
    server, sock, held, buffer, pending, client, line, reply, printed, overrun,  \* echo
    fileServer, fileSock, pos, filePending, stream, link, far, misread, \* transfer
    fileClient, output,
    main, handler, size, lost, code, res, handles, announced, result,   \* curl
    rpcServer, current, busy, dst, inbox, rpcClient, waited, image      \* minify

Echo == INSTANCE Echo WITH
    Clients <- EchoClients, Length <- EchoLength, Width <- EchoWidth,
    MaxPending <- EchoPending, Descriptors <- EchoDescriptors
Transfer == INSTANCE Transfer WITH
    Clients <- FileClients, Size <- FileSize, BufSize <- FileBufSize,
    MaxPending <- FilePending,
    server <- fileServer, sock <- fileSock, pending <- filePending, client <- fileClient
CurlProxy == INSTANCE CurlProxy WITH Requests <- Fetches, held <- handles
MinifyRpc == INSTANCE MinifyRpc WITH
    Clients <- Callers, server <- rpcServer, client <- rpcClient

echoVars == <<server, sock, held, buffer, pending, client, line, reply, printed, overrun>>
transferVars == <<fileServer, fileSock, pos, filePending, stream, link, far, misread,
                  fileClient, output>>
curlVars == <<main, handler, size, lost, code, res, handles, announced, result>>
minifyVars == <<rpcServer, current, busy, dst, inbox, rpcClient, waited, image>>
allVars == <<program, vars, echoVars, transferVars, curlVars, minifyVars>>

ProgramsInit ==
    /\ program \in {"ipc", "echo", "transfer", "curl", "minify"}
    /\ Init /\ Echo!Init /\ Transfer!Init /\ CurlProxy!Init /\ MinifyRpc!Init

RunEcho(step) ==
    program = "echo" /\ step /\ UNCHANGED <<program, vars, transferVars, curlVars, minifyVars>>
RunTransfer(step) ==
    program = "transfer" /\ step /\ UNCHANGED <<program, vars, echoVars, curlVars, minifyVars>>

ProgramsNext ==
    \/ /\ program = "ipc" /\ Next
       /\ UNCHANGED <<program, echoVars, transferVars, curlVars, minifyVars>>
    \/ RunEcho(Echo!Next)
    \/ RunTransfer(Transfer!Next)
    \/ /\ program = "curl" /\ CurlProxy!Next
       /\ UNCHANGED <<program, vars, echoVars, transferVars, minifyVars>>
    \/ /\ program = "minify" /\ MinifyRpc!Next
       /\ UNCHANGED <<program, vars, echoVars, transferVars, curlVars>>

(* The processes of the two pairs run; nobody has to leave. *)
ProgramsSpec ==
    /\ ProgramsInit /\ [][ProgramsNext]_allVars
    /\ WF_allVars(RunEcho(Echo!ServerStep))
    /\ \A c \in EchoClients : WF_allVars(RunEcho(Echo!ClientStep(c)))
    /\ WF_allVars(RunTransfer(Transfer!ServerStep))
    /\ \A c \in FileClients : WF_allVars(RunTransfer(Transfer!ClientStep(c)))

-------------------------------------------------------------------------------
(* The properties of the modules, by their names.  The state of a program *)
(* that does not run is the one it starts in.                             *)

ProgramTypes ==
    TypeOK /\ Echo!TypeOK /\ Transfer!TypeOK /\ CurlProxy!TypeOK /\ MinifyRpc!TypeOK
(* An echo is of the client's own message (echoserver.c). *)
EchoOfOwnMessage == Echo!EchoOfOwnMessage
(* Who waits for an echo stops waiting (echoserver.c). *)
EchoClientsEnd == Echo!EchoClientsEnd
(* A transfer that ends well is whole (transferserver.c). *)
WholeFileTransferred == Transfer!WholeFileTransferred
(* A transfer ends (transferserver.c). *)
TransferClientsEnd == Transfer!TransferClientsEnd
(* What an answer that is not a failure is worth (handle_with_curl.c). *)
CurlAnswerTrue == CurlProxy!CurlAnswerTrue
(* Curl handles are given back (handle_with_curl.c). *)
CurlHandlesReturned == CurlProxy!CurlHandlesReturned
(* An image goes to its own client (minifyjpeg_svc.c). *)
OwnImage == MinifyRpc!OwnImage
(* A client that times out met a loaded server (minifyjpeg_clnt.c). *)
TimesOutUnderLoad == MinifyRpc!TimesOutUnderLoad
===============================================================================
