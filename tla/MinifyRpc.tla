------------------------------ MODULE MinifyRpc ------------------------------
(***************************************************************************)
(* The image resizer of project4.  A client makes one synchronous call     *)
(* (minify_via_rpc.c, minifyjpeg_clnt.c) and exits on any status but       *)
(* success; the server (minifyjpeg_svc.c, minifyjpeg.c) has one thread,    *)
(* which reads an argument, resizes, and sends the static result.  Time    *)
(* passes in ticks, in each of the three.  An image is known by the client *)
(* it came from.                                                           *)
(***************************************************************************)
EXTENDS Integers, FiniteSets

CONSTANTS
    Clients,    \* the calls; a client run again is another one
    Work,       \* the most ticks the image library needs for an image
    Wire,       \* the most ticks an argument is read, or a result sent
    Timeout     \* TIMEOUT of the client stub

Nobody == 0     \* not in Clients

VARIABLES
    server,     \* "start", "idle", "read", "resize", "reply" or "exited"
    current,    \* the call being served
    busy,       \* ticks spent in this stage of it
    dst,        \* the static result: whose image it holds
    inbox,      \* the calls that arrived and were not taken up yet
    client,     \* client[c]: what it does, or what clnt_call returned
    waited,     \* waited[c]: ticks since its call
    image       \* image[c]: whose image it got

serverVars == <<server, current, busy, dst>>
vars == <<serverVars, inbox, client, waited, image>>

Init ==
    /\ server = "start" /\ current = Nobody /\ busy = 0 /\ dst = Nobody
    /\ inbox = {}
    /\ client = [c \in Clients |-> "start"]
    /\ waited = [c \in Clients |-> 0]
    /\ image = [c \in Clients |-> Nobody]

(* main of the server: both transports are created and registered, or not. *)
Register ==
    /\ server = "start"
    /\ server' \in {"idle", "exited"}
    /\ UNCHANGED <<current, busy, dst, inbox, client, waited, image>>

DispatchKept(c) ==              \* faulty variant: the call is served again
    /\ server = "idle" /\ c \in inbox
    /\ server' = "read" /\ current' = c
    /\ UNCHANGED <<busy, dst, inbox, client, waited, image>>

(* svc_run finds a call, whose caller may be gone. *)
Dispatch(c) ==
    /\ server = "idle" /\ c \in inbox
    /\ server' = "read" /\ current' = c
    /\ inbox' = inbox \ {c}
    /\ UNCHANGED <<busy, dst, client, waited, image>>

Waits(c) == client[c] = "waiting"

(* What clnt_call returns, to a caller that is still there. *)
Answer(status) ==
    client' = IF Waits(current) THEN [client EXCEPT ![current] = status] ELSE client

(* svc_getargs. *)
ReadArgument ==
    /\ server = "read"
    /\ server' = "resize" /\ busy' = 0
    /\ UNCHANGED <<current, dst, inbox, client, waited, image>>

(* svc_getargs fails, and svcerr_decode; to write to a caller that is gone *)
(* fails too, or ends the server by SIGPIPE.                               *)
RefuseArgument ==
    /\ server = "read"
    /\ Answer("refused")
    /\ server' \in IF Waits(current) THEN {"idle"} ELSE {"idle", "exited"}
    /\ busy' = 0
    /\ UNCHANGED <<current, dst, inbox, waited, image>>

ResizeOnce ==                   \* faulty variant: the static result is set once
    /\ server = "resize"
    /\ dst' = IF dst = Nobody THEN current ELSE dst
    /\ server' = "reply" /\ busy' = 0
    /\ UNCHANGED <<current, inbox, client, waited, image>>

(* resize_image_1_svc has its result. *)
Resize ==
    /\ server = "resize"
    /\ dst' = current
    /\ server' = "reply" /\ busy' = 0
    /\ UNCHANGED <<current, inbox, client, waited, image>>

(***************************************************************************)
(* svc_sendreply of the static result, and the caller returns it; or the   *)
(* result cannot be encoded, and svcerr_systemerr.  The server ends by     *)
(* SIGPIPE, or when svc_freeargs fails.                                    *)
(***************************************************************************)
Reply ==
    /\ server = "reply"
    /\ \/ /\ Answer("success")
          /\ image' = IF Waits(current) THEN [image EXCEPT ![current] = dst] ELSE image
       \/ Answer("refused") /\ UNCHANGED image
    /\ server' \in {"idle", "exited"} /\ busy' = 0
    /\ UNCHANGED <<current, dst, inbox, waited>>

(* clnt_create, which exits without a server or a connection, and the call. *)
Call(c) ==
    /\ client[c] = "start"
    /\ \/ /\ client' = [client EXCEPT ![c] = "no_server"]
          /\ UNCHANGED inbox
       \/ /\ server \notin {"start", "exited"}
          /\ client' = [client EXCEPT ![c] = "waiting"]
          /\ inbox' = inbox \cup {c}
    /\ UNCHANGED <<serverVars, waited, image>>

(***************************************************************************)
(* The connection ends, with the server or before it, or the call cannot   *)
(* be encoded or its result decoded: exit(124) at once.  A connection that *)
(* falls silent counts as ended, although the client finds out later.      *)
(***************************************************************************)
Break(c) ==
    /\ Waits(c)
    /\ client' = [client EXCEPT ![c] = "broken"]
    /\ UNCHANGED <<serverVars, inbox, waited, image>>

(* No answer within TIMEOUT: exit(124). *)
GiveUp(c) ==
    /\ Waits(c) /\ waited[c] = Timeout
    /\ client' = [client EXCEPT ![c] = "timed_out"]
    /\ UNCHANGED <<serverVars, inbox, waited, image>>

Limit == [stage \in {"read", "resize", "reply"} |-> IF stage = "resize" THEN Work ELSE Wire]

(* What is to happen before time goes on. *)
Due ==
    \/ server = "start"
    \/ server = "idle" /\ inbox # {}
    \/ server \in DOMAIN Limit /\ busy = Limit[server]
    \/ server = "exited" /\ \E c \in Clients : Waits(c)
    \/ \E c \in Clients : Waits(c) /\ waited[c] = Timeout

Tick ==
    /\ ~Due
    /\ busy' = IF server \in DOMAIN Limit THEN busy + 1 ELSE busy
    /\ waited' = [c \in Clients |-> IF Waits(c) THEN waited[c] + 1 ELSE waited[c]]
    /\ UNCHANGED <<server, current, dst, inbox, client, image>>

Next ==
    \/ Register \/ ReadArgument \/ RefuseArgument \/ Resize \/ Reply \/ Tick
    \/ \E c \in Clients : Dispatch(c) \/ Call(c) \/ Break(c) \/ GiveUp(c)

Spec == Init /\ [][Next]_vars

-------------------------------------------------------------------------------
(* Properties. *)

Statuses == {"success", "refused", "broken", "timed_out"}

TypeOK ==
    /\ server \in {"start", "idle", "read", "resize", "reply", "exited"}
    /\ {current, dst} \subseteq Clients \cup {Nobody}
    /\ busy \in 0 .. IF server \in DOMAIN Limit THEN Limit[server] ELSE 0
    /\ inbox \subseteq Clients
    /\ client \in [Clients -> {"start", "waiting", "no_server"} \cup Statuses]
    /\ waited \in [Clients -> 0 .. Timeout]
    /\ image \in [Clients -> Clients \cup {Nobody}]

(* A client gets its own image, resized, although all results go through   *)
(* one static variable and calls of clients that gave up are still served. *)
OwnImage == \A c \in Clients : client[c] = "success" => image[c] = c

(***************************************************************************)
(* A client whose connection works times out only under load: reading,     *)
(* resizing and answering all calls so far, its own included, take at      *)
(* least its time.  The calls of clients that are gone count among them,   *)
(* once each.                                                              *)
(***************************************************************************)
TimesOutUnderLoad ==
    \A c \in Clients : client[c] = "timed_out" =>
        Cardinality({d \in Clients : client[d] \notin {"start", "no_server"}})
            * (Wire + Work + Wire) >= Timeout
===============================================================================
