------------------------------ MODULE ProxyCache ------------------------------
(***************************************************************************)
(* The caching proxy of project3/proxy_cache: the webproxy process runs    *)
(* one thread per request (handle_with_cache.c), the simplecached process  *)
(* one thread per connection (simplecached.c).  They talk over a UNIX      *)
(* socket (path, reply, segment number) and move the file through a pool   *)
(* of shared memory segments, each with two semaphores.                    *)
(*                                                                         *)
(* Request r has a proxy thread (pc[r]) and, once connected, a peer in the *)
(* cache (cpc[r]).  The actions are the stretches of code between two      *)
(* points where another thread can interfere: a critical section, a system *)
(* call on the socket, a semaphore operation, a use of the segment.  The   *)
(* error paths that end a process (exit(-1)) are not taken here: both      *)
(* processes are up and their system calls on the local socket succeed.    *)
(***************************************************************************)
EXTENDS Integers, Sequences, FiniteSets

CONSTANTS
    Reqs,       \* the requests; one proxy thread is created for each
    Keys,       \* the paths clients may ask for
    Cached,     \* the paths simplecache_get knows
    Want,       \* Want[r]: the path of request r
    Size,       \* Size[k]: the length of the file of k
    Chunk,      \* segsize - 16: the bytes a segment carries at a time
    NThread,    \* -t of webproxy: threads that work at a time
    MaxThreads, \* -t of simplecached
    NSeg,       \* -n of webproxy: the number of segments
    Backlog,    \* connections simplecached's listen queue holds
    Aborts      \* the requests whose client may go away

ASSUME CacheAssumption ==
    /\ IsFiniteSet(Reqs)
    /\ Cached \subseteq Keys
    /\ Want \in [Reqs -> Keys]
    /\ Size \in [Cached -> Nat]
    /\ {Chunk, NThread, MaxThreads, NSeg, Backlog} \subseteq Nat \ {0}
    /\ Aborts \subseteq Reqs

Segs == 0 .. NSeg - 1
NoSeg == -1

VARIABLES
    pc,             \* pc[r]: the proxy thread of r
    cpc,            \* cpc[r]: the cache's side of r's connection
    workThreads,    \* proxy threads past the gate
    currentWorkers, \* cache threads past their gate
    segFree,        \* ptr_status[0]: the number of free segments
    segStatus,      \* ptr_status[s + 1]: 1 when segment s is free
    seg,            \* seg_available of r's proxy thread, NoSeg outside its use
    backlog,        \* connections not accepted yet
    reply,          \* the reply written to r's connection
    segInfo,        \* the segment number sent over it, NoSeg before
    semReader,      \* value of semaphore /sem_reader_s
    semWriter,      \* value of semaphore /sem_writer_s
    shm,            \* the bytes in segment s (its length field is their number)
    offset,         \* file offset of the descriptor simplecache holds for k
    bytesRead,      \* bytes_read of r's cache thread
    bytesSend,      \* bytes_send of r's proxy thread
    header,         \* status sent to r's client
    body,           \* bytes sent to r's client
    gone            \* clients that closed their connection

gateVars == <<workThreads, currentWorkers>>
poolVars == <<segFree, segStatus, seg>>
sockVars == <<backlog, reply, segInfo>>
ipcVars == <<semReader, semWriter, shm>>
countVars == <<offset, bytesRead, bytesSend>>
clientVars == <<header, body, gone>>
vars == <<pc, cpc, gateVars, poolVars, sockVars, ipcVars, countVars, clientVars>>

ProxyPCs == {"idle", "gate", "gate_wait", "connect", "send_path", "receive",
             "miss_release", "miss_header", "seg_gate", "seg_wait", "header",
             "send_seg", "loop", "send", "post", "release", "done"}
CachePCs == {"none", "queued", "accepted", "gate", "gate_wait", "lookup",
             "miss_release", "rewind", "reply", "read_seg", "loop", "fill",
             "post", "closed"}

Init ==
    /\ pc = [r \in Reqs |-> "idle"]
    /\ cpc = [r \in Reqs |-> "none"]
    /\ workThreads = 0 /\ currentWorkers = 0
    /\ segFree = NSeg
    /\ segStatus = [s \in Segs |-> 1]
    /\ seg = [r \in Reqs |-> NoSeg]
    /\ backlog = << >>
    /\ reply = [r \in Reqs |-> "none"]
    /\ segInfo = [r \in Reqs |-> NoSeg]
    /\ semReader = [s \in Segs |-> 0]
    /\ semWriter = [s \in Segs |-> 1]
    /\ shm = [s \in Segs |-> << >>]
    /\ offset = [k \in Cached |-> 0]
    /\ bytesRead = [r \in Reqs |-> 0]
    /\ bytesSend = [r \in Reqs |-> 0]
    /\ header = [r \in Reqs |-> "none"]
    /\ body = [r \in Reqs |-> << >>]
    /\ gone = {}

File(k) == [i \in 1 .. Size[k] |-> <<k, i>>]
FileLen(r) == Size[Want[r]]

Goto(r, label) == pc' = [pc EXCEPT ![r] = label]
CacheGoto(r, label) == cpc' = [cpc EXCEPT ![r] = label]

GotoSilently(f, r, label, asleep, awake) ==    \* faulty variant: no signal
    {[f EXCEPT ![r] = label]}

(***************************************************************************)
(* What the program counters f may be after r called pthread_cond_signal   *)
(* and went on to label: one of the sleepers, any, is awake.               *)
(***************************************************************************)
GotoSignalling(f, r, label, asleep, awake) ==
    LET sleepers == {q \in Reqs \ {r} : f[q] = asleep}
    IN  IF sleepers = {} THEN {[f EXCEPT ![r] = label]}
        ELSE {[f EXCEPT ![r] = label, ![q] = awake] : q \in sleepers}

-------------------------------------------------------------------------------
(* The proxy: handle_with_cache and thread_function of handle_with_cache.c. *)

(* handle_with_cache: a thread for the request, which returns at once. *)
Request(r) ==
    /\ pc[r] = "idle"
    /\ Goto(r, "gate")
    /\ UNCHANGED <<cpc, gateVars, poolVars, sockVars, ipcVars, countVars, clientVars>>

(* Lock mutex_th, test the condition: go on and count, or sleep. *)
PassGate(r) ==
    /\ pc[r] = "gate"
    /\ workThreads < NThread
    /\ workThreads' = workThreads + 1
    /\ Goto(r, "connect")
    /\ UNCHANGED <<cpc, currentWorkers, poolVars, sockVars, ipcVars, countVars, clientVars>>

WaitGate(r) ==
    /\ pc[r] = "gate"
    /\ workThreads >= NThread
    /\ Goto(r, "gate_wait")
    /\ UNCHANGED <<cpc, gateVars, poolVars, sockVars, ipcVars, countVars, clientVars>>

(* connect blocks while the listen queue is full. *)
Connect(r) ==
    /\ pc[r] = "connect"
    /\ Len(backlog) < Backlog
    /\ backlog' = Append(backlog, r)
    /\ CacheGoto(r, "queued")
    /\ Goto(r, "send_path")
    /\ UNCHANGED <<gateVars, poolVars, reply, segInfo, ipcVars, countVars, clientVars>>

SendPath(r) ==
    /\ pc[r] = "send_path"
    /\ Goto(r, "receive")
    /\ UNCHANGED <<cpc, gateVars, poolVars, sockVars, ipcVars, countVars, clientVars>>

(* recv blocks until the cache's reply is there; sscanf tells the status. *)
Receive(r) ==
    /\ pc[r] = "receive"
    /\ reply[r] # "none"
    /\ Goto(r, IF reply[r] = "FILE_NOT_FOUND" THEN "miss_release" ELSE "seg_gate")
    /\ UNCHANGED <<cpc, gateVars, poolVars, sockVars, ipcVars, countVars, clientVars>>

MissReleaseUncounted(r) ==      \* faulty variant: the early return keeps its place
    /\ pc[r] = "miss_release"
    /\ Goto(r, "miss_header")
    /\ UNCHANGED <<cpc, gateVars, poolVars, sockVars, ipcVars, countVars, clientVars>>

(* FILE_NOT_FOUND: the place in the gate is given back first ... *)
MissRelease(r) ==
    /\ pc[r] = "miss_release"
    /\ workThreads' = workThreads - 1
    /\ pc' \in GotoSignalling(pc, r, "miss_header", "gate_wait", "gate")
    /\ UNCHANGED <<cpc, currentWorkers, poolVars, sockVars, ipcVars, countVars, clientVars>>

(* ... and the client is answered after that, outside the gate. *)
MissHeader(r) ==
    /\ pc[r] = "miss_header"
    /\ header' = [header EXCEPT ![r] = "FILE_NOT_FOUND"]
    /\ Goto(r, "done")
    /\ UNCHANGED <<cpc, gateVars, poolVars, sockVars, ipcVars, countVars, body, gone>>

(***************************************************************************)
(* The scan of ptr_status[1 ..] for a free segment stops at the first one, *)
(* or at nseg when there is none.                                          *)
(***************************************************************************)
ScanStopsAt(s) ==
    /\ \A q \in 0 .. s - 1 : segStatus[q] = 0
    /\ s < NSeg => segStatus[s] = 1

TakeSegmentUnmarked(r) ==       \* faulty variant: the flag is left at 1
    /\ pc[r] = "seg_gate"
    /\ segFree >= 1
    /\ segFree' = segFree - 1
    /\ \E s \in 0 .. NSeg : ScanStopsAt(s) /\ seg' = [seg EXCEPT ![r] = s]
    /\ Goto(r, "header")
    /\ UNCHANGED <<cpc, gateVars, segStatus, sockVars, ipcVars, countVars, clientVars>>

(* Lock mutex_seg: take the first free segment, or sleep. *)
TakeSegment(r) ==
    /\ pc[r] = "seg_gate"
    /\ segFree >= 1
    /\ segFree' = segFree - 1
    /\ \E s \in 0 .. NSeg :
          /\ ScanStopsAt(s)
          /\ seg' = [seg EXCEPT ![r] = s]
          /\ segStatus' = [q \in Segs |-> IF q = s THEN 0 ELSE segStatus[q]]
    /\ Goto(r, "header")
    /\ UNCHANGED <<cpc, gateVars, sockVars, ipcVars, countVars, clientVars>>

WaitSegment(r) ==
    /\ pc[r] = "seg_gate"
    /\ segFree < 1
    /\ Goto(r, "seg_wait")
    /\ UNCHANGED <<cpc, gateVars, poolVars, sockVars, ipcVars, countVars, clientVars>>

SendHeader(r) ==
    /\ pc[r] = "header"
    /\ header' = [header EXCEPT ![r] = "OK"]
    /\ Goto(r, "send_seg")
    /\ UNCHANGED <<cpc, gateVars, poolVars, sockVars, ipcVars, countVars, body, gone>>

SendSegInfo(r) ==
    /\ pc[r] = "send_seg"
    /\ segInfo' = [segInfo EXCEPT ![r] = seg[r]]
    /\ Goto(r, "loop")
    /\ UNCHANGED <<cpc, gateVars, poolVars, backlog, reply, ipcVars, countVars, clientVars>>

(* The head of the while loop, not finished: sem_wait on the reader semaphore. *)
WaitReader(r) ==
    /\ pc[r] = "loop"
    /\ bytesSend[r] < FileLen(r)
    /\ semReader[seg[r]] > 0
    /\ semReader' = [semReader EXCEPT ![seg[r]] = @ - 1]
    /\ Goto(r, "send")
    /\ UNCHANGED <<cpc, gateVars, poolVars, sockVars, semWriter, shm, countVars, clientVars>>

(***************************************************************************)
(* gfs_send from the segment, and bytes_send += send_len (a local variable *)
(* of the thread: the sem_post between the two lines does not see it).  To *)
(* a client that is gone gfs_send returns -1, and send_len is added as it  *)
(* is: bytes_send goes down by one.                                        *)
(***************************************************************************)
Send(r) ==
    /\ pc[r] = "send"
    /\ IF r \in gone
       THEN /\ bytesSend' = [bytesSend EXCEPT ![r] = @ - 1]
            /\ UNCHANGED body
       ELSE /\ bytesSend' = [bytesSend EXCEPT ![r] = @ + Len(shm[seg[r]])]
            /\ body' = [body EXCEPT ![r] = @ \o shm[seg[r]]]
    /\ Goto(r, "post")
    /\ UNCHANGED <<cpc, gateVars, poolVars, sockVars, ipcVars, offset, bytesRead, header, gone>>

PostWriterIfMore(r) ==          \* faulty variant: no sem_post after the last piece
    /\ pc[r] = "post"
    /\ semWriter' = IF bytesSend[r] < FileLen(r)
                    THEN [semWriter EXCEPT ![seg[r]] = @ + 1]
                    ELSE semWriter
    /\ Goto(r, "loop")
    /\ UNCHANGED <<cpc, gateVars, poolVars, sockVars, semReader, shm, countVars, clientVars>>

(* sem_post on the writer semaphore. *)
PostWriter(r) ==
    /\ pc[r] = "post"
    /\ semWriter' = [semWriter EXCEPT ![seg[r]] = @ + 1]
    /\ Goto(r, "loop")
    /\ UNCHANGED <<cpc, gateVars, poolVars, sockVars, semReader, shm, countVars, clientVars>>

ReleaseSegmentSilent(r) ==      \* faulty variant: no signal to those who wait
    /\ pc[r] = "loop"
    /\ bytesSend[r] >= FileLen(r)
    /\ segFree' = segFree + 1
    /\ segStatus' = [segStatus EXCEPT ![seg[r]] = 1]
    /\ seg' = [seg EXCEPT ![r] = NoSeg]
    /\ Goto(r, "release")
    /\ UNCHANGED <<cpc, gateVars, sockVars, ipcVars, countVars, clientVars>>

(* The loop is over: the segment goes back to the pool. *)
ReleaseSegment(r) ==
    /\ pc[r] = "loop"
    /\ bytesSend[r] >= FileLen(r)
    /\ segFree' = segFree + 1
    /\ segStatus' = [segStatus EXCEPT ![seg[r]] = 1]
    /\ seg' = [seg EXCEPT ![r] = NoSeg]
    /\ pc' \in GotoSignalling(pc, r, "release", "seg_wait", "seg_gate")
    /\ UNCHANGED <<cpc, gateVars, sockVars, ipcVars, countVars, clientVars>>

(* The thread leaves the gate and returns. *)
ReleaseWorker(r) ==
    /\ pc[r] = "release"
    /\ workThreads' = workThreads - 1
    /\ pc' \in GotoSignalling(pc, r, "done", "gate_wait", "gate")
    /\ UNCHANGED <<cpc, currentWorkers, poolVars, sockVars, ipcVars, countVars, clientVars>>

-------------------------------------------------------------------------------
(* The cache: main and thread_function of simplecached.c. *)

(***************************************************************************)
(* main accepts the oldest connection and then blocks in read on it: it    *)
(* accepts no other until the path has come.                               *)
(***************************************************************************)
CacheAccept ==
    /\ backlog # << >>
    /\ \A r \in Reqs : cpc[r] # "accepted"
    /\ CacheGoto(Head(backlog), "accepted")
    /\ backlog' = Tail(backlog)
    /\ UNCHANGED <<pc, gateVars, poolVars, reply, segInfo, ipcVars, countVars, clientVars>>

(* The path has come: main creates the thread for this connection. *)
CacheSpawn(r) ==
    /\ cpc[r] = "accepted"
    /\ pc[r] # "send_path"
    /\ CacheGoto(r, "gate")
    /\ UNCHANGED <<pc, gateVars, poolVars, sockVars, ipcVars, countVars, clientVars>>

CachePassGateCrowded(r) ==      \* faulty variant: the test lets one too many in
    /\ cpc[r] = "gate"
    /\ currentWorkers <= MaxThreads
    /\ currentWorkers' = currentWorkers + 1
    /\ CacheGoto(r, "lookup")
    /\ UNCHANGED <<pc, workThreads, poolVars, sockVars, ipcVars, countVars, clientVars>>

CachePassGate(r) ==
    /\ cpc[r] = "gate"
    /\ currentWorkers < MaxThreads
    /\ currentWorkers' = currentWorkers + 1
    /\ CacheGoto(r, "lookup")
    /\ UNCHANGED <<pc, workThreads, poolVars, sockVars, ipcVars, countVars, clientVars>>

CacheWaitGate(r) ==
    /\ cpc[r] = "gate"
    /\ currentWorkers >= MaxThreads
    /\ CacheGoto(r, "gate_wait")
    /\ UNCHANGED <<pc, gateVars, poolVars, sockVars, ipcVars, countVars, clientVars>>

(* simplecache_get returns -1: reply and close ... *)
CacheMiss(r) ==
    /\ cpc[r] = "lookup"
    /\ Want[r] \notin Cached
    /\ reply' = [reply EXCEPT ![r] = "FILE_NOT_FOUND"]
    /\ CacheGoto(r, "miss_release")
    /\ UNCHANGED <<pc, gateVars, poolVars, backlog, segInfo, ipcVars, countVars, clientVars>>

(* ... then leave the gate. *)
CacheMissRelease(r) ==
    /\ cpc[r] = "miss_release"
    /\ currentWorkers' = currentWorkers - 1
    /\ cpc' \in GotoSignalling(cpc, r, "closed", "gate_wait", "gate")
    /\ UNCHANGED <<pc, workThreads, poolVars, sockVars, ipcVars, countVars, clientVars>>

(***************************************************************************)
(* simplecache_get returns the descriptor it keeps for the key, the same   *)
(* one for every thread that asks for that key.  lseek to the end gives    *)
(* the length ...                                                          *)
(***************************************************************************)
CacheSeekEnd(r) ==
    /\ cpc[r] = "lookup"
    /\ Want[r] \in Cached
    /\ offset' = [offset EXCEPT ![Want[r]] = FileLen(r)]
    /\ CacheGoto(r, "rewind")
    /\ UNCHANGED <<pc, gateVars, poolVars, sockVars, ipcVars, bytesRead, bytesSend, clientVars>>

CacheRewindForgotten(r) ==      \* faulty variant: no second lseek
    /\ cpc[r] = "rewind"
    /\ CacheGoto(r, "reply")
    /\ UNCHANGED <<pc, gateVars, poolVars, sockVars, ipcVars, countVars, clientVars>>

(* ... and a second lseek puts the offset back to the start. *)
CacheRewind(r) ==
    /\ cpc[r] = "rewind"
    /\ offset' = [offset EXCEPT ![Want[r]] = 0]
    /\ CacheGoto(r, "reply")
    /\ UNCHANGED <<pc, gateVars, poolVars, sockVars, ipcVars, bytesRead, bytesSend, clientVars>>

CacheReply(r) ==
    /\ cpc[r] = "reply"
    /\ reply' = [reply EXCEPT ![r] = "OK"]
    /\ CacheGoto(r, "read_seg")
    /\ UNCHANGED <<pc, gateVars, poolVars, backlog, segInfo, ipcVars, countVars, clientVars>>

(* read blocks until the segment number is there; its objects are opened. *)
CacheReadSeg(r) ==
    /\ cpc[r] = "read_seg"
    /\ segInfo[r] # NoSeg
    /\ CacheGoto(r, "loop")
    /\ UNCHANGED <<pc, gateVars, poolVars, sockVars, ipcVars, countVars, clientVars>>

CacheSkipWriter(r) ==           \* faulty variant: fills without waiting
    /\ cpc[r] = "loop"
    /\ bytesRead[r] < FileLen(r)
    /\ CacheGoto(r, "fill")
    /\ UNCHANGED <<pc, gateVars, poolVars, sockVars, ipcVars, countVars, clientVars>>

CacheWaitWriter(r) ==
    /\ cpc[r] = "loop"
    /\ bytesRead[r] < FileLen(r)
    /\ semWriter[segInfo[r]] > 0
    /\ semWriter' = [semWriter EXCEPT ![segInfo[r]] = @ - 1]
    /\ CacheGoto(r, "fill")
    /\ UNCHANGED <<pc, gateVars, poolVars, sockVars, semReader, shm, countVars, clientVars>>

(***************************************************************************)
(* read at most Chunk bytes at the descriptor's offset into the segment,   *)
(* store their number there, bytes_read += read_len (a local variable).    *)
(***************************************************************************)
CacheFill(r) ==
    LET k == Want[r]
        n == IF Size[k] - offset[k] < Chunk THEN Size[k] - offset[k] ELSE Chunk
    IN  /\ cpc[r] = "fill"
        /\ shm' = [shm EXCEPT ![segInfo[r]] = SubSeq(File(k), offset[k] + 1, offset[k] + n)]
        /\ offset' = [offset EXCEPT ![k] = @ + n]
        /\ bytesRead' = [bytesRead EXCEPT ![r] = @ + n]
        /\ CacheGoto(r, "post")
        /\ UNCHANGED <<pc, gateVars, poolVars, sockVars, semReader, semWriter, bytesSend, clientVars>>

CachePostReader(r) ==
    /\ cpc[r] = "post"
    /\ semReader' = [semReader EXCEPT ![segInfo[r]] = @ + 1]
    /\ CacheGoto(r, "loop")
    /\ UNCHANGED <<pc, gateVars, poolVars, sockVars, semWriter, shm, countVars, clientVars>>

CacheReleaseSilent(r) ==        \* faulty variant: no signal to those who wait
    /\ cpc[r] = "loop"
    /\ bytesRead[r] >= FileLen(r)
    /\ currentWorkers' = currentWorkers - 1
    /\ CacheGoto(r, "closed")
    /\ UNCHANGED <<pc, workThreads, poolVars, sockVars, ipcVars, countVars, clientVars>>

(* The loop is over: close the connection and leave the gate. *)
CacheRelease(r) ==
    /\ cpc[r] = "loop"
    /\ bytesRead[r] >= FileLen(r)
    /\ currentWorkers' = currentWorkers - 1
    /\ cpc' \in GotoSignalling(cpc, r, "closed", "gate_wait", "gate")
    /\ UNCHANGED <<pc, workThreads, poolVars, sockVars, ipcVars, countVars, clientVars>>

-------------------------------------------------------------------------------
(* The environment. *)

(* The client of r closes its connection: later sends to it fail. *)
ClientGone(r) ==
    /\ r \in Aborts \ gone
    /\ pc[r] \notin {"idle", "done"}
    /\ gone' = gone \cup {r}
    /\ UNCHANGED <<pc, cpc, gateVars, poolVars, sockVars, ipcVars, countVars, header, body>>

(* pthread_cond_wait may return without a signal. *)
SpuriousWakeup(r) ==
    \/ /\ pc[r] = "gate_wait"
       /\ Goto(r, "gate")
       /\ UNCHANGED <<cpc, gateVars, poolVars, sockVars, ipcVars, countVars, clientVars>>
    \/ /\ pc[r] = "seg_wait"
       /\ Goto(r, "seg_gate")
       /\ UNCHANGED <<cpc, gateVars, poolVars, sockVars, ipcVars, countVars, clientVars>>
    \/ /\ cpc[r] = "gate_wait"
       /\ CacheGoto(r, "gate")
       /\ UNCHANGED <<pc, gateVars, poolVars, sockVars, ipcVars, countVars, clientVars>>

(* No request is in progress; both processes wait for the next one. *)
Quiescent ==
    /\ \A r \in Reqs : pc[r] \in {"idle", "done"} /\ cpc[r] \in {"none", "closed"}
    /\ UNCHANGED vars

ProxyStep(r) ==
    \/ PassGate(r) \/ WaitGate(r) \/ Connect(r) \/ SendPath(r) \/ Receive(r)
    \/ MissRelease(r) \/ MissHeader(r) \/ TakeSegment(r) \/ WaitSegment(r)
    \/ SendHeader(r) \/ SendSegInfo(r) \/ WaitReader(r) \/ Send(r)
    \/ PostWriter(r) \/ ReleaseSegment(r) \/ ReleaseWorker(r)

CacheStep(r) ==
    \/ CacheSpawn(r) \/ CachePassGate(r) \/ CacheWaitGate(r) \/ CacheMiss(r)
    \/ CacheMissRelease(r) \/ CacheSeekEnd(r) \/ CacheRewind(r) \/ CacheReply(r)
    \/ CacheReadSeg(r) \/ CacheWaitWriter(r) \/ CacheFill(r)
    \/ CachePostReader(r) \/ CacheRelease(r)

Next ==
    \/ \E r \in Reqs : \/ Request(r) \/ ProxyStep(r) \/ CacheStep(r)
                       \/ ClientGone(r) \/ SpuriousWakeup(r)
    \/ CacheAccept
    \/ Quiescent

(***************************************************************************)
(* Each thread of either process runs when it can: it is scheduled, a      *)
(* mutex is held for a few instructions only, and a semaphore is waited    *)
(* for by one thread at a time.  Requests, aborts and spurious wakeups are *)
(* not promised.                                                           *)
(***************************************************************************)
Fairness ==
    /\ \A r \in Reqs : WF_vars(ProxyStep(r)) /\ WF_vars(CacheStep(r))
    /\ WF_vars(CacheAccept)

Spec == Init /\ [][Next]_vars
FairSpec == Spec /\ Fairness

-------------------------------------------------------------------------------
(* Properties. *)

HoldsSegment == {"header", "send_seg", "loop", "send", "post"}
Holds(r) == pc[r] \in HoldsSegment
Bytes(k) == {k} \X Nat

TypeOK ==
    /\ pc \in [Reqs -> ProxyPCs] /\ cpc \in [Reqs -> CachePCs]
    /\ workThreads \in Int /\ currentWorkers \in Int
    /\ segFree \in 0 .. NSeg /\ segStatus \in [Segs -> {0, 1}]
    /\ seg \in [Reqs -> Segs \cup {NoSeg}]
    /\ backlog \in Seq(Reqs)
    /\ reply \in [Reqs -> {"none", "OK", "FILE_NOT_FOUND"}]
    /\ segInfo \in [Reqs -> Segs \cup {NoSeg}]
    /\ semReader \in [Segs -> 0 .. 1] /\ semWriter \in [Segs -> 0 .. 1]
    /\ shm \in [Segs -> Seq(Cached \X Nat)]
    /\ offset \in [Cached -> Nat] /\ \A k \in Cached : offset[k] <= Size[k]
    /\ bytesRead \in [Reqs -> Nat] /\ bytesSend \in [Reqs -> Int]
    /\ header \in [Reqs -> {"none", "OK", "FILE_NOT_FOUND"}]
    /\ body \in [Reqs -> Seq(Cached \X Nat)]
    /\ gone \subseteq Aborts

(***************************************************************************)
(* ptr_status is consistent: the count in slot 0 is the number of flags at *)
(* 1, a segment's flag is 0 exactly while one thread uses it, and no two   *)
(* threads use the same one.  Hence the scan that follows a successful     *)
(* test of the count never runs off the end of the array.                  *)
(***************************************************************************)
SegmentsAccounted ==
    /\ segFree = Cardinality({s \in Segs : segStatus[s] = 1})
    /\ \A r \in Reqs : seg[r] # NoSeg <=> Holds(r)
    /\ \A s \in Segs : segStatus[s] = 0 <=> \E r \in Reqs : seg[r] = s
    /\ \A r, q \in Reqs : r # q /\ Holds(r) => seg[r] # seg[q]

(***************************************************************************)
(* The two semaphores of a segment alternate its writer and its reader: a  *)
(* cache thread between its sem_wait and its sem_post (lines 137-147) and  *)
(* a proxy thread between its own (lines 144-148) are never on the same    *)
(* segment, nor are two of either kind; and the cache only writes to a     *)
(* segment that its own request holds at that moment.                      *)
(***************************************************************************)
Writing(r) == cpc[r] \in {"fill", "post"}
Reading(r) == pc[r] \in {"send", "post"}
SharedBufferExclusive ==
    /\ \A r \in Reqs : Writing(r) => Holds(r) /\ segInfo[r] = seg[r]
    /\ \A r, q \in Reqs : Writing(r) /\ Reading(q) => segInfo[r] # seg[q]
    /\ \A r, q \in Reqs : r # q /\ Writing(r) /\ Writing(q) => segInfo[r] # segInfo[q]
    /\ \A r, q \in Reqs : r # q /\ Reading(r) /\ Reading(q) => seg[r] # seg[q]

(***************************************************************************)
(* A segment goes back to the pool as the next user expects it: nothing to *)
(* read, room to write.  The semaphores are never reset between two uses,  *)
(* so this rests on both loops stopping after the same number of pieces.   *)
(***************************************************************************)
FreeSegmentIsReset ==
    \A s \in Segs : segStatus[s] = 1 => semReader[s] = 0 /\ semWriter[s] = 1

(* A client receives bytes of the file it asked for, and of no other file, *)
(* although all requests go through the same few segments.                 *)
OwnFileOnly == \A r \in Reqs : body[r] \in Seq(Bytes(Want[r]))

(* They are the file's first bytes, in order, without gap or repetition. *)
BodyInOrder ==
    \A r \in Reqs : Want[r] \in Cached =>
        \E n \in 0 .. FileLen(r) : body[r] = SubSeq(File(Want[r]), 1, n)

(***************************************************************************)
(* Why the above holds: what is true of one request at any moment.         *)
(***************************************************************************)

(* Data of r's file is in r's segment, posted or about to be, not yet sent. *)
Pending(r) ==
    Holds(r) /\ (cpc[r] = "post" \/ semReader[seg[r]] = 1 \/ pc[r] = "send")

(* A segment in use has one token: in a semaphore or with one of its users. *)
Token(b) == IF b THEN 1 ELSE 0
OneToken(r) ==
    Holds(r) => semWriter[seg[r]] + semReader[seg[r]]
                    + Token(Writing(r)) + Token(Reading(r)) = 1

(* How far the two threads of r know of each other. *)
Handshake(r) ==
    /\ pc[r] \in {"idle", "gate", "gate_wait", "connect"} <=> cpc[r] = "none"
    /\ reply[r] = "OK" => Want[r] \in Cached
    /\ cpc[r] \in {"miss_release", "read_seg", "loop", "fill", "post", "closed"} <=>
          reply[r] # "none"
    /\ cpc[r] \in {"read_seg", "loop", "fill", "post"} => reply[r] = "OK"
    /\ cpc[r] = "miss_release" => reply[r] = "FILE_NOT_FOUND"
    /\ cpc[r] \in {"rewind", "reply"} => Want[r] \in Cached
    /\ pc[r] \in {"miss_release", "miss_header"} => reply[r] = "FILE_NOT_FOUND"
    /\ pc[r] \in HoldsSegment \cup {"seg_gate", "seg_wait", "release"} => reply[r] = "OK"
    /\ pc[r] = "done" => reply[r] # "none"
    /\ segInfo[r] # NoSeg <=> \/ pc[r] \in {"loop", "send", "post", "release"}
                              \/ pc[r] = "done" /\ reply[r] = "OK"
    /\ pc[r] \in {"loop", "send", "post"} => segInfo[r] = seg[r]
    /\ cpc[r] \in {"loop", "fill", "post"} => segInfo[r] # NoSeg
    /\ Writing(r) => Holds(r)

(***************************************************************************)
(* How their byte counts are related: the reader is never ahead of the     *)
(* writer, both still want more while data is pending, and the reader only *)
(* leaves when the writer has written everything.  While its client stays, *)
(* the reader is behind by what is pending and by nothing else.            *)
(***************************************************************************)
Counts(r) ==
    /\ bytesSend[r] <= bytesRead[r]
    /\ Pending(r) => /\ bytesSend[r] + Len(shm[seg[r]]) <= bytesRead[r]
                     /\ bytesSend[r] < FileLen(r)
                     /\ shm[seg[r]] \in Seq(Bytes(Want[r]))
    /\ r \notin gone =>
          /\ Pending(r) => bytesSend[r] + Len(shm[seg[r]]) = bytesRead[r]
          /\ ~Pending(r) => bytesSend[r] = bytesRead[r]
    /\ cpc[r] = "fill" => bytesRead[r] < FileLen(r)
    /\ reply[r] = "OK" /\ (pc[r] \in {"release", "done"} \/ cpc[r] = "closed") =>
          bytesRead[r] >= FileLen(r)

(* The listen queue holds the connections not accepted yet, each once. *)
BacklogQueued ==
    /\ \A i \in 1 .. Len(backlog) : cpc[backlog[i]] = "queued"
    /\ \A r \in Reqs : cpc[r] = "queued" => \E i \in 1 .. Len(backlog) : backlog[i] = r
    /\ \A i, j \in 1 .. Len(backlog) : i # j => backlog[i] # backlog[j]

(* Both loops of a session stay in step, for every request at every moment. *)
LoopsInStep == BacklogQueued /\ \A r \in Reqs : OneToken(r) /\ Handshake(r) /\ Counts(r)

(***************************************************************************)
(* The two thread gates, and the pool seen as a gate for NSeg threads, are *)
(* the gate of WorkerGate: the count in use, a sleeper woken by every      *)
(* departure, on every path through the handlers.                          *)
(***************************************************************************)
ProxyPhase(l) ==
    CASE l = "idle" -> "out"
      [] l = "gate" -> "entering"
      [] l = "gate_wait" -> "waiting"
      [] l \in {"miss_header", "done"} -> "left"
      [] OTHER -> "working"
ProxyGate == INSTANCE WorkerGate WITH
    Threads <- Reqs, Limit <- NThread,
    count <- workThreads, gate <- [r \in Reqs |-> ProxyPhase(pc[r])]
ProxyGateSpec == ProxyGate!Spec

CachePhase(l) ==
    CASE l \in {"none", "queued", "accepted"} -> "out"
      [] l = "gate" -> "entering"
      [] l = "gate_wait" -> "waiting"
      [] l = "closed" -> "left"
      [] OTHER -> "working"
CacheGate == INSTANCE WorkerGate WITH
    Threads <- Reqs, Limit <- MaxThreads,
    count <- currentWorkers, gate <- [r \in Reqs |-> CachePhase(cpc[r])]
CacheGateSpec == CacheGate!Spec

SegmentPhase(r) ==
    CASE pc[r] = "seg_gate" -> "entering"
      [] pc[r] = "seg_wait" -> "waiting"
      [] Holds(r) -> "working"
      [] pc[r] \in {"release", "done"} /\ reply[r] = "OK" -> "left"
      [] OTHER -> "out"
SegmentGate == INSTANCE WorkerGate WITH
    Threads <- Reqs, Limit <- NSeg,
    count <- NSeg - segFree, gate <- [r \in Reqs |-> SegmentPhase(r)]
SegmentGateSpec == SegmentGate!Spec

(***************************************************************************)
(* The proxy with its cache is a file service, as long as no two requests  *)
(* of the moment are for the same file (see BodyInOrder otherwise).        *)
(***************************************************************************)
Service == INSTANCE FileService WITH
    asked <- {r \in Reqs : pc[r] # "idle"},
    over <- {r \in Reqs : \/ pc[r] = "done"
                          \/ pc[r] = "release"}
ImplementsFileService == Service!Spec

(***************************************************************************)
(* Every request is answered in full, whatever the sizes of the two gates  *)
(* and of the pool: a thread that holds a place or a segment never waits   *)
(* for one that waits for it.                                              *)
(***************************************************************************)
Answered(r) == IF Want[r] \in Cached THEN body[r] = File(Want[r])
                                     ELSE header[r] = "FILE_NOT_FOUND"
EveryRequestCompletes ==
    \A r \in Reqs : pc[r] = "gate" ~> pc[r] = "done" /\ Answered(r)

(***************************************************************************)
(* No deadlock over the two gates, the listen queue, the pool, the socket  *)
(* and the semaphores: while every client stays, either no request is in   *)
(* progress or some thread of the two processes can take its next step,    *)
(* without a new request and without a spurious wakeup.  ProxyReady,       *)
(* CacheReady and AcceptReady are the guards of ProxyStep, CacheStep and   *)
(* CacheAccept.                                                            *)
(***************************************************************************)
ProxyReady(r) ==
    \/ pc[r] \in ProxyPCs \ {"idle", "gate_wait", "connect", "receive", "seg_wait",
                             "loop", "done"}
    \/ pc[r] = "connect" /\ Len(backlog) < Backlog
    \/ pc[r] = "receive" /\ reply[r] # "none"
    \/ pc[r] = "loop" /\ (bytesSend[r] >= FileLen(r) \/ semReader[seg[r]] > 0)
CacheReady(r) ==
    \/ cpc[r] \in CachePCs \ {"none", "queued", "accepted", "gate_wait", "read_seg",
                              "loop", "closed"}
    \/ cpc[r] = "accepted" /\ pc[r] # "send_path"
    \/ cpc[r] = "read_seg" /\ segInfo[r] # NoSeg
    \/ cpc[r] = "loop" /\ (bytesRead[r] >= FileLen(r) \/ semWriter[segInfo[r]] > 0)
AcceptReady == backlog # << >> /\ \A r \in Reqs : cpc[r] # "accepted"
AllServed == \A r \in Reqs : pc[r] \in {"idle", "done"} /\ cpc[r] \in {"none", "closed"}
NobodyStuck ==
    gone = {} => \/ AllServed
                 \/ AcceptReady
                 \/ \E r \in Reqs : ProxyReady(r) \/ CacheReady(r)

(* A segment taken from the pool is given back "for others to use". *)
SegmentReturned == \A r \in Reqs : Holds(r) ~> ~Holds(r)
===============================================================================
