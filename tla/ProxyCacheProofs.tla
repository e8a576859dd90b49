--------------------------- MODULE ProxyCacheProofs ---------------------------
(***************************************************************************)
(* Machine-checked proofs about ProxyCache for every number of requests,   *)
(* segments and threads, every assignment of files to requests (several    *)
(* requests for one file included) and every set of clients that go away.  *)
(***************************************************************************)
EXTENDS ProxyCache, FiniteSetTheorems, SequenceTheorems, TLAPS

(***************************************************************************)
(* The inductive invariant: the pool is consistent, free segments are      *)
(* reset, each used segment has one token, and the two threads of a        *)
(* session agree on who is where and how much was moved.                   *)
(***************************************************************************)
Session(r) == OneToken(r) /\ Handshake(r) /\ Counts(r)

IInv ==
    /\ TypeOK
    /\ SegmentsAccounted
    /\ FreeSegmentIsReset
    /\ OwnFileOnly
    /\ BacklogQueued
    /\ \A r \in Reqs : Session(r)

(* What a step may do to a request it is not about: wake it, at most. *)
Bystander(q) ==
    /\ \/ pc'[q] = pc[q]
       \/ pc[q] = "gate_wait" /\ pc'[q] = "gate"
       \/ pc[q] = "seg_wait" /\ pc'[q] = "seg_gate"
    /\ cpc'[q] = cpc[q] \/ (cpc[q] = "gate_wait" /\ cpc'[q] = "gate")
    /\ seg'[q] = seg[q] /\ segInfo'[q] = segInfo[q] /\ reply'[q] = reply[q]
    /\ bytesRead'[q] = bytesRead[q] /\ bytesSend'[q] = bytesSend[q]
    /\ gone' = gone
    /\ Holds(q) => /\ semReader'[seg[q]] = semReader[seg[q]]
                   /\ semWriter'[seg[q]] = semWriter[seg[q]]
                   /\ shm'[seg[q]] = shm[seg[q]]

(* A session is not disturbed by steps that are not about it. *)
LEMMA BystanderSession ==
    ASSUME NEW q \in Reqs, Session(q), Bystander(q)
    PROVE  Session(q)'
<1>1. Holds(q)' <=> Holds(q)
  BY DEF Bystander, Holds, HoldsSegment
<1>2. (Writing(q)' <=> Writing(q)) /\ (Reading(q)' <=> Reading(q))
  BY DEF Bystander, Writing, Reading
<1>3. Pending(q)' <=> Pending(q)
  BY <1>1 DEF Bystander, Pending
<1>4. OneToken(q)'
  BY <1>1, <1>2 DEF Bystander, Session, OneToken, Token
<1>5. Handshake(q)'
  BY <1>1, <1>2 DEF Bystander, Session, Handshake, HoldsSegment
<1>6. Counts(q)'
  BY <1>1, <1>3 DEF Bystander, Session, Counts, Pending, FileLen
<1> QED
  BY <1>4, <1>5, <1>6 DEF Session

(* The pool's accounts only depend on the pool and on who holds a segment. *)
LEMMA PoolFrame ==
    ASSUME SegmentsAccounted, UNCHANGED poolVars,
           \A q \in Reqs : Holds(q)' <=> Holds(q)
    PROVE  SegmentsAccounted'
BY DEF SegmentsAccounted, poolVars

(***************************************************************************)
(* Steps that only move a thread between two places of its code that the   *)
(* invariant does not tell apart: gates, local work, waking up.            *)
(***************************************************************************)
ProxyNeutral(q) ==
    \/ pc'[q] = pc[q]
    \/ pc[q] = "idle" /\ pc'[q] = "gate"
    \/ pc[q] = "gate" /\ pc'[q] \in {"connect", "gate_wait"}
    \/ pc[q] = "gate_wait" /\ pc'[q] = "gate"
    \/ pc[q] = "send_path" /\ pc'[q] = "receive"
    \/ pc[q] = "receive" /\ reply[q] = "FILE_NOT_FOUND" /\ pc'[q] = "miss_release"
    \/ pc[q] = "receive" /\ reply[q] = "OK" /\ pc'[q] = "seg_gate"
    \/ pc[q] = "miss_release" /\ pc'[q] = "miss_header"
    \/ pc[q] = "miss_header" /\ pc'[q] = "done"
    \/ pc[q] = "seg_gate" /\ pc'[q] = "seg_wait"
    \/ pc[q] = "seg_wait" /\ pc'[q] = "seg_gate"
    \/ pc[q] = "header" /\ pc'[q] = "send_seg"
    \/ pc[q] = "release" /\ pc'[q] = "done"

CacheNeutral(q) ==
    \/ cpc'[q] = cpc[q]
    \/ cpc[q] = "accepted" /\ cpc'[q] = "gate"
    \/ cpc[q] = "gate" /\ cpc'[q] \in {"lookup", "gate_wait"}
    \/ cpc[q] = "gate_wait" /\ cpc'[q] = "gate"
    \/ cpc[q] = "miss_release" /\ cpc'[q] = "closed"
    \/ cpc[q] = "lookup" /\ Want[q] \in Cached /\ cpc'[q] = "rewind"
    \/ cpc[q] = "rewind" /\ cpc'[q] = "reply"
    \/ cpc[q] = "read_seg" /\ segInfo[q] # NoSeg /\ cpc'[q] = "loop"
    \/ cpc[q] = "loop" /\ bytesRead[q] >= FileLen(q) /\ cpc'[q] = "closed"

Neutral ==
    /\ UNCHANGED <<poolVars, sockVars, ipcVars, bytesRead, bytesSend, body>>
    /\ gone \subseteq gone'
    /\ \A q \in Reqs : ProxyNeutral(q) /\ CacheNeutral(q)

LEMMA NeutralSession ==
    ASSUME NEW q \in Reqs, Session(q), Neutral
    PROVE  /\ Session(q)'
           /\ Holds(q)' <=> Holds(q)
<1>0. ProxyNeutral(q) /\ CacheNeutral(q)
  BY DEF Neutral
<1>1. Holds(q)' <=> Holds(q)
  BY <1>0 DEF ProxyNeutral, Holds, HoldsSegment
<1>2. (Writing(q)' <=> Writing(q)) /\ (Reading(q)' <=> Reading(q))
  BY <1>0 DEF ProxyNeutral, CacheNeutral, Writing, Reading
<1>3. Pending(q)' <=> Pending(q)
  BY <1>0, <1>1 DEF ProxyNeutral, CacheNeutral, Neutral, Pending, ipcVars, poolVars
<1>4. OneToken(q)'
  BY <1>1, <1>2 DEF Neutral, Session, OneToken, Token, ipcVars, poolVars
<1>5. Handshake(q)'
  BY <1>0, <1>1, <1>2
     DEF Session, Handshake, HoldsSegment, ProxyNeutral, CacheNeutral, Neutral,
         poolVars, sockVars
<1>6. Counts(q)'
  BY <1>0, <1>1, <1>3
     DEF Session, Counts, FileLen, ProxyNeutral, CacheNeutral, Neutral,
         poolVars, sockVars, ipcVars, Handshake
<1> QED
  BY <1>1, <1>4, <1>5, <1>6 DEF Session

(* The listen queue holds requests. *)
LEMMA BacklogReqs ==
    ASSUME TypeOK, NEW i \in 1 .. Len(backlog)
    PROVE  backlog[i] \in Reqs
BY ElementOfSeq DEF TypeOK

(* A step that is neutral for every thread preserves the invariant. *)
LEMMA NeutralStep ==
    ASSUME IInv, Neutral, TypeOK'
    PROVE  IInv'
<1>1. SegmentsAccounted'
  BY NeutralSession, PoolFrame DEF IInv, Neutral
<1>2. FreeSegmentIsReset' /\ OwnFileOnly'
  BY DEF IInv, Neutral, FreeSegmentIsReset, OwnFileOnly, ipcVars, poolVars
<1>3. BacklogQueued'
  <2>1. ASSUME NEW i \in 1 .. Len(backlog) PROVE cpc'[backlog[i]] = "queued"
    <3>1. backlog[i] \in Reqs /\ cpc[backlog[i]] = "queued"
      BY BacklogReqs DEF IInv, BacklogQueued
    <3> QED
      BY <3>1 DEF Neutral, CacheNeutral
  <2>2. backlog' = backlog
    BY DEF Neutral, sockVars
  <2>3. \A q \in Reqs : cpc'[q] = "queued" => cpc[q] = "queued"
    BY DEF Neutral, CacheNeutral
  <2> QED
    BY <2>1, <2>2, <2>3 DEF IInv, BacklogQueued
<1>4. \A q \in Reqs : Session(q)'
  BY NeutralSession DEF IInv
<1> QED
  BY <1>1, <1>2, <1>3, <1>4 DEF IInv

(***************************************************************************)
(* What pthread_cond_signal does to the program counters c of one process: *)
(* the caller goes to its label and at most one sleeper wakes up.          *)
(***************************************************************************)
Signalled(c, g, r, label, asleep, awake) ==
    /\ g[r] = label
    /\ \A q \in Reqs : q = r \/ g[q] = c[q] \/ (c[q] = asleep /\ g[q] = awake)

LEMMA SignalEffect ==
    ASSUME NEW S, NEW c \in [Reqs -> S], NEW r \in Reqs, NEW label \in S,
           NEW asleep \in S, NEW awake \in S,
           NEW g \in GotoSignalling(c, r, label, asleep, awake)
    PROVE  /\ g \in [Reqs -> S]
           /\ Signalled(c, g, r, label, asleep, awake)
<1> DEFINE sleepers == {q \in Reqs \ {r} : c[q] = asleep}
<1>1. CASE sleepers = {}
  BY <1>1 DEF GotoSignalling, Signalled
<1>2. CASE sleepers # {}
  <2>1. PICK q \in sleepers : g = [c EXCEPT ![r] = label, ![q] = awake]
    BY <1>2 DEF GotoSignalling
  <2> QED
    BY <2>1 DEF Signalled
<1> QED
  BY <1>1, <1>2

(* The types that a neutral step may put at risk. *)
LEMMA TypeFrame ==
    ASSUME TypeOK,
           UNCHANGED <<poolVars, sockVars, ipcVars, bytesRead, bytesSend, body>>,
           pc' \in [Reqs -> ProxyPCs], cpc' \in [Reqs -> CachePCs],
           workThreads' \in Int, currentWorkers' \in Int,
           offset' \in [Cached -> Nat] /\ (\A k \in Cached : offset'[k] <= Size[k]),
           header' \in [Reqs -> {"none", "OK", "FILE_NOT_FOUND"}],
           gone' \subseteq Aborts
    PROVE  TypeOK'
BY DEF TypeOK, poolVars, sockVars, ipcVars

(* The types of the variables that most steps read, without the sequences. *)
LEMMA Types ==
    ASSUME TypeOK
    PROVE  /\ pc \in [Reqs -> ProxyPCs] /\ cpc \in [Reqs -> CachePCs]
           /\ workThreads \in Int /\ currentWorkers \in Int
           /\ segFree \in 0 .. NSeg /\ segStatus \in [Segs -> {0, 1}]
           /\ seg \in [Reqs -> Segs \cup {NoSeg}]
           /\ reply \in [Reqs -> {"none", "OK", "FILE_NOT_FOUND"}]
           /\ segInfo \in [Reqs -> Segs \cup {NoSeg}]
           /\ semReader \in [Segs -> 0 .. 1] /\ semWriter \in [Segs -> 0 .. 1]
           /\ offset \in [Cached -> Nat] /\ (\A k \in Cached : offset[k] <= Size[k])
           /\ bytesRead \in [Reqs -> Nat] /\ bytesSend \in [Reqs -> Int]
           /\ header \in [Reqs -> {"none", "OK", "FILE_NOT_FOUND"}]
           /\ gone \subseteq Aborts
BY DEF TypeOK

(***************************************************************************)
(* The proxy's neutral steps: the gate, the path, the reply, the answer    *)
(* FILE_NOT_FOUND, the wait for a segment, the header, the way out.        *)
(***************************************************************************)
ProxyQuiet(r) ==
    \/ Request(r) \/ PassGate(r) \/ WaitGate(r) \/ SendPath(r) \/ Receive(r)
    \/ MissRelease(r) \/ MissHeader(r) \/ WaitSegment(r) \/ SendHeader(r)
    \/ ReleaseWorker(r)

LEMMA ProxyQuietStep ==
    ASSUME IInv, NEW r \in Reqs, ProxyQuiet(r)
    PROVE  IInv'
<1>t. TypeOK
  BY DEF IInv
<1>1. SUFFICES /\ Neutral
               /\ pc' \in [Reqs -> ProxyPCs] /\ cpc' = cpc
               /\ workThreads' \in Int /\ currentWorkers' = currentWorkers
               /\ offset' = offset /\ gone' = gone
               /\ header' \in [Reqs -> {"none", "OK", "FILE_NOT_FOUND"}]
  BY <1>t, NeutralStep, TypeFrame, Types DEF Neutral
<1>p. pc \in [Reqs -> ProxyPCs]
  BY <1>t, Types
<1>l. /\ "gate" \in ProxyPCs /\ "gate_wait" \in ProxyPCs
      /\ "miss_header" \in ProxyPCs /\ "done" \in ProxyPCs
  BY DEF ProxyPCs
<1>s1. ASSUME MissRelease(r)
       PROVE  /\ pc' \in [Reqs -> ProxyPCs]
              /\ Signalled(pc, pc', r, "miss_header", "gate_wait", "gate")
  BY <1>p, <1>l, <1>s1, SignalEffect DEF MissRelease
<1>s2. ASSUME ReleaseWorker(r)
       PROVE  /\ pc' \in [Reqs -> ProxyPCs]
              /\ Signalled(pc, pc', r, "done", "gate_wait", "gate")
  BY <1>p, <1>l, <1>s2, SignalEffect DEF ReleaseWorker
<1> USE Types, <1>t DEF Neutral, ProxyNeutral, CacheNeutral, gateVars, poolVars,
        sockVars, ipcVars, countVars, clientVars, Goto, ProxyPCs
<1>2. CASE Request(r)
  BY <1>2 DEF Request
<1>3. CASE PassGate(r)
  BY <1>3 DEF PassGate
<1>4. CASE WaitGate(r)
  BY <1>4 DEF WaitGate
<1>5. CASE SendPath(r)
  BY <1>5 DEF SendPath
<1>6. CASE Receive(r)
  BY <1>6 DEF Receive
<1>8. CASE MissHeader(r)
  BY <1>8 DEF MissHeader
<1>9. CASE WaitSegment(r)
  BY <1>9 DEF WaitSegment
<1>10. CASE SendHeader(r)
  BY <1>10 DEF SendHeader
<1>7. CASE MissRelease(r)
  BY <1>7, <1>s1 DEF MissRelease, Signalled
<1>11. CASE ReleaseWorker(r)
  BY <1>11, <1>s2 DEF ReleaseWorker, Signalled
<1> QED
  BY <1>2, <1>3, <1>4, <1>5, <1>6, <1>7, <1>8, <1>9, <1>10, <1>11 DEF ProxyQuiet

(***************************************************************************)
(* The cache's neutral steps (its gate, the miss, the two lseeks, opening  *)
(* the segment, the way out) and those of the environment.                 *)
(***************************************************************************)
CacheQuiet(r) ==
    \/ CacheSpawn(r) \/ CachePassGate(r) \/ CacheWaitGate(r) \/ CacheMissRelease(r)
    \/ CacheSeekEnd(r) \/ CacheRewind(r) \/ CacheReadSeg(r) \/ CacheRelease(r)
    \/ ClientGone(r) \/ SpuriousWakeup(r)

LEMMA CacheQuietStep ==
    ASSUME IInv, NEW r \in Reqs, CacheQuiet(r)
    PROVE  IInv'
<1>t. TypeOK
  BY DEF IInv
<1>h. cpc[r] = "rewind" => Want[r] \in Cached
  BY DEF IInv, Session, Handshake
<1>1. SUFFICES /\ Neutral
               /\ pc' \in [Reqs -> ProxyPCs] /\ cpc' \in [Reqs -> CachePCs]
               /\ workThreads' = workThreads /\ currentWorkers' \in Int
               /\ offset' \in [Cached -> Nat]
               /\ \A k \in Cached : offset'[k] <= Size[k]
               /\ header' = header /\ gone' \subseteq Aborts
  BY <1>t, NeutralStep, TypeFrame, Types DEF Neutral
<1>p. cpc \in [Reqs -> CachePCs]
  BY <1>t, Types
<1>l. "gate" \in CachePCs /\ "gate_wait" \in CachePCs /\ "closed" \in CachePCs
  BY DEF CachePCs
<1>s. ASSUME CacheMissRelease(r) \/ CacheRelease(r)
      PROVE  /\ cpc' \in [Reqs -> CachePCs]
             /\ Signalled(cpc, cpc', r, "closed", "gate_wait", "gate")
  <2>1. cpc' \in GotoSignalling(cpc, r, "closed", "gate_wait", "gate")
    BY <1>s DEF CacheMissRelease, CacheRelease
  <2> QED
    BY <1>p, <1>l, <2>1, SignalEffect
<1>o. ASSUME CacheSeekEnd(r) \/ CacheRewind(r)
      PROVE  offset' \in [Cached -> Nat] /\ \A k \in Cached : offset'[k] <= Size[k]
  <2>1. Want[r] \in Cached /\ Size \in [Cached -> Nat]
    BY <1>o, <1>h, CacheAssumption DEF CacheSeekEnd, CacheRewind
  <2>2. PICK n \in 0 .. Size[Want[r]] : offset' = [offset EXCEPT ![Want[r]] = n]
    BY <1>o, <2>1 DEF CacheSeekEnd, CacheRewind, FileLen
  <2>3. offset \in [Cached -> Nat] /\ \A k \in Cached : offset[k] <= Size[k]
    BY <1>t, Types
  <2> QED
    BY <2>1, <2>2, <2>3
<1> USE Types, <1>t DEF Neutral, ProxyNeutral, CacheNeutral, gateVars, poolVars,
        sockVars, ipcVars, countVars, clientVars, CacheGoto, CachePCs
<1>2. CASE CacheSpawn(r)
  BY <1>2 DEF CacheSpawn
<1>3. CASE CachePassGate(r)
  BY <1>3 DEF CachePassGate
<1>4. CASE CacheWaitGate(r)
  BY <1>4 DEF CacheWaitGate
<1>5. CASE CacheMissRelease(r)
  BY <1>5, <1>s DEF CacheMissRelease, Signalled
<1>6. CASE CacheSeekEnd(r)
  BY <1>6, <1>o DEF CacheSeekEnd
<1>7. CASE CacheRewind(r)
  BY <1>7, <1>o DEF CacheRewind
<1>8. CASE CacheReadSeg(r)
  BY <1>8 DEF CacheReadSeg
<1>9. CASE CacheRelease(r)
  BY <1>9, <1>s DEF CacheRelease, Signalled
<1>10. CASE ClientGone(r)
  BY <1>10 DEF ClientGone
<1>11. CASE SpuriousWakeup(r)
  BY <1>11 DEF SpuriousWakeup, Goto, ProxyPCs
<1> QED
  BY <1>2, <1>3, <1>4, <1>5, <1>6, <1>7, <1>8, <1>9, <1>10, <1>11 DEF CacheQuiet

(***************************************************************************)
(* The steps on the socket that tell one thread of a session where the     *)
(* other is.  None of them touches a segment or a count.                   *)
(***************************************************************************)
LEMMA SocketFrame ==
    ASSUME IInv, UNCHANGED <<poolVars, ipcVars, countVars, clientVars, gateVars>>,
           \A q \in Reqs : Holds(q)' <=> Holds(q),
           pc' \in [Reqs -> ProxyPCs], cpc' \in [Reqs -> CachePCs],
           backlog' \in Seq(Reqs),
           reply' \in [Reqs -> {"none", "OK", "FILE_NOT_FOUND"}],
           segInfo' \in [Reqs -> Segs \cup {NoSeg}],
           BacklogQueued',
           \A q \in Reqs : Session(q)'
    PROVE  IInv'
<1>1. TypeOK'
  BY DEF IInv, TypeOK, poolVars, ipcVars, countVars, clientVars, gateVars
<1>2. SegmentsAccounted'
  BY PoolFrame DEF IInv
<1>3. FreeSegmentIsReset' /\ OwnFileOnly'
  BY DEF IInv, FreeSegmentIsReset, OwnFileOnly, poolVars, ipcVars, clientVars
<1> QED
  BY <1>1, <1>2, <1>3 DEF IInv

(* The queue keeps its order and its members while they stay "queued". *)
LEMMA BacklogFrame ==
    ASSUME TypeOK, BacklogQueued, backlog' = backlog,
           \A q \in Reqs : cpc[q] = "queued" <=> cpc'[q] = "queued"
    PROVE  BacklogQueued'
<1>1. ASSUME NEW i \in 1 .. Len(backlog) PROVE cpc'[backlog[i]] = "queued"
  BY BacklogReqs DEF BacklogQueued
<1> QED
  BY <1>1 DEF BacklogQueued

LEMMA ConnectStep ==
    ASSUME IInv, NEW r \in Reqs, Connect(r)
    PROVE  IInv'
<1>t. TypeOK /\ Session(r) /\ BacklogQueued
  BY DEF IInv
<1>1. /\ pc[r] = "connect" /\ pc' = [pc EXCEPT ![r] = "send_path"]
      /\ cpc' = [cpc EXCEPT ![r] = "queued"]
      /\ backlog' = Append(backlog, r)
      /\ UNCHANGED <<gateVars, poolVars, reply, segInfo, ipcVars, countVars, clientVars>>
  BY DEF Connect, Goto, CacheGoto
<1>2. cpc[r] = "none" /\ segInfo[r] = NoSeg /\ reply[r] = "none"
  BY <1>t, <1>1 DEF Session, Handshake
<1>3. pc' \in [Reqs -> ProxyPCs] /\ cpc' \in [Reqs -> CachePCs]
  BY <1>t, <1>1, Types DEF ProxyPCs, CachePCs
<1>4. /\ pc'[r] = "send_path" /\ cpc'[r] = "queued"
      /\ \A q \in Reqs : q # r => pc'[q] = pc[q] /\ cpc'[q] = cpc[q]
  BY <1>t, <1>1, Types
<1>5. \A q \in Reqs : Holds(q)' <=> Holds(q)
  BY <1>1, <1>4 DEF Holds, HoldsSegment
<1>6. ASSUME NEW q \in Reqs PROVE Session(q)'
  <2>1. CASE q # r
    <3>1. Bystander(q)
      BY <1>1, <1>4, <2>1 DEF Bystander, poolVars, ipcVars, countVars, clientVars
    <3> QED
      BY <3>1, BystanderSession DEF IInv
  <2>2. CASE q = r
    <3>1. OneToken(r)' /\ Handshake(r)'
      BY <1>t, <1>1, <1>2, <1>4, <1>5
         DEF Session, OneToken, Handshake, Holds, HoldsSegment, Writing, Reading
    <3>2. ~Pending(r) /\ ~Pending(r)'
      BY <1>1, <1>4 DEF Pending, Holds, HoldsSegment
    <3>3. Counts(r)'
      BY <1>t, <1>1, <1>2, <1>4, <3>2 DEF Session, Counts, countVars, clientVars, FileLen
    <3> QED
      BY <2>2, <3>1, <3>3 DEF Session
  <2> QED
    BY <2>1, <2>2
<1>7. backlog' \in Seq(Reqs) /\ BacklogQueued'
  <2>1. backlog \in Seq(Reqs)
    BY <1>t DEF TypeOK
  <2>2. /\ backlog' \in Seq(Reqs) /\ Len(backlog') = Len(backlog) + 1
        /\ \A i \in 1 .. Len(backlog) : backlog'[i] = backlog[i]
        /\ backlog'[Len(backlog) + 1] = r
    BY <1>1, <2>1, AppendProperties
  <2>3. \A i \in 1 .. Len(backlog) : backlog[i] \in Reqs /\ backlog[i] # r
    BY <1>t, <1>2, BacklogReqs DEF BacklogQueued
  <2>4. Len(backlog) \in Nat
    BY <2>1, LenProperties
  <2>5. ASSUME NEW i \in 1 .. Len(backlog')
        PROVE  /\ cpc'[backlog'[i]] = "queued"
               /\ i # Len(backlog) + 1 => backlog'[i] = backlog[i] /\ backlog[i] # r
    <3>1. CASE i = Len(backlog) + 1
      BY <1>4, <2>2, <3>1
    <3>2. CASE i # Len(backlog) + 1
      <4>1. i \in 1 .. Len(backlog)
        BY <2>2, <2>4, <3>2
      <4> QED
        BY <1>t, <1>4, <2>2, <2>3, <3>2, <4>1 DEF BacklogQueued
    <3> QED
      BY <3>1, <3>2
  <2>6. ASSUME NEW i \in 1 .. Len(backlog'), NEW j \in 1 .. Len(backlog'), i # j
        PROVE  backlog'[i] # backlog'[j]
    <3>1. CASE i = Len(backlog) + 1 \/ j = Len(backlog) + 1
      BY <2>2, <2>5, <2>6, <3>1
    <3>2. CASE i \in 1 .. Len(backlog) /\ j \in 1 .. Len(backlog)
      BY <1>t, <2>2, <2>6, <3>2 DEF BacklogQueued
    <3> QED
      BY <2>2, <2>4, <3>1, <3>2
  <2>7. ASSUME NEW q \in Reqs, cpc'[q] = "queued"
        PROVE  \E i \in 1 .. Len(backlog') : backlog'[i] = q
    <3>1. CASE q = r
      <4>1. Len(backlog) + 1 \in 1 .. Len(backlog')
        BY <2>2, <2>4
      <4> QED
        BY <2>2, <3>1, <4>1
    <3>2. CASE q # r
      <4>1. PICK i \in 1 .. Len(backlog) : backlog[i] = q
        BY <1>t, <1>4, <2>7, <3>2 DEF BacklogQueued
      <4>2. i \in 1 .. Len(backlog')
        BY <2>2, <2>4
      <4> QED
        BY <2>2, <4>1, <4>2
    <3> QED
      BY <3>1, <3>2
  <2> QED
    BY <2>2, <2>5, <2>6, <2>7 DEF BacklogQueued
<1> QED
  BY <1>t, <1>1, <1>3, <1>5, <1>6, <1>7, SocketFrame, Types

LEMMA CacheAcceptStep ==
    ASSUME IInv, CacheAccept
    PROVE  IInv'
<1>t. TypeOK /\ BacklogQueued
  BY DEF IInv
<1>h. PICK r : r = Head(backlog)
  OBVIOUS
<1>1. /\ backlog \in Seq(Reqs) /\ backlog # << >>
      /\ cpc' = [cpc EXCEPT ![r] = "accepted"]
      /\ backlog' = Tail(backlog)
      /\ pc' = pc
      /\ UNCHANGED <<gateVars, poolVars, reply, segInfo, ipcVars, countVars, clientVars>>
  BY <1>t, <1>h DEF CacheAccept, CacheGoto, TypeOK
<1>2. /\ r = backlog[1] /\ r \in Reqs /\ 1 \in 1 .. Len(backlog)
      /\ Len(backlog) \in Nat
  BY <1>h, <1>1, EmptySeq, HeadTailProperties, LenProperties
<1>3. cpc[r] = "queued" /\ Session(r)
  BY <1>t, <1>2 DEF IInv, BacklogQueued
<1>4. /\ cpc' \in [Reqs -> CachePCs]
      /\ cpc'[r] = "accepted"
      /\ \A q \in Reqs : q # r => cpc'[q] = cpc[q]
  BY <1>t, <1>1, <1>2, Types DEF CachePCs
<1>5. \A q \in Reqs : Holds(q)' <=> Holds(q)
  BY <1>1 DEF Holds
<1>6. /\ backlog' \in Seq(Reqs)
      /\ Len(backlog') = Len(backlog) - 1
      /\ \A i \in 1 .. Len(backlog') : backlog'[i] = backlog[i + 1]
  BY <1>1, HeadTailProperties
<1>7. ASSUME NEW q \in Reqs PROVE Session(q)'
  <2>1. CASE q # r
    <3>1. Bystander(q)
      BY <1>1, <1>4, <2>1 DEF Bystander, poolVars, ipcVars, countVars, clientVars
    <3> QED
      BY <3>1, BystanderSession DEF IInv
  <2>2. CASE q = r
    <3>1. /\ Pending(r)' <=> Pending(r)
          /\ ~Writing(r) /\ ~Writing(r)'
          /\ Reading(r)' <=> Reading(r)
      BY <1>1, <1>3, <1>4, <1>5 DEF Pending, Writing, Reading, poolVars, ipcVars
    <3>2. OneToken(r)' /\ Handshake(r)'
      BY <1>1, <1>3, <1>4, <1>5, <3>1
         DEF Session, OneToken, Handshake, Token, HoldsSegment, poolVars, ipcVars
    <3>3. Counts(r)'
      BY <1>1, <1>3, <1>4, <3>1
         DEF Session, Counts, countVars, poolVars, ipcVars, clientVars, FileLen
    <3> QED
      BY <2>2, <3>2, <3>3 DEF Session
  <2> QED
    BY <2>1, <2>2
<1>8. BacklogQueued'
  <2>1. ASSUME NEW i \in 1 .. Len(backlog')
        PROVE  cpc'[backlog'[i]] = "queued"
    <3>1. i + 1 \in 1 .. Len(backlog) /\ i + 1 # 1
      BY <1>2, <1>6
    <3>2. /\ backlog[i + 1] \in Reqs /\ backlog[i + 1] # r
          /\ cpc[backlog[i + 1]] = "queued"
      BY <1>t, <1>2, <3>1, BacklogReqs DEF BacklogQueued
    <3> QED
      BY <1>4, <1>6, <3>2
  <2>2. ASSUME NEW i \in 1 .. Len(backlog'), NEW j \in 1 .. Len(backlog'), i # j
        PROVE  backlog'[i] # backlog'[j]
    <3>1. i + 1 \in 1 .. Len(backlog) /\ j + 1 \in 1 .. Len(backlog) /\ i + 1 # j + 1
      BY <1>2, <1>6, <2>2
    <3> QED
      BY <1>t, <1>6, <3>1 DEF BacklogQueued
  <2>3. ASSUME NEW q \in Reqs, cpc'[q] = "queued"
        PROVE  \E i \in 1 .. Len(backlog') : backlog'[i] = q
    <3>1. q # r /\ cpc[q] = "queued"
      BY <1>4, <2>3
    <3>2. PICK i \in 1 .. Len(backlog) : backlog[i] = q
      BY <1>t, <3>1 DEF BacklogQueued
    <3>3. i - 1 \in 1 .. Len(backlog') /\ i - 1 + 1 = i
      BY <1>2, <1>6, <3>1, <3>2
    <3> QED
      BY <1>6, <3>2, <3>3
  <2> QED
    BY <2>1, <2>2, <2>3 DEF BacklogQueued
<1>9. /\ pc' \in [Reqs -> ProxyPCs]
      /\ reply' \in [Reqs -> {"none", "OK", "FILE_NOT_FOUND"}]
      /\ segInfo' \in [Reqs -> Segs \cup {NoSeg}]
  BY <1>t, <1>1, Types
<1> QED
  BY <1>1, <1>4, <1>5, <1>6, <1>7, <1>8, <1>9, SocketFrame

(* The cache's reply, whichever it is. *)
LEMMA ReplyStep ==
    ASSUME IInv, NEW r \in Reqs, CacheMiss(r) \/ CacheReply(r)
    PROVE  IInv'
<1>t. TypeOK /\ Session(r) /\ BacklogQueued
  BY DEF IInv
<1>1. /\ pc' = pc /\ backlog' = backlog /\ segInfo' = segInfo
      /\ UNCHANGED <<gateVars, poolVars, ipcVars, countVars, clientVars>>
      /\ cpc[r] \in {"lookup", "reply"} /\ reply[r] = "none"
  BY <1>t DEF CacheMiss, CacheReply, Session, Handshake
<1>2. /\ cpc' \in [Reqs -> CachePCs]
      /\ reply' \in [Reqs -> {"none", "OK", "FILE_NOT_FOUND"}]
      /\ \A q \in Reqs : q # r => cpc'[q] = cpc[q] /\ reply'[q] = reply[q]
      /\ \/ reply'[r] = "OK" /\ cpc'[r] = "read_seg" /\ Want[r] \in Cached
         \/ reply'[r] = "FILE_NOT_FOUND" /\ cpc'[r] = "miss_release"
  BY <1>t, Types DEF CacheMiss, CacheReply, CacheGoto, CachePCs, Session, Handshake
<1>3. \A q \in Reqs : Holds(q)' <=> Holds(q)
  BY <1>1 DEF Holds
<1>4. ~Holds(r) /\ pc[r] \notin {"miss_release", "miss_header", "seg_gate", "seg_wait",
                                "release", "done"}
  BY <1>t, <1>1 DEF Session, Handshake, Holds
<1>5. ASSUME NEW q \in Reqs PROVE Session(q)'
  <2>1. CASE q # r
    <3>1. Bystander(q)
      BY <1>1, <1>2, <2>1 DEF Bystander, poolVars, ipcVars, countVars, clientVars
    <3> QED
      BY <3>1, BystanderSession DEF IInv
  <2>2. CASE q = r
    <3>1. OneToken(r)' /\ Handshake(r)'
      BY <1>t, <1>1, <1>2, <1>3, <1>4
         DEF Session, OneToken, Handshake, Holds, HoldsSegment, Writing
    <3>2. ~Pending(r) /\ ~Pending(r)'
      BY <1>3, <1>4 DEF Pending
    <3>3. Counts(r)'
      BY <1>t, <1>1, <1>2, <1>4, <3>2 DEF Session, Counts, countVars, clientVars, FileLen
    <3> QED
      BY <2>2, <3>1, <3>3 DEF Session
  <2> QED
    BY <2>1, <2>2
<1>6. BacklogQueued'
  BY <1>t, <1>1, <1>2, BacklogFrame
<1>7. /\ pc' \in [Reqs -> ProxyPCs]
      /\ backlog' \in Seq(Reqs)
      /\ segInfo' \in [Reqs -> Segs \cup {NoSeg}]
  BY <1>t, <1>1 DEF TypeOK
<1> QED
  BY <1>1, <1>2, <1>3, <1>5, <1>6, <1>7, SocketFrame

(* The segment number goes to the cache. *)
LEMMA SendSegInfoStep ==
    ASSUME IInv, NEW r \in Reqs, SendSegInfo(r)
    PROVE  IInv'
<1>t. TypeOK /\ Session(r) /\ BacklogQueued /\ SegmentsAccounted
  BY DEF IInv
<1>1. /\ cpc' = cpc /\ backlog' = backlog /\ reply' = reply
      /\ UNCHANGED <<gateVars, poolVars, ipcVars, countVars, clientVars>>
      /\ pc[r] = "send_seg" /\ pc' = [pc EXCEPT ![r] = "loop"]
      /\ segInfo' = [segInfo EXCEPT ![r] = seg[r]]
  BY DEF SendSegInfo, Goto
<1>2. /\ pc' \in [Reqs -> ProxyPCs] /\ pc'[r] = "loop"
      /\ segInfo' \in [Reqs -> Segs \cup {NoSeg}] /\ segInfo'[r] = seg[r]
      /\ \A q \in Reqs : q # r => pc'[q] = pc[q] /\ segInfo'[q] = segInfo[q]
  BY <1>t, <1>1, Types DEF ProxyPCs
<1>3. \A q \in Reqs : Holds(q)' <=> Holds(q)
  BY <1>1, <1>2 DEF Holds, HoldsSegment
<1>4. seg[r] # NoSeg /\ segInfo[r] = NoSeg /\ cpc[r] \notin {"loop", "fill", "post"}
  BY <1>t, <1>1 DEF Session, Handshake, SegmentsAccounted, Holds, HoldsSegment
<1>5. ASSUME NEW q \in Reqs PROVE Session(q)'
  <2>1. CASE q # r
    <3>1. Bystander(q)
      BY <1>1, <1>2, <2>1 DEF Bystander, poolVars, ipcVars, countVars, clientVars
    <3> QED
      BY <3>1, BystanderSession DEF IInv
  <2>2. CASE q = r
    <3>1. Handshake(r)'
      BY <1>t, <1>1, <1>2, <1>3, <1>4, <2>2
         DEF Session, Handshake, Holds, HoldsSegment, Writing, poolVars
    <3>2. /\ Pending(r)' <=> Pending(r)
          /\ Writing(r)' <=> Writing(r)
          /\ ~Reading(r) /\ ~Reading(r)'
      BY <1>1, <1>2, <1>3 DEF Pending, Writing, Reading, poolVars, ipcVars
    <3>3. OneToken(r)'
      BY <1>t, <1>1, <1>3, <3>2 DEF Session, OneToken, Token, poolVars, ipcVars
    <3>4. Counts(r)'
      BY <1>t, <1>1, <1>2, <3>2
         DEF Session, Counts, poolVars, ipcVars, countVars, clientVars, FileLen
    <3> QED
      BY <2>2, <3>1, <3>3, <3>4 DEF Session
  <2> QED
    BY <2>1, <2>2
<1>6. BacklogQueued'
  BY <1>t, <1>1, BacklogFrame
<1>7. /\ cpc' \in [Reqs -> CachePCs]
      /\ backlog' \in Seq(Reqs)
      /\ reply' \in [Reqs -> {"none", "OK", "FILE_NOT_FOUND"}]
  BY <1>t, <1>1 DEF TypeOK
<1> QED
  BY <1>1, <1>2, <1>3, <1>5, <1>6, <1>7, SocketFrame

(***************************************************************************)
(* The pool: taking a segment and giving it back.                          *)
(***************************************************************************)
FreeSegs == {s \in Segs : segStatus[s] = 1}

LEMMA SegsBound ==
    ASSUME NEW S, S \subseteq Segs
    PROVE  IsFiniteSet(S) /\ Cardinality(S) \in 0 .. NSeg
<1>1. NSeg \in Nat \ {0} /\ 0 \in Int /\ NSeg - 1 \in Int
  BY CacheAssumption
<1>2. /\ IsFiniteSet(0 .. NSeg - 1)
      /\ Cardinality(0 .. NSeg - 1) = IF 0 > NSeg - 1 THEN 0 ELSE NSeg - 1 - 0 + 1
  BY <1>1, FS_Interval
<1>3. IsFiniteSet(Segs) /\ Cardinality(Segs) = NSeg
  BY <1>1, <1>2 DEF Segs
<1> QED
  BY <1>1, <1>3, FS_Subset, FS_CardinalityType

LEMMA FreeSegsFinite == IsFiniteSet(FreeSegs) /\ Cardinality(FreeSegs) \in 0 .. NSeg
BY SegsBound DEF FreeSegs

(* The scan that follows a successful test of the count finds a segment. *)
LEMMA ScanFinds ==
    ASSUME TypeOK, SegmentsAccounted, segFree >= 1,
           NEW s \in 0 .. NSeg, ScanStopsAt(s)
    PROVE  s \in Segs /\ segStatus[s] = 1
<1>1. NSeg \in Nat
  BY CacheAssumption
<1>2. CASE s = NSeg
  <2>1. FreeSegs = {}
    BY <1>1, <1>2 DEF FreeSegs, ScanStopsAt, Segs
  <2>2. segFree = 0
    BY <2>1, FS_EmptySet DEF SegmentsAccounted, FreeSegs
  <2> QED
    BY <2>2
<1>3. CASE s # NSeg
  BY <1>1, <1>3 DEF ScanStopsAt, Segs
<1> QED
  BY <1>2, <1>3

LEMMA TakeSegmentStep ==
    ASSUME IInv, NEW r \in Reqs, TakeSegment(r)
    PROVE  IInv'
<1>t. TypeOK /\ Session(r) /\ BacklogQueued /\ SegmentsAccounted /\ FreeSegmentIsReset
  BY DEF IInv
<1>1. PICK s \in 0 .. NSeg :
        /\ ScanStopsAt(s)
        /\ seg' = [seg EXCEPT ![r] = s]
        /\ segStatus' = [q \in Segs |-> IF q = s THEN 0 ELSE segStatus[q]]
  BY DEF TakeSegment
<1>2. /\ pc[r] = "seg_gate" /\ pc' = [pc EXCEPT ![r] = "header"]
      /\ segFree >= 1 /\ segFree' = segFree - 1
      /\ UNCHANGED <<cpc, gateVars, sockVars, ipcVars, countVars, clientVars>>
  BY DEF TakeSegment, Goto
<1>3. s \in Segs /\ segStatus[s] = 1 /\ s # NoSeg
  BY <1>t, <1>1, <1>2, ScanFinds, CacheAssumption DEF Segs, NoSeg
<1>4. /\ pc' \in [Reqs -> ProxyPCs] /\ pc'[r] = "header"
      /\ seg' \in [Reqs -> Segs \cup {NoSeg}] /\ seg'[r] = s
      /\ segStatus' \in [Segs -> {0, 1}]
      /\ \A q \in Reqs : q # r => pc'[q] = pc[q] /\ seg'[q] = seg[q]
  BY <1>t, <1>1, <1>2, <1>3, Types DEF ProxyPCs
<1>5. ~Holds(r) /\ Holds(r)' /\ \A q \in Reqs : q # r => (Holds(q)' <=> Holds(q))
  BY <1>2, <1>4 DEF Holds, HoldsSegment
<1>6. \A q \in Reqs : seg[q] # s
  BY <1>t, <1>3 DEF SegmentsAccounted
<1>7. segFree' = Cardinality({q \in Segs : segStatus'[q] = 1}) /\ segFree' \in 0 .. NSeg
  <2>1. {q \in Segs : segStatus'[q] = 1} = FreeSegs \ {s} /\ s \in FreeSegs
    BY <1>1, <1>3 DEF FreeSegs
  <2>2. Cardinality(FreeSegs \ {s}) = Cardinality(FreeSegs) - 1
    BY <2>1, FreeSegsFinite, FS_RemoveElement
  <2>3. segFree = Cardinality(FreeSegs)
    BY <1>t DEF SegmentsAccounted, FreeSegs
  <2>4. segFree' = Cardinality(FreeSegs \ {s})
    BY <1>2, <2>2, <2>3
  <2>5. segFree' \in 0 .. NSeg
    <3>1. segFree \in 0 .. NSeg /\ NSeg \in Nat
      BY <2>3, FreeSegsFinite, CacheAssumption
    <3> QED
      BY <1>2, <3>1
  <2> QED
    BY <2>1, <2>4, <2>5
<1>8. SegmentsAccounted'
  <2>1. \A q \in Reqs : seg'[q] # NoSeg <=> Holds(q)'
    BY <1>t, <1>3, <1>4, <1>5 DEF SegmentsAccounted
  <2>2. \A p \in Segs : segStatus'[p] = 0 <=> \E q \in Reqs : seg'[q] = p
    <3>1. \A p \in Segs : segStatus[p] = 0 <=> \E q \in Reqs : seg[q] = p
      BY <1>t DEF SegmentsAccounted
    <3>2. seg[r] = NoSeg
      BY <1>t, <1>5 DEF SegmentsAccounted
    <3>3. \A p \in Segs : p # NoSeg
      BY CacheAssumption DEF Segs, NoSeg
    <3> QED
      BY <1>1, <1>4, <3>1, <3>2, <3>3
  <2>3. \A q, p \in Reqs : q # p /\ Holds(q)' => seg'[q] # seg'[p]
    BY <1>t, <1>4, <1>5, <1>6 DEF SegmentsAccounted
  <2> QED
    BY <1>7, <2>1, <2>2, <2>3 DEF SegmentsAccounted
<1>9. ASSUME NEW q \in Reqs PROVE Session(q)'
  <2>1. CASE q # r
    <3>1. Bystander(q)
      BY <1>2, <1>4, <2>1 DEF Bystander, sockVars, ipcVars, countVars, clientVars
    <3> QED
      BY <3>1, BystanderSession DEF IInv
  <2>2. CASE q = r
    <3>1. /\ semReader[s] = 0 /\ semWriter[s] = 1 /\ ~Writing(r)
      BY <1>t, <1>3, <1>5 DEF FreeSegmentIsReset, Session, Handshake
    <3>2. ~Writing(r)' /\ ~Reading(r)' /\ ~Pending(r)'
      BY <1>2, <1>4, <3>1 DEF Writing, Reading, Pending, ipcVars
    <3>3. OneToken(r)'
      BY <1>2, <1>4, <3>1, <3>2 DEF OneToken, Token, ipcVars
    <3>4. Handshake(r)'
      BY <1>t, <1>2, <1>4, <1>5, <3>2 DEF Session, Handshake, HoldsSegment, sockVars
    <3>5. Counts(r)'
      BY <1>t, <1>2, <1>4, <1>5, <3>2
         DEF Session, Counts, Pending, countVars, sockVars, clientVars, FileLen
    <3> QED
      BY <2>2, <3>3, <3>4, <3>5 DEF Session
  <2> QED
    BY <2>1, <2>2
<1>10. TypeOK'
  BY <1>t, <1>2, <1>4, <1>7
     DEF TypeOK, gateVars, sockVars, ipcVars, countVars, clientVars
<1>11. FreeSegmentIsReset' /\ OwnFileOnly'
  BY <1>t, <1>1, <1>2 DEF IInv, FreeSegmentIsReset, OwnFileOnly, ipcVars, clientVars
<1>12. BacklogQueued'
  BY <1>t, <1>2, BacklogFrame DEF sockVars
<1> QED
  BY <1>8, <1>9, <1>10, <1>11, <1>12 DEF IInv

LEMMA ReleaseSegmentStep ==
    ASSUME IInv, NEW r \in Reqs, ReleaseSegment(r)
    PROVE  IInv'
<1>t. TypeOK /\ Session(r) /\ BacklogQueued /\ SegmentsAccounted /\ FreeSegmentIsReset
  BY DEF IInv
<1> DEFINE s == seg[r]
<1>1. /\ pc[r] = "loop" /\ bytesSend[r] >= FileLen(r)
      /\ segFree' = segFree + 1
      /\ segStatus' = [segStatus EXCEPT ![s] = 1]
      /\ seg' = [seg EXCEPT ![r] = NoSeg]
      /\ UNCHANGED <<cpc, gateVars, sockVars, ipcVars, countVars, clientVars>>
  BY DEF ReleaseSegment
<1>2. pc' \in [Reqs -> ProxyPCs] /\ Signalled(pc, pc', r, "release", "seg_wait", "seg_gate")
  <2>1. pc \in [Reqs -> ProxyPCs]
    BY <1>t, Types
  <2>2. "release" \in ProxyPCs /\ "seg_wait" \in ProxyPCs /\ "seg_gate" \in ProxyPCs
    BY DEF ProxyPCs
  <2>3. pc' \in GotoSignalling(pc, r, "release", "seg_wait", "seg_gate")
    BY DEF ReleaseSegment
  <2> QED
    BY <2>1, <2>2, <2>3, SignalEffect
<1>3. pc'[r] = "release" /\ \A q \in Reqs : q # r =>
          pc'[q] = pc[q] \/ (pc[q] = "seg_wait" /\ pc'[q] = "seg_gate")
  BY <1>2 DEF Signalled
<1>4. Holds(r) /\ ~Holds(r)' /\ \A q \in Reqs : q # r => (Holds(q)' <=> Holds(q))
  BY <1>1, <1>3 DEF Holds, HoldsSegment
<1>5. s \in Segs /\ s # NoSeg /\ segStatus[s] = 0
  BY <1>t, <1>4, Types DEF SegmentsAccounted
<1>6. /\ seg' \in [Reqs -> Segs \cup {NoSeg}] /\ seg'[r] = NoSeg
      /\ segStatus' \in [Segs -> {0, 1}] /\ segStatus'[s] = 1
      /\ \A q \in Reqs : q # r => seg'[q] = seg[q]
      /\ \A p \in Segs : p # s => segStatus'[p] = segStatus[p]
  BY <1>t, <1>1, <1>5, Types
<1>7. /\ bytesRead[r] >= FileLen(r) /\ ~Writing(r)
      /\ semReader[s] = 0 /\ semWriter[s] = 1
      /\ ~Pending(r)
  <2>1. reply[r] = "OK" /\ Want[r] \in Cached
    BY <1>t, <1>1 DEF Session, Handshake, HoldsSegment
  <2>2. FileLen(r) \in Nat
    BY <2>1, CacheAssumption DEF FileLen
  <2>3. /\ bytesRead[r] \in Nat /\ bytesSend[r] \in Int
        /\ semReader[s] \in 0 .. 1 /\ semWriter[s] \in 0 .. 1
    BY <1>t, <1>5, Types
  <2>4. bytesRead[r] >= FileLen(r)
    BY <1>t, <1>1, <2>2, <2>3 DEF Session, Counts
  <2>5. ~Pending(r) /\ cpc[r] # "fill"
    BY <1>t, <1>1, <2>2, <2>3, <2>4 DEF Session, Counts
  <2>6. cpc[r] # "post" /\ semReader[s] # 1
    BY <1>4, <2>5 DEF Pending
  <2> QED
    BY <1>t, <1>1, <1>4, <2>3, <2>4, <2>5, <2>6
       DEF Session, OneToken, Token, Writing, Reading
<1>8. segFree' = Cardinality({q \in Segs : segStatus'[q] = 1}) /\ segFree' \in 0 .. NSeg
  <2>1. {q \in Segs : segStatus'[q] = 1} = FreeSegs \cup {s} /\ s \notin FreeSegs
    BY <1>5, <1>6 DEF FreeSegs
  <2>2. Cardinality(FreeSegs \cup {s}) = Cardinality(FreeSegs) + 1
    BY <2>1, FreeSegsFinite, FS_AddElement
  <2>3. segFree = Cardinality(FreeSegs)
    BY <1>t DEF SegmentsAccounted, FreeSegs
  <2>4. Cardinality(FreeSegs \cup {s}) \in 0 .. NSeg
    BY <1>5, SegsBound DEF FreeSegs
  <2>5. segFree' = Cardinality(FreeSegs \cup {s})
    BY <1>1, <2>2, <2>3
  <2> QED
    BY <2>1, <2>4, <2>5
<1> HIDE DEF s
<1>9. SegmentsAccounted'
  <2>1. \A q \in Reqs : seg'[q] # NoSeg <=> Holds(q)'
    BY <1>t, <1>4, <1>6 DEF SegmentsAccounted
  <2>2. \A p \in Segs : segStatus'[p] = 0 <=> \E q \in Reqs : seg'[q] = p
    <3>1. \A p \in Segs : segStatus[p] = 0 <=> \E q \in Reqs : seg[q] = p
      BY <1>t DEF SegmentsAccounted
    <3>2. seg[r] = s /\ \A q \in Reqs : q # r => seg[q] # s
      BY <1>t, <1>4 DEF SegmentsAccounted, s
    <3>3. \A p \in Segs : p # NoSeg
      BY CacheAssumption DEF Segs, NoSeg
    <3> QED
      BY <1>6, <3>1, <3>2, <3>3
  <2>3. \A q, p \in Reqs : q # p /\ Holds(q)' => seg'[q] # seg'[p]
    BY <1>t, <1>4, <1>6 DEF SegmentsAccounted
  <2> QED
    BY <1>8, <2>1, <2>2, <2>3 DEF SegmentsAccounted
<1>10. ASSUME NEW q \in Reqs PROVE Session(q)'
  <2>1. CASE q # r
    <3>1. Bystander(q)
      BY <1>1, <1>3, <1>6, <2>1 DEF Bystander, sockVars, ipcVars, countVars, clientVars
    <3> QED
      BY <3>1, BystanderSession DEF IInv
  <2>2. CASE q = r
    <3>1. ~Writing(r)' /\ ~Pending(r)'
      BY <1>1, <1>4, <1>7 DEF Writing, Pending
    <3>2. OneToken(r)'
      BY <1>4 DEF OneToken
    <3>3. Handshake(r)'
      BY <1>t, <1>1, <1>3, <1>4, <3>1 DEF Session, Handshake, HoldsSegment, sockVars
    <3>4. Counts(r)'
      BY <1>t, <1>1, <1>3, <1>7, <3>1
         DEF Session, Counts, countVars, sockVars, clientVars, FileLen
    <3> QED
      BY <2>2, <3>2, <3>3, <3>4 DEF Session
  <2> QED
    BY <2>1, <2>2
<1>11. TypeOK'
  BY <1>t, <1>1, <1>2, <1>6, <1>8
     DEF TypeOK, gateVars, sockVars, ipcVars, countVars, clientVars
<1>12. FreeSegmentIsReset' /\ OwnFileOnly'
  BY <1>t, <1>1, <1>6, <1>7 DEF IInv, FreeSegmentIsReset, OwnFileOnly, ipcVars, clientVars
<1>13. BacklogQueued'
  BY <1>t, <1>1, BacklogFrame DEF sockVars
<1> QED
  BY <1>9, <1>10, <1>11, <1>12, <1>13 DEF IInv

(***************************************************************************)
(* The transfer: steps of one session on the segment it holds.  What is    *)
(* left to prove for each is what it does to its own session.              *)
(***************************************************************************)
LEMMA TransferFrame ==
    ASSUME IInv, NEW r \in Reqs, Holds(r), cpc[r] # "queued",
           cpc'[r] # "queued", UNCHANGED <<poolVars, sockVars, gateVars, header, gone>>,
           \A q \in Reqs : Holds(q)' <=> Holds(q),
           pc' \in [Reqs -> ProxyPCs], cpc' \in [Reqs -> CachePCs],
           semReader' \in [Segs -> 0 .. 1], semWriter' \in [Segs -> 0 .. 1],
           shm' \in [Segs -> Seq(Cached \X Nat)],
           offset' \in [Cached -> Nat], \A k \in Cached : offset'[k] <= Size[k],
           bytesRead' \in [Reqs -> Nat], bytesSend' \in [Reqs -> Int],
           body' \in [Reqs -> Seq(Cached \X Nat)],
           \A p \in Segs : p # seg[r] => /\ semReader'[p] = semReader[p]
                                        /\ semWriter'[p] = semWriter[p]
                                        /\ shm'[p] = shm[p],
           \A q \in Reqs : q # r => /\ pc'[q] = pc[q] /\ cpc'[q] = cpc[q]
                                   /\ bytesRead'[q] = bytesRead[q]
                                   /\ bytesSend'[q] = bytesSend[q]
                                   /\ body'[q] = body[q],
           body'[r] \in Seq(Bytes(Want[r])),
           Session(r)'
    PROVE  IInv'
<1>t. TypeOK /\ BacklogQueued /\ SegmentsAccounted /\ FreeSegmentIsReset /\ OwnFileOnly
  BY DEF IInv
<1>1. TypeOK'
  BY <1>t DEF TypeOK, poolVars, sockVars, gateVars
<1>2. SegmentsAccounted'
  BY <1>t, PoolFrame
<1>3. FreeSegmentIsReset'
  <2>1. segStatus[seg[r]] = 0 /\ seg[r] \in Segs
    BY <1>t, Types DEF SegmentsAccounted
  <2>2. \A p \in Segs : segStatus[p] = 1 => p # seg[r]
    BY <2>1
  <2>3. segStatus' = segStatus
    BY DEF poolVars
  <2> QED
    BY <1>t, <2>2, <2>3 DEF FreeSegmentIsReset
<1>4. OwnFileOnly'
  BY <1>t DEF OwnFileOnly
<1>5. BacklogQueued'
  <2>1. \A q \in Reqs : cpc[q] = "queued" <=> cpc'[q] = "queued"
    OBVIOUS
  <2> QED
    BY <1>t, <2>1, BacklogFrame DEF sockVars
<1>6. ASSUME NEW q \in Reqs PROVE Session(q)'
  <2>1. CASE q # r
    <3>1. Holds(q) => seg[q] \in Segs /\ seg[q] # seg[r]
      BY <1>t, <2>1, Types DEF SegmentsAccounted
    <3>2. Bystander(q)
      BY <2>1, <3>1 DEF Bystander, poolVars, sockVars
    <3> QED
      BY <3>2, BystanderSession DEF IInv
  <2> QED
    BY <2>1
<1> QED
  BY <1>1, <1>2, <1>3, <1>4, <1>5, <1>6 DEF IInv

(* What holds of a session that uses its segment. *)
LEMMA InUse ==
    ASSUME IInv, NEW r \in Reqs, Holds(r)
    PROVE  /\ seg[r] \in Segs /\ seg[r] # NoSeg
           /\ semReader[seg[r]] \in 0 .. 1 /\ semWriter[seg[r]] \in 0 .. 1
           /\ Want[r] \in Cached /\ FileLen(r) \in Nat
           /\ bytesRead[r] \in Nat /\ bytesSend[r] \in Int
           /\ shm[seg[r]] \in Seq(Cached \X Nat) /\ Len(shm[seg[r]]) \in Nat
           /\ Bytes(Want[r]) \subseteq Cached \X Nat
           /\ cpc[r] # "queued"
<1>1. seg[r] \in Segs /\ seg[r] # NoSeg
  BY Types DEF IInv, SegmentsAccounted
<1>2. reply[r] = "OK" /\ Want[r] \in Cached /\ cpc[r] # "queued"
  BY DEF IInv, Session, Handshake, Holds
<1>3. shm[seg[r]] \in Seq(Cached \X Nat)
  BY <1>1 DEF IInv, TypeOK
<1>4. Len(shm[seg[r]]) \in Nat
  BY <1>3, LenProperties
<1>5. FileLen(r) \in Nat /\ Bytes(Want[r]) \subseteq Cached \X Nat
  BY <1>2, CacheAssumption DEF FileLen, Bytes
<1> QED
  BY <1>1, <1>2, <1>3, <1>4, <1>5, Types DEF IInv

LEMMA WaitReaderStep ==
    ASSUME IInv, NEW r \in Reqs, WaitReader(r)
    PROVE  IInv'
<1>t. TypeOK /\ Session(r) /\ OwnFileOnly
  BY DEF IInv
<1> DEFINE s == seg[r]
<1>1. /\ pc[r] = "loop" /\ pc' = [pc EXCEPT ![r] = "send"]
      /\ semReader[s] > 0 /\ semReader' = [semReader EXCEPT ![s] = @ - 1]
      /\ UNCHANGED <<cpc, gateVars, poolVars, sockVars, semWriter, shm, countVars, clientVars>>
  BY DEF WaitReader, Goto
<1>2. Holds(r)
  BY <1>1 DEF Holds, HoldsSegment
<1>3. /\ s \in Segs /\ semReader[s] = 1 /\ semWriter[s] \in 0 .. 1
      /\ bytesRead[r] \in Nat /\ bytesSend[r] \in Int /\ cpc[r] # "queued"
  BY <1>1, <1>2, InUse
<1>4. /\ pc' \in [Reqs -> ProxyPCs] /\ pc'[r] = "send"
      /\ semReader' \in [Segs -> 0 .. 1] /\ semReader'[s] = 0
      /\ \A q \in Reqs : q # r => pc'[q] = pc[q]
      /\ \A p \in Segs : p # s => semReader'[p] = semReader[p]
  BY <1>t, <1>1, <1>3, Types DEF ProxyPCs
<1>5. \A q \in Reqs : Holds(q)' <=> Holds(q)
  BY <1>1, <1>4 DEF Holds, HoldsSegment
<1>6. Pending(r) /\ ~Reading(r) /\ Reading(r)' /\ (Writing(r)' <=> Writing(r))
  BY <1>1, <1>2, <1>3, <1>4 DEF Pending, Reading, Writing
<1>7. OneToken(r)'
  BY <1>t, <1>1, <1>2, <1>3, <1>4, <1>6 DEF Session, OneToken, Token, poolVars
<1>8. Handshake(r)'
  BY <1>t, <1>1, <1>2, <1>4, <1>5, <1>6 DEF Session, Handshake, HoldsSegment, sockVars, poolVars
<1>p. Pending(r)'
  BY <1>4, <1>5, <1>2 DEF Pending
<1>9. Counts(r)'
  BY <1>t, <1>1, <1>4, <1>6, <1>p
     DEF Session, Counts, sockVars, poolVars, countVars, clientVars, FileLen
<1>10. body'[r] \in Seq(Bytes(Want[r]))
  BY <1>t, <1>1 DEF OwnFileOnly, clientVars
<1>11. /\ cpc' \in [Reqs -> CachePCs] /\ semWriter' \in [Segs -> 0 .. 1]
       /\ shm' \in [Segs -> Seq(Cached \X Nat)]
       /\ offset' \in [Cached -> Nat] /\ (\A k \in Cached : offset'[k] <= Size[k])
       /\ bytesRead' \in [Reqs -> Nat] /\ bytesSend' \in [Reqs -> Int]
       /\ body' \in [Reqs -> Seq(Cached \X Nat)]
  BY <1>t, <1>1 DEF TypeOK, countVars, clientVars
<1>12. UNCHANGED <<bytesRead, bytesSend, body, header, gone>>
  BY <1>1 DEF countVars, clientVars
<1> QED
  BY <1>1, <1>2, <1>3, <1>4, <1>5, <1>7, <1>8, <1>9, <1>10, <1>11, <1>12, TransferFrame
     DEF Session

LEMMA PostWriterStep ==
    ASSUME IInv, NEW r \in Reqs, PostWriter(r)
    PROVE  IInv'
<1>t. TypeOK /\ Session(r) /\ OwnFileOnly
  BY DEF IInv
<1> DEFINE s == seg[r]
<1>1. /\ pc[r] = "post" /\ pc' = [pc EXCEPT ![r] = "loop"]
      /\ semWriter' = [semWriter EXCEPT ![s] = @ + 1]
      /\ UNCHANGED <<cpc, gateVars, poolVars, sockVars, semReader, shm, countVars, clientVars>>
  BY DEF PostWriter, Goto
<1>2. Holds(r) /\ Reading(r)
  BY <1>1 DEF Holds, HoldsSegment, Reading
<1>3. /\ s \in Segs /\ semReader[s] \in 0 .. 1 /\ semWriter[s] \in 0 .. 1
      /\ bytesRead[r] \in Nat /\ bytesSend[r] \in Int /\ cpc[r] # "queued"
  BY <1>1, <1>2, InUse
<1>4. semWriter[s] = 0 /\ semReader[s] = 0 /\ ~Writing(r)
  BY <1>t, <1>2, <1>3 DEF Session, OneToken, Token
<1>5. /\ pc' \in [Reqs -> ProxyPCs] /\ pc'[r] = "loop"
      /\ semWriter' \in [Segs -> 0 .. 1] /\ semWriter'[s] = 1
      /\ \A q \in Reqs : q # r => pc'[q] = pc[q]
      /\ \A p \in Segs : p # s => semWriter'[p] = semWriter[p]
  BY <1>t, <1>1, <1>3, <1>4, Types DEF ProxyPCs
<1>6. \A q \in Reqs : Holds(q)' <=> Holds(q)
  BY <1>1, <1>5 DEF Holds, HoldsSegment
<1>7. ~Pending(r) /\ ~Pending(r)' /\ ~Reading(r)' /\ ~Writing(r)'
  BY <1>1, <1>4, <1>5 DEF Pending, Reading, Writing, poolVars
<1>8. OneToken(r)'
  BY <1>1, <1>4, <1>5, <1>7 DEF OneToken, Token, poolVars
<1>9. Handshake(r)'
  BY <1>t, <1>1, <1>5, <1>6, <1>7 DEF Session, Handshake, HoldsSegment, sockVars, poolVars
<1>10. Counts(r)'
  BY <1>t, <1>1, <1>4, <1>5, <1>7
     DEF Session, Counts, countVars, sockVars, clientVars, FileLen, Writing
<1>11. body'[r] \in Seq(Bytes(Want[r]))
  BY <1>t, <1>1 DEF OwnFileOnly, clientVars
<1>12. /\ cpc' \in [Reqs -> CachePCs] /\ semReader' \in [Segs -> 0 .. 1]
       /\ shm' \in [Segs -> Seq(Cached \X Nat)]
       /\ offset' \in [Cached -> Nat] /\ (\A k \in Cached : offset'[k] <= Size[k])
       /\ bytesRead' \in [Reqs -> Nat] /\ bytesSend' \in [Reqs -> Int]
       /\ body' \in [Reqs -> Seq(Cached \X Nat)]
  BY <1>t, <1>1 DEF TypeOK, countVars, clientVars
<1>13. UNCHANGED <<bytesRead, bytesSend, body, header, gone>>
  BY <1>1 DEF countVars, clientVars
<1> QED
  BY <1>1, <1>2, <1>3, <1>5, <1>6, <1>8, <1>9, <1>10, <1>11, <1>12, <1>13, TransferFrame
     DEF Session

(* The bytes in the segment are the file's, and the reader's token covers them. *)
LEMMA SendStep ==
    ASSUME IInv, NEW r \in Reqs, Send(r)
    PROVE  IInv'
<1>t. TypeOK /\ Session(r) /\ OwnFileOnly
  BY DEF IInv
<1> DEFINE s == seg[r]
<1>1. /\ pc[r] = "send" /\ pc' = [pc EXCEPT ![r] = "post"]
      /\ UNCHANGED <<cpc, gateVars, poolVars, sockVars, ipcVars, offset, bytesRead, header, gone>>
      /\ \/ /\ r \in gone
            /\ bytesSend' = [bytesSend EXCEPT ![r] = @ - 1]
            /\ body' = body
         \/ /\ bytesSend' = [bytesSend EXCEPT ![r] = @ + Len(shm[s])]
            /\ body' = [body EXCEPT ![r] = @ \o shm[s]]
  BY DEF Send, Goto
<1>2. Holds(r) /\ Reading(r)
  BY <1>1 DEF Holds, HoldsSegment, Reading
<1>3. /\ s \in Segs /\ semReader[s] \in 0 .. 1 /\ semWriter[s] \in 0 .. 1
      /\ bytesRead[r] \in Nat /\ bytesSend[r] \in Int /\ cpc[r] # "queued"
      /\ Len(shm[s]) \in Nat /\ FileLen(r) \in Nat
      /\ Bytes(Want[r]) \subseteq Cached \X Nat
  BY <1>2, InUse
<1>4. semWriter[s] = 0 /\ semReader[s] = 0 /\ ~Writing(r)
  BY <1>t, <1>2, <1>3 DEF Session, OneToken, Token
<1>5. Pending(r)
  BY <1>1, <1>2 DEF Pending
<1>6. /\ bytesSend[r] <= bytesRead[r] /\ bytesSend[r] + Len(shm[s]) <= bytesRead[r]
      /\ shm[s] \in Seq(Bytes(Want[r]))
      /\ r \notin gone => bytesSend[r] + Len(shm[s]) = bytesRead[r]
  BY <1>t, <1>5 DEF Session, Counts
<1>7. /\ pc' \in [Reqs -> ProxyPCs] /\ pc'[r] = "post"
      /\ bytesSend' \in [Reqs -> Int] /\ bytesSend'[r] <= bytesRead[r]
      /\ r \notin gone => bytesSend'[r] = bytesRead[r]
      /\ \A q \in Reqs : q # r => pc'[q] = pc[q] /\ bytesSend'[q] = bytesSend[q]
  <2>1. PICK m \in Int : /\ bytesSend' = [bytesSend EXCEPT ![r] = m]
                         /\ m <= bytesRead[r]
                         /\ r \notin gone => m = bytesRead[r]
    <3>1. CASE r \in gone /\ bytesSend' = [bytesSend EXCEPT ![r] = @ - 1]
      <4>1. bytesSend[r] - 1 \in Int /\ bytesSend[r] - 1 <= bytesRead[r]
        BY <1>3, <1>6
      <4> QED
        BY <3>1, <4>1
    <3>2. CASE bytesSend' = [bytesSend EXCEPT ![r] = @ + Len(shm[s])]
      <4>1. bytesSend[r] + Len(shm[s]) \in Int
        BY <1>3
      <4> QED
        BY <1>6, <3>2, <4>1
    <3> QED
      BY <1>1, <3>1, <3>2
  <2>2. bytesSend \in [Reqs -> Int] /\ pc \in [Reqs -> ProxyPCs]
    BY <1>t, Types
  <2> QED
    BY <1>1, <2>1, <2>2 DEF ProxyPCs
<1>8. /\ body'[r] \in Seq(Bytes(Want[r]))
      /\ \A q \in Reqs : q # r => body'[q] = body[q]
      /\ body' \in [Reqs -> Seq(Cached \X Nat)]
  <2>1. /\ body[r] \in Seq(Bytes(Want[r])) /\ body[r] \in Seq(Cached \X Nat)
        /\ shm[s] \in Seq(Cached \X Nat) /\ body \in [Reqs -> Seq(Cached \X Nat)]
    BY <1>t, <1>3 DEF OwnFileOnly, TypeOK
  <2>2. /\ body[r] \o shm[s] \in Seq(Bytes(Want[r]))
        /\ body[r] \o shm[s] \in Seq(Cached \X Nat)
    BY <1>6, <2>1, ConcatProperties
  <2> QED
    BY <1>1, <2>1, <2>2
<1>9. \A q \in Reqs : Holds(q)' <=> Holds(q)
  BY <1>1, <1>7 DEF Holds, HoldsSegment
<1>10. /\ ~Pending(r)' /\ Reading(r)' /\ ~Writing(r)'
  BY <1>1, <1>4, <1>7 DEF Pending, Reading, Writing, poolVars, ipcVars
<1>11. OneToken(r)'
  BY <1>1, <1>4, <1>10 DEF OneToken, Token, poolVars, ipcVars
<1>12. Handshake(r)'
  BY <1>t, <1>1, <1>7, <1>9, <1>10 DEF Session, Handshake, HoldsSegment, sockVars, poolVars
<1>13. Counts(r)'
  <2>1. /\ bytesRead' = bytesRead /\ gone' = gone /\ FileLen(r)' = FileLen(r)
        /\ cpc'[r] # "fill" /\ pc'[r] \notin {"release", "done"}
    BY <1>1, <1>7, <1>10 DEF Writing, FileLen
  <2>2. reply'[r] = "OK" /\ cpc'[r] = "closed" => bytesRead[r] >= FileLen(r)
    BY <1>t, <1>1 DEF Session, Counts, sockVars
  <2> QED
    BY <1>7, <1>10, <2>1, <2>2 DEF Counts
<1>14. /\ cpc' \in [Reqs -> CachePCs] /\ bytesRead' \in [Reqs -> Nat]
       /\ semReader' \in [Segs -> 0 .. 1] /\ semWriter' \in [Segs -> 0 .. 1]
       /\ shm' \in [Segs -> Seq(Cached \X Nat)]
       /\ offset' \in [Cached -> Nat] /\ (\A k \in Cached : offset'[k] <= Size[k])
  BY <1>t, <1>1 DEF TypeOK, ipcVars
<1>15. UNCHANGED <<semReader, semWriter, shm>>
  BY <1>1 DEF ipcVars
<1> QED
  BY <1>1, <1>2, <1>3, <1>7, <1>8, <1>9, <1>11, <1>12, <1>13, <1>14, <1>15, TransferFrame
     DEF Session

(* A cache thread between its two semaphore calls has its own segment to itself. *)
LEMMA WriterAlone ==
    ASSUME IInv, NEW r \in Reqs, Writing(r)
    PROVE  /\ Holds(r) /\ ~Reading(r)
           /\ segInfo[r] = seg[r]
           /\ semReader[seg[r]] = 0 /\ semWriter[seg[r]] = 0
<1>1. Holds(r) /\ segInfo[r] = seg[r]
  BY DEF IInv, Session, Handshake, Writing, Holds, HoldsSegment
<1>2. semReader[seg[r]] \in 0 .. 1 /\ semWriter[seg[r]] \in 0 .. 1
  BY <1>1, InUse
<1> QED
  BY <1>1, <1>2 DEF IInv, Session, OneToken, Token

LEMMA CacheWaitWriterStep ==
    ASSUME IInv, NEW r \in Reqs, CacheWaitWriter(r)
    PROVE  IInv'
<1>t. TypeOK /\ Session(r) /\ OwnFileOnly
  BY DEF IInv
<1> DEFINE s == seg[r]
<1>0. /\ cpc[r] = "loop" /\ cpc' = [cpc EXCEPT ![r] = "fill"]
      /\ bytesRead[r] < FileLen(r) /\ semWriter[segInfo[r]] > 0
      /\ semWriter' = [semWriter EXCEPT ![segInfo[r]] = @ - 1]
      /\ UNCHANGED <<pc, gateVars, poolVars, sockVars, semReader, shm, countVars, clientVars>>
  BY DEF CacheWaitWriter, CacheGoto
<1>2. Holds(r) /\ segInfo[r] = s
  <2>1. segInfo[r] # NoSeg /\ reply[r] = "OK" /\ Want[r] \in Cached
    BY <1>t, <1>0 DEF Session, Handshake
  <2>2. bytesRead[r] \in Nat /\ FileLen(r) \in Nat
    BY <1>t, <2>1, Types, CacheAssumption DEF FileLen
  <2>3. pc[r] \notin {"release", "done"}
    BY <1>t, <1>0, <2>1, <2>2 DEF Session, Counts
  <2> QED
    BY <1>t, <2>1, <2>3 DEF Session, Handshake, Holds, HoldsSegment
<1>1. semWriter[s] > 0 /\ semWriter' = [semWriter EXCEPT ![s] = @ - 1]
  BY <1>0, <1>2
<1>3. /\ s \in Segs /\ semReader[s] \in 0 .. 1 /\ semWriter[s] = 1
      /\ bytesRead[r] \in Nat /\ bytesSend[r] \in Int /\ cpc[r] # "queued"
  BY <1>1, <1>2, InUse
<1>4. semReader[s] = 0 /\ ~Writing(r) /\ ~Reading(r)
  BY <1>t, <1>2, <1>3 DEF Session, OneToken, Token
<1>5. /\ cpc' \in [Reqs -> CachePCs] /\ cpc'[r] = "fill"
      /\ semWriter' \in [Segs -> 0 .. 1] /\ semWriter'[s] = 0
      /\ \A q \in Reqs : q # r => cpc'[q] = cpc[q]
      /\ \A p \in Segs : p # s => semWriter'[p] = semWriter[p]
  BY <1>t, <1>0, <1>1, <1>3, Types DEF CachePCs
<1>6. \A q \in Reqs : Holds(q)' <=> Holds(q)
  BY <1>0 DEF Holds
<1>7. ~Pending(r) /\ ~Pending(r)' /\ ~Reading(r)' /\ Writing(r)'
  BY <1>0, <1>4, <1>5 DEF Pending, Reading, Writing, poolVars
<1>8. OneToken(r)'
  BY <1>0, <1>4, <1>5, <1>7 DEF OneToken, Token, poolVars
<1>9. Handshake(r)'
  BY <1>t, <1>0, <1>2, <1>5, <1>6 DEF Session, Handshake, HoldsSegment, sockVars, poolVars
<1>10. Counts(r)'
  BY <1>t, <1>0, <1>5, <1>7 DEF Session, Counts, countVars, sockVars, clientVars, FileLen
<1>11. body'[r] \in Seq(Bytes(Want[r]))
  BY <1>t, <1>0 DEF OwnFileOnly, clientVars
<1>12. /\ pc' \in [Reqs -> ProxyPCs] /\ semReader' \in [Segs -> 0 .. 1]
       /\ shm' \in [Segs -> Seq(Cached \X Nat)]
       /\ offset' \in [Cached -> Nat] /\ (\A k \in Cached : offset'[k] <= Size[k])
       /\ bytesRead' \in [Reqs -> Nat] /\ bytesSend' \in [Reqs -> Int]
       /\ body' \in [Reqs -> Seq(Cached \X Nat)]
  BY <1>t, <1>0 DEF TypeOK, countVars, clientVars
<1>13. UNCHANGED <<bytesRead, bytesSend, body, header, gone>>
  BY <1>0 DEF countVars, clientVars
<1> QED
  BY <1>0, <1>2, <1>3, <1>5, <1>6, <1>8, <1>9, <1>10, <1>11, <1>12, <1>13, TransferFrame
     DEF Session

(* What n bytes read at offset m are. *)
LEMMA PieceOf ==
    ASSUME NEW S, NEW f, NEW m \in Nat, NEW n \in Nat,
           \A i \in m + 1 .. m + n : f[i] \in S
    PROVE  SubSeq(f, m + 1, m + n) \in Seq(S) /\ Len(SubSeq(f, m + 1, m + n)) = n
<1> DEFINE a == m + 1
           b == m + n
<1>1. a \in Int /\ b \in Int /\ (IF a <= b THEN b - a + 1 ELSE 0) = n
  OBVIOUS
<1>2. \A i \in a .. b : f[i] \in S
  OBVIOUS
<1> HIDE DEF a, b
<1>3. /\ SubSeq(f, a, b) \in Seq(S)
      /\ Len(SubSeq(f, a, b)) = IF a <= b THEN b - a + 1 ELSE 0
  BY <1>1, <1>2, SubSeqProperties
<1> QED
  BY <1>1, <1>3 DEF a, b

LEMMA CacheFillStep ==
    ASSUME IInv, NEW r \in Reqs, CacheFill(r)
    PROVE  IInv'
<1>t. TypeOK /\ Session(r) /\ OwnFileOnly
  BY DEF IInv
<1> DEFINE s == seg[r]
           k == Want[r]
           n == IF Size[k] - offset[k] < Chunk THEN Size[k] - offset[k] ELSE Chunk
           piece == SubSeq(File(k), offset[k] + 1, offset[k] + n)
<1>0. /\ cpc[r] = "fill" /\ cpc' = [cpc EXCEPT ![r] = "post"]
      /\ shm' = [shm EXCEPT ![segInfo[r]] = piece]
      /\ offset' = [offset EXCEPT ![k] = @ + n]
      /\ bytesRead' = [bytesRead EXCEPT ![r] = @ + n]
      /\ UNCHANGED <<pc, gateVars, poolVars, sockVars, semReader, semWriter, bytesSend, clientVars>>
  BY DEF CacheFill, CacheGoto
<1>1. Holds(r) /\ segInfo[r] = s /\ semReader[s] = 0 /\ semWriter[s] = 0 /\ ~Reading(r)
  BY <1>0, WriterAlone DEF Writing
<1>2. /\ s \in Segs /\ k \in Cached
      /\ bytesRead[r] \in Nat /\ bytesSend[r] \in Int /\ cpc[r] # "queued"
      /\ Bytes(k) \subseteq Cached \X Nat
  BY <1>1, InUse
<1>3. /\ Size[k] \in Nat /\ Chunk \in Nat /\ offset[k] \in Nat /\ offset[k] <= Size[k]
      /\ offset \in [Cached -> Nat] /\ \A j \in Cached : offset[j] <= Size[j]
  BY <1>t, <1>2, Types, CacheAssumption
<1>4. n \in Nat /\ offset[k] + n <= Size[k]
  BY <1>3
<1>5. piece \in Seq(Bytes(k)) /\ Len(piece) = n
  <2>1. \A i \in offset[k] + 1 .. offset[k] + n : File(k)[i] \in Bytes(k)
    BY <1>3, <1>4 DEF File, Bytes
  <2> DEFINE f == File(k)
             m == offset[k]
  <2>2. m \in Nat /\ n \in Nat /\ \A i \in m + 1 .. m + n : f[i] \in Bytes(k)
    BY <1>3, <1>4, <2>1
  <2> HIDE DEF f, m, n, k
  <2>3. SubSeq(f, m + 1, m + n) \in Seq(Bytes(k)) /\ Len(SubSeq(f, m + 1, m + n)) = n
    BY <2>2, PieceOf
  <2> QED
    BY <2>3 DEF f, m
<1> HIDE DEF n, piece
<1>6. /\ cpc' \in [Reqs -> CachePCs] /\ cpc'[r] = "post"
      /\ bytesRead' \in [Reqs -> Nat] /\ bytesRead'[r] = bytesRead[r] + n
      /\ \A q \in Reqs : q # r => cpc'[q] = cpc[q] /\ bytesRead'[q] = bytesRead[q]
  BY <1>t, <1>0, <1>2, <1>4, Types DEF CachePCs
<1>7. /\ shm' \in [Segs -> Seq(Cached \X Nat)] /\ shm'[s] = piece
      /\ \A p \in Segs : p # s => shm'[p] = shm[p]
  <2>1. shm \in [Segs -> Seq(Cached \X Nat)] /\ piece \in Seq(Cached \X Nat)
    BY <1>t, <1>2, <1>5 DEF TypeOK
  <2> QED
    BY <1>0, <1>1, <1>2, <2>1
<1>8. offset' \in [Cached -> Nat] /\ \A j \in Cached : offset'[j] <= Size[j]
  BY <1>0, <1>2, <1>3, <1>4
<1>9. \A q \in Reqs : Holds(q)' <=> Holds(q)
  BY <1>0 DEF Holds
<1>10. ~Reading(r)' /\ Writing(r)'
  BY <1>0, <1>1, <1>6 DEF Reading, Writing
<1>11. OneToken(r)'
  BY <1>0, <1>1, <1>10 DEF OneToken, Token, poolVars
<1>12. Handshake(r)'
  BY <1>t, <1>0, <1>1, <1>6, <1>9 DEF Session, Handshake, HoldsSegment, sockVars, poolVars
<1>13. Counts(r)'
  <2>1. /\ bytesSend[r] <= bytesRead[r] /\ bytesRead[r] < FileLen(r)
        /\ pc[r] \notin {"release", "done"}
        /\ r \notin gone => bytesSend[r] = bytesRead[r]
    <3>1. ~Pending(r) /\ pc[r] \notin {"release", "done"}
      BY <1>0, <1>1 DEF Pending, Reading, Holds, HoldsSegment
    <3> QED
      BY <1>t, <1>0, <3>1 DEF Session, Counts
  <2>2. FileLen(r) \in Nat
    BY <1>3 DEF FileLen
  <2>3. /\ seg'[r] = s /\ bytesSend' = bytesSend /\ pc' = pc /\ FileLen(r)' = FileLen(r)
        /\ gone' = gone
    BY <1>0 DEF poolVars, clientVars, FileLen
  <2>4. Pending(r)' /\ cpc'[r] # "fill"
    BY <1>1, <1>6, <1>9 DEF Pending
  <2>5. /\ bytesSend'[r] + Len(shm'[s]) <= bytesRead'[r]
        /\ r \notin gone => bytesSend'[r] + Len(shm'[s]) = bytesRead'[r]
    BY <1>2, <1>4, <1>5, <1>6, <1>7, <2>1, <2>3
  <2> QED
    BY <1>2, <1>4, <1>5, <1>6, <1>7, <2>1, <2>2, <2>3, <2>4, <2>5 DEF Counts
<1>14. body'[r] \in Seq(Bytes(Want[r]))
  BY <1>t, <1>0 DEF OwnFileOnly, clientVars
<1>15. /\ pc' \in [Reqs -> ProxyPCs] /\ bytesSend' \in [Reqs -> Int]
       /\ semReader' \in [Segs -> 0 .. 1] /\ semWriter' \in [Segs -> 0 .. 1]
       /\ body' \in [Reqs -> Seq(Cached \X Nat)]
  BY <1>t, <1>0 DEF TypeOK, clientVars
<1>16. UNCHANGED <<semReader, semWriter, body, header, gone>>
  BY <1>0 DEF clientVars
<1> QED
  BY <1>0, <1>1, <1>2, <1>6, <1>7, <1>8, <1>9, <1>11, <1>12, <1>13, <1>14, <1>15, <1>16,
     TransferFrame
     DEF Session

LEMMA CachePostReaderStep ==
    ASSUME IInv, NEW r \in Reqs, CachePostReader(r)
    PROVE  IInv'
<1>t. TypeOK /\ Session(r) /\ OwnFileOnly
  BY DEF IInv
<1> DEFINE s == seg[r]
<1>0. /\ cpc[r] = "post" /\ cpc' = [cpc EXCEPT ![r] = "loop"]
      /\ semReader' = [semReader EXCEPT ![segInfo[r]] = @ + 1]
      /\ UNCHANGED <<pc, gateVars, poolVars, sockVars, semWriter, shm, countVars, clientVars>>
  BY DEF CachePostReader, CacheGoto
<1>1. Holds(r) /\ segInfo[r] = s /\ semReader[s] = 0 /\ semWriter[s] = 0 /\ ~Reading(r)
  BY <1>0, WriterAlone DEF Writing
<1>2. s \in Segs /\ s # NoSeg /\ cpc[r] # "queued"
  BY <1>1, InUse
<1>3. /\ cpc' \in [Reqs -> CachePCs] /\ cpc'[r] = "loop"
      /\ semReader' \in [Segs -> 0 .. 1] /\ semReader'[s] = 1
      /\ \A q \in Reqs : q # r => cpc'[q] = cpc[q]
      /\ \A p \in Segs : p # s => semReader'[p] = semReader[p]
  BY <1>t, <1>0, <1>1, <1>2, Types DEF CachePCs
<1>4. \A q \in Reqs : Holds(q)' <=> Holds(q)
  BY <1>0 DEF Holds
<1>5. Pending(r) /\ ~Reading(r)' /\ ~Writing(r)'
  BY <1>0, <1>1, <1>3 DEF Pending, Reading, Writing
<1>6. OneToken(r)'
  BY <1>0, <1>1, <1>3, <1>5 DEF OneToken, Token, poolVars
<1>7. Handshake(r)'
  BY <1>t, <1>0, <1>1, <1>2, <1>3, <1>5 DEF Session, Handshake, sockVars, poolVars
<1>p. Pending(r)'
  BY <1>0, <1>1, <1>3, <1>4 DEF Pending, poolVars
<1>8. Counts(r)'
  BY <1>t, <1>0, <1>3, <1>5, <1>p
     DEF Session, Counts, sockVars, poolVars, countVars, clientVars, FileLen
<1>9. body'[r] \in Seq(Bytes(Want[r]))
  BY <1>t, <1>0 DEF OwnFileOnly, clientVars
<1>10. /\ pc' \in [Reqs -> ProxyPCs] /\ semWriter' \in [Segs -> 0 .. 1]
       /\ shm' \in [Segs -> Seq(Cached \X Nat)]
       /\ offset' \in [Cached -> Nat] /\ (\A k \in Cached : offset'[k] <= Size[k])
       /\ bytesRead' \in [Reqs -> Nat] /\ bytesSend' \in [Reqs -> Int]
       /\ body' \in [Reqs -> Seq(Cached \X Nat)]
  BY <1>t, <1>0 DEF TypeOK, countVars, clientVars
<1>11. UNCHANGED <<bytesRead, bytesSend, body, header, gone>>
  BY <1>0 DEF countVars, clientVars
<1> QED
  BY <1>0, <1>1, <1>2, <1>3, <1>4, <1>6, <1>7, <1>8, <1>9, <1>10, <1>11, TransferFrame
     DEF Session

(***************************************************************************)
(* The invariant is inductive.                                             *)
(***************************************************************************)
LEMMA InitInv == Init => IInv
<1> SUFFICES ASSUME Init PROVE IInv
  OBVIOUS
<1>c. /\ NSeg \in Nat \ {0} /\ Size \in [Cached -> Nat]
      /\ \A s \in Segs : s # NoSeg
  BY CacheAssumption DEF Segs, NoSeg
<1>e. << >> \in Seq(Reqs) /\ << >> \in Seq(Cached \X Nat) /\ Len(<< >>) = 0
  OBVIOUS
<1>1. TypeOK
  BY <1>c, <1>e DEF Init, TypeOK, ProxyPCs, CachePCs
<1>2. SegmentsAccounted
  <2>1. \A r \in Reqs : pc[r] = "idle" /\ seg[r] = NoSeg
    BY DEF Init
  <2>2. \A s \in Segs : segStatus[s] = 1
    BY DEF Init
  <2>3. {s \in Segs : segStatus[s] = 1} = 0 .. NSeg - 1
    BY <2>2 DEF Segs
  <2>4. Cardinality(0 .. NSeg - 1) = NSeg
    <3>1. 0 \in Int /\ NSeg - 1 \in Int /\ ~(0 > NSeg - 1)
      BY <1>c
    <3>2. Cardinality(0 .. NSeg - 1) = NSeg - 1 - 0 + 1
      BY <3>1, FS_Interval
    <3> QED
      BY <1>c, <3>2
  <2>5. segFree = NSeg
    BY DEF Init
  <2>6. \A r \in Reqs : ~Holds(r)
    BY <2>1 DEF Holds, HoldsSegment
  <2>7. segFree = Cardinality({s \in Segs : segStatus[s] = 1})
    BY <2>3, <2>4, <2>5
  <2>8. \A s \in Segs : segStatus[s] = 0 <=> \E r \in Reqs : seg[r] = s
    BY <1>c, <2>1, <2>2
  <2>9. \A r \in Reqs : seg[r] # NoSeg <=> Holds(r)
    BY <2>1, <2>6
  <2> QED
    BY <2>6, <2>7, <2>8, <2>9 DEF SegmentsAccounted
<1>3. FreeSegmentIsReset
  BY DEF Init, FreeSegmentIsReset
<1>4. OwnFileOnly
  BY DEF Init, OwnFileOnly
<1>5. BacklogQueued
  BY <1>e DEF Init, BacklogQueued
<1>6. ASSUME NEW r \in Reqs PROVE Session(r)
  <2>1. /\ pc[r] = "idle" /\ cpc[r] = "none" /\ reply[r] = "none"
        /\ segInfo[r] = NoSeg /\ bytesRead[r] = 0 /\ bytesSend[r] = 0
    BY DEF Init
  <2>2. ~Holds(r) /\ ~Pending(r) /\ ~Writing(r)
    BY <2>1 DEF Holds, HoldsSegment, Pending, Writing
  <2> QED
    BY <2>1, <2>2 DEF Session, OneToken, Handshake, Counts, HoldsSegment
<1> QED
  BY <1>1, <1>2, <1>3, <1>4, <1>5, <1>6 DEF IInv

(* Nothing in the invariant changes when no variable does. *)
LEMMA StutterStep ==
    ASSUME IInv, UNCHANGED vars
    PROVE  IInv'
BY DEF IInv, vars, gateVars, poolVars, sockVars, ipcVars, countVars, clientVars,
       TypeOK, SegmentsAccounted, FreeSegmentIsReset, OwnFileOnly, BacklogQueued,
       Session, OneToken, Handshake, Counts, Pending, Holds, Writing, Reading, FileLen

LEMMA NextInv == IInv /\ [Next]_vars => IInv'
<1> SUFFICES ASSUME IInv, [Next]_vars PROVE IInv'
  OBVIOUS
<1>1. CASE UNCHANGED vars
  BY <1>1, StutterStep
<1>2. CASE Quiescent
  BY <1>2, StutterStep DEF Quiescent
<1>3. CASE CacheAccept
  BY <1>3, CacheAcceptStep
<1>4. ASSUME NEW r \in Reqs, Request(r) \/ ProxyStep(r) PROVE IInv'
  <2>1. CASE ProxyQuiet(r)
    BY <2>1, ProxyQuietStep
  <2>2. CASE Connect(r)
    BY <2>2, ConnectStep
  <2>3. CASE TakeSegment(r)
    BY <2>3, TakeSegmentStep
  <2>4. CASE SendSegInfo(r)
    BY <2>4, SendSegInfoStep
  <2>5. CASE WaitReader(r)
    BY <2>5, WaitReaderStep
  <2>6. CASE Send(r)
    BY <2>6, SendStep
  <2>7. CASE PostWriter(r)
    BY <2>7, PostWriterStep
  <2>8. CASE ReleaseSegment(r)
    BY <2>8, ReleaseSegmentStep
  <2> QED
    BY <1>4, <2>1, <2>2, <2>3, <2>4, <2>5, <2>6, <2>7, <2>8 DEF ProxyStep, ProxyQuiet
<1>5. ASSUME NEW r \in Reqs, CacheStep(r) \/ ClientGone(r) \/ SpuriousWakeup(r)
      PROVE  IInv'
  <2>1. CASE CacheQuiet(r)
    BY <2>1, CacheQuietStep
  <2>2. CASE CacheMiss(r) \/ CacheReply(r)
    BY <2>2, ReplyStep
  <2>3. CASE CacheWaitWriter(r)
    BY <2>3, CacheWaitWriterStep
  <2>4. CASE CacheFill(r)
    BY <2>4, CacheFillStep
  <2>5. CASE CachePostReader(r)
    BY <2>5, CachePostReaderStep
  <2> QED
    BY <1>5, <2>1, <2>2, <2>3, <2>4, <2>5 DEF CacheStep, CacheQuiet
<1> QED
  BY <1>1, <1>2, <1>3, <1>4, <1>5 DEF Next

(***************************************************************************)
(* Two threads meet on one segment only if they hold the same one.         *)
(***************************************************************************)
LEMMA ExclusiveInv == IInv => SharedBufferExclusive
<1> SUFFICES ASSUME IInv PROVE SharedBufferExclusive
  OBVIOUS
<1>1. \A r \in Reqs : Writing(r) => Holds(r) /\ segInfo[r] = seg[r] /\ ~Reading(r)
  BY WriterAlone
<1>2. \A r \in Reqs : Reading(r) => Holds(r)
  BY DEF Reading, Holds, HoldsSegment
<1>3. \A r, q \in Reqs : r # q /\ Holds(r) => seg[r] # seg[q]
  BY DEF IInv, SegmentsAccounted
<1>4. ASSUME NEW r \in Reqs, NEW q \in Reqs, Writing(r), Reading(q)
      PROVE  segInfo[r] # seg[q]
  BY <1>1, <1>3, <1>4
<1> QED
  BY <1>1, <1>2, <1>3, <1>4 DEF SharedBufferExclusive

(***************************************************************************)
(* The gates.  A step of the program is a step of WorkerGate or leaves the *)
(* count and all phases as they are.  SignalChoice is pthread_cond_signal  *)
(* by cases, as both modules have it.                                      *)
(***************************************************************************)
SignalChoice(c, g, r, label, asleep, awake) ==
    \/ /\ \A q \in Reqs \ {r} : c[q] # asleep
       /\ g = [c EXCEPT ![r] = label]
    \/ \E q \in Reqs \ {r} : /\ c[q] = asleep
                             /\ g = [c EXCEPT ![r] = label, ![q] = awake]

LEMMA SignalCases ==
    ASSUME NEW c, NEW r, NEW label, NEW asleep, NEW awake,
           NEW g \in GotoSignalling(c, r, label, asleep, awake)
    PROVE  SignalChoice(c, g, r, label, asleep, awake)
<1> DEFINE sleepers == {q \in Reqs \ {r} : c[q] = asleep}
<1>1. CASE sleepers = {}
  BY <1>1 DEF GotoSignalling, SignalChoice
<1>2. CASE sleepers # {}
  <2>1. PICK q \in sleepers : g = [c EXCEPT ![r] = label, ![q] = awake]
    BY <1>2 DEF GotoSignalling
  <2> QED
    BY <2>1 DEF SignalChoice
<1> QED
  BY <1>1, <1>2

ProxyPhases == [q \in Reqs |-> ProxyPhase(pc[q])]

(* A thread that gives its place back, on either way out of the handler. *)
LEMMA ProxyGateLeaves ==
    ASSUME TypeOK, NEW r \in Reqs, MissRelease(r) \/ ReleaseWorker(r)
    PROVE  ProxyGate!Leave(r)
<1>1. PICK label \in {"miss_header", "done"} :
          SignalChoice(pc, pc', r, label, "gate_wait", "gate")
  BY SignalCases DEF MissRelease, ReleaseWorker
<1>2. ProxyPhase(pc[r]) = "working" /\ ProxyPhase(label) = "left"
  BY DEF MissRelease, ReleaseWorker, ProxyPhase
<1>3. pc \in [Reqs -> ProxyPCs]
  BY Types
<1>4. \A q \in Reqs : ProxyPhase(pc[q]) = "waiting" <=> pc[q] = "gate_wait"
  BY DEF ProxyPhase
<1> DEFINE left == [ProxyPhases EXCEPT ![r] = "left"]
<1>5. \A q \in Reqs : left[q] = "waiting" <=> (q # r /\ pc[q] = "gate_wait")
  BY <1>4 DEF ProxyPhases
<1>6. ASSUME \A q \in Reqs \ {r} : pc[q] # "gate_wait",
             pc' = [pc EXCEPT ![r] = label]
      PROVE  ProxyPhases' \in ProxyGate!Signal(left)
  <2>1. ProxyPhases' = left
    BY <1>2, <1>3, <1>6 DEF ProxyPhases
  <2>2. {q \in Reqs : left[q] = "waiting"} = {}
    BY <1>5, <1>6
  <2> QED
    BY <2>1, <2>2 DEF ProxyGate!Signal, ProxyGate!At
<1>7. ASSUME NEW q \in Reqs \ {r}, pc[q] = "gate_wait",
             pc' = [pc EXCEPT ![r] = label, ![q] = "gate"]
      PROVE  ProxyPhases' \in ProxyGate!Signal(left)
  <2>1. ProxyPhases' = [t \in Reqs |-> IF t = q THEN "entering" ELSE left[t]]
    BY <1>2, <1>3, <1>7 DEF ProxyPhases, ProxyPhase
  <2>2. q \in {t \in Reqs : left[t] = "waiting"}
    BY <1>5, <1>7
  <2> QED
    BY <2>1, <2>2 DEF ProxyGate!Signal, ProxyGate!At
<1>8. ProxyPhases' \in ProxyGate!Signal(left)
  BY <1>1, <1>6, <1>7 DEF SignalChoice
<1>9. workThreads' = workThreads - 1
  BY DEF MissRelease, ReleaseWorker
<1> QED
  BY <1>2, <1>8, <1>9 DEF ProxyGate!Leave, ProxyPhases

LEMMA ProxyGateInit == Init => ProxyGate!Init
BY DEF Init, ProxyGate!Init, ProxyPhase

(* A step that keeps the count and every thread's phase. *)
LEMMA ProxyGateStays ==
    ASSUME workThreads' = workThreads,
           \A q \in Reqs : ProxyPhase(pc'[q]) = ProxyPhase(pc[q])
    PROVE  UNCHANGED ProxyGate!vars
<1>1. ProxyPhases' = ProxyPhases
  BY DEF ProxyPhases
<1> QED
  BY <1>1 DEF ProxyPhases, ProxyGate!vars

LEMMA ProxyGateStep == IInv /\ [Next]_vars => [ProxyGate!Next]_(ProxyGate!vars)
<1> SUFFICES ASSUME IInv, [Next]_vars PROVE [ProxyGate!Next]_(ProxyGate!vars)
  OBVIOUS
<1>t. TypeOK /\ pc \in [Reqs -> ProxyPCs]
  BY Types DEF IInv
<1>1. CASE UNCHANGED <<pc, workThreads>>
  BY <1>1, ProxyGateStays
<1>2. ASSUME NEW r \in Reqs, pc[r] \in {"idle", "gate", "gate_wait"},
             Request(r) \/ PassGate(r) \/ WaitGate(r) \/ SpuriousWakeup(r)
      PROVE  [ProxyGate!Next]_(ProxyGate!vars)
  <2>1. CASE UNCHANGED <<pc, workThreads>>
    BY <1>1, <2>1
  <2>2. ASSUME NEW label, pc' = [pc EXCEPT ![r] = label]
        PROVE  /\ ProxyPhases' = [ProxyPhases EXCEPT ![r] = ProxyPhase(label)]
               /\ ProxyPhases[r] = ProxyPhase(pc[r])
    BY <1>t, <2>2 DEF ProxyPhases
  <2>4. CASE Request(r)
    <3>1. ProxyGate!Arrive(r)
      BY <1>t, <2>2, <2>4 DEF Request, Goto, gateVars, ProxyGate!Arrive, ProxyPhases, ProxyPhase
    <3> QED
      BY <3>1 DEF ProxyGate!Next
  <2>5. CASE PassGate(r)
    <3>1. ProxyGate!Admit(r)
      BY <1>t, <2>2, <2>5 DEF PassGate, Goto, ProxyGate!Admit, ProxyPhases, ProxyPhase
    <3> QED
      BY <3>1 DEF ProxyGate!Next, ProxyGate!Thread
  <2>6. CASE WaitGate(r)
    <3>1. ProxyGate!Sleep(r)
      BY <1>t, <2>2, <2>6 DEF WaitGate, Goto, gateVars, ProxyGate!Sleep, ProxyPhases, ProxyPhase
    <3> QED
      BY <3>1 DEF ProxyGate!Next, ProxyGate!Thread
  <2>7. CASE SpuriousWakeup(r) /\ pc[r] = "gate_wait" /\ pc' = [pc EXCEPT ![r] = "gate"]
    <3>1. ProxyGate!SpuriousWakeup(r)
      BY <1>t, <2>2, <2>7 DEF SpuriousWakeup, gateVars, ProxyGate!SpuriousWakeup, ProxyPhases, ProxyPhase
    <3> QED
      BY <3>1 DEF ProxyGate!Next
  <2>8. CASE SpuriousWakeup(r) /\ UNCHANGED pc
    BY <1>1, <2>8 DEF SpuriousWakeup, gateVars
  <2> QED
    BY <1>2, <2>4, <2>5, <2>6, <2>7, <2>8 DEF SpuriousWakeup, Goto
<1>3. ASSUME NEW r \in Reqs, MissRelease(r) \/ ReleaseWorker(r)
      PROVE  ProxyGate!Next
  BY <1>3, <1>t, ProxyGateLeaves DEF ProxyGate!Next, ProxyGate!Thread
<1>4. ASSUME NEW r \in Reqs, ReleaseSegment(r)
      PROVE  UNCHANGED ProxyGate!vars
  <2>1. SignalChoice(pc, pc', r, "release", "seg_wait", "seg_gate") /\ pc[r] = "loop"
    BY <1>4, SignalCases DEF ReleaseSegment
  <2>2. \A q \in Reqs : ProxyPhase(pc'[q]) = ProxyPhase(pc[q])
    BY <1>t, <2>1 DEF SignalChoice, ProxyPhase
  <2> QED
    BY <1>4, <2>2, ProxyGateStays DEF ReleaseSegment, gateVars
<1>5. ASSUME NEW r \in Reqs,
             \/ Connect(r) \/ SendPath(r) \/ Receive(r) \/ MissHeader(r) \/ TakeSegment(r)
             \/ WaitSegment(r) \/ SendHeader(r) \/ SendSegInfo(r) \/ WaitReader(r)
             \/ Send(r) \/ PostWriter(r)
      PROVE  UNCHANGED ProxyGate!vars
  <2> DEFINE inside == {"connect", "send_path", "receive", "miss_release", "seg_gate", "seg_wait",
                         "header", "send_seg", "loop", "send", "post", "release"}
  <2>1. ASSUME NEW q \in Reqs
        PROVE  \/ pc'[q] = pc[q]
               \/ {pc[q], pc'[q]} \subseteq inside
               \/ pc[q] = "miss_header" /\ pc'[q] = "done"
    BY <1>5, <1>t DEF Connect, SendPath, Receive, MissHeader, TakeSegment, WaitSegment,
                SendHeader, SendSegInfo, WaitReader, Send, PostWriter, Goto
  <2>2. \A q \in Reqs : ProxyPhase(pc'[q]) = ProxyPhase(pc[q])
    BY <2>1 DEF ProxyPhase
  <2>3. workThreads' = workThreads
    BY <1>5 DEF Connect, SendPath, Receive, MissHeader, TakeSegment, WaitSegment,
                SendHeader, SendSegInfo, WaitReader, Send, PostWriter, gateVars
  <2> QED
    BY <2>2, <2>3, ProxyGateStays
<1>6. ASSUME NEW r \in Reqs, SpuriousWakeup(r), pc[r] = "seg_wait"
      PROVE  [ProxyGate!Next]_(ProxyGate!vars)
  <2>1. workThreads' = workThreads /\ pc' \in {pc, [pc EXCEPT ![r] = "seg_gate"]}
    BY <1>6 DEF SpuriousWakeup, Goto, gateVars
  <2>2. \A q \in Reqs : ProxyPhase(pc'[q]) = ProxyPhase(pc[q])
    BY <1>6, <1>t, <2>1 DEF ProxyPhase
  <2> QED
    BY <2>1, <2>2, ProxyGateStays
<1>7. ASSUME NEW r \in Reqs, CacheStep(r) \/ ClientGone(r)
      PROVE  UNCHANGED <<pc, workThreads>>
  BY <1>7 DEF CacheStep, CacheSpawn, CachePassGate, CacheWaitGate, CacheMiss, CacheMissRelease,
      CacheSeekEnd, CacheRewind, CacheReply, CacheReadSeg, CacheWaitWriter, CacheFill,
      CachePostReader, CacheRelease, ClientGone, gateVars
<1>8. ASSUME NEW r \in Reqs, ProxyStep(r) \/ Request(r)
      PROVE  [ProxyGate!Next]_(ProxyGate!vars)
  <2>1. CASE Request(r) \/ PassGate(r) \/ WaitGate(r)
    BY <1>2, <2>1 DEF Request, PassGate, WaitGate
  <2> QED
    BY <1>3, <1>4, <1>5, <1>8, <2>1 DEF ProxyStep
<1>9. ASSUME NEW r \in Reqs, SpuriousWakeup(r)
      PROVE  [ProxyGate!Next]_(ProxyGate!vars)
  <2>1. CASE pc[r] \in {"gate_wait", "seg_wait"}
    BY <1>2, <1>6, <1>9, <2>1
  <2>2. CASE pc[r] \notin {"gate_wait", "seg_wait"}
    BY <1>1, <1>9, <2>2 DEF SpuriousWakeup, gateVars
  <2> QED
    BY <2>1, <2>2
<1>10. CASE CacheAccept \/ Quiescent \/ UNCHANGED vars
  BY <1>1, <1>10 DEF CacheAccept, Quiescent, vars, gateVars
<1> QED
  BY <1>1, <1>7, <1>8, <1>9, <1>10 DEF Next

(***************************************************************************)
(* The same for the cache's gate: a connection's thread arrives when main  *)
(* creates it, and leaves when it has closed the connection.               *)
(***************************************************************************)
CachePhases == [q \in Reqs |-> CachePhase(cpc[q])]

LEMMA CacheGateLeaves ==
    ASSUME TypeOK, NEW r \in Reqs, CacheMissRelease(r) \/ CacheRelease(r)
    PROVE  CacheGate!Leave(r)
<1>1. SignalChoice(cpc, cpc', r, "closed", "gate_wait", "gate")
  BY SignalCases DEF CacheMissRelease, CacheRelease
<1>2. CachePhase(cpc[r]) = "working" /\ CachePhase("closed") = "left"
  BY DEF CacheMissRelease, CacheRelease, CachePhase
<1>3. cpc \in [Reqs -> CachePCs]
  BY Types
<1>4. \A q \in Reqs : CachePhase(cpc[q]) = "waiting" <=> cpc[q] = "gate_wait"
  BY DEF CachePhase
<1> DEFINE left == [CachePhases EXCEPT ![r] = "left"]
<1>5. \A q \in Reqs : left[q] = "waiting" <=> (q # r /\ cpc[q] = "gate_wait")
  BY <1>4 DEF CachePhases
<1>6. ASSUME \A q \in Reqs \ {r} : cpc[q] # "gate_wait",
             cpc' = [cpc EXCEPT ![r] = "closed"]
      PROVE  CachePhases' \in CacheGate!Signal(left)
  <2>1. CachePhases' = left
    BY <1>2, <1>3, <1>6 DEF CachePhases
  <2>2. {q \in Reqs : left[q] = "waiting"} = {}
    BY <1>5, <1>6
  <2> QED
    BY <2>1, <2>2 DEF CacheGate!Signal, CacheGate!At
<1>7. ASSUME NEW q \in Reqs \ {r}, cpc[q] = "gate_wait",
             cpc' = [cpc EXCEPT ![r] = "closed", ![q] = "gate"]
      PROVE  CachePhases' \in CacheGate!Signal(left)
  <2>1. CachePhases' = [t \in Reqs |-> IF t = q THEN "entering" ELSE left[t]]
    BY <1>2, <1>3, <1>7 DEF CachePhases, CachePhase
  <2>2. q \in {t \in Reqs : left[t] = "waiting"}
    BY <1>5, <1>7
  <2> QED
    BY <2>1, <2>2 DEF CacheGate!Signal, CacheGate!At
<1>8. CachePhases' \in CacheGate!Signal(left)
  BY <1>1, <1>6, <1>7 DEF SignalChoice
<1>9. currentWorkers' = currentWorkers - 1
  BY DEF CacheMissRelease, CacheRelease
<1> QED
  BY <1>2, <1>8, <1>9 DEF CacheGate!Leave, CachePhases

LEMMA CacheGateInit == Init => CacheGate!Init
BY DEF Init, CacheGate!Init, CachePhase

LEMMA CacheGateStays ==
    ASSUME currentWorkers' = currentWorkers,
           \A q \in Reqs : CachePhase(cpc'[q]) = CachePhase(cpc[q])
    PROVE  UNCHANGED CacheGate!vars
<1>1. CachePhases' = CachePhases
  BY DEF CachePhases
<1> QED
  BY <1>1 DEF CachePhases, CacheGate!vars

(* A connection in the listen queue has no thread, so accept moves no phase. *)
LEMMA CacheGateStep == IInv /\ [Next]_vars => [CacheGate!Next]_(CacheGate!vars)
<1> SUFFICES ASSUME IInv, [Next]_vars PROVE [CacheGate!Next]_(CacheGate!vars)
  OBVIOUS
<1>t. TypeOK /\ cpc \in [Reqs -> CachePCs] /\ backlog \in Seq(Reqs)
  BY Types DEF IInv, TypeOK
<1>1. CASE UNCHANGED <<cpc, currentWorkers>>
  BY <1>1, CacheGateStays
<1>2. ASSUME NEW r \in Reqs, cpc[r] \in {"accepted", "gate", "gate_wait"},
             CacheSpawn(r) \/ CachePassGate(r) \/ CacheWaitGate(r) \/ SpuriousWakeup(r)
      PROVE  [CacheGate!Next]_(CacheGate!vars)
  <2>1. CASE UNCHANGED <<cpc, currentWorkers>>
    BY <1>1, <2>1
  <2>2. ASSUME NEW label, cpc' = [cpc EXCEPT ![r] = label]
        PROVE  /\ CachePhases' = [CachePhases EXCEPT ![r] = CachePhase(label)]
               /\ CachePhases[r] = CachePhase(cpc[r])
    BY <1>t, <2>2 DEF CachePhases
  <2>4. CASE CacheSpawn(r)
    <3>1. CacheGate!Arrive(r)
      BY <1>t, <2>2, <2>4 DEF CacheSpawn, CacheGoto, gateVars, CacheGate!Arrive, CachePhases, CachePhase
    <3> QED
      BY <3>1 DEF CacheGate!Next
  <2>5. CASE CachePassGate(r)
    <3>1. CacheGate!Admit(r)
      BY <1>t, <2>2, <2>5 DEF CachePassGate, CacheGoto, CacheGate!Admit, CachePhases, CachePhase
    <3> QED
      BY <3>1 DEF CacheGate!Next, CacheGate!Thread
  <2>6. CASE CacheWaitGate(r)
    <3>1. CacheGate!Sleep(r)
      BY <1>t, <2>2, <2>6 DEF CacheWaitGate, CacheGoto, gateVars, CacheGate!Sleep, CachePhases, CachePhase
    <3> QED
      BY <3>1 DEF CacheGate!Next, CacheGate!Thread
  <2>7. CASE SpuriousWakeup(r) /\ cpc[r] = "gate_wait" /\ cpc' = [cpc EXCEPT ![r] = "gate"]
    <3>1. CacheGate!SpuriousWakeup(r)
      BY <1>t, <2>2, <2>7 DEF SpuriousWakeup, gateVars, CacheGate!SpuriousWakeup, CachePhases, CachePhase
    <3> QED
      BY <3>1 DEF CacheGate!Next
  <2>8. CASE SpuriousWakeup(r) /\ UNCHANGED cpc
    BY <1>1, <2>8 DEF SpuriousWakeup, gateVars
  <2> QED
    BY <1>2, <2>4, <2>5, <2>6, <2>7, <2>8 DEF SpuriousWakeup, CacheGoto
<1>3. ASSUME NEW r \in Reqs, CacheMissRelease(r) \/ CacheRelease(r)
      PROVE  CacheGate!Next
  BY <1>3, <1>t, CacheGateLeaves DEF CacheGate!Next, CacheGate!Thread
<1>4. ASSUME NEW r \in Reqs,
             \/ CacheMiss(r) \/ CacheSeekEnd(r) \/ CacheRewind(r) \/ CacheReply(r)
             \/ CacheReadSeg(r) \/ CacheWaitWriter(r) \/ CacheFill(r) \/ CachePostReader(r)
      PROVE  UNCHANGED CacheGate!vars
  <2> DEFINE inside == {"lookup", "miss_release", "rewind", "reply", "read_seg", "loop", "fill",
                         "post"}
  <2>1. ASSUME NEW q \in Reqs
        PROVE  cpc'[q] = cpc[q] \/ {cpc[q], cpc'[q]} \subseteq inside
    BY <1>4, <1>t DEF CacheMiss, CacheSeekEnd, CacheRewind, CacheReply, CacheReadSeg,
                CacheWaitWriter, CacheFill, CachePostReader, CacheGoto
  <2>2. \A q \in Reqs : CachePhase(cpc'[q]) = CachePhase(cpc[q])
    BY <2>1 DEF CachePhase
  <2>3. currentWorkers' = currentWorkers
    BY <1>4 DEF CacheMiss, CacheSeekEnd, CacheRewind, CacheReply, CacheReadSeg,
                CacheWaitWriter, CacheFill, CachePostReader, gateVars
  <2> QED
    BY <2>2, <2>3, CacheGateStays
<1>5. ASSUME NEW r \in Reqs, Connect(r)
      PROVE  UNCHANGED CacheGate!vars
  <2>1. cpc[r] = "none" /\ cpc' = [cpc EXCEPT ![r] = "queued"]
    BY <1>5 DEF IInv, Session, Handshake, Connect, CacheGoto
  <2>2. \A q \in Reqs : CachePhase(cpc'[q]) = CachePhase(cpc[q])
    BY <1>t, <2>1 DEF CachePhase
  <2> QED
    BY <1>5, <2>2, CacheGateStays DEF Connect, gateVars
<1>6. CASE CacheAccept
  <2>1. Head(backlog) \in Reqs /\ cpc[Head(backlog)] = "queued"
    BY <1>6, <1>t DEF CacheAccept, IInv, BacklogQueued
  <2>2. \A q \in Reqs : CachePhase(cpc'[q]) = CachePhase(cpc[q])
    BY <1>6, <1>t, <2>1 DEF CacheAccept, CacheGoto, CachePhase
  <2> QED
    BY <1>6, <2>2, CacheGateStays DEF CacheAccept, gateVars
<1>7. ASSUME NEW r \in Reqs, ProxyStep(r) \/ Request(r) \/ ClientGone(r), ~Connect(r)
      PROVE  UNCHANGED <<cpc, currentWorkers>>
  BY <1>7 DEF ProxyStep, Request, ClientGone, PassGate, WaitGate, SendPath, Receive, MissRelease,
      MissHeader, TakeSegment, WaitSegment, SendHeader, SendSegInfo, WaitReader, Send,
      PostWriter, ReleaseSegment, ReleaseWorker, gateVars
<1>8. ASSUME NEW r \in Reqs, ProxyStep(r) \/ Request(r) \/ ClientGone(r)
      PROVE  [CacheGate!Next]_(CacheGate!vars)
  BY <1>1, <1>5, <1>7, <1>8
<1>9. ASSUME NEW r \in Reqs, CacheStep(r)
      PROVE  [CacheGate!Next]_(CacheGate!vars)
  <2>1. CASE CacheSpawn(r) \/ CachePassGate(r) \/ CacheWaitGate(r)
    BY <1>2, <2>1 DEF CacheSpawn, CachePassGate, CacheWaitGate
  <2> QED
    BY <1>3, <1>4, <1>9, <2>1 DEF CacheStep
<1>10. ASSUME NEW r \in Reqs, SpuriousWakeup(r)
      PROVE  [CacheGate!Next]_(CacheGate!vars)
  <2>1. CASE cpc[r] = "gate_wait"
    BY <1>2, <1>10, <2>1
  <2>2. CASE cpc[r] # "gate_wait"
    BY <1>1, <1>10, <2>2 DEF SpuriousWakeup, gateVars
  <2> QED
    BY <2>1, <2>2
<1>11. CASE Quiescent \/ UNCHANGED vars
  BY <1>1, <1>11 DEF Quiescent, vars, gateVars
<1> QED
  BY <1>6, <1>8, <1>9, <1>10, <1>11 DEF Next

(***************************************************************************)
(* The pool as a gate: a request that found its file arrives with the      *)
(* cache's answer, is in while it holds a segment, and leaves with the     *)
(* segment.  One that found no file never comes to it.                     *)
(***************************************************************************)
SegmentPhases == [q \in Reqs |-> SegmentPhase(q)]

LEMMA SegmentGateInit == Init => SegmentGate!Init
<1> SUFFICES ASSUME Init PROVE SegmentGate!Init
  OBVIOUS
<1>1. \A q \in Reqs : SegmentPhase(q) = "out"
  BY DEF Init, SegmentPhase, Holds, HoldsSegment
<1>2. NSeg - segFree = 0
  BY CacheAssumption DEF Init
<1> QED
  BY <1>1, <1>2 DEF SegmentGate!Init

LEMMA SegmentGateStays ==
    ASSUME segFree' = segFree,
           \A q \in Reqs : SegmentPhase(q)' = SegmentPhase(q)
    PROVE  UNCHANGED SegmentGate!vars
<1>1. SegmentPhases' = SegmentPhases
  BY DEF SegmentPhases
<1> QED
  BY <1>1 DEF SegmentPhases, SegmentGate!vars

LEMMA SegmentGateLeaves ==
    ASSUME IInv, NEW r \in Reqs, ReleaseSegment(r)
    PROVE  SegmentGate!Leave(r)
<1>1. SignalChoice(pc, pc', r, "release", "seg_wait", "seg_gate")
  BY SignalCases DEF ReleaseSegment
<1>2. pc[r] = "loop" /\ reply' = reply /\ reply[r] = "OK"
  BY DEF ReleaseSegment, sockVars, IInv, Session, Handshake, HoldsSegment
<1>3. pc \in [Reqs -> ProxyPCs]
  BY Types DEF IInv
<1>4. SegmentPhase(r) = "working"
  BY <1>2 DEF SegmentPhase, Holds, HoldsSegment
<1> DEFINE left == [SegmentPhases EXCEPT ![r] = "left"]
<1>5. \A q \in Reqs : left[q] = "waiting" <=> (q # r /\ pc[q] = "seg_wait")
  BY <1>4 DEF SegmentPhases, SegmentPhase, Holds, HoldsSegment
<1>6. \A q \in Reqs : pc'[q] = pc[q] => SegmentPhase(q)' = SegmentPhase(q)
  BY <1>2 DEF SegmentPhase, Holds
<1>7. pc'[r] = "release" => SegmentPhase(r)' = "left"
  BY <1>2 DEF SegmentPhase, Holds, HoldsSegment
<1>8. ASSUME \A q \in Reqs \ {r} : pc[q] # "seg_wait",
             pc' = [pc EXCEPT ![r] = "release"]
      PROVE  SegmentPhases' \in SegmentGate!Signal(left)
  <2>1. SegmentPhases' = left
    BY <1>3, <1>6, <1>7, <1>8 DEF SegmentPhases
  <2>2. {q \in Reqs : left[q] = "waiting"} = {}
    BY <1>5, <1>8
  <2> QED
    BY <2>1, <2>2 DEF SegmentGate!Signal, SegmentGate!At
<1>9. ASSUME NEW q \in Reqs \ {r}, pc[q] = "seg_wait",
             pc' = [pc EXCEPT ![r] = "release", ![q] = "seg_gate"]
      PROVE  SegmentPhases' \in SegmentGate!Signal(left)
  <2>1. pc'[q] = "seg_gate" /\ pc'[r] = "release"
    BY <1>3, <1>9
  <2>2. SegmentPhase(q)' = "entering"
    BY <2>1 DEF SegmentPhase, Holds, HoldsSegment
  <2>3. SegmentPhases' = [t \in Reqs |-> IF t = q THEN "entering" ELSE left[t]]
    BY <1>3, <1>6, <1>7, <1>9, <2>1, <2>2 DEF SegmentPhases
  <2>4. q \in {t \in Reqs : left[t] = "waiting"}
    BY <1>5, <1>9
  <2> QED
    BY <2>3, <2>4 DEF SegmentGate!Signal, SegmentGate!At
<1>10. SegmentPhases' \in SegmentGate!Signal(left)
  BY <1>1, <1>8, <1>9 DEF SignalChoice
<1>11. (NSeg - segFree)' = (NSeg - segFree) - 1
  BY CacheAssumption, Types DEF ReleaseSegment, IInv
<1> QED
  BY <1>4, <1>10, <1>11 DEF SegmentGate!Leave, SegmentPhases

LEMMA SegmentGateStep == IInv /\ [Next]_vars => [SegmentGate!Next]_(SegmentGate!vars)
<1> SUFFICES ASSUME IInv, [Next]_vars PROVE [SegmentGate!Next]_(SegmentGate!vars)
  OBVIOUS
<1>t. /\ pc \in [Reqs -> ProxyPCs] /\ cpc \in [Reqs -> CachePCs]
      /\ reply \in [Reqs -> {"none", "OK", "FILE_NOT_FOUND"}]
      /\ segFree \in 0 .. NSeg /\ NSeg \in Nat
  BY Types, CacheAssumption DEF IInv
<1>h. \A q \in Reqs : Handshake(q)
  BY DEF IInv, Session
<1>1. CASE UNCHANGED <<pc, reply, segFree>>
  <2>1. \A q \in Reqs : SegmentPhase(q)' = SegmentPhase(q)
    BY <1>1 DEF SegmentPhase, Holds
  <2> QED
    BY <1>1, <2>1, SegmentGateStays
<1>2. ASSUME NEW r \in Reqs, NEW label, pc' = [pc EXCEPT ![r] = label], reply' = reply
      PROVE  /\ SegmentPhases' = [SegmentPhases EXCEPT ![r] = SegmentPhase(r)']
             /\ SegmentPhases[r] = SegmentPhase(r)
             /\ pc'[r] = label
  <2>1. \A q \in Reqs \ {r} : SegmentPhase(q)' = SegmentPhase(q)
    BY <1>t, <1>2 DEF SegmentPhase, Holds
  <2> QED
    BY <1>t, <1>2, <2>1 DEF SegmentPhases
<1>3. ASSUME NEW r \in Reqs, NEW label, pc' = [pc EXCEPT ![r] = label], reply' = reply,
             segFree' = segFree, SegmentPhase(r)' = SegmentPhase(r)
      PROVE  UNCHANGED SegmentGate!vars
  BY <1>t, <1>3, SegmentGateStays DEF SegmentPhase, Holds
<1>4. ASSUME NEW r \in Reqs, Receive(r)
      PROVE  [SegmentGate!Next]_(SegmentGate!vars)
  <2>1. CASE reply[r] = "FILE_NOT_FOUND"
    BY <1>t, <1>2, <1>3, <1>4, <2>1
    DEF Receive, Goto, poolVars, sockVars, SegmentPhase, Holds, HoldsSegment
  <2>2. CASE reply[r] # "FILE_NOT_FOUND"
    <3>1. pc' = [pc EXCEPT ![r] = "seg_gate"] /\ reply' = reply /\ segFree' = segFree
      BY <1>4, <2>2 DEF Receive, Goto, poolVars, sockVars
    <3>2. SegmentPhase(r) = "out" /\ SegmentPhase(r)' = "entering"
      BY <1>t, <1>4, <3>1 DEF Receive, SegmentPhase, Holds, HoldsSegment
    <3>3. SegmentGate!Arrive(r)
      BY <1>2, <3>1, <3>2 DEF SegmentGate!Arrive, SegmentPhases
    <3> QED
      BY <3>3 DEF SegmentGate!Next
  <2> QED
    BY <2>1, <2>2
<1>5. ASSUME NEW r \in Reqs, TakeSegment(r)
      PROVE  SegmentGate!Next
  <2>1. pc' = [pc EXCEPT ![r] = "header"] /\ reply' = reply /\ segFree' = segFree - 1
        /\ pc[r] = "seg_gate" /\ segFree >= 1
    BY <1>5 DEF TakeSegment, Goto, sockVars
  <2>2. SegmentPhase(r) = "entering" /\ SegmentPhase(r)' = "working"
    BY <1>t, <2>1 DEF SegmentPhase, Holds, HoldsSegment
  <2>3. NSeg - segFree < NSeg /\ (NSeg - segFree)' = (NSeg - segFree) + 1
    BY <1>t, <2>1
  <2>4. SegmentGate!Admit(r)
    BY <1>2, <2>1, <2>2, <2>3 DEF SegmentGate!Admit, SegmentPhases
  <2> QED
    BY <2>4 DEF SegmentGate!Next, SegmentGate!Thread
<1>6. ASSUME NEW r \in Reqs, WaitSegment(r)
      PROVE  SegmentGate!Next
  <2>1. pc' = [pc EXCEPT ![r] = "seg_wait"] /\ reply' = reply /\ segFree' = segFree
        /\ pc[r] = "seg_gate" /\ segFree < 1
    BY <1>6 DEF WaitSegment, Goto, sockVars, poolVars
  <2>2. SegmentPhase(r) = "entering" /\ SegmentPhase(r)' = "waiting"
    BY <1>t, <2>1 DEF SegmentPhase, Holds, HoldsSegment
  <2>3. NSeg - segFree >= NSeg /\ (NSeg - segFree)' = (NSeg - segFree)
    BY <1>t, <2>1
  <2>4. SegmentGate!Sleep(r)
    BY <1>2, <2>1, <2>2, <2>3 DEF SegmentGate!Sleep, SegmentPhases
  <2> QED
    BY <2>4 DEF SegmentGate!Next, SegmentGate!Thread
<1>7. ASSUME NEW r \in Reqs, ReleaseSegment(r)
      PROVE  SegmentGate!Next
  BY <1>7, SegmentGateLeaves DEF SegmentGate!Next, SegmentGate!Thread
<1>8. ASSUME NEW r \in Reqs, MissRelease(r) \/ ReleaseWorker(r)
      PROVE  UNCHANGED SegmentGate!vars
  <2>1. PICK label : /\ SignalChoice(pc, pc', r, label, "gate_wait", "gate")
                     /\ \/ pc[r] = "miss_release" /\ label = "miss_header"
                        \/ pc[r] = "release" /\ label = "done"
    BY <1>8, SignalCases DEF MissRelease, ReleaseWorker
  <2>2. segFree' = segFree /\ reply' = reply
    BY <1>8 DEF MissRelease, ReleaseWorker, poolVars, sockVars
  <2>3. \A q \in Reqs : \/ pc'[q] = pc[q]
                        \/ pc[q] = "gate_wait" /\ pc'[q] = "gate"
                        \/ pc[q] = "miss_release" /\ pc'[q] = "miss_header"
                        \/ pc[q] = "release" /\ pc'[q] = "done"
    BY <1>t, <2>1 DEF SignalChoice
  <2>4. \A q \in Reqs : SegmentPhase(q)' = SegmentPhase(q)
    BY <2>2, <2>3 DEF SegmentPhase, Holds, HoldsSegment
  <2> QED
    BY <2>2, <2>4, SegmentGateStays
<1>9. ASSUME NEW r \in Reqs,
             \/ Request(r) \/ PassGate(r) \/ WaitGate(r) \/ Connect(r) \/ SendPath(r)
             \/ MissHeader(r) \/ SendHeader(r) \/ SendSegInfo(r) \/ WaitReader(r)
             \/ Send(r) \/ PostWriter(r)
      PROVE  UNCHANGED SegmentGate!vars
  <2>1. segFree' = segFree /\ reply' = reply
    BY <1>9 DEF Request, PassGate, WaitGate, Connect, SendPath, MissHeader, SendHeader,
                SendSegInfo, WaitReader, Send, PostWriter, poolVars, sockVars
  <2>2. PICK label : /\ pc' = [pc EXCEPT ![r] = label]
                     /\ \/ pc[r] = "miss_header" /\ label = "done"
                        \/ pc[r] \in HoldsSegment /\ label \in HoldsSegment
                        \/ /\ {pc[r], label} \subseteq
                                  {"idle", "gate", "gate_wait", "connect", "send_path", "receive"}
    BY <1>9 DEF Request, PassGate, WaitGate, Connect, SendPath, MissHeader, SendHeader,
                SendSegInfo, WaitReader, Send, PostWriter, Goto, HoldsSegment
  <2>3. pc[r] = "miss_header" => reply[r] = "FILE_NOT_FOUND"
    BY <1>h DEF Handshake
  <2>4. SegmentPhase(r)' = SegmentPhase(r)
    BY <1>2, <2>1, <2>2, <2>3 DEF SegmentPhase, Holds, HoldsSegment
  <2> QED
    BY <1>3, <2>1, <2>2, <2>4
<1>10. ASSUME NEW r \in Reqs, CacheMiss(r) \/ CacheReply(r)
       PROVE  UNCHANGED SegmentGate!vars
  <2>1. PICK status : reply' = [reply EXCEPT ![r] = status]
    BY <1>10 DEF CacheMiss, CacheReply
  <2>2. pc' = pc /\ segFree' = segFree
    BY <1>10 DEF CacheMiss, CacheReply, poolVars
  <2>3. pc[r] \notin {"release", "done"}
    BY <1>10, <1>h DEF CacheMiss, CacheReply, Handshake
  <2>4. \A q \in Reqs : SegmentPhase(q)' = SegmentPhase(q)
    BY <1>t, <2>1, <2>2, <2>3 DEF SegmentPhase, Holds
  <2> QED
    BY <2>2, <2>4, SegmentGateStays
<1>11. ASSUME NEW r \in Reqs,
              ClientGone(r) \/ (CacheStep(r) /\ ~CacheMiss(r) /\ ~CacheReply(r))
       PROVE  UNCHANGED <<pc, reply, segFree>>
  BY <1>11 DEF CacheStep, ClientGone, CacheSpawn, CachePassGate, CacheWaitGate, CacheMissRelease,
      CacheSeekEnd, CacheRewind, CacheReadSeg, CacheWaitWriter, CacheFill, CachePostReader,
      CacheRelease, poolVars, sockVars
<1>12. ASSUME NEW r \in Reqs, SpuriousWakeup(r)
       PROVE  [SegmentGate!Next]_(SegmentGate!vars)
  <2>1. segFree' = segFree /\ reply' = reply
    BY <1>12 DEF SpuriousWakeup, poolVars, sockVars
  <2>2. CASE pc[r] = "seg_wait" /\ pc' = [pc EXCEPT ![r] = "seg_gate"]
    <3>1. SegmentPhase(r) = "waiting" /\ SegmentPhase(r)' = "entering"
      BY <1>t, <2>2 DEF SegmentPhase, Holds, HoldsSegment
    <3>2. SegmentGate!SpuriousWakeup(r)
      BY <1>2, <2>1, <2>2, <3>1 DEF SegmentGate!SpuriousWakeup, SegmentPhases
    <3> QED
      BY <3>2 DEF SegmentGate!Next
  <2>3. CASE pc[r] = "gate_wait" /\ pc' = [pc EXCEPT ![r] = "gate"]
    <3>1. SegmentPhase(r)' = SegmentPhase(r)
      BY <1>t, <2>3 DEF SegmentPhase, Holds, HoldsSegment
    <3> QED
      BY <1>3, <2>1, <2>3, <3>1
  <2> QED
    BY <1>1, <1>12, <2>1, <2>2, <2>3 DEF SpuriousWakeup, Goto
<1>13. CASE CacheAccept \/ Quiescent \/ UNCHANGED vars
  BY <1>1, <1>13 DEF CacheAccept, Quiescent, vars, poolVars, sockVars
<1>14. ASSUME NEW r \in Reqs, ProxyStep(r) \/ Request(r)
       PROVE  [SegmentGate!Next]_(SegmentGate!vars)
  BY <1>4, <1>5, <1>6, <1>7, <1>8, <1>9, <1>14 DEF ProxyStep
<1>15. ASSUME NEW r \in Reqs, CacheStep(r) \/ ClientGone(r)
       PROVE  [SegmentGate!Next]_(SegmentGate!vars)
  BY <1>1, <1>10, <1>11, <1>15
<1> QED
  BY <1>12, <1>13, <1>14, <1>15 DEF Next

(***************************************************************************)
(* The results, for every instance and every reachable state.              *)
(***************************************************************************)

(* The strengthened invariant holds in every reachable state. *)
THEOREM ProxyCacheInductive == Spec => []IInv
BY InitInv, NextInv, PTL DEF Spec

(* Type correctness: the counts stay in range, the semaphores are binary   *)
(* (neither is ever posted twice in a row), and no read moves a file's     *)
(* shared offset past its end, however many threads read that file.        *)
THEOREM ProxyCacheTypeCorrect == Spec => []TypeOK
<1>1. IInv => TypeOK
  BY DEF IInv
<1> QED
  BY <1>1, ProxyCacheInductive, PTL

(* ptr_status and the threads agree on which segment is whose: the scan    *)
(* never runs off the array and no segment is given to two threads.        *)
THEOREM PoolConsistent == Spec => []SegmentsAccounted
<1>1. IInv => SegmentsAccounted
  BY DEF IInv
<1> QED
  BY <1>1, ProxyCacheInductive, PTL

(* The two semaphores exclude the writer and the reader of a segment.      *)
THEOREM BufferExclusive == Spec => []SharedBufferExclusive
BY ExclusiveInv, ProxyCacheInductive, PTL

(* A segment is back in its initial state whenever it is free, whatever    *)
(* the file and the chunk size were, even when the client went away.       *)
THEOREM PoolReset == Spec => []FreeSegmentIsReset
<1>1. IInv => FreeSegmentIsReset
  BY DEF IInv
<1> QED
  BY <1>1, ProxyCacheInductive, PTL

(* No client ever gets a byte of a file it did not ask for.                *)
THEOREM NoForeignBytes == Spec => []OwnFileOnly
<1>1. IInv => OwnFileOnly
  BY DEF IInv
<1> QED
  BY <1>1, ProxyCacheInductive, PTL

(* The two loops of every session stay in step.                            *)
THEOREM SessionsInStep == Spec => []LoopsInStep
<1>1. IInv => LoopsInStep
  BY DEF IInv, Session, LoopsInStep
<1> QED
  BY <1>1, ProxyCacheInductive, PTL

(***************************************************************************)
(* The gate of handle_with_cache.c implements WorkerGate on every path     *)
(* through the handler: a thread is counted exactly between the two        *)
(* critical sections, and each departure wakes a sleeper.                  *)
(***************************************************************************)
THEOREM ProxyGateImplemented == Spec => ProxyGateSpec
<1>1. Init => ProxyGate!Init
  BY ProxyGateInit
<1>2. IInv /\ [Next]_vars => [ProxyGate!Next]_(ProxyGate!vars)
  BY ProxyGateStep
<1> QED
  BY <1>1, <1>2, ProxyCacheInductive, PTL DEF Spec, ProxyGateSpec, ProxyGate!Spec

(* So does the gate of simplecached.c.                                     *)
THEOREM CacheGateImplemented == Spec => CacheGateSpec
<1>1. Init => CacheGate!Init
  BY CacheGateInit
<1>2. IInv /\ [Next]_vars => [CacheGate!Next]_(CacheGate!vars)
  BY CacheGateStep
<1> QED
  BY <1>1, <1>2, ProxyCacheInductive, PTL DEF Spec, CacheGateSpec, CacheGate!Spec

(* And the pool of segments is a gate for NSeg threads: what it counts is  *)
(* the segments in use, and one that comes back wakes a sleeper.           *)
THEOREM SegmentGateImplemented == Spec => SegmentGateSpec
<1>1. Init => SegmentGate!Init
  BY SegmentGateInit
<1>2. IInv /\ [Next]_vars => [SegmentGate!Next]_(SegmentGate!vars)
  BY SegmentGateStep
<1> QED
  BY <1>1, <1>2, ProxyCacheInductive, PTL DEF Spec, SegmentGateSpec, SegmentGate!Spec

-------------------------------------------------------------------------------
(***************************************************************************)
(* Hence what WorkerGateProofs says of any gate holds of the three: the    *)
(* counts are exact and within their limits, and nobody sleeps while a     *)
(* free place has nobody on the way to it.                                 *)
(***************************************************************************)
ProxyGateProofs == INSTANCE WorkerGateProofs WITH
    Threads <- Reqs, Limit <- NThread,
    count <- workThreads, gate <- [r \in Reqs |-> ProxyPhase(pc[r])]
CacheGateProofs == INSTANCE WorkerGateProofs WITH
    Threads <- Reqs, Limit <- MaxThreads,
    count <- currentWorkers, gate <- [r \in Reqs |-> CachePhase(cpc[r])]
SegmentGateProofs == INSTANCE WorkerGateProofs WITH
    Threads <- Reqs, Limit <- NSeg,
    count <- NSeg - segFree, gate <- [r \in Reqs |-> SegmentPhase(r)]

(* The two instances of the module say the same of it. *)
LEMMA ProxyGateSame ==
    /\ ProxyGate!Init => ProxyGateProofs!Init
    /\ [ProxyGate!Next]_(ProxyGate!vars) => [ProxyGateProofs!Next]_(ProxyGateProofs!vars)
    /\ ProxyGateProofs!GateBound <=> ProxyGate!GateBound
    /\ ProxyGateProofs!NoLostWakeup <=> ProxyGate!NoLostWakeup
<1>1. ProxyGate!Init => ProxyGateProofs!Init
  BY DEF ProxyGate!Init, ProxyGateProofs!Init
<1>2. [ProxyGate!Next]_(ProxyGate!vars) => [ProxyGateProofs!Next]_(ProxyGateProofs!vars)
  BY DEF ProxyGate!Next, ProxyGateProofs!Next, ProxyGate!Thread, ProxyGateProofs!Thread,
         ProxyGate!Arrive, ProxyGateProofs!Arrive, ProxyGate!Admit, ProxyGateProofs!Admit,
         ProxyGate!Sleep, ProxyGateProofs!Sleep, ProxyGate!Leave, ProxyGateProofs!Leave,
         ProxyGate!SpuriousWakeup, ProxyGateProofs!SpuriousWakeup, ProxyGate!Quiescent,
         ProxyGateProofs!Quiescent, ProxyGate!Signal, ProxyGateProofs!Signal, ProxyGate!At,
         ProxyGateProofs!At, ProxyGate!vars, ProxyGateProofs!vars
<1>3. ProxyGateProofs!GateBound <=> ProxyGate!GateBound
  BY DEF ProxyGate!GateBound, ProxyGateProofs!GateBound, ProxyGate!Working,
         ProxyGateProofs!Working, ProxyGate!At, ProxyGateProofs!At,
         ProxyGateProofs!Cardinality, ProxyGate!Cardinality
<1>4. ProxyGateProofs!NoLostWakeup <=> ProxyGate!NoLostWakeup
  BY DEF ProxyGate!NoLostWakeup, ProxyGateProofs!NoLostWakeup, ProxyGate!Waiting,
         ProxyGateProofs!Waiting, ProxyGate!Entering, ProxyGateProofs!Entering,
         ProxyGate!At, ProxyGateProofs!At, ProxyGateProofs!Cardinality,
         ProxyGate!Cardinality
<1> QED
  BY <1>1, <1>2, <1>3, <1>4

(* The gate of handle_with_cache.c:33-40. *)
THEOREM ProxyGateSound == Spec => [](ProxyGate!GateBound /\ ProxyGate!NoLostWakeup)
<1>1. ProxyGateSpec => ProxyGateProofs!Spec
  BY ProxyGateSame, PTL DEF ProxyGateSpec, ProxyGate!Spec, ProxyGateProofs!Spec
<1>2. /\ ProxyGateProofs!Spec => []ProxyGateProofs!GateBound
      /\ ProxyGateProofs!Spec => []ProxyGateProofs!NoLostWakeup
  BY CacheAssumption, ProxyGateProofs!GateBounded, ProxyGateProofs!GateWakeups
  DEF ProxyGateProofs!IsFiniteSet, IsFiniteSet
<1>3. ProxyGateProofs!GateBound /\ ProxyGateProofs!NoLostWakeup =>
          ProxyGate!GateBound /\ ProxyGate!NoLostWakeup
  BY ProxyGateSame
<1> QED
  BY <1>1, <1>2, <1>3, ProxyGateImplemented, PTL

(* The two instances of the module say the same of it. *)
LEMMA CacheGateSame ==
    /\ CacheGate!Init => CacheGateProofs!Init
    /\ [CacheGate!Next]_(CacheGate!vars) => [CacheGateProofs!Next]_(CacheGateProofs!vars)
    /\ CacheGateProofs!GateBound <=> CacheGate!GateBound
    /\ CacheGateProofs!NoLostWakeup <=> CacheGate!NoLostWakeup
<1>1. CacheGate!Init => CacheGateProofs!Init
  BY DEF CacheGate!Init, CacheGateProofs!Init
<1>2. [CacheGate!Next]_(CacheGate!vars) => [CacheGateProofs!Next]_(CacheGateProofs!vars)
  BY DEF CacheGate!Next, CacheGateProofs!Next, CacheGate!Thread, CacheGateProofs!Thread,
         CacheGate!Arrive, CacheGateProofs!Arrive, CacheGate!Admit, CacheGateProofs!Admit,
         CacheGate!Sleep, CacheGateProofs!Sleep, CacheGate!Leave, CacheGateProofs!Leave,
         CacheGate!SpuriousWakeup, CacheGateProofs!SpuriousWakeup, CacheGate!Quiescent,
         CacheGateProofs!Quiescent, CacheGate!Signal, CacheGateProofs!Signal, CacheGate!At,
         CacheGateProofs!At, CacheGate!vars, CacheGateProofs!vars
<1>3. CacheGateProofs!GateBound <=> CacheGate!GateBound
  BY DEF CacheGate!GateBound, CacheGateProofs!GateBound, CacheGate!Working,
         CacheGateProofs!Working, CacheGate!At, CacheGateProofs!At,
         CacheGateProofs!Cardinality, CacheGate!Cardinality
<1>4. CacheGateProofs!NoLostWakeup <=> CacheGate!NoLostWakeup
  BY DEF CacheGate!NoLostWakeup, CacheGateProofs!NoLostWakeup, CacheGate!Waiting,
         CacheGateProofs!Waiting, CacheGate!Entering, CacheGateProofs!Entering,
         CacheGate!At, CacheGateProofs!At, CacheGateProofs!Cardinality,
         CacheGate!Cardinality
<1> QED
  BY <1>1, <1>2, <1>3, <1>4

(* The gate of simplecached.c. *)
THEOREM CacheGateSound == Spec => [](CacheGate!GateBound /\ CacheGate!NoLostWakeup)
<1>1. CacheGateSpec => CacheGateProofs!Spec
  BY CacheGateSame, PTL DEF CacheGateSpec, CacheGate!Spec, CacheGateProofs!Spec
<1>2. /\ CacheGateProofs!Spec => []CacheGateProofs!GateBound
      /\ CacheGateProofs!Spec => []CacheGateProofs!NoLostWakeup
  BY CacheAssumption, CacheGateProofs!GateBounded, CacheGateProofs!GateWakeups
  DEF CacheGateProofs!IsFiniteSet, IsFiniteSet
<1>3. CacheGateProofs!GateBound /\ CacheGateProofs!NoLostWakeup =>
          CacheGate!GateBound /\ CacheGate!NoLostWakeup
  BY CacheGateSame
<1> QED
  BY <1>1, <1>2, <1>3, CacheGateImplemented, PTL

(* The two instances of the module say the same of it. *)
LEMMA SegmentGateSame ==
    /\ SegmentGate!Init => SegmentGateProofs!Init
    /\ [SegmentGate!Next]_(SegmentGate!vars) => [SegmentGateProofs!Next]_(SegmentGateProofs!vars)
    /\ SegmentGateProofs!GateBound <=> SegmentGate!GateBound
    /\ SegmentGateProofs!NoLostWakeup <=> SegmentGate!NoLostWakeup
<1>1. SegmentGate!Init => SegmentGateProofs!Init
  BY DEF SegmentGate!Init, SegmentGateProofs!Init
<1>2. [SegmentGate!Next]_(SegmentGate!vars) => [SegmentGateProofs!Next]_(SegmentGateProofs!vars)
  BY DEF SegmentGate!Next, SegmentGateProofs!Next, SegmentGate!Thread,
         SegmentGateProofs!Thread, SegmentGate!Arrive, SegmentGateProofs!Arrive,
         SegmentGate!Admit, SegmentGateProofs!Admit, SegmentGate!Sleep,
         SegmentGateProofs!Sleep, SegmentGate!Leave, SegmentGateProofs!Leave,
         SegmentGate!SpuriousWakeup, SegmentGateProofs!SpuriousWakeup,
         SegmentGate!Quiescent, SegmentGateProofs!Quiescent, SegmentGate!Signal,
         SegmentGateProofs!Signal, SegmentGate!At, SegmentGateProofs!At, SegmentGate!vars,
         SegmentGateProofs!vars
<1>3. SegmentGateProofs!GateBound <=> SegmentGate!GateBound
  BY DEF SegmentGate!GateBound, SegmentGateProofs!GateBound, SegmentGate!Working,
         SegmentGateProofs!Working, SegmentGate!At, SegmentGateProofs!At,
         SegmentGateProofs!Cardinality, SegmentGate!Cardinality
<1>4. SegmentGateProofs!NoLostWakeup <=> SegmentGate!NoLostWakeup
  BY DEF SegmentGate!NoLostWakeup, SegmentGateProofs!NoLostWakeup, SegmentGate!Waiting,
         SegmentGateProofs!Waiting, SegmentGate!Entering, SegmentGateProofs!Entering,
         SegmentGate!At, SegmentGateProofs!At, SegmentGateProofs!Cardinality,
         SegmentGate!Cardinality
<1> QED
  BY <1>1, <1>2, <1>3, <1>4

(* The pool of segments of handle_with_cache.c. *)
THEOREM SegmentGateSound == Spec => [](SegmentGate!GateBound /\ SegmentGate!NoLostWakeup)
<1>1. SegmentGateSpec => SegmentGateProofs!Spec
  BY SegmentGateSame, PTL DEF SegmentGateSpec, SegmentGate!Spec, SegmentGateProofs!Spec
<1>2. /\ SegmentGateProofs!Spec => []SegmentGateProofs!GateBound
      /\ SegmentGateProofs!Spec => []SegmentGateProofs!NoLostWakeup
  BY CacheAssumption, SegmentGateProofs!GateBounded, SegmentGateProofs!GateWakeups
  DEF SegmentGateProofs!IsFiniteSet, IsFiniteSet
<1>3. SegmentGateProofs!GateBound /\ SegmentGateProofs!NoLostWakeup =>
          SegmentGate!GateBound /\ SegmentGate!NoLostWakeup
  BY SegmentGateSame
<1> QED
  BY <1>1, <1>2, <1>3, SegmentGateImplemented, PTL

-------------------------------------------------------------------------------
(***************************************************************************)
(* What the clients of ProxyCache receive while no two threads of the      *)
(* cache are at the same file: its bytes in order, and the whole promise   *)
(* of FileService.  The cache keeps one descriptor for each key, so the    *)
(* condition is one the code needs: without it the offset of a descriptor  *)
(* belongs to two threads at once.                                         *)
(***************************************************************************)

(* The threads of the cache between its gate and the end of their loop. *)
AtFile(r) == cpc[r] \in {"lookup", "rewind", "reply", "read_seg", "loop", "fill", "post"}

KeysApart ==
    \A r, q \in Reqs :
        Want[r] = Want[q] /\ Want[r] \in Cached /\ AtFile(r) /\ AtFile(q) => r = q

(* The bytes a + 1 .. b of the file of k. *)
Part(k, a, b) == SubSeq(File(k), a + 1, b)

LEMMA FilePart ==
    ASSUME NEW k \in Cached, NEW a \in Nat, NEW b \in Nat, a <= b, b <= Size[k]
    PROVE  /\ Len(Part(k, a, b)) = b - a
           /\ Part(k, 0, a) \o Part(k, a, b) = Part(k, 0, b)
           /\ Part(k, 0, 0) = << >>
           /\ Part(k, 0, Size[k]) = File(k)
<1> DEFINE n == Size[k]
           f == File(k)
<1>1. n \in Nat
  BY CacheAssumption
<1>2. f \in Seq(Bytes(k)) /\ Len(f) = n
  BY <1>1 DEF File, Bytes
<1> HIDE DEF n, f
<1>3. \A i \in a + 1 .. b : f[i] \in Bytes(k)
  BY <1>1, <1>2, ElementOfSeq DEF n
<1>4. Len(SubSeq(f, a + 1, b)) = b - a
  BY <1>3, SubSeqProperties
<1>5. SubSeq(f, 1, a) \o SubSeq(f, a + 1, b) = SubSeq(f, 1, b)
  <2>1. 1 \in 1 .. Len(f) + 1 /\ a \in 1 - 1 .. Len(f) /\ b \in a .. Len(f)
    BY <1>1, <1>2 DEF n
  <2> QED
    BY <1>2, <2>1, ConcatAdjacentSubSeq
<1>6. SubSeq(f, 1, n) = f
  BY <1>2, SubSeqFull
<1>7. SubSeq(f, 1, 0) = << >>
  BY SubSeqEmpty
<1>8. 0 + 1 = 1
  OBVIOUS
<1> QED
  BY <1>4, <1>5, <1>6, <1>7, <1>8 DEF Part, f, n

(* A body that is the file up to a, and the piece from there up to b. *)
LEMMA PieceContinues ==
    ASSUME NEW k \in Cached, NEW a \in Nat, NEW b \in Nat, a < b, b <= Size[k]
    PROVE  /\ Len(Part(k, 0, a)) = a /\ Len(Part(k, a, b)) = b - a
           /\ Part(k, 0, a) \o Part(k, a, b) = Part(k, 0, b)
<1>1. Size[k] \in Nat /\ 0 <= a /\ a <= b /\ a <= Size[k] /\ a - 0 = a /\ 0 \in Nat
  BY CacheAssumption
<1>2. Len(Part(k, 0, a)) = a - 0
  BY <1>1, FilePart
<1>3. Len(Part(k, a, b)) = b - a /\ Part(k, 0, a) \o Part(k, a, b) = Part(k, 0, b)
  BY <1>1, FilePart
<1> QED
  BY <1>1, <1>2, <1>3

(***************************************************************************)
(* The invariant.  The offset of a file's descriptor is the byte count of  *)
(* the one cache thread that reads it; what was sent is the file up to     *)
(* bytes_send, and the segment holds the next part while one is pending.   *)
(* A failed send takes one from bytes_send: when the client went away the  *)
(* body stays what it was, and bytes_send is no longer than the body.      *)
(***************************************************************************)
Early == {"none", "queued", "accepted", "gate", "gate_wait", "lookup", "rewind",
          "reply", "read_seg"}
Rewound == {"reply", "read_seg", "loop", "fill", "post"}

FileRead(r) ==
    /\ cpc[r] \in Early => bytesRead[r] = 0
    /\ cpc[r] \in Rewound => offset[Want[r]] = bytesRead[r]
    /\ bytesRead[r] <= FileLen(r)

PartsSent(r) ==
    /\ bytesSend[r] \in Nat
    /\ body[r] = Part(Want[r], 0, bytesSend[r])
    /\ ~Pending(r) => bytesSend[r] = bytesRead[r]
    /\ Pending(r) => /\ bytesSend[r] < bytesRead[r]
                     /\ shm[seg[r]] = Part(Want[r], bytesSend[r], bytesRead[r])

Abandoned(r) ==
    \E n \in 0 .. FileLen(r) : body[r] = Part(Want[r], 0, n) /\ bytesSend[r] <= n

Progress(r) ==
    /\ FileRead(r)
    /\ r \notin gone => PartsSent(r)
    /\ r \in gone => Abandoned(r)

OrderInv == IInv /\ \A r \in Reqs : Want[r] \in Cached => Progress(r)

(* A step that does not touch what the progress of r is about. *)
Steady(r) ==
    /\ cpc'[r] \in Early => cpc[r] \in Early
    /\ cpc'[r] \in Rewound => cpc[r] \in Rewound /\ offset'[Want[r]] = offset[Want[r]]
    /\ bytesRead'[r] = bytesRead[r] /\ bytesSend'[r] = bytesSend[r] /\ body'[r] = body[r]
    /\ r \in gone' <=> r \in gone
    /\ Pending(r)' <=> Pending(r)
    /\ Pending(r) => shm'[seg'[r]] = shm[seg[r]]

LEMMA SteadyProgress ==
    ASSUME NEW r \in Reqs, Progress(r), Steady(r)
    PROVE  Progress(r)'
<1>1. FileRead(r)'
  BY DEF Progress, Steady, FileRead, FileLen
<1>2. r \notin gone => PartsSent(r)'
  BY DEF Progress, Steady, PartsSent, Part, File
<1>3. r \in gone => Abandoned(r)'
  BY DEF Progress, Steady, Abandoned, Part, File, FileLen
<1> QED
  BY <1>1, <1>2, <1>3 DEF Progress, Steady

(* Nothing moves but the program counters, and no thread to or from its data. *)
LEMMA QuietProgress ==
    ASSUME NEW r \in Reqs, Progress(r),
           cpc'[r] \in Early => cpc[r] \in Early,
           cpc'[r] \in Rewound => cpc[r] \in Rewound /\ offset'[Want[r]] = offset[Want[r]],
           UNCHANGED <<ipcVars, poolVars, bytesRead, bytesSend, body, gone>>,
           Holds(r)' <=> Holds(r),
           pc'[r] = "send" <=> pc[r] = "send",
           cpc'[r] = "post" <=> cpc[r] = "post"
    PROVE  Progress(r)'
<1>1. Pending(r)' <=> Pending(r)
  BY DEF Pending, ipcVars, poolVars
<1>2. Steady(r)
  BY <1>1 DEF Steady, ipcVars, poolVars
<1> QED
  BY <1>2, SteadyProgress

(***************************************************************************)
(* Quiet steps of any thread q, seen from any request r: the gates, the    *)
(* socket, the pool's wait, the header, waking up.                         *)
(***************************************************************************)
LEMMA OrderProxyQuiet ==
    ASSUME IInv, NEW q \in Reqs, ProxyQuiet(q) \/ SendSegInfo(q),
           NEW r \in Reqs, Progress(r)
    PROVE  Progress(r)'
<1>p. pc \in [Reqs -> ProxyPCs]
  BY Types DEF IInv
<1>1. UNCHANGED <<cpc, offset, ipcVars, poolVars, bytesRead, bytesSend, body, gone>>
  BY DEF ProxyQuiet, SendSegInfo, Request, PassGate, WaitGate, SendPath, Receive, MissRelease,
      MissHeader, WaitSegment, SendHeader, ReleaseWorker, countVars, clientVars
<1>2. \/ pc'[r] = pc[r]
      \/ {pc[r], pc'[r]} \cap HoldsSegment = {}
      \/ {pc[r], pc'[r]} \subseteq HoldsSegment \ {"send"}
  <2>1. CASE MissRelease(q) \/ ReleaseWorker(q)
    <3>1. PICK label \in {"miss_header", "done"} :
              /\ SignalChoice(pc, pc', q, label, "gate_wait", "gate")
              /\ pc[q] \in {"miss_release", "release"}
      BY <2>1, SignalCases DEF MissRelease, ReleaseWorker
    <3> QED
      BY <1>p, <3>1 DEF SignalChoice, HoldsSegment
  <2>2. CASE SendHeader(q) \/ SendSegInfo(q)
    BY <1>p, <2>2 DEF SendHeader, SendSegInfo, Goto, HoldsSegment
  <2>3. CASE \/ Request(q) \/ PassGate(q) \/ WaitGate(q) \/ SendPath(q) \/ Receive(q)
             \/ MissHeader(q) \/ WaitSegment(q)
    <3>1. PICK label \in {"gate", "connect", "gate_wait", "receive", "miss_release", "seg_gate",
                          "done", "seg_wait"} :
              pc' = [pc EXCEPT ![q] = label] /\ pc[q] \notin HoldsSegment
      BY <2>3 DEF Request, PassGate, WaitGate, SendPath, Receive, MissHeader, WaitSegment,
                  Goto, HoldsSegment
    <3> QED
      BY <1>p, <3>1 DEF HoldsSegment
  <2> QED
    BY <2>1, <2>2, <2>3 DEF ProxyQuiet
<1>3. (Holds(r)' <=> Holds(r)) /\ (pc'[r] = "send" <=> pc[r] = "send")
  BY <1>2 DEF Holds, HoldsSegment
<1> QED
  BY <1>1, <1>3, QuietProgress

CacheShuffle(q) ==
    \/ CacheSpawn(q) \/ CachePassGate(q) \/ CacheWaitGate(q) \/ CacheMiss(q)
    \/ CacheMissRelease(q) \/ CacheReply(q) \/ CacheReadSeg(q) \/ CacheRelease(q)
    \/ Connect(q) \/ CacheAccept

LEMMA OrderCacheQuiet ==
    ASSUME IInv, NEW q \in Reqs, CacheShuffle(q), NEW r \in Reqs, Progress(r)
    PROVE  Progress(r)'
<1>p. pc \in [Reqs -> ProxyPCs] /\ cpc \in [Reqs -> CachePCs]
  BY Types DEF IInv
<1>1. UNCHANGED <<offset, ipcVars, poolVars, bytesRead, bytesSend, body, gone>>
  BY DEF CacheShuffle, CacheSpawn, CachePassGate, CacheWaitGate, CacheMiss, CacheMissRelease,
      CacheReply, CacheReadSeg, CacheRelease, Connect, CacheAccept, countVars, clientVars
<1>2. pc'[r] = pc[r] \/ (pc[r] = "connect" /\ pc'[r] = "send_path")
  BY <1>p DEF CacheShuffle, CacheSpawn, CachePassGate, CacheWaitGate, CacheMiss, CacheMissRelease,
      CacheReply, CacheReadSeg, CacheRelease, Connect, CacheAccept, Goto
<1>3. \/ cpc'[r] = cpc[r]
      \/ {cpc[r], cpc'[r]} \subseteq Early \ Rewound
      \/ cpc[r] = "reply" /\ cpc'[r] = "read_seg"
      \/ cpc[r] = "read_seg" /\ cpc'[r] = "loop"
      \/ cpc[r] \in {"lookup", "miss_release", "loop"} /\ cpc'[r] \in {"miss_release", "closed"}
  <2>1. CASE CacheMissRelease(q) \/ CacheRelease(q)
    <3>1. /\ SignalChoice(cpc, cpc', q, "closed", "gate_wait", "gate")
          /\ cpc[q] \in {"miss_release", "loop"}
      BY <2>1, SignalCases DEF CacheMissRelease, CacheRelease
    <3> QED
      BY <1>p, <3>1 DEF SignalChoice, Early, Rewound
  <2>2. CASE CacheAccept
    <3>1. Head(backlog) \in Reqs /\ cpc[Head(backlog)] = "queued"
      BY <2>2 DEF CacheAccept, IInv, TypeOK, BacklogQueued
    <3> QED
      BY <1>p, <2>2, <3>1 DEF CacheAccept, CacheGoto, Early, Rewound
  <2>3. CASE Connect(q)
    <3>1. cpc[q] = "none"
      BY <2>3 DEF Connect, IInv, Session, Handshake
    <3> QED
      BY <1>p, <2>3, <3>1 DEF Connect, CacheGoto, Early, Rewound
  <2>4. CASE \/ CacheSpawn(q) \/ CachePassGate(q) \/ CacheWaitGate(q) \/ CacheMiss(q)
             \/ CacheReply(q) \/ CacheReadSeg(q)
    BY <1>p, <2>4 DEF CacheSpawn, CachePassGate, CacheWaitGate, CacheMiss, CacheReply,
                      CacheReadSeg, CacheGoto, Early, Rewound
  <2> QED
    BY <2>1, <2>2, <2>3, <2>4 DEF CacheShuffle
<1>4. /\ cpc'[r] \in Early => cpc[r] \in Early
      /\ cpc'[r] \in Rewound => cpc[r] \in Rewound /\ offset'[Want[r]] = offset[Want[r]]
      /\ cpc'[r] = "post" <=> cpc[r] = "post"
  BY <1>1, <1>3 DEF Early, Rewound
<1>5. (Holds(r)' <=> Holds(r)) /\ (pc'[r] = "send" <=> pc[r] = "send")
  BY <1>2 DEF Holds, HoldsSegment
<1> QED
  BY <1>1, <1>4, <1>5, QuietProgress

LEMMA OrderWakeup ==
    ASSUME IInv, NEW q \in Reqs, SpuriousWakeup(q), NEW r \in Reqs, Progress(r)
    PROVE  Progress(r)'
<1>p. pc \in [Reqs -> ProxyPCs] /\ cpc \in [Reqs -> CachePCs]
  BY Types DEF IInv
<1>1. UNCHANGED <<offset, ipcVars, poolVars, bytesRead, bytesSend, body, gone>>
  BY DEF SpuriousWakeup, countVars, clientVars
<1>2. /\ pc'[r] = pc[r] \/ {pc[r], pc'[r]} \subseteq {"gate", "gate_wait", "seg_gate", "seg_wait"}
      /\ cpc'[r] = cpc[r] \/ {cpc[r], cpc'[r]} \subseteq {"gate", "gate_wait"}
  BY <1>p DEF SpuriousWakeup, Goto, CacheGoto
<1>3. /\ cpc'[r] \in Early => cpc[r] \in Early
      /\ cpc'[r] \in Rewound => cpc[r] \in Rewound /\ offset'[Want[r]] = offset[Want[r]]
      /\ cpc'[r] = "post" <=> cpc[r] = "post"
  BY <1>1, <1>2 DEF Early, Rewound
<1>4. (Holds(r)' <=> Holds(r)) /\ (pc'[r] = "send" <=> pc[r] = "send")
  BY <1>2 DEF Holds, HoldsSegment
<1> QED
  BY <1>1, <1>3, <1>4, QuietProgress

(***************************************************************************)
(* The two lseeks: only the thread of q uses the descriptor of its file.   *)
(***************************************************************************)
LEMMA OrderSeek ==
    ASSUME KeysApart, IInv, NEW q \in Reqs, CacheSeekEnd(q) \/ CacheRewind(q),
           NEW r \in Reqs, Want[r] \in Cached, Progress(r)
    PROVE  Progress(r)'
<1>t. /\ cpc \in [Reqs -> CachePCs]
      /\ offset \in [Cached -> Nat]
  BY Types DEF IInv
<1>1. UNCHANGED <<pc, ipcVars, poolVars, bytesRead, bytesSend, body, gone>>
  BY DEF CacheSeekEnd, CacheRewind, clientVars
<1>2. Want[q] \in Cached
  BY DEF CacheSeekEnd, CacheRewind, IInv, Session, Handshake
<1>3. (Holds(r)' <=> Holds(r)) /\ (pc'[r] = "send" <=> pc[r] = "send")
  BY <1>1 DEF Holds
<1>4. CASE r # q
  <2>1. cpc[r] \in Rewound => Want[r] # Want[q]
    BY <1>2, <1>4 DEF KeysApart, AtFile, Rewound, CacheSeekEnd, CacheRewind
  <2>2. cpc'[r] = cpc[r]
    BY <1>t, <1>4 DEF CacheSeekEnd, CacheRewind, CacheGoto
  <2>3. cpc[r] \in Rewound => offset'[Want[r]] = offset[Want[r]]
    BY <1>t, <2>1 DEF CacheSeekEnd, CacheRewind
  <2> QED
    BY <1>1, <1>3, <2>2, <2>3, QuietProgress
<1>5. CASE r = q /\ CacheSeekEnd(q)
  <2>1. cpc[r] = "lookup" /\ cpc'[r] = "rewind"
    BY <1>t, <1>5 DEF CacheSeekEnd, CacheGoto
  <2> QED
    BY <1>1, <1>3, <2>1, QuietProgress DEF Early, Rewound
<1>6. CASE r = q /\ CacheRewind(q)
  <2>1. cpc[r] = "rewind" /\ cpc'[r] = "reply" /\ offset'[Want[r]] = 0
    BY <1>t, <1>2, <1>6 DEF CacheRewind, CacheGoto
  <2>2. bytesRead[r] = 0
    BY <2>1 DEF Progress, FileRead, Early
  <2>3. FileRead(r)'
    BY <1>1, <2>1, <2>2 DEF Progress, FileRead, FileLen
  <2>4. Pending(r)' <=> Pending(r)
    BY <1>1, <1>3, <2>1 DEF Pending, ipcVars, poolVars
  <2>5. r \notin gone => PartsSent(r)'
    BY <1>1, <2>4 DEF Progress, PartsSent, Part, File, ipcVars, poolVars
  <2>6. r \in gone => Abandoned(r)'
    BY <1>1 DEF Progress, Abandoned, Part, File, FileLen
  <2> QED
    BY <1>1, <2>3, <2>5, <2>6 DEF Progress
<1> QED
  BY <1>4, <1>5, <1>6

(* The client of q goes away: from here on its body stays what it is. *)
LEMMA OrderClientGone ==
    ASSUME IInv, NEW q \in Reqs, ClientGone(q),
           NEW r \in Reqs, Want[r] \in Cached, Progress(r)
    PROVE  Progress(r)'
<1>1. UNCHANGED <<pc, cpc, offset, ipcVars, poolVars, bytesRead, bytesSend, body>>
  BY DEF ClientGone, countVars
<1>2. q \notin gone /\ gone' = gone \cup {q}
  BY DEF ClientGone
<1>3. Pending(r)' <=> Pending(r)
  BY <1>1 DEF Pending, Holds, ipcVars, poolVars
<1>4. CASE r # q
  <2>1. Steady(r)
    BY <1>1, <1>2, <1>3, <1>4 DEF Steady, ipcVars, poolVars
  <2> QED
    BY <2>1, SteadyProgress
<1>5. CASE r = q
  <2>1. PartsSent(r) /\ FileRead(r) /\ r \in gone'
    BY <1>2, <1>5 DEF Progress
  <2>2. /\ bytesRead[r] \in Nat /\ bytesSend[r] \in Nat /\ FileLen(r) \in Nat
        /\ bytesSend[r] <= bytesRead[r]
    BY <2>1, Types, CacheAssumption DEF IInv, Session, Counts, FileLen, PartsSent
  <2>3. bytesSend[r] \in 0 .. FileLen(r) /\ body[r] = Part(Want[r], 0, bytesSend[r])
    BY <2>1, <2>2 DEF FileRead, PartsSent
  <2>4. Abandoned(r)'
    BY <1>1, <2>2, <2>3 DEF Abandoned, Part, File, FileLen
  <2>5. FileRead(r)'
    BY <1>1, <2>1 DEF FileRead, FileLen
  <2> QED
    BY <2>1, <2>4, <2>5 DEF Progress
<1> QED
  BY <1>4, <1>5

(***************************************************************************)
(* The pool: a segment just taken has nothing to read in it, and one is    *)
(* given back when nothing in it is pending.                               *)
(***************************************************************************)
LEMMA OrderPool ==
    ASSUME IInv, IInv', NEW q \in Reqs, TakeSegment(q) \/ ReleaseSegment(q),
           NEW r \in Reqs, Want[r] \in Cached, Progress(r)
    PROVE  Progress(r)'
<1>t. pc \in [Reqs -> ProxyPCs] /\ seg \in [Reqs -> Segs \cup {NoSeg}]
  BY Types DEF IInv
<1>1. UNCHANGED <<cpc, offset, ipcVars, bytesRead, bytesSend, body, gone>>
  BY DEF TakeSegment, ReleaseSegment, countVars, clientVars
<1>2. CASE r # q
  <2>1. \/ pc'[r] = pc[r] \/ (pc[r] = "seg_wait" /\ pc'[r] = "seg_gate")
    <3>1. CASE TakeSegment(q)
      BY <1>t, <1>2, <3>1 DEF TakeSegment, Goto
    <3>2. CASE ReleaseSegment(q)
      <4>1. SignalChoice(pc, pc', q, "release", "seg_wait", "seg_gate")
        BY <3>2, SignalCases DEF ReleaseSegment
      <4> QED
        BY <1>t, <1>2, <4>1 DEF SignalChoice
    <3> QED
      BY <3>1, <3>2
  <2>2. seg'[r] = seg[r]
    BY <1>t, <1>2 DEF TakeSegment, ReleaseSegment
  <2>3. (Holds(r)' <=> Holds(r)) /\ (pc'[r] = "send" <=> pc[r] = "send")
    BY <2>1 DEF Holds, HoldsSegment
  <2>4. Pending(r)' <=> Pending(r)
    BY <1>1, <2>2, <2>3 DEF Pending, ipcVars
  <2>5. Steady(r)
    BY <1>1, <2>2, <2>4 DEF Steady, ipcVars
  <2> QED
    BY <2>5, SteadyProgress
<1>3. CASE r = q
  <2>1. ~Pending(r) /\ ~Pending(r)'
    <3>1. CASE TakeSegment(q)
      <4>1. pc[r] = "seg_gate" /\ pc'[r] = "header"
        BY <1>t, <1>3, <3>1 DEF TakeSegment, Goto
      <4>2. ~Pending(r) /\ cpc[r] # "post"
        BY <4>1 DEF Pending, Holds, HoldsSegment, IInv, Session, Handshake, Writing
      <4>3. PICK s \in 0 .. NSeg : ScanStopsAt(s) /\ seg' = [seg EXCEPT ![q] = s]
        BY <3>1 DEF TakeSegment
      <4>4. Holds(r)' /\ seg'[r] = s
        BY <1>t, <1>3, <4>1, <4>3 DEF Holds, HoldsSegment
      <4>5. s \in Segs
        <5>1. seg' \in [Reqs -> Segs \cup {NoSeg}] /\ seg'[r] # NoSeg
          BY <4>4 DEF IInv, TypeOK, SegmentsAccounted
        <5> QED
          BY <4>4, <5>1
      <4>6. semReader[s] = 0
        <5>1. segStatus[s] = 1
          BY <4>3, <4>5, CacheAssumption DEF ScanStopsAt, Segs
        <5> QED
          BY <4>5, <5>1 DEF IInv, FreeSegmentIsReset
      <4> QED
        BY <1>1, <4>1, <4>2, <4>4, <4>6 DEF Pending, ipcVars
    <3>2. CASE ReleaseSegment(q)
      <4>1. pc[r] = "loop" /\ bytesSend[r] >= FileLen(r)
        BY <1>3, <3>2 DEF ReleaseSegment
      <4>2. pc'[r] = "release"
        <5>1. SignalChoice(pc, pc', q, "release", "seg_wait", "seg_gate")
          BY <3>2, SignalCases DEF ReleaseSegment
        <5> QED
          BY <1>t, <1>3, <5>1 DEF SignalChoice
      <4>3. bytesSend[r] \in Int /\ FileLen(r) \in Nat
        BY Types, CacheAssumption DEF IInv, FileLen
      <4>4. ~Pending(r)
        BY <4>1, <4>3 DEF IInv, Session, Counts
      <4> QED
        BY <4>2, <4>4 DEF Pending, Holds, HoldsSegment
    <3> QED
      BY <3>1, <3>2
  <2>2. Steady(r)
    BY <1>1, <2>1 DEF Steady, ipcVars
  <2> QED
    BY <2>2, SteadyProgress
<1> QED
  BY <1>2, <1>3

(***************************************************************************)
(* The transfer, seen from another request: it uses another segment, and   *)
(* by KeysApart another descriptor than one that is being read.            *)
(***************************************************************************)
Transferring(q) ==
    \/ WaitReader(q) \/ Send(q) \/ PostWriter(q)
    \/ CacheWaitWriter(q) \/ CacheFill(q) \/ CachePostReader(q)

LEMMA TransferSegment ==
    ASSUME IInv, NEW q \in Reqs, Transferring(q)
    PROVE  /\ Holds(q)
           /\ cpc[q] \in {"fill", "post"} \/ CacheWaitWriter(q) => segInfo[q] = seg[q]
<1>1. CASE WaitReader(q) \/ Send(q) \/ PostWriter(q)
  <2>1. Holds(q) /\ segInfo[q] = seg[q]
    BY <1>1 DEF WaitReader, Send, PostWriter, Holds, HoldsSegment, IInv, Session, Handshake
  <2> QED
    BY <2>1
<1>2. CASE CacheFill(q) \/ CachePostReader(q)
  <2>1. Writing(q)
    BY <1>2 DEF CacheFill, CachePostReader, Writing
  <2>2. Holds(q) /\ segInfo[q] = seg[q]
    BY <2>1, WriterAlone
  <2> QED
    BY <2>2
<1>3. CASE CacheWaitWriter(q)
  <2>1. cpc[q] = "loop" /\ bytesRead[q] < FileLen(q)
    BY <1>3 DEF CacheWaitWriter
  <2>2. segInfo[q] # NoSeg /\ reply[q] = "OK" /\ Want[q] \in Cached
    BY <2>1 DEF IInv, Session, Handshake
  <2>3. bytesRead[q] \in Nat /\ FileLen(q) \in Nat
    BY <2>2, Types, CacheAssumption DEF IInv, FileLen
  <2>4. pc[q] \in {"loop", "send", "post"}
    BY <2>1, <2>2, <2>3 DEF IInv, Session, Handshake, Counts
  <2> QED
    BY <2>4 DEF Holds, HoldsSegment, IInv, Session, Handshake
<1> QED
  BY <1>1, <1>2, <1>3 DEF Transferring

LEMMA OrderTransferOthers ==
    ASSUME KeysApart, IInv, NEW q \in Reqs, Transferring(q),
           NEW r \in Reqs, r # q, Want[r] \in Cached, Progress(r)
    PROVE  Progress(r)'
<1>t. /\ pc \in [Reqs -> ProxyPCs] /\ cpc \in [Reqs -> CachePCs]
      /\ bytesRead \in [Reqs -> Nat] /\ bytesSend \in [Reqs -> Int]
      /\ offset \in [Cached -> Nat] /\ semReader \in [Segs -> 0 .. 1]
  BY Types DEF IInv
<1>u. body \in [Reqs -> Seq(Cached \X Nat)] /\ shm \in [Segs -> Seq(Cached \X Nat)]
  BY DEF IInv, TypeOK
<1>1. Holds(q) /\ seg[q] \in Segs /\ Want[q] \in Cached
  BY TransferSegment, InUse
<1>2. UNCHANGED <<poolVars, gone>>
  BY DEF Transferring, WaitReader, Send, PostWriter, CacheWaitWriter, CacheFill,
         CachePostReader, clientVars
<1>3. /\ pc'[r] = pc[r] /\ cpc'[r] = cpc[r]
      /\ bytesRead'[r] = bytesRead[r] /\ bytesSend'[r] = bytesSend[r]
  BY <1>t DEF Transferring, WaitReader, Send, PostWriter, CacheWaitWriter, CacheFill,
         CachePostReader, clientVars, countVars, Goto, CacheGoto
<1>4. body'[r] = body[r]
  BY <1>u DEF Transferring, WaitReader, Send, PostWriter, CacheWaitWriter, CacheFill,
         CachePostReader, clientVars
<1>5. ASSUME cpc[r] \in Rewound
      PROVE  offset'[Want[r]] = offset[Want[r]]
  <2>1. CASE CacheFill(q)
    <3>1. Want[r] # Want[q]
      BY <1>1, <1>5, <2>1 DEF KeysApart, AtFile, Rewound, CacheFill
    <3>2. \E n : offset' = [offset EXCEPT ![Want[q]] = n]
      BY <2>1 DEF CacheFill
    <3> QED
      BY <1>t, <3>1, <3>2
  <2>2. CASE ~CacheFill(q)
    BY <2>2 DEF Transferring, WaitReader, Send, PostWriter, CacheWaitWriter,
                CachePostReader, countVars
  <2> QED
    BY <2>1, <2>2
<1>6. ASSUME Holds(r)
      PROVE  semReader'[seg[r]] = semReader[seg[r]] /\ shm'[seg[r]] = shm[seg[r]]
  <2>1. seg[r] # seg[q] /\ seg[r] \in Segs
    BY <1>1, <1>6, InUse DEF IInv, SegmentsAccounted
  <2>2. CASE WaitReader(q) \/ Send(q) \/ PostWriter(q) \/ CacheWaitWriter(q)
    <3>1. shm' = shm /\ (semReader' = semReader \/ \E n : semReader' = [semReader EXCEPT ![seg[q]] = n])
      BY <2>2 DEF WaitReader, Send, PostWriter, CacheWaitWriter, ipcVars
    <3> QED
      BY <1>t, <2>1, <3>1
  <2>3. CASE CacheFill(q) \/ CachePostReader(q)
    <3>1. segInfo[q] = seg[q]
      BY <2>3, TransferSegment DEF CacheFill, CachePostReader
    <3>2. /\ shm' = shm \/ \E p : shm' = [shm EXCEPT ![seg[q]] = p]
          /\ semReader' = semReader \/ \E n : semReader' = [semReader EXCEPT ![seg[q]] = n]
      BY <2>3, <3>1 DEF CacheFill, CachePostReader
    <3> QED
      BY <1>t, <1>u, <2>1, <3>2
  <2> QED
    BY <2>2, <2>3 DEF Transferring
<1>7. (Holds(r)' <=> Holds(r)) /\ seg'[r] = seg[r]
  BY <1>2, <1>3 DEF Holds, poolVars
<1>8. Pending(r)' <=> Pending(r)
  BY <1>3, <1>6, <1>7 DEF Pending
<1>9. Pending(r) => shm'[seg'[r]] = shm[seg[r]]
  BY <1>6, <1>7 DEF Pending
<1>10. Steady(r)
  BY <1>2, <1>3, <1>4, <1>5, <1>8, <1>9 DEF Steady
<1> QED
  BY <1>10, SteadyProgress

(* The steps of q itself that only pass the token on. *)
LEMMA OrderToken ==
    ASSUME IInv, NEW q \in Reqs, Want[q] \in Cached, Progress(q),
           WaitReader(q) \/ PostWriter(q) \/ CacheWaitWriter(q) \/ CachePostReader(q)
    PROVE  Progress(q)'
<1>t. /\ pc \in [Reqs -> ProxyPCs] /\ cpc \in [Reqs -> CachePCs]
      /\ semReader \in [Segs -> 0 .. 1]
  BY Types DEF IInv
<1>1. Holds(q) /\ seg[q] \in Segs /\ semReader[seg[q]] \in 0 .. 1
  BY TransferSegment, InUse DEF Transferring
<1>2. UNCHANGED <<offset, shm, poolVars, bytesRead, bytesSend, body, gone>>
  BY DEF WaitReader, PostWriter, CacheWaitWriter, CachePostReader, countVars, clientVars
<1>3. /\ cpc'[q] \in Early => cpc[q] \in Early
      /\ cpc'[q] \in Rewound => cpc[q] \in Rewound
      /\ Pending(q)' <=> Pending(q)
  <2>1. CASE WaitReader(q)
    <3>1. pc[q] = "loop" /\ pc'[q] = "send" /\ cpc' = cpc /\ semReader[seg[q]] > 0
      BY <1>t, <2>1 DEF WaitReader, Goto
    <3>2. Pending(q)
      BY <1>1, <3>1 DEF Pending
    <3>3. Pending(q)'
      BY <3>1 DEF Pending, Holds, HoldsSegment
    <3> QED
      BY <3>1, <3>2, <3>3
  <2>2. CASE PostWriter(q)
    <3>1. pc[q] = "post" /\ pc'[q] = "loop" /\ cpc' = cpc /\ semReader' = semReader
      BY <1>t, <2>2 DEF PostWriter, Goto
    <3>2. Pending(q)' <=> Pending(q)
      BY <1>2, <3>1 DEF Pending, Holds, HoldsSegment, poolVars
    <3> QED
      BY <3>1, <3>2
  <2>3. CASE CacheWaitWriter(q)
    <3>1. pc' = pc /\ cpc[q] = "loop" /\ cpc'[q] = "fill" /\ semReader' = semReader
      BY <1>t, <2>3 DEF CacheWaitWriter, CacheGoto
    <3>2. Pending(q)' <=> Pending(q)
      BY <1>2, <3>1 DEF Pending, Holds, HoldsSegment, poolVars
    <3> QED
      BY <3>1, <3>2 DEF Early, Rewound
  <2>4. CASE CachePostReader(q)
    <3>1. /\ pc' = pc /\ cpc[q] = "post" /\ cpc'[q] = "loop"
          /\ semReader' = [semReader EXCEPT ![segInfo[q]] = @ + 1]
      BY <1>t, <2>4 DEF CachePostReader, CacheGoto
    <3>2. segInfo[q] = seg[q] /\ semReader[seg[q]] = 0
      BY <3>1, WriterAlone DEF Writing
    <3>3. Pending(q)
      BY <1>1, <3>1 DEF Pending
    <3>4. semReader'[seg[q]] = 1
      BY <1>t, <1>1, <3>1, <3>2
    <3>5. Pending(q)'
      BY <1>1, <1>2, <3>1, <3>4 DEF Pending, Holds, poolVars
    <3> QED
      BY <3>1, <3>3, <3>5 DEF Early, Rewound
  <2> QED
    BY <2>1, <2>2, <2>3, <2>4
<1>4. Steady(q)
  BY <1>2, <1>3 DEF Steady, poolVars
<1> QED
  BY <1>4, SteadyProgress

(* gfs_send: the pending part follows what was sent. *)
LEMMA OrderSend ==
    ASSUME IInv, NEW q \in Reqs, Want[q] \in Cached, Progress(q), Send(q)
    PROVE  Progress(q)'
<1> DEFINE k == Want[q]
           piece == shm[seg[q]]
<1>t. /\ pc \in [Reqs -> ProxyPCs] /\ bytesSend \in [Reqs -> Int]
      /\ body \in [Reqs -> Seq(Cached \X Nat)]
  BY Types DEF IInv, TypeOK
<1>1. /\ pc[q] = "send" /\ pc'[q] = "post"
      /\ UNCHANGED <<cpc, poolVars, ipcVars, offset, bytesRead, gone>>
  BY <1>t DEF Send, Goto
<1>2. Pending(q) /\ Holds(q) /\ Reading(q)
  BY <1>1 DEF Pending, Holds, HoldsSegment, Reading
<1>3. ~Writing(q) /\ semReader[seg[q]] = 0
  BY <1>2, InUse DEF IInv, Session, OneToken, Token
<1>4. ~Pending(q)'
  BY <1>1, <1>3 DEF Pending, Writing, ipcVars, poolVars
<1>5. FileRead(q)'
  BY <1>1 DEF Progress, FileRead, FileLen
<1>6. CASE q \in gone
  <2>1. body' = body /\ bytesSend'[q] = bytesSend[q] - 1 /\ q \in gone'
    BY <1>t, <1>1, <1>6 DEF Send
  <2>2. Abandoned(q)'
    <3>1. PICK n \in 0 .. FileLen(q) : body[q] = Part(k, 0, n) /\ bytesSend[q] <= n
      BY <1>6 DEF Progress, Abandoned
    <3>2. FileLen(q) \in Nat /\ bytesSend[q] \in Int
      BY <1>t, CacheAssumption DEF FileLen
    <3>3. bytesSend[q] - 1 <= n
      BY <3>1, <3>2
    <3> QED
      BY <2>1, <3>1, <3>3 DEF Abandoned, Part, File, FileLen
  <2> QED
    BY <1>5, <2>1, <2>2 DEF Progress
<1>7. CASE q \notin gone
  <2>1. PartsSent(q) /\ FileRead(q)
    BY <1>7 DEF Progress
  <2>2. /\ bytesSend[q] \in Nat /\ bytesRead[q] \in Nat /\ bytesSend[q] < bytesRead[q]
        /\ bytesRead[q] <= Size[k]
        /\ body[q] = Part(k, 0, bytesSend[q])
        /\ piece = Part(k, bytesSend[q], bytesRead[q])
    BY <1>2, <2>1, Types DEF IInv, PartsSent, FileRead, FileLen
  <2>3. /\ Len(piece) = bytesRead[q] - bytesSend[q]
        /\ body[q] \o piece = Part(k, 0, bytesRead[q])
    <3> DEFINE a == bytesSend[q]
               b == bytesRead[q]
    <3>1. k \in Cached /\ a \in Nat /\ b \in Nat /\ a < b /\ b <= Size[k]
      BY <2>2
    <3> HIDE DEF k, a, b
    <3>2. /\ Len(Part(k, 0, a)) = a /\ Len(Part(k, a, b)) = b - a
          /\ Part(k, 0, a) \o Part(k, a, b) = Part(k, 0, b)
      BY <3>1, PieceContinues
    <3> QED
      BY <2>2, <3>2 DEF k, a, b
  <2>4. bytesSend'[q] = bytesRead[q] /\ body'[q] = Part(k, 0, bytesRead[q])
    <3>1. /\ bytesSend'[q] = bytesSend[q] + Len(piece)
          /\ body'[q] = body[q] \o piece
      BY <1>t, <1>7 DEF Send
    <3> QED
      BY <2>2, <2>3, <3>1
  <2>5. PartsSent(q)'
    BY <1>1, <1>4, <2>2, <2>4 DEF PartsSent, Part, File
  <2> QED
    BY <1>1, <1>5, <1>7, <2>5 DEF Progress
<1> QED
  BY <1>6, <1>7

(* read: the next part of the file goes into the segment. *)
LEMMA OrderFill ==
    ASSUME IInv, NEW q \in Reqs, Want[q] \in Cached, Progress(q), CacheFill(q)
    PROVE  Progress(q)'
<1> DEFINE k == Want[q]
           s == seg[q]
           n == IF Size[k] - offset[k] < Chunk THEN Size[k] - offset[k] ELSE Chunk
<1>t. /\ cpc \in [Reqs -> CachePCs] /\ bytesRead \in [Reqs -> Nat]
      /\ offset \in [Cached -> Nat] /\ shm \in [Segs -> Seq(Cached \X Nat)]
  BY Types DEF IInv, TypeOK
<1>1. /\ cpc[q] = "fill" /\ cpc'[q] = "post"
      /\ UNCHANGED <<pc, poolVars, semReader, bytesSend, body, gone>>
  BY <1>t DEF CacheFill, CacheGoto, clientVars
<1>2. Holds(q) /\ segInfo[q] = s /\ semReader[s] = 0 /\ ~Reading(q) /\ s \in Segs
  BY <1>1, WriterAlone, InUse DEF Writing
<1>3. FileRead(q)
  BY DEF Progress
<1>4. offset[k] = bytesRead[q] /\ bytesRead[q] < Size[k] /\ bytesRead[q] \in Nat
      /\ Size[k] \in Nat /\ Chunk \in Nat \ {0}
  BY <1>t, <1>1, <1>3, CacheAssumption DEF FileRead, Rewound, FileLen, IInv, Session, Counts
<1>5. n \in Nat \ {0} /\ bytesRead[q] + n <= Size[k]
  BY <1>4
<1>6. /\ offset'[k] = bytesRead[q] + n /\ bytesRead'[q] = bytesRead[q] + n
      /\ shm'[s] = Part(k, bytesRead[q], bytesRead[q] + n)
  BY <1>t, <1>2, <1>4 DEF CacheFill, Part
<1> HIDE DEF n
<1>7. FileRead(q)'
  BY <1>1, <1>5, <1>6 DEF FileRead, FileLen, Early
<1>8. ~Pending(q) /\ Pending(q)'
  BY <1>1, <1>2 DEF Pending, Reading, Holds
<1>9. CASE q \in gone
  <2>1. Abandoned(q)'
    BY <1>1, <1>9 DEF Progress, Abandoned, Part, File, FileLen
  <2> QED
    BY <1>1, <1>7, <1>9, <2>1 DEF Progress
<1>10. CASE q \notin gone
  <2>1. /\ bytesSend[q] = bytesRead[q] /\ body[q] = Part(k, 0, bytesSend[q])
    BY <1>8, <1>10 DEF Progress, PartsSent
  <2>2. bytesSend'[q] = bytesRead[q] /\ seg'[q] = s /\ bytesRead[q] < bytesRead'[q]
    BY <1>1, <1>4, <1>5, <1>6, <2>1 DEF poolVars
  <2>3. PartsSent(q)'
    BY <1>1, <1>4, <1>6, <1>8, <2>1, <2>2 DEF PartsSent, Part, File
  <2> QED
    BY <1>1, <1>7, <1>10, <2>3 DEF Progress
<1> QED
  BY <1>9, <1>10

(* The invariant holds at the start and is kept by every step. *)
LEMMA OrderInit == Init => OrderInv
<1> SUFFICES ASSUME Init PROVE OrderInv
  OBVIOUS
<1>1. IInv
  BY InitInv
<1>2. ASSUME NEW r \in Reqs, Want[r] \in Cached PROVE Progress(r)
  <2>1. /\ cpc[r] = "none" /\ bytesRead[r] = 0 /\ bytesSend[r] = 0 /\ body[r] = << >>
        /\ gone = {} /\ ~Pending(r) /\ FileLen(r) \in Nat
    BY <1>2, CacheAssumption DEF Init, Pending, Holds, HoldsSegment, FileLen
  <2>2. Part(Want[r], 0, 0) = << >>
    BY <1>2, <2>1, FilePart DEF FileLen
  <2>3. FileRead(r)
    BY <2>1 DEF FileRead, Rewound
  <2> QED
    BY <2>1, <2>2, <2>3 DEF Progress, PartsSent
<1> QED
  BY <1>1, <1>2 DEF OrderInv

LEMMA OrderNext ==
    ASSUME KeysApart, OrderInv, [Next]_vars
    PROVE  OrderInv'
<1>1. IInv /\ IInv'
  BY NextInv DEF OrderInv
<1>2. SUFFICES ASSUME NEW r \in Reqs, Want[r] \in Cached
               PROVE  Progress(r)'
  BY <1>1 DEF OrderInv
<1>3. Progress(r)
  BY <1>2 DEF OrderInv
<1>4. ASSUME NEW q \in Reqs, ProxyQuiet(q) \/ SendSegInfo(q) PROVE Progress(r)'
  BY <1>1, <1>3, <1>4, OrderProxyQuiet
<1>5. ASSUME NEW q \in Reqs, CacheShuffle(q) PROVE Progress(r)'
  BY <1>1, <1>3, <1>5, OrderCacheQuiet
<1>6. ASSUME NEW q \in Reqs, SpuriousWakeup(q) PROVE Progress(r)'
  BY <1>1, <1>3, <1>6, OrderWakeup
<1>7. ASSUME NEW q \in Reqs, CacheSeekEnd(q) \/ CacheRewind(q) PROVE Progress(r)'
  BY <1>1, <1>2, <1>3, <1>7, OrderSeek
<1>8. ASSUME NEW q \in Reqs, ClientGone(q) PROVE Progress(r)'
  BY <1>1, <1>2, <1>3, <1>8, OrderClientGone
<1>9. ASSUME NEW q \in Reqs, TakeSegment(q) \/ ReleaseSegment(q) PROVE Progress(r)'
  BY <1>1, <1>2, <1>3, <1>9, OrderPool
<1>10. ASSUME NEW q \in Reqs, Transferring(q) PROVE Progress(r)'
  <2>1. CASE r # q
    BY <1>1, <1>2, <1>3, <1>10, <2>1, OrderTransferOthers
  <2>2. CASE r = q
    BY <1>1, <1>2, <1>3, <1>10, <2>2, OrderToken, OrderSend, OrderFill DEF Transferring
  <2> QED
    BY <2>1, <2>2
<1>11. ASSUME UNCHANGED vars PROVE Progress(r)'
  <2>1. Pending(r)' <=> Pending(r)
    BY <1>11 DEF vars, Pending, Holds, ipcVars, poolVars
  <2>2. Steady(r)
    BY <1>11, <2>1 DEF Steady, vars, ipcVars, poolVars, countVars, clientVars
  <2> QED
    BY <1>3, <2>2, SteadyProgress
<1>12. CASE \E q \in Reqs : Request(q) \/ ProxyStep(q)
  BY <1>4, <1>5, <1>9, <1>10, <1>12 DEF ProxyStep, ProxyQuiet, CacheShuffle, Transferring
<1>13. CASE \E q \in Reqs : CacheStep(q)
  BY <1>5, <1>7, <1>10, <1>13 DEF CacheStep, CacheShuffle, Transferring
<1>14. CASE CacheAccept
  BY <1>2, <1>5, <1>14 DEF CacheShuffle
<1> QED
  BY <1>6, <1>8, <1>11, <1>12, <1>13, <1>14 DEF Next, Quiescent

(***************************************************************************)
(* A client receives the first bytes of the file it asked for, in order,   *)
(* without gap or repetition, whatever the sizes, the segments, the gates  *)
(* and the clients that go away, while no two threads of the cache are at  *)
(* the same file.                                                          *)
(***************************************************************************)
THEOREM BodiesInOrder == Spec /\ []KeysApart => []BodyInOrder
<1>1. Init => OrderInv
  BY OrderInit
<1>2. KeysApart /\ OrderInv /\ [Next]_vars => OrderInv'
  BY OrderNext
<1>3. OrderInv => BodyInOrder
  <2> SUFFICES ASSUME OrderInv, NEW r \in Reqs, Want[r] \in Cached
               PROVE  \E n \in 0 .. FileLen(r) : body[r] = SubSeq(File(Want[r]), 1, n)
    BY DEF BodyInOrder
  <2>1. Progress(r)
    BY DEF OrderInv
  <2>2. \E n \in 0 .. FileLen(r) : body[r] = Part(Want[r], 0, n)
    <3>1. CASE r \notin gone
      <4>1. /\ bytesSend[r] \in Nat /\ bytesRead[r] \in Nat /\ FileLen(r) \in Nat
            /\ bytesSend[r] <= bytesRead[r] /\ bytesRead[r] <= FileLen(r)
        BY <2>1, <3>1, Types, CacheAssumption
        DEF OrderInv, IInv, Session, Counts, Progress, PartsSent, FileRead, FileLen
      <4>2. bytesSend[r] \in 0 .. FileLen(r)
        BY <4>1
      <4> QED
        BY <2>1, <3>1, <4>2 DEF Progress, PartsSent
    <3> QED
      BY <2>1, <3>1 DEF Progress, Abandoned
  <2> QED
    BY <2>2 DEF Part
<1> QED
  BY <1>1, <1>2, <1>3, PTL DEF Spec

(***************************************************************************)
(* The refinement.  What the client was told goes with the place of its    *)
(* thread in the code, and FILE_NOT_FOUND is only said of unknown files.   *)
(***************************************************************************)
Silent == {"idle", "gate", "gate_wait", "connect", "send_path", "receive", "miss_release",
           "miss_header", "seg_gate", "seg_wait", "header"}
Answering == {"send_seg", "loop", "send", "post", "release"}

Told(r) ==
    /\ pc[r] \in Silent => header[r] = "none"
    /\ pc[r] \in Answering => header[r] = "OK"
    /\ reply[r] = "FILE_NOT_FOUND" => Want[r] \notin Cached

LEMMA ToldFrame ==
    ASSUME NEW r \in Reqs, Told(r),
           pc'[r] \in Silent => pc[r] \in Silent,
           pc'[r] \in Answering => pc[r] \in Answering,
           header'[r] = header[r], reply'[r] = reply[r]
    PROVE  Told(r)'
BY DEF Told

(* A thread moves within its part of the code, on to "done", or wakes up. *)
LEMMA PhaseFrame ==
    ASSUME IInv, [Next]_vars, NEW r \in Reqs
    PROVE  \/ /\ pc'[r] \in Silent => pc[r] \in Silent
              /\ pc'[r] \in Answering => pc[r] \in Answering
           \/ SendHeader(r)
<1>p. pc \in [Reqs -> ProxyPCs]
  BY Types DEF IInv
<1>1. ASSUME NEW q \in Reqs, MissRelease(q) \/ ReleaseWorker(q) \/ ReleaseSegment(q)
      PROVE  /\ pc'[r] \in Silent => pc[r] \in Silent
             /\ pc'[r] \in Answering => pc[r] \in Answering
  <2>1. \/ /\ pc[q] = "miss_release"
           /\ SignalChoice(pc, pc', q, "miss_header", "gate_wait", "gate")
        \/ pc[q] = "release" /\ SignalChoice(pc, pc', q, "done", "gate_wait", "gate")
        \/ pc[q] = "loop" /\ SignalChoice(pc, pc', q, "release", "seg_wait", "seg_gate")
    BY <1>1, SignalCases DEF MissRelease, ReleaseWorker, ReleaseSegment
  <2> QED
    BY <1>p, <2>1 DEF SignalChoice, Silent, Answering
<1>2. ASSUME NEW q \in Reqs,
             \/ Request(q) \/ PassGate(q) \/ WaitGate(q) \/ Connect(q) \/ SendPath(q)
             \/ Receive(q) \/ MissHeader(q) \/ TakeSegment(q) \/ WaitSegment(q)
             \/ SendSegInfo(q) \/ WaitReader(q) \/ Send(q) \/ PostWriter(q)
             \/ SpuriousWakeup(q)
      PROVE  /\ pc'[r] \in Silent => pc[r] \in Silent
             /\ pc'[r] \in Answering => pc[r] \in Answering
  <2> DEFINE Moved == \/ pc' = pc
                      \/ \E label : /\ pc' = [pc EXCEPT ![q] = label]
                                    /\ \/ {pc[q], label} \subseteq Silent
                                       \/ {pc[q], label} \subseteq Answering
                                       \/ label = "done"
  <2>2. ASSUME Request(q) \/ PassGate(q) \/ WaitGate(q) \/ Connect(q) \/ SendPath(q)
        PROVE  Moved
    BY <2>2 DEF Request, PassGate, WaitGate, Connect, SendPath, Goto, Silent
  <2>3. ASSUME Receive(q) \/ MissHeader(q) \/ SpuriousWakeup(q)
        PROVE  Moved
    BY <2>3 DEF Receive, MissHeader, SpuriousWakeup, Goto, Silent, Answering
  <2>4. ASSUME TakeSegment(q) \/ WaitSegment(q) \/ SendSegInfo(q) \/ WaitReader(q)
        PROVE  Moved
    BY <2>4 DEF TakeSegment, WaitSegment, SendSegInfo, WaitReader, Goto, Silent, Answering
  <2>5. ASSUME Send(q) \/ PostWriter(q)
        PROVE  Moved
    BY <2>5 DEF Send, PostWriter, Goto, Silent, Answering
  <2>1. Moved
    BY <1>2, <2>2, <2>3, <2>4, <2>5
  <2> QED
    BY <1>p, <2>1 DEF Silent, Answering
<1>3. ASSUME NEW q \in Reqs, q # r, SendHeader(q)
      PROVE  pc'[r] = pc[r]
  BY <1>p, <1>3 DEF SendHeader, Goto
<1>4. ASSUME NEW q \in Reqs, CacheStep(q) \/ ClientGone(q)
      PROVE  pc' = pc
  BY <1>4 DEF CacheStep, CacheSpawn, CachePassGate, CacheWaitGate, CacheMiss, CacheMissRelease,
      CacheSeekEnd, CacheRewind, CacheReply, CacheReadSeg, CacheWaitWriter, CacheFill,
      CachePostReader, CacheRelease, ClientGone
<1>5. CASE CacheAccept \/ Quiescent \/ UNCHANGED vars
  BY <1>5 DEF CacheAccept, Quiescent, vars
<1>6. ASSUME NEW q \in Reqs, ProxyStep(q), ~SendHeader(r)
      PROVE  /\ pc'[r] \in Silent => pc[r] \in Silent
             /\ pc'[r] \in Answering => pc[r] \in Answering
  BY <1>1, <1>2, <1>3, <1>6 DEF ProxyStep
<1> QED
  BY <1>2, <1>4, <1>5, <1>6 DEF Next

LEMMA ToldNext ==
    ASSUME IInv, [Next]_vars, NEW r \in Reqs, Told(r)
    PROVE  Told(r)'
<1>t. /\ pc \in [Reqs -> ProxyPCs]
      /\ header \in [Reqs -> {"none", "OK", "FILE_NOT_FOUND"}]
      /\ reply \in [Reqs -> {"none", "OK", "FILE_NOT_FOUND"}]
  BY Types DEF IInv
<1>1. CASE SendHeader(r)
  BY <1>t, <1>1 DEF SendHeader, Goto, sockVars, Told, Silent, Answering
<1>2. CASE MissHeader(r)
  BY <1>t, <1>2 DEF MissHeader, Goto, sockVars, Told, Silent, Answering
<1>3. CASE CacheMiss(r) \/ CacheReply(r)
  BY <1>t, <1>3 DEF CacheMiss, CacheReply, clientVars, Told
<1>4. CASE ~SendHeader(r) /\ ~MissHeader(r) /\ ~CacheMiss(r) /\ ~CacheReply(r)
  <2>1. header'[r] = header[r] /\ reply'[r] = reply[r]
    <3>1. ASSUME NEW q \in Reqs, q # r, SendHeader(q) \/ MissHeader(q)
          PROVE  header'[r] = header[r] /\ reply'[r] = reply[r]
      BY <1>t, <3>1 DEF SendHeader, MissHeader, sockVars
    <3>2. ASSUME NEW q \in Reqs, q # r, CacheMiss(q) \/ CacheReply(q)
          PROVE  header'[r] = header[r] /\ reply'[r] = reply[r]
      BY <1>t, <3>2 DEF CacheMiss, CacheReply, clientVars
    <3>3. ASSUME NEW q \in Reqs, ProxyStep(q), ~SendHeader(q), ~MissHeader(q)
          PROVE  header' = header /\ reply' = reply
      BY <3>3 DEF ProxyStep, PassGate, WaitGate, Connect, SendPath, Receive, MissRelease,
          TakeSegment, WaitSegment, SendSegInfo, WaitReader, Send, PostWriter,
          ReleaseSegment, ReleaseWorker, sockVars, clientVars
    <3>4. ASSUME NEW q \in Reqs, CacheStep(q), ~CacheMiss(q), ~CacheReply(q)
          PROVE  header' = header /\ reply' = reply
      BY <3>4 DEF CacheStep, CacheSpawn, CachePassGate, CacheWaitGate, CacheMissRelease,
          CacheSeekEnd, CacheRewind, CacheReadSeg, CacheWaitWriter, CacheFill,
          CachePostReader, CacheRelease, sockVars, clientVars
    <3>5. ASSUME NEW q \in Reqs, Request(q) \/ ClientGone(q) \/ SpuriousWakeup(q)
          PROVE  header' = header /\ reply' = reply
      BY <3>5 DEF Request, ClientGone, SpuriousWakeup, sockVars, clientVars
    <3>6. CASE CacheAccept \/ Quiescent \/ UNCHANGED vars
      BY <3>6 DEF CacheAccept, Quiescent, vars, sockVars, clientVars
    <3> QED
      BY <1>4, <3>1, <3>2, <3>3, <3>4, <3>5, <3>6 DEF Next
  <2> QED
    BY <1>4, <2>1, PhaseFrame, ToldFrame
<1> QED
  BY <1>1, <1>2, <1>3, <1>4

ServiceInv ==
    /\ OrderInv
    /\ \A r \in Reqs : Told(r)

LEMMA ServiceNext ==
    ASSUME KeysApart, ServiceInv, [Next]_vars
    PROVE  ServiceInv'
BY OrderNext, ToldNext DEF ServiceInv, OrderInv

Asked == {r \in Reqs : pc[r] # "idle"}
Over == {r \in Reqs : pc[r] = "done" \/ pc[r] = "release"}

(* A step that moves no thread into or out of the two sets and sends nothing. *)
LEMMA ServiceStays ==
    ASSUME UNCHANGED <<header, body>>,
           \A r \in Reqs : /\ pc'[r] = "idle" <=> pc[r] = "idle"
                           /\ pc'[r] \in {"done", "release"} <=> pc[r] \in {"done", "release"}
    PROVE  UNCHANGED Service!vars
<1>1. Asked' = Asked /\ Over' = Over
  BY DEF Asked, Over
<1> QED
  BY <1>1 DEF Service!vars, Asked, Over

LEMMA ServiceInit == Init => Service!Init
BY DEF Init, Service!Init

(* The piece that gfs_send sends continues the body: a delivery. *)
LEMMA ServiceDelivers ==
    ASSUME ServiceInv, NEW q \in Reqs, q \notin gone, Send(q)
    PROVE  Service!Deliver(q)
<1> DEFINE k == Want[q]
           piece == shm[seg[q]]
<1>t. pc \in [Reqs -> ProxyPCs] /\ body \in [Reqs -> Seq(Cached \X Nat)]
  BY Types DEF ServiceInv, OrderInv, IInv, TypeOK
<1>1. pc[q] = "send" /\ pc' = [pc EXCEPT ![q] = "post"] /\ header' = header
  BY DEF Send, Goto
<1>2. Pending(q) /\ Holds(q)
  BY <1>1 DEF Pending, Holds, HoldsSegment
<1>3. k \in Cached /\ Size[k] \in Nat
  BY <1>2, InUse, CacheAssumption DEF ServiceInv, OrderInv
<1>4. PartsSent(q) /\ FileRead(q)
  BY <1>3 DEF ServiceInv, OrderInv, Progress
<1>5. /\ bytesSend[q] \in Nat /\ bytesRead[q] \in Nat /\ bytesSend[q] < bytesRead[q]
      /\ bytesRead[q] <= Size[k]
      /\ body[q] = Part(k, 0, bytesSend[q])
      /\ piece = Part(k, bytesSend[q], bytesRead[q])
  BY <1>2, <1>4, Types DEF ServiceInv, OrderInv, IInv, PartsSent, FileRead, FileLen
<1>6. /\ body[q] \o piece = Part(k, 0, bytesRead[q])
      /\ Len(body[q]) = bytesSend[q]
  <2> DEFINE a == bytesSend[q]
             b == bytesRead[q]
  <2>1. k \in Cached /\ a \in Nat /\ b \in Nat /\ a < b /\ b <= Size[k]
    BY <1>3, <1>5
  <2> HIDE DEF k, a, b
  <2>2. /\ Len(Part(k, 0, a)) = a /\ Len(Part(k, a, b)) = b - a
        /\ Part(k, 0, a) \o Part(k, a, b) = Part(k, 0, b)
    BY <2>1, PieceContinues
  <2> QED
    BY <1>5, <2>2 DEF k, a, b
<1>7. body' = [body EXCEPT ![q] = Part(k, 0, bytesRead[q])]
  BY <1>t, <1>6 DEF Send
<1>8. bytesRead[q] \in Len(body[q]) + 1 .. Size[k]
  BY <1>3, <1>5, <1>6
<1>9. Part(k, 0, bytesRead[q]) = SubSeq(Service!File(k), 1, bytesRead[q])
  BY DEF Part, File, Service!File
<1>10. \E n \in Len(body[q]) + 1 .. Size[Want[q]] :
          body' = [body EXCEPT ![q] = SubSeq(Service!File(Want[q]), 1, n)]
  BY <1>7, <1>8, <1>9
<1>11. header[q] = "OK"
  BY <1>1 DEF ServiceInv, Told, Answering
<1>12. Asked' = Asked /\ Over' = Over
  BY <1>t, <1>1 DEF Asked, Over
<1> QED
  BY <1>1, <1>10, <1>11, <1>12 DEF Service!Deliver, Asked, Over

(* To a client that is gone nothing is delivered. *)
LEMMA ServiceSendsNothing ==
    ASSUME ServiceInv, NEW q \in Reqs, q \in gone, Send(q)
    PROVE  UNCHANGED Service!vars
<1>1. pc[q] = "send" /\ pc' = [pc EXCEPT ![q] = "post"] /\ UNCHANGED <<header, body>>
  BY DEF Send, Goto
<1>2. \A r \in Reqs : /\ pc'[r] = "idle" <=> pc[r] = "idle"
                      /\ pc'[r] \in {"done", "release"} <=> pc[r] \in {"done", "release"}
  BY <1>1, Types DEF ServiceInv, OrderInv, IInv
<1> QED
  BY <1>1, <1>2, ServiceStays

(***************************************************************************)
(* The segment is given back when the whole file was sent, also when the   *)
(* client went away since: bytes_send is at its length only if the body is.*)
(***************************************************************************)
LEMMA ServiceFinishes ==
    ASSUME ServiceInv, NEW q \in Reqs, ReleaseSegment(q)
    PROVE  Service!Finish(q)
<1> DEFINE k == Want[q]
<1>t. pc \in [Reqs -> ProxyPCs] /\ bytesSend \in [Reqs -> Int]
  BY Types DEF ServiceInv, OrderInv, IInv
<1>1. /\ pc[q] = "loop" /\ bytesSend[q] >= FileLen(q)
      /\ UNCHANGED <<header, body>>
      /\ SignalChoice(pc, pc', q, "release", "seg_wait", "seg_gate")
  BY SignalCases DEF ReleaseSegment, clientVars
<1>2. Holds(q)
  BY <1>1 DEF Holds, HoldsSegment
<1>3. k \in Cached /\ Size[k] \in Nat
  BY <1>2, InUse, CacheAssumption DEF ServiceInv, OrderInv
<1>4. Progress(q)
  BY <1>3 DEF ServiceInv, OrderInv
<1>5. body[q] = Part(k, 0, Size[k])
  <2>1. CASE q \notin gone
    <3>1. PartsSent(q) /\ FileRead(q)
      BY <1>4, <2>1 DEF Progress
    <3>2. /\ bytesSend[q] \in Nat /\ bytesRead[q] \in Nat /\ bytesSend[q] <= bytesRead[q]
      BY <3>1, Types DEF ServiceInv, OrderInv, IInv, PartsSent
    <3>3. bytesSend[q] = Size[k]
      BY <1>1, <1>3, <3>1, <3>2 DEF FileRead, FileLen
    <3> QED
      BY <3>1, <3>3 DEF PartsSent
  <2>2. CASE q \in gone
    <3>1. PICK n \in 0 .. FileLen(q) : body[q] = Part(k, 0, n) /\ bytesSend[q] <= n
      BY <1>4, <2>2 DEF Progress, Abandoned
    <3>2. n = Size[k]
      BY <1>t, <1>1, <1>3, <3>1 DEF FileLen
    <3> QED
      BY <3>1, <3>2
  <2> QED
    BY <2>1, <2>2
<1>7. body[q] = Service!File(k)
  <2>2. Part(k, 0, Size[k]) = File(k)
    BY <1>3, FilePart
  <2> QED
    BY <1>5, <2>2 DEF File, Service!File
<1>8. header[q] = "OK"
  BY <1>1 DEF ServiceInv, Told, Answering
<1>9. \A r \in Reqs : \/ r = q /\ pc'[r] = "release"
                      \/ r # q /\ pc'[r] = pc[r]
                      \/ r # q /\ pc[r] = "seg_wait" /\ pc'[r] = "seg_gate"
  BY <1>t, <1>1 DEF SignalChoice
<1>10. Asked' = Asked /\ Over' = Over \cup {q} /\ q \notin Over
  BY <1>1, <1>9 DEF Asked, Over
<1> QED
  BY <1>1, <1>7, <1>8, <1>10 DEF Service!Finish, Asked, Over

LEMMA ServiceStep ==
    ASSUME ServiceInv, [Next]_vars
    PROVE  [Service!Next]_(Service!vars)
<1>t. pc \in [Reqs -> ProxyPCs]
  BY Types DEF ServiceInv, OrderInv, IInv
<1>1. CASE UNCHANGED <<pc, header, body>>
  BY <1>1, ServiceStays
<1>2. ASSUME NEW q \in Reqs, Request(q)
      PROVE  Service!Next
  <2>1. pc[q] = "idle" /\ pc' = [pc EXCEPT ![q] = "gate"] /\ UNCHANGED <<header, body>>
    BY <1>2 DEF Request, Goto, clientVars
  <2>2. Asked' = Asked \cup {q} /\ q \notin Asked /\ Over' = Over
    BY <1>t, <2>1 DEF Asked, Over
  <2>3. Service!Ask(q)
    BY <2>1, <2>2 DEF Service!Ask, Asked, Over
  <2> QED
    BY <2>3 DEF Service!Next
<1>3. ASSUME NEW q \in Reqs, MissHeader(q)
      PROVE  Service!Next
  <2>1. /\ pc[q] = "miss_header" /\ pc' = [pc EXCEPT ![q] = "done"]
        /\ header' = [header EXCEPT ![q] = "FILE_NOT_FOUND"] /\ body' = body
    BY <1>3 DEF MissHeader, Goto
  <2>2. header[q] = "none" /\ Want[q] \notin Cached
    BY <2>1 DEF ServiceInv, OrderInv, IInv, Session, Handshake, Told, Silent
  <2>3. Asked' = Asked /\ q \in Asked /\ Over' = Over \cup {q}
    BY <1>t, <2>1 DEF Asked, Over
  <2>4. Service!Refuse(q)
    BY <2>1, <2>2, <2>3 DEF Service!Refuse, Asked, Over
  <2> QED
    BY <2>4 DEF Service!Next
<1>4. ASSUME NEW q \in Reqs, SendHeader(q)
      PROVE  Service!Next
  <2>1. /\ pc[q] = "header" /\ pc' = [pc EXCEPT ![q] = "send_seg"]
        /\ header' = [header EXCEPT ![q] = "OK"] /\ body' = body
    BY <1>4 DEF SendHeader, Goto
  <2>2. header[q] = "none" /\ Want[q] \in Cached
    BY <2>1, InUse DEF ServiceInv, OrderInv, Told, Silent, Holds, HoldsSegment
  <2>3. Asked' = Asked /\ q \in Asked /\ Over' = Over
    BY <1>t, <2>1 DEF Asked, Over
  <2>4. Service!Accept(q)
    BY <2>1, <2>2, <2>3 DEF Service!Accept, Asked, Over
  <2> QED
    BY <2>4 DEF Service!Next
<1>5. ASSUME NEW q \in Reqs, Send(q) \/ ReleaseSegment(q)
      PROVE  [Service!Next]_(Service!vars)
  BY <1>5, ServiceDelivers, ServiceSendsNothing, ServiceFinishes DEF Service!Next
<1>6. ASSUME NEW q \in Reqs, MissRelease(q) \/ ReleaseWorker(q)
      PROVE  UNCHANGED Service!vars
  <2>1. \/ /\ pc[q] = "miss_release"
           /\ SignalChoice(pc, pc', q, "miss_header", "gate_wait", "gate")
        \/ pc[q] = "release" /\ SignalChoice(pc, pc', q, "done", "gate_wait", "gate")
    BY <1>6, SignalCases DEF MissRelease, ReleaseWorker
  <2>2. \A r \in Reqs : /\ pc'[r] = "idle" <=> pc[r] = "idle"
                        /\ pc'[r] \in {"done", "release"} <=> pc[r] \in {"done", "release"}
    BY <1>t, <2>1 DEF SignalChoice
  <2>3. UNCHANGED <<header, body>>
    BY <1>6 DEF MissRelease, ReleaseWorker, clientVars
  <2> QED
    BY <2>2, <2>3, ServiceStays
<1>7. ASSUME NEW q \in Reqs,
             \/ PassGate(q) \/ WaitGate(q) \/ Connect(q) \/ SendPath(q) \/ Receive(q)
             \/ TakeSegment(q) \/ WaitSegment(q) \/ SendSegInfo(q) \/ WaitReader(q)
             \/ PostWriter(q) \/ SpuriousWakeup(q)
      PROVE  UNCHANGED Service!vars
  <2>1. \/ pc' = pc
        \/ \E label \in ProxyPCs \ {"idle", "done", "release"} :
              pc' = [pc EXCEPT ![q] = label] /\ pc[q] \notin {"idle", "done", "release"}
    BY <1>7 DEF PassGate, WaitGate, Connect, SendPath, Receive, TakeSegment, WaitSegment,
                SendSegInfo, WaitReader, PostWriter, SpuriousWakeup, Goto, ProxyPCs
  <2>2. \A r \in Reqs : /\ pc'[r] = "idle" <=> pc[r] = "idle"
                        /\ pc'[r] \in {"done", "release"} <=> pc[r] \in {"done", "release"}
    BY <1>t, <2>1
  <2>3. UNCHANGED <<header, body>>
    BY <1>7 DEF PassGate, WaitGate, Connect, SendPath, Receive, TakeSegment, WaitSegment,
                SendSegInfo, WaitReader, PostWriter, SpuriousWakeup, clientVars
  <2> QED
    BY <2>2, <2>3, ServiceStays
<1>8. ASSUME NEW q \in Reqs, CacheStep(q) \/ ClientGone(q)
      PROVE  UNCHANGED <<pc, header, body>>
  BY <1>8 DEF CacheStep, CacheSpawn, CachePassGate, CacheWaitGate, CacheMiss, CacheMissRelease,
      CacheSeekEnd, CacheRewind, CacheReply, CacheReadSeg, CacheWaitWriter, CacheFill,
      CachePostReader, CacheRelease, ClientGone, clientVars
<1>9. CASE CacheAccept \/ Quiescent \/ UNCHANGED vars
  BY <1>1, <1>9 DEF CacheAccept, Quiescent, vars, clientVars
<1>10. ASSUME NEW q \in Reqs, ProxyStep(q)
       PROVE  [Service!Next]_(Service!vars)
  BY <1>3, <1>4, <1>5, <1>6, <1>7, <1>10 DEF ProxyStep
<1> QED
  BY <1>1, <1>2, <1>7, <1>8, <1>9, <1>10 DEF Next

(***************************************************************************)
(* The proxy and its cache together are a FileService while no two threads *)
(* of the cache are at the same file: every client is told the truth about *)
(* its file and gets the bytes of it in order, and its thread gives the    *)
(* segment back only after all of them, whichever clients go away.         *)
(***************************************************************************)
THEOREM FileServiceImplemented == Spec /\ []KeysApart => ImplementsFileService
<1>1. Init => ServiceInv /\ Service!Init
  BY OrderInit, ServiceInit DEF ServiceInv, Told, Init, Answering
<1>2. KeysApart /\ ServiceInv /\ [Next]_vars => ServiceInv'
  BY ServiceNext
<1>3. ServiceInv /\ [Next]_vars => [Service!Next]_(Service!vars)
  BY ServiceStep
<1> QED
  BY <1>1, <1>2, <1>3, PTL DEF Spec, ImplementsFileService, Service!Spec

(***************************************************************************)
(* Requests for different files keep the threads of the cache apart ...    *)
(***************************************************************************)
FilesApart == \A r, q \in Reqs : Want[r] = Want[q] /\ Want[r] \in Cached => r = q

THEOREM ServiceForDistinctFiles ==
    ASSUME FilesApart
    PROVE  Spec => ImplementsFileService
<1>1. KeysApart
  BY DEF FilesApart, KeysApart
<1> QED
  BY <1>1, FileServiceImplemented, PTL

(***************************************************************************)
(* ... and so does a cache that works with one thread (simplecached -t 1), *)
(* whatever the clients ask for: its gate lets one thread at a file.       *)
(***************************************************************************)
THEOREM ServiceOfOneCacheThread ==
    ASSUME MaxThreads = 1
    PROVE  Spec => ImplementsFileService
<1>1. CacheGate!GateBound => KeysApart
  <2> SUFFICES ASSUME CacheGate!GateBound, NEW r \in Reqs, NEW q \in Reqs,
                      AtFile(r), AtFile(q), r # q
               PROVE  FALSE
    BY DEF KeysApart
  <2> DEFINE W == {t \in Reqs : [u \in Reqs |-> CachePhase(cpc[u])][t] = "working"}
  <2>1. {r, q} \subseteq W
    BY DEF AtFile, CachePhase
  <2>2. Cardinality(W) <= 1 /\ IsFiniteSet(W)
    <3>1. IsFiniteSet(W)
      BY CacheAssumption, FS_Subset
    <3>2. Cardinality(W) <= MaxThreads
      BY DEF CacheGate!GateBound, CacheGate!Working, CacheGate!At, CacheGate!Cardinality,
             CacheGate!IsFiniteSet, Cardinality
    <3> QED
      BY <3>1, <3>2
  <2>3. Cardinality({r, q}) = 2
    <3>1. Cardinality({r}) = 1 /\ IsFiniteSet({r}) /\ {r} \cup {q} = {r, q}
      BY FS_Singleton
    <3>2. Cardinality({r} \cup {q}) = Cardinality({r}) + 1
      BY <3>1, FS_AddElement
    <3> QED
      BY <3>1, <3>2
  <2>4. Cardinality({r, q}) <= Cardinality(W)
    BY <2>1, <2>2, FS_Subset
  <2> QED
    BY <2>2, <2>3, <2>4, FS_Subset, FS_CardinalityType
<1> QED
  BY <1>1, CacheGateSound, FileServiceImplemented, PTL

-------------------------------------------------------------------------------
(***************************************************************************)
(* No deadlock.  A gate without lost wakeups: while somebody sleeps at it, *)
(* somebody else is on the way to its test or behind it.                   *)
(***************************************************************************)
LEMMA SleeperExcused ==
    ASSUME NEW g, NEW c, NEW limit \in Nat \ {0},
           c = Cardinality({t \in Reqs : g[t] = "working"}),
           {t \in Reqs : g[t] = "waiting"} # {} =>
               limit - c <= Cardinality({t \in Reqs : g[t] = "entering"}),
           NEW r \in Reqs, g[r] = "waiting"
    PROVE  \E t \in Reqs : g[t] \in {"entering", "working"}
<1> SUFFICES ASSUME \A t \in Reqs : g[t] \notin {"entering", "working"}
             PROVE  FALSE
  OBVIOUS
<1>1. {t \in Reqs : g[t] = "working"} = {} /\ {t \in Reqs : g[t] = "entering"} = {}
  OBVIOUS
<1>2. Cardinality({}) = 0
  BY FS_EmptySet
<1>3. {t \in Reqs : g[t] = "waiting"} # {}
  OBVIOUS
<1> QED
  BY <1>1, <1>2, <1>3

LEMMA ProxyGateExcuse ==
    ASSUME ProxyGate!GateBound, ProxyGate!NoLostWakeup,
           NEW r \in Reqs, pc[r] = "gate_wait"
    PROVE  \E q \in Reqs : pc[q] \notin {"idle", "gate_wait", "miss_header", "done"}
<1>g. PICK g : g = [q \in Reqs |-> ProxyPhase(pc[q])]
  OBVIOUS
<1>1. /\ workThreads = Cardinality({t \in Reqs : g[t] = "working"})
      /\ {t \in Reqs : g[t] = "waiting"} # {} =>
             NThread - workThreads <= Cardinality({t \in Reqs : g[t] = "entering"})
  BY <1>g DEF ProxyGate!GateBound, ProxyGate!NoLostWakeup, ProxyGate!Waiting, ProxyGate!At,
         ProxyGate!Entering, ProxyGate!Working, ProxyGate!Cardinality, Cardinality
<1>2. g[r] = "waiting" /\ NThread \in Nat \ {0}
  BY <1>g, CacheAssumption DEF ProxyPhase
<1>3. PICK q \in Reqs : g[q] \in {"entering", "working"}
  BY <1>1, <1>2, SleeperExcused
<1> QED
  BY <1>g, <1>3 DEF ProxyPhase

LEMMA CacheGateExcuse ==
    ASSUME CacheGate!GateBound, CacheGate!NoLostWakeup,
           NEW r \in Reqs, cpc[r] = "gate_wait"
    PROVE  \E q \in Reqs : cpc[q] \notin {"none", "queued", "accepted", "gate_wait", "closed"}
<1>g. PICK g : g = [q \in Reqs |-> CachePhase(cpc[q])]
  OBVIOUS
<1>1. /\ currentWorkers = Cardinality({t \in Reqs : g[t] = "working"})
      /\ {t \in Reqs : g[t] = "waiting"} # {} =>
             MaxThreads - currentWorkers <= Cardinality({t \in Reqs : g[t] = "entering"})
  BY <1>g DEF CacheGate!GateBound, CacheGate!NoLostWakeup, CacheGate!Waiting, CacheGate!At,
         CacheGate!Entering, CacheGate!Working, CacheGate!Cardinality, Cardinality
<1>2. g[r] = "waiting" /\ MaxThreads \in Nat \ {0}
  BY <1>g, CacheAssumption DEF CachePhase
<1>3. PICK q \in Reqs : g[q] \in {"entering", "working"}
  BY <1>1, <1>2, SleeperExcused
<1> QED
  BY <1>g, <1>3 DEF CachePhase

LEMMA SegmentGateExcuse ==
    ASSUME SegmentGate!GateBound, SegmentGate!NoLostWakeup,
           NEW r \in Reqs, pc[r] = "seg_wait"
    PROVE  \E q \in Reqs : pc[q] = "seg_gate" \/ Holds(q)
<1>g. PICK g : g = [q \in Reqs |-> SegmentPhase(q)]
  OBVIOUS
<1>1. /\ NSeg - segFree = Cardinality({t \in Reqs : g[t] = "working"})
      /\ {t \in Reqs : g[t] = "waiting"} # {} =>
             NSeg - (NSeg - segFree) <= Cardinality({t \in Reqs : g[t] = "entering"})
  BY <1>g DEF SegmentGate!GateBound, SegmentGate!NoLostWakeup, SegmentGate!Waiting,
         SegmentGate!At, SegmentGate!Entering, SegmentGate!Working,
         SegmentGate!Cardinality, Cardinality
<1>2. g[r] = "waiting" /\ NSeg \in Nat \ {0}
  BY <1>g, CacheAssumption DEF SegmentPhase, Holds, HoldsSegment
<1>3. PICK q \in Reqs : g[q] \in {"entering", "working"}
  BY <1>1, <1>2, SleeperExcused
<1> QED
  BY <1>g, <1>3 DEF SegmentPhase

GatesSound ==
    /\ ProxyGate!GateBound /\ ProxyGate!NoLostWakeup
    /\ CacheGate!GateBound /\ CacheGate!NoLostWakeup
    /\ SegmentGate!GateBound /\ SegmentGate!NoLostWakeup

(* Nobody can take a step, although every client stays. *)
Stuck ==
    /\ gone = {} /\ ~AcceptReady
    /\ \A r \in Reqs : ~ProxyReady(r) /\ ~CacheReady(r)

(* Then the listen queue is empty: main would accept, or a client send its path. *)
LEMMA StuckQueue ==
    ASSUME IInv, Stuck
    PROVE  /\ \A r \in Reqs : pc[r] # "connect"
           /\ \A r \in Reqs : cpc[r] \notin {"queued", "accepted"}
<1>1. ASSUME NEW r \in Reqs PROVE cpc[r] # "accepted"
  BY Types DEF IInv, Stuck, CacheReady, ProxyReady, ProxyPCs
<1>2. backlog = << >>
  BY <1>1 DEF Stuck, AcceptReady
<1>3. Len(backlog) = 0
  BY <1>2
<1>4. ASSUME NEW r \in Reqs PROVE cpc[r] # "queued"
  BY <1>3 DEF IInv, BacklogQueued
<1>5. ASSUME NEW r \in Reqs PROVE pc[r] # "connect"
  BY <1>3, CacheAssumption DEF Stuck, ProxyReady
<1> QED
  BY <1>1, <1>4, <1>5

(* No session is blocked in its transfer: its token lets one side go on. *)
LEMMA StuckHoldsNothing ==
    ASSUME IInv, Stuck, NEW r \in Reqs
    PROVE  ~Holds(r)
<1> SUFFICES ASSUME Holds(r) PROVE FALSE
  OBVIOUS
<1>t. pc[r] \in ProxyPCs /\ cpc[r] \in CachePCs /\ Session(r)
  BY Types DEF IInv
<1>n. ~ProxyReady(r) /\ ~CacheReady(r) /\ r \notin gone
  BY DEF Stuck
<1>1. pc[r] = "loop"
  BY <1>t, <1>n DEF Holds, HoldsSegment, ProxyReady
<1>2. reply[r] = "OK" /\ segInfo[r] # NoSeg /\ segInfo[r] = seg[r]
  BY <1>t, <1>1 DEF Session, Handshake, HoldsSegment
<1>3. cpc[r] \in {"loop", "closed"}
  BY <1>t, <1>n, <1>2 DEF Session, Handshake, CacheReady
<1>4. /\ semReader[seg[r]] \in 0 .. 1 /\ semWriter[seg[r]] \in 0 .. 1
      /\ bytesRead[r] \in Nat /\ bytesSend[r] \in Int /\ FileLen(r) \in Nat
  BY InUse
<1>5. ~Writing(r) /\ ~Reading(r)
  BY <1>1, <1>3 DEF Writing, Reading
<1>6. semReader[seg[r]] = 0 /\ semWriter[seg[r]] = 1 /\ bytesSend[r] < FileLen(r)
  BY <1>t, <1>n, <1>1, <1>4, <1>5 DEF Session, OneToken, Token, ProxyReady
<1>7. ~Pending(r)
  BY <1>1, <1>3, <1>6 DEF Pending
<1>8. bytesRead[r] < FileLen(r)
  BY <1>t, <1>n, <1>6, <1>7 DEF Session, Counts
<1>9. cpc[r] = "loop"
  BY <1>t, <1>2, <1>3, <1>4, <1>8 DEF Session, Counts
<1> QED
  BY <1>n, <1>2, <1>6, <1>9 DEF CacheReady

(* What is left: the proxy's threads wait for the cache or at the gate ... *)
LEMMA StuckProxy ==
    ASSUME IInv, GatesSound, Stuck, NEW r \in Reqs
    PROVE  pc[r] \in {"idle", "gate_wait", "receive", "done"}
<1>1. ASSUME NEW q \in Reqs
      PROVE  pc[q] \in {"idle", "gate_wait", "receive", "seg_wait", "done"}
  <2>1. pc[q] \in ProxyPCs /\ pc[q] # "connect" /\ ~Holds(q) /\ ~ProxyReady(q)
    BY Types, StuckQueue, StuckHoldsNothing DEF IInv, Stuck
  <2> QED
    BY <2>1 DEF ProxyReady, Holds, HoldsSegment
<1>2. pc[r] # "seg_wait"
  BY <1>1, SegmentGateExcuse, StuckHoldsNothing DEF GatesSound
<1> QED
  BY <1>1, <1>2

(* ... and no thread of the cache is at work, so that none waits at its gate. *)
LEMMA StuckCache ==
    ASSUME IInv, GatesSound, Stuck, NEW r \in Reqs
    PROVE  cpc[r] \in {"none", "closed"}
<1>1. ASSUME NEW q \in Reqs
      PROVE  cpc[q] \in {"none", "gate_wait", "closed"}
  <2>t. /\ Session(q) /\ ~CacheReady(q)
        /\ cpc[q] \in CachePCs /\ cpc[q] \notin {"queued", "accepted"}
    BY Types, StuckQueue DEF IInv, Stuck
  <2>1. cpc[q] \in {"none", "gate_wait", "read_seg", "loop", "closed"}
    BY <2>t DEF CacheReady
  <2>2. SUFFICES ASSUME cpc[q] \in {"read_seg", "loop"} PROVE FALSE
    BY <2>1
  <2>3. reply[q] = "OK" /\ pc[q] \notin {"idle", "gate_wait"}
    BY <2>t, <2>2 DEF Session, Handshake
  <2>4. pc[q] = "done" \/ pc[q] = "receive"
    BY <2>3, StuckProxy
  <2>5. pc[q] # "receive"
    BY <2>3 DEF Stuck, ProxyReady
  <2>6. segInfo[q] # NoSeg /\ bytesRead[q] >= FileLen(q)
    BY <2>t, <2>3, <2>4, <2>5 DEF Session, Handshake, Counts
  <2> QED
    BY <2>t, <2>2, <2>6 DEF CacheReady
<1>2. cpc[r] # "gate_wait"
  BY <1>1, CacheGateExcuse DEF GatesSound
<1> QED
  BY <1>1, <1>2

LEMMA StuckIsServed ==
    ASSUME IInv, GatesSound, Stuck
    PROVE  AllServed
<1>1. ASSUME NEW r \in Reqs PROVE pc[r] \in {"idle", "gate_wait", "done"}
  <2>1. pc[r] \in {"idle", "gate_wait", "receive", "done"} /\ cpc[r] \in {"none", "closed"}
    BY StuckProxy, StuckCache
  <2>2. Session(r) /\ ~ProxyReady(r)
    BY DEF IInv, Stuck
  <2> QED
    BY <2>1, <2>2 DEF Session, Handshake, ProxyReady
<1>2. ASSUME NEW r \in Reqs PROVE pc[r] # "gate_wait"
  BY <1>1, ProxyGateExcuse DEF GatesSound
<1> QED
  BY <1>1, <1>2, StuckCache DEF AllServed

(***************************************************************************)
(* The two gates, the listen queue, the pool and the sessions never block  *)
(* each other for good, for any number of threads, segments and requests,  *)
(* as long as no client goes away in the middle of its transfer.           *)
(***************************************************************************)
THEOREM ProxyCacheNeverStuck == Spec => []NobodyStuck
<1>1. IInv /\ GatesSound => NobodyStuck
  BY StuckIsServed DEF NobodyStuck, Stuck
<1>2. Spec => []GatesSound
  BY ProxyGateSound, CacheGateSound, SegmentGateSound, PTL DEF GatesSound
<1> QED
  BY <1>1, <1>2, ProxyCacheInductive, PTL
===============================================================================
