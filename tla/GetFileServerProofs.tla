-------------------------- MODULE GetFileServerProofs --------------------------
(***************************************************************************)
(* Proofs about GetFileServer, for every set of clients, files, chunk size *)
(* and setting: its types, the gate of its handler threads, the answers of *)
(* a handler that works before it returns, and the file service that such  *)
(* a server is for clients that stay and send their requests at once.      *)
(***************************************************************************)
EXTENDS GetFileServer, SequenceTheorems, TLAPS

(***************************************************************************)
(* What holds with either kind of handler: the connections in the queue    *)
(* are distinct and were not accepted, the descriptor denotes an accepted  *)
(* one, and a request is given to one handler, which opens a known file.   *)
(***************************************************************************)
QueueInv ==
    /\ \A i \in 1 .. Len(pending) : conn[pending[i]] = "pending"
    /\ \A i, j \in 1 .. Len(pending) : pending[i] = pending[j] => i = j

LoopInv ==
    /\ sock # NoConn => conn[sock] = "open"
    /\ boss \in {"read", "parse", "parse_torn"} => task[sock] = "none"
    /\ boss = "parse_torn" => setting.pieces[sock] > 1
    /\ \A c \in Clients : conn[c] \in {"none", "pending"} => task[c] = "none"
    /\ \A c \in Clients : sent[c] <= setting.pieces[c]

TaskInv == \A c \in Clients :
    /\ task[c] \in {"header", "loop"} => file[c] \in Known
    /\ task[c] \notin {"loop", "release", "done"} => pos[c] = 0
    /\ task[c] = "loop" => pos[c] \in Nat

ServerInv == TypeOK /\ QueueInv /\ LoopInv /\ TaskInv

Items == (Known \cup {NotFound, "ERROR"}) \X Nat
Labels == {"none", "gate", "gate_wait", "lookup", "miss_release",
           "miss_header", "header", "loop", "release", "done"}
Bosses == {"accept", "read", "parse", "parse_torn", "handler", "close", "exited"}
Ends == {"here", "closed", "reset", "broken"}

LEMMA Types ==
    ASSUME TypeOK
    PROVE  /\ setting.detached \in BOOLEAN /\ setting.pieces \in [Clients -> Nat \ {0}]
           /\ setting.aborts \subseteq Clients
           /\ boss \in Bosses /\ sock \in Clients \cup {NoConn} /\ NoConn \notin Clients
           /\ boss # "exited" => (sock = NoConn <=> boss = "accept")
           /\ text \in Paths \cup {"empty", "raw"} /\ pending \in Seq(Clients)
           /\ conn \in [Clients -> {"none", "pending", "open", "closed"}]
           /\ sent \in [Clients -> Nat] /\ taken \in [Clients -> Nat]
           /\ gone \in [Clients -> Ends] /\ got \in [Clients -> Seq(Items)]
           /\ task \in [Clients -> Labels] /\ file \in [Clients -> Known \cup {NotFound}]
           /\ pos \in [Clients -> Int] /\ workThreads \in Int
           /\ Size \in [Known -> Nat] /\ Chunk \in Nat \ {0} /\ MaxThreads \in Nat \ {0}
           /\ NotFound \notin Known /\ "empty" \notin Known /\ "raw" \notin Known
BY ServerAssumption DEF TypeOK, Items, Labels, Bosses, Ends

(* The same, put together again for the next state. *)
LEMMA TypesBack ==
    ASSUME (setting \in Settings)',
           (/\ boss \in Bosses /\ sock \in Clients \cup {NoConn}
            /\ boss # "exited" => (sock = NoConn <=> boss = "accept"))',
           (text \in Paths \cup {"empty", "raw"} /\ pending \in Seq(Clients))',
           (conn \in [Clients -> {"none", "pending", "open", "closed"}])',
           (sent \in [Clients -> Nat] /\ taken \in [Clients -> Nat])',
           (gone \in [Clients -> Ends] /\ got \in [Clients -> Seq(Items)])',
           (task \in [Clients -> Labels] /\ file \in [Clients -> Known \cup {NotFound}])',
           (pos \in [Clients -> Int] /\ workThreads \in Int)'
    PROVE  TypeOK'
BY DEF TypeOK, Items, Labels, Bosses, Ends

(***************************************************************************)
(* What a write does, by what the client did to its end.                   *)
(***************************************************************************)
WriteDone(items, next) ==
    /\ sock \in Clients
    /\ \/ gone[sock] = "here" /\ gone' = gone
       \/ gone[sock] = "closed" /\ gone' = [gone EXCEPT ![sock] = "broken"]
    /\ got' = [got EXCEPT ![sock] = @ \o items]
    /\ boss' = next

WriteLost(next) ==
    /\ got' = got
    /\ \/ sock = NoConn /\ gone' = gone /\ boss' = next
       \/ /\ sock \in Clients /\ gone[sock] = "reset"
          /\ gone' = [gone EXCEPT ![sock] = "broken"] /\ boss' = next
       \/ /\ sock \in Clients /\ gone[sock] = "broken"
          /\ gone' = [gone EXCEPT ![sock] = "broken"] /\ boss' = "exited"

LEMMA WriteCases ==
    ASSUME TypeOK, NEW items, NEW next, Write(items, next)
    PROVE  \/ WriteDone(items, next) /\ WriteResult = "ok"
           \/ WriteLost(next) /\ WriteResult # "ok"
<1>1. sock \in Clients \cup {NoConn} /\ gone \in [Clients -> Ends] /\ NoConn \notin Clients
  BY Types
<1>2. CASE sock = NoConn
  BY <1>1, <1>2 DEF Write, WriteResult, WriteLost
<1>3. CASE sock \in Clients
  <2>1. gone[sock] \in Ends
    BY <1>1, <1>3
  <2> QED
    BY <1>1, <1>3, <2>1 DEF Write, WriteResult, WriteLost, WriteDone, Ends
<1> QED
  BY <1>1, <1>2, <1>3

LEMMA WriteTypes ==
    ASSUME TypeOK, NEW items \in Seq(Items), NEW next, Write(items, next)
    PROVE  /\ got' \in [Clients -> Seq(Items)] /\ gone' \in [Clients -> Ends]
           /\ boss' \in {next, "exited"}
<1>1. got \in [Clients -> Seq(Items)] /\ gone \in [Clients -> Ends]
  BY Types
<1>2. \A s \in Seq(Items) : s \o items \in Seq(Items)
  BY ConcatProperties
<1> QED
  BY <1>1, <1>2, WriteCases DEF WriteDone, WriteLost, Ends

(***************************************************************************)
(* pthread_cond_signal: at most one sleeper goes back to the gate.         *)
(***************************************************************************)
LEMMA SignalEffect ==
    ASSUME TypeOK, NEW c \in Clients, NEW label \in Labels, task' \in TaskSignal(task, c, label)
    PROVE  /\ task' \in [Clients -> Labels] /\ task'[c] = label
           /\ \A d \in Clients : d # c => \/ task'[d] = task[d]
                                          \/ task[d] = "gate_wait" /\ task'[d] = "gate"
<1>1. task \in [Clients -> Labels]
  BY Types
<1>2. CASE task' = [task EXCEPT ![c] = label]
  BY <1>1, <1>2
<1>3. ASSUME NEW d \in Clients \ {c}, task[d] = "gate_wait",
             task' = [task EXCEPT ![c] = label, ![d] = "gate"]
      PROVE  /\ task' \in [Clients -> Labels] /\ task'[c] = label
             /\ \A e \in Clients : e # c => \/ task'[e] = task[e]
                                            \/ task[e] = "gate_wait" /\ task'[e] = "gate"
  BY <1>1, <1>3 DEF Labels
<1>4. \/ task' = [task EXCEPT ![c] = label]
      \/ \E d \in Clients \ {c} : task[d] = "gate_wait"
                                  /\ task' = [task EXCEPT ![c] = label, ![d] = "gate"]
  BY DEF TaskSignal
<1> QED
  BY <1>2, <1>3, <1>4

(***************************************************************************)
(* What the steps of a handler leave alone: the queue, the descriptor and  *)
(* the other handlers, of which at most a sleeper is woken.                *)
(***************************************************************************)
HandlerStep(c) == TaskStep(c) \/ SpuriousWakeup(c)

TaskFrame(c) ==
    /\ task[c] # "none" /\ task'[c] # "none" /\ boss # "exited"
    /\ task' \in [Clients -> Labels]
    /\ \A d \in Clients : d # c => \/ task'[d] = task[d]
                                   \/ task[d] = "gate_wait" /\ task'[d] = "gate"
    /\ UNCHANGED <<setting, sock, text, pending, conn, sent, taken>>
    /\ boss' \in {boss, "exited"}
    /\ file' \in [Clients -> Known \cup {NotFound}] /\ pos' \in [Clients -> Int]
    /\ \A d \in Clients : d # c => file'[d] = file[d] /\ pos'[d] = pos[d]
    /\ gone' \in [Clients -> Ends] /\ got' \in [Clients -> Seq(Items)]
    /\ workThreads' \in Int

(* The bytes one chunk carries. *)
ChunkLen(c) == IF Size[file[c]] - pos[c] < Chunk THEN Size[file[c]] - pos[c] ELSE Chunk
ChunkItems(c) == [i \in 1 .. ChunkLen(c) |-> <<file[c], pos[c] + i>>]

LEMMA ChunkTypes ==
    ASSUME ServerInv, NEW c \in Clients, task[c] = "loop", pos[c] < Size[file[c]]
    PROVE  /\ file[c] \in Known /\ pos[c] \in Nat /\ Size[file[c]] \in Nat
           /\ ChunkLen(c) \in Nat /\ ChunkLen(c) >= 1 /\ pos[c] + ChunkLen(c) <= Size[file[c]]
           /\ ChunkItems(c) \in Seq(Items) /\ Len(ChunkItems(c)) = ChunkLen(c)
<1>1. file[c] \in Known /\ pos[c] \in Nat
  BY DEF ServerInv, TaskInv
<1>2. Size[file[c]] \in Nat /\ Chunk \in Nat \ {0}
  BY <1>1, Types DEF ServerInv
<1>3. ChunkLen(c) \in Nat /\ ChunkLen(c) >= 1 /\ pos[c] + ChunkLen(c) <= Size[file[c]]
  BY <1>1, <1>2 DEF ChunkLen
<1>4. \A i \in 1 .. ChunkLen(c) : <<file[c], pos[c] + i>> \in Items
  BY <1>1, <1>3 DEF Items
<1> HIDE DEF ChunkLen
<1>5. ChunkItems(c) \in Seq(Items) /\ Len(ChunkItems(c)) = ChunkLen(c)
  BY <1>3, <1>4 DEF ChunkItems
<1> QED
  BY <1>1, <1>2, <1>3, <1>5

LEMMA SendChunkIs ==
    ASSUME ServerInv, NEW c \in Clients, SendChunk(c)
    PROVE  /\ Running /\ task[c] = "loop" /\ pos[c] < Size[file[c]]
           /\ Write(ChunkItems(c), boss)
           /\ \/ /\ WriteResult = "ok" /\ pos' = [pos EXCEPT ![c] = @ + ChunkLen(c)]
                 /\ task' = task
              \/ /\ WriteResult # "ok" /\ pos' = [pos EXCEPT ![c] = -1]
                 /\ task' = [task EXCEPT ![c] = "release"]
           /\ UNCHANGED <<setting, sock, text, pending, conn, sent, taken, file, workThreads>>
BY DEF SendChunk, ChunkItems, ChunkLen, TaskGoto

LEMMA HandlerFrame ==
    ASSUME ServerInv, NEW c \in Clients, HandlerStep(c)
    PROVE  TaskFrame(c)
<1>t. /\ task \in [Clients -> Labels] /\ file \in [Clients -> Known \cup {NotFound}]
      /\ pos \in [Clients -> Int] /\ gone \in [Clients -> Ends] /\ got \in [Clients -> Seq(Items)]
      /\ workThreads \in Int /\ text \in Paths \cup {"empty", "raw"}
  BY Types DEF ServerInv
<1>n. NotFound \in Known \cup {NotFound, "ERROR"} /\ 0 \in Nat
  OBVIOUS
<1>w. ASSUME NEW items \in Seq(Items), Write(items, boss)
      PROVE  got' \in [Clients -> Seq(Items)] /\ gone' \in [Clients -> Ends] /\ boss' \in {boss, "exited"}
  BY <1>w, WriteTypes DEF ServerInv
<1>1. CASE PassGate(c) \/ WaitGate(c) \/ EndLoop(c) \/ SpuriousWakeup(c)
  <2>1. /\ task[c] # "none" /\ boss # "exited"
        /\ UNCHANGED <<setting, boss, sock, text, pending, conn, sent, taken, gone, got, file, pos>>
    BY <1>1 DEF PassGate, WaitGate, EndLoop, SpuriousWakeup, Running, bossVars, netVars
  <2>2. \E l \in Labels \ {"none"} : task' = [task EXCEPT ![c] = l]
    BY <1>1 DEF PassGate, WaitGate, EndLoop, SpuriousWakeup, TaskGoto, Labels
  <2>3. workThreads' \in Int
    BY <1>t, <1>1 DEF PassGate, WaitGate, EndLoop, SpuriousWakeup
  <2> QED
    BY <1>t, <2>1, <2>2, <2>3 DEF TaskFrame
<1>2. CASE Lookup(c)
  BY <1>t, <1>2 DEF Lookup, TaskGoto, TaskFrame, Running, bossVars, netVars, Labels
<1>3. CASE MissRelease(c) \/ Release(c)
  <2>1. PICK label \in {"miss_header", "done"} : task' \in TaskSignal(task, c, label)
    BY <1>3 DEF MissRelease, Release
  <2>2. label \in Labels /\ label # "none"
    BY DEF Labels
  <2>3. /\ task' \in [Clients -> Labels] /\ task'[c] = label
        /\ \A d \in Clients : d # c => \/ task'[d] = task[d]
                                       \/ task[d] = "gate_wait" /\ task'[d] = "gate"
    BY <2>1, <2>2, SignalEffect DEF ServerInv
  <2> QED
    BY <1>t, <1>3, <2>2, <2>3 DEF MissRelease, Release, TaskFrame, Running, bossVars, netVars
<1>4. CASE MissHeader(c)
  <2>1. << <<NotFound, 0>> >> \in Seq(Items)
    BY <1>n DEF Items
  <2>2. got' \in [Clients -> Seq(Items)] /\ gone' \in [Clients -> Ends] /\ boss' \in {boss, "exited"}
    BY <1>4, <1>w, <2>1 DEF MissHeader
  <2> QED
    BY <1>t, <1>4, <2>2 DEF MissHeader, TaskGoto, TaskFrame, Running, Labels
<1>5. CASE SendHeader(c)
  <2>1. << <<file[c], 0>> >> \in Seq(Items)
    BY <1>t DEF Items
  <2>2. got' \in [Clients -> Seq(Items)] /\ gone' \in [Clients -> Ends] /\ boss' \in {boss, "exited"}
    BY <1>5, <1>w, <2>1 DEF SendHeader
  <2> QED
    BY <1>t, <1>5, <2>2 DEF SendHeader, TaskGoto, TaskFrame, Running, Labels
<1>6. CASE SendChunk(c)
  <2>1. /\ Running /\ task[c] = "loop" /\ pos[c] < Size[file[c]]
        /\ Write(ChunkItems(c), boss)
        /\ pos' \in {[pos EXCEPT ![c] = @ + ChunkLen(c)], [pos EXCEPT ![c] = -1]}
        /\ task' \in {task, [task EXCEPT ![c] = "release"]}
        /\ UNCHANGED <<setting, sock, text, pending, conn, sent, taken, file, workThreads>>
    BY <1>6, SendChunkIs
  <2>2. ChunkItems(c) \in Seq(Items) /\ ChunkLen(c) \in Nat
    BY <2>1, ChunkTypes
  <2>3. got' \in [Clients -> Seq(Items)] /\ gone' \in [Clients -> Ends] /\ boss' \in {boss, "exited"}
    BY <1>w, <2>1, <2>2
  <2>4. /\ task' \in [Clients -> Labels] /\ task'[c] # "none"
        /\ \A d \in Clients : d # c => task'[d] = task[d]
    BY <1>t, <2>1 DEF Labels
  <2>5. pos' \in [Clients -> Int] /\ \A d \in Clients : d # c => pos'[d] = pos[d]
    BY <1>t, <2>1, <2>2
  <2> QED
    BY <1>t, <2>1, <2>3, <2>4, <2>5 DEF TaskFrame, Running
<1> QED
  BY <1>1, <1>2, <1>3, <1>4, <1>5, <1>6 DEF HandlerStep, TaskStep

LEMMA HandlerKeepsServer ==
    ASSUME ServerInv, NEW c \in Clients, HandlerStep(c)
    PROVE  ServerInv'
<1>f. TaskFrame(c)
  BY HandlerFrame
<1>t. TypeOK
  BY DEF ServerInv
<1>1. TypeOK'
  <2>1. (/\ boss \in Bosses /\ sock \in Clients \cup {NoConn}
         /\ boss # "exited" => (sock = NoConn <=> boss = "accept"))'
    BY <1>t, <1>f, Types DEF TaskFrame, Bosses
  <2>2. (setting \in Settings /\ text \in Paths \cup {"empty", "raw"} /\ pending \in Seq(Clients))'
    BY <1>t, <1>f DEF TaskFrame, TypeOK
  <2>3. (/\ conn \in [Clients -> {"none", "pending", "open", "closed"}]
         /\ sent \in [Clients -> Nat] /\ taken \in [Clients -> Nat])'
    BY <1>t, <1>f DEF TaskFrame, TypeOK
  <2> QED
    BY <1>f, <2>1, <2>2, <2>3, TypesBack DEF TaskFrame
<1>2. QueueInv'
  BY <1>f DEF ServerInv, QueueInv, TaskFrame
<1>3. LoopInv'
  <2>1. \A d \in Clients : task[d] = "none" => task'[d] = "none" /\ d # c
    BY <1>f DEF TaskFrame
  <2>2. boss' \in {"read", "parse", "parse_torn"} => boss' = boss /\ sock \in Clients
    BY <1>f, <1>t, Types DEF TaskFrame
  <2> QED
    BY <1>f, <2>1, <2>2 DEF ServerInv, LoopInv, TaskFrame
<1>4. TaskInv'
  <2>1. ASSUME NEW d \in Clients, d # c
        PROVE  /\ task'[d] \in {"header", "loop"} => file'[d] \in Known
               /\ task'[d] \notin {"loop", "release", "done"} => pos'[d] = 0
               /\ task'[d] = "loop" => pos'[d] \in Nat
    BY <1>f, <2>1 DEF TaskFrame, ServerInv, TaskInv
  <2>2. /\ task'[c] \in {"header", "loop"} => file'[c] \in Known
        /\ task'[c] \notin {"loop", "release", "done"} => pos'[c] = 0
        /\ task'[c] = "loop" => pos'[c] \in Nat
    <3>t. /\ task \in [Clients -> Labels] /\ file \in [Clients -> Known \cup {NotFound}]
          /\ pos \in [Clients -> Int]
      BY <1>t, Types
    <3>i. /\ task[c] \in {"header", "loop"} => file[c] \in Known
          /\ task[c] \notin {"loop", "release", "done"} => pos[c] = 0
          /\ task[c] = "loop" => pos[c] \in Nat
      BY DEF ServerInv, TaskInv
    <3>1. CASE PassGate(c) \/ WaitGate(c) \/ EndLoop(c) \/ SpuriousWakeup(c)
      BY <3>t, <3>i, <3>1 DEF PassGate, WaitGate, EndLoop, SpuriousWakeup, TaskGoto
    <3>2. CASE Lookup(c)
      BY <3>t, <3>i, <3>2 DEF Lookup, TaskGoto
    <3>3. CASE MissRelease(c) \/ Release(c)
      <4>1. \/ task'[c] = "miss_header" /\ task[c] = "miss_release"
            \/ task'[c] = "done"
        BY <1>t, <3>3, SignalEffect DEF MissRelease, Release, Labels
      <4>2. pos' = pos
        BY <3>3 DEF MissRelease, Release
      <4> QED
        BY <3>i, <4>1, <4>2
    <3>4. CASE MissHeader(c) \/ SendHeader(c)
      BY <3>t, <3>i, <3>4 DEF MissHeader, SendHeader, TaskGoto
    <3>5. CASE SendChunk(c)
      <4>1. /\ task[c] = "loop" /\ pos[c] < Size[file[c]] /\ file' = file
            /\ \/ pos' = [pos EXCEPT ![c] = @ + ChunkLen(c)] /\ task' = task
               \/ task' = [task EXCEPT ![c] = "release"]
        BY <3>5, SendChunkIs
      <4>2. ChunkLen(c) \in Nat
        BY <4>1, ChunkTypes
      <4> QED
        BY <3>t, <3>i, <4>1, <4>2
    <3> QED
      BY <3>1, <3>2, <3>3, <3>4, <3>5 DEF HandlerStep, TaskStep
  <2> QED
    BY <2>1, <2>2 DEF TaskInv
<1> QED
  BY <1>1, <1>2, <1>3, <1>4 DEF ServerInv

(***************************************************************************)
(* The loop: it accepts the first connection of the queue and gives its    *)
(* request to a handler that has not run.                                  *)
(***************************************************************************)
LEMMA AcceptKeepsServer ==
    ASSUME ServerInv, Accept
    PROVE  ServerInv'
<1>t. /\ TypeOK /\ pending \in Seq(Clients) /\ conn \in [Clients -> {"none", "pending", "open", "closed"}]
      /\ NoConn \notin Clients
  BY Types DEF ServerInv
<1>g. /\ boss = "accept" /\ pending # << >> /\ sock' = Head(pending) /\ pending' = Tail(pending)
      /\ conn' = [conn EXCEPT ![Head(pending)] = "open"] /\ text' = "empty" /\ boss' = "read"
      /\ UNCHANGED <<setting, sent, taken, gone, got, task, file, pos, workThreads>>
  BY DEF Accept, taskVars
<1>q. /\ Head(pending) \in Clients /\ Head(pending) = pending[1]
      /\ Len(pending) \in Nat /\ 1 \in 1 .. Len(pending)
      /\ pending' \in Seq(Clients) /\ Len(pending') = Len(pending) - 1
      /\ \A i \in 1 .. Len(pending') : pending'[i] = pending[i + 1] /\ i + 1 \in 1 .. Len(pending)
  BY <1>t, <1>g, HeadTailProperties
<1>c. conn[Head(pending)] = "pending"
  BY <1>q DEF ServerInv, QueueInv
<1>1. TypeOK'
  <2>1. (/\ boss \in Bosses /\ sock \in Clients \cup {NoConn}
         /\ boss # "exited" => (sock = NoConn <=> boss = "accept"))'
    BY <1>t, <1>g, <1>q DEF Bosses
  <2>2. (conn \in [Clients -> {"none", "pending", "open", "closed"}])'
    BY <1>t, <1>g
  <2> QED
    BY <1>t, <1>g, <1>q, <2>1, <2>2, Types, TypesBack DEF TypeOK
<1>2. QueueInv'
  <2>1. ASSUME NEW i \in 1 .. Len(pending') PROVE conn'[pending'[i]] = "pending"
    <3>1. pending'[i] = pending[i + 1] /\ i + 1 \in 1 .. Len(pending) /\ i + 1 # 1
      BY <1>q
    <3>2. pending[i + 1] # Head(pending) /\ conn[pending[i + 1]] = "pending"
      BY <1>q, <3>1 DEF ServerInv, QueueInv
    <3>3. pending[i + 1] \in Clients
      BY <1>t, <3>1, ElementOfSeq
    <3> QED
      BY <1>t, <1>g, <3>1, <3>2, <3>3
  <2>2. ASSUME NEW i \in 1 .. Len(pending'), NEW j \in 1 .. Len(pending'),
               pending'[i] = pending'[j]
        PROVE  i = j
    <3>1. i + 1 = j + 1
      BY <1>q, <2>2 DEF ServerInv, QueueInv
    <3> QED
      BY <1>q, <3>1
  <2> QED
    BY <2>1, <2>2 DEF QueueInv
<1>3. LoopInv'
  BY <1>t, <1>g, <1>q, <1>c DEF ServerInv, LoopInv
<1>4. TaskInv'
  BY <1>g DEF ServerInv, TaskInv
<1> QED
  BY <1>1, <1>2, <1>3, <1>4 DEF ServerInv

LEMMA ReadKeepsServer ==
    ASSUME ServerInv, Read \/ ReadEnd \/ ReadError \/ Refuse
    PROVE  ServerInv'
<1>t. /\ TypeOK /\ sock \in Clients \cup {NoConn} /\ NoConn \notin Clients
      /\ boss # "exited" => (sock = NoConn <=> boss = "accept")
      /\ sent \in [Clients -> Nat] /\ taken \in [Clients -> Nat]
      /\ setting.pieces \in [Clients -> Nat \ {0}]
      /\ gone \in [Clients -> Ends] /\ got \in [Clients -> Seq(Items)]
  BY Types DEF ServerInv
<1>g. boss \in {"read", "parse_torn"} /\ sock \in Clients
  BY <1>t DEF Read, ReadEnd, ReadError, Refuse
<1>u. UNCHANGED <<setting, sock, pending, conn, sent, task, file, pos, workThreads>>
  BY DEF Read, ReadEnd, ReadError, Refuse, netVars, taskVars
<1>r. ASSUME Read
      PROVE  /\ taken' \in [Clients -> Nat]
             /\ boss' = "parse_torn" => setting.pieces[sock] > 1
  <2>1. PICK n \in taken[sock] + 1 .. sent[sock] :
          /\ taken' = [taken EXCEPT ![sock] = n]
          /\ boss' \in IF n < setting.pieces[sock] THEN {"read"}
                       ELSE IF taken[sock] = 0 THEN {"parse"} ELSE {"read", "parse_torn"}
    BY <1>r DEF Read
  <2>2. sent[sock] <= setting.pieces[sock]
    BY <1>g DEF ServerInv, LoopInv
  <2>3. taken[sock] \in Nat /\ sent[sock] \in Nat /\ setting.pieces[sock] \in Nat /\ n \in Nat
    BY <1>t, <1>g
  <2>4. boss' = "parse_torn" => taken[sock] # 0
    BY <2>1
  <2>5. taken[sock] # 0 => setting.pieces[sock] > 1
    <3> DEFINE before == taken[sock]
               came == sent[sock]
               whole == setting.pieces[sock]
    <3>1. before \in Nat /\ came \in Nat /\ whole \in Nat /\ n \in before + 1 .. came /\ came <= whole
      BY <2>2, <2>3
    <3> HIDE DEF before, came, whole
    <3>2. before # 0 => whole > 1
      BY <3>1
    <3> QED
      BY <3>2 DEF before, whole
  <2>6. taken' \in [Clients -> Nat]
    BY <1>t, <1>g, <2>1, <2>3
  <2> QED
    BY <2>4, <2>5, <2>6
<1>b. boss' \in {"read", "parse", "parse_torn", "close", "exited"} /\ taken' \in [Clients -> Nat]
      /\ (boss' = "parse_torn" => setting.pieces[sock] > 1)
      /\ (boss' \in {"read", "parse", "parse_torn"} => task[sock] = "none")
      /\ text' \in {text, "raw"}
  <2>1. CASE Read
    BY <1>g, <1>r, <2>1 DEF Read, ServerInv, LoopInv
  <2>2. CASE ReadEnd \/ Refuse
    <3>1. \E items : Write(items, "close")
      BY <2>2 DEF ReadEnd, Refuse
    <3>2. boss' \in {"close", "exited"}
      BY <1>t, <3>1, WriteCases DEF WriteDone, WriteLost
    <3> QED
      BY <1>t, <2>2, <3>2 DEF ReadEnd, Refuse
  <2>3. CASE ReadError
    BY <1>t, <2>3 DEF ReadError, netVars
  <2> QED
    BY <2>1, <2>2, <2>3
<1>w. gone' \in [Clients -> Ends] /\ got' \in [Clients -> Seq(Items)]
  <2>1. << <<"ERROR", 0>> >> \in Seq(Items) /\ << <<NotFound, 0>> >> \in Seq(Items)
    BY DEF Items
  <2>2. CASE ReadEnd \/ Refuse
    BY <1>t, <2>1, <2>2, WriteTypes DEF ReadEnd, Refuse
  <2>3. CASE Read \/ ReadError
    BY <1>t, <2>3 DEF Read, ReadError, netVars
  <2> QED
    BY <2>2, <2>3
<1>1. TypeOK'
  <2>1. (/\ boss \in Bosses /\ sock \in Clients \cup {NoConn}
         /\ boss # "exited" => (sock = NoConn <=> boss = "accept"))'
    BY <1>t, <1>g, <1>u, <1>b DEF Bosses
  <2>2. (text \in Paths \cup {"empty", "raw"})'
    BY <1>t, <1>b DEF TypeOK
  <2>3. sent' \in [Clients -> Nat]
    BY <1>t, <1>u
  <2> QED
    BY <1>t, <1>u, <1>b, <1>w, <2>1, <2>2, <2>3, Types, TypesBack DEF TypeOK
<1>2. QueueInv'
  BY <1>u DEF ServerInv, QueueInv
<1>3. LoopInv'
  BY <1>u, <1>b DEF ServerInv, LoopInv
<1>4. TaskInv'
  BY <1>u DEF ServerInv, TaskInv
<1> QED
  BY <1>1, <1>2, <1>3, <1>4 DEF ServerInv

LEMMA CallKeepsServer ==
    ASSUME ServerInv, Call \/ Return \/ Close
    PROVE  ServerInv'
<1>t. /\ TypeOK /\ sock \in Clients \cup {NoConn} /\ NoConn \notin Clients
      /\ boss # "exited" => (sock = NoConn <=> boss = "accept")
      /\ task \in [Clients -> Labels]
      /\ conn \in [Clients -> {"none", "pending", "open", "closed"}]
  BY Types DEF ServerInv
<1>g. boss \in {"parse", "handler", "close"} /\ sock \in Clients /\ conn[sock] = "open"
  BY <1>t DEF Call, Return, Close, ServerInv, LoopInv
<1>u. UNCHANGED <<setting, pending, sent, taken, gone, got, file, pos, workThreads>>
  BY DEF Call, Return, Close, netVars, taskVars
<1>1. CASE Call
  <2>1. /\ boss = "parse" /\ text' = Path[sock] /\ task' = [task EXCEPT ![sock] = "gate"]
        /\ boss' \in {"close", "handler"} /\ sock' = sock /\ conn' = conn
    BY <1>1 DEF Call, netVars
  <2>2. TypeOK'
    <3>1. (/\ boss \in Bosses /\ sock \in Clients \cup {NoConn}
           /\ boss # "exited" => (sock = NoConn <=> boss = "accept"))'
      BY <1>t, <1>g, <2>1 DEF Bosses
    <3>2. text' \in Paths \cup {"empty", "raw"} /\ task' \in [Clients -> Labels]
      BY <1>t, <1>g, <2>1 DEF Paths, Labels
    <3> QED
      BY <1>t, <1>u, <2>1, <3>1, <3>2, Types, TypesBack DEF TypeOK
  <2>3. QueueInv' /\ TaskInv'
    BY <1>t, <1>g, <1>u, <2>1 DEF ServerInv, QueueInv, TaskInv, LoopInv
  <2>4. LoopInv'
    BY <1>t, <1>g, <1>u, <2>1 DEF ServerInv, LoopInv
  <2> QED
    BY <2>2, <2>3, <2>4 DEF ServerInv
<1>2. CASE Return
  <2>1. boss = "handler" /\ boss' = "close" /\ UNCHANGED <<sock, text, conn, task>>
    BY <1>2 DEF Return, netVars, taskVars
  <2>2. TypeOK'
    <3>1. (/\ boss \in Bosses /\ sock \in Clients \cup {NoConn}
           /\ boss # "exited" => (sock = NoConn <=> boss = "accept"))'
      BY <1>t, <1>g, <2>1 DEF Bosses
    <3> QED
      BY <1>t, <1>u, <2>1, <3>1, Types, TypesBack DEF TypeOK
  <2>3. QueueInv' /\ TaskInv' /\ LoopInv'
    BY <1>u, <2>1 DEF ServerInv, QueueInv, TaskInv, LoopInv
  <2> QED
    BY <2>2, <2>3 DEF ServerInv
<1>3. CASE Close
  <2>1. /\ boss' = "accept" /\ sock' = NoConn /\ conn' = [conn EXCEPT ![sock] = "closed"]
        /\ UNCHANGED <<text, task>>
    BY <1>3 DEF Close, taskVars
  <2>2. TypeOK'
    <3>1. (/\ boss \in Bosses /\ sock \in Clients \cup {NoConn}
           /\ boss # "exited" => (sock = NoConn <=> boss = "accept"))'
      BY <2>1 DEF Bosses
    <3>2. conn' \in [Clients -> {"none", "pending", "open", "closed"}]
      BY <1>t, <1>g, <2>1
    <3> QED
      BY <1>t, <1>u, <2>1, <3>1, <3>2, Types, TypesBack DEF TypeOK
  <2>3. QueueInv'
    <3>1. \A i \in 1 .. Len(pending) : pending[i] \in Clients /\ pending[i] # sock
      BY <1>t, <1>g, Types, ElementOfSeq DEF ServerInv, QueueInv
    <3> QED
      BY <1>t, <1>u, <2>1, <3>1 DEF ServerInv, QueueInv
  <2>4. TaskInv'
    BY <1>u, <2>1 DEF ServerInv, TaskInv
  <2>5. LoopInv'
    BY <1>t, <1>g, <1>u, <2>1 DEF ServerInv, LoopInv
  <2> QED
    BY <2>2, <2>3, <2>4, <2>5 DEF ServerInv
<1> QED
  BY <1>1, <1>2, <1>3

(* The clients: a connection goes to the end of the queue once. *)
LEMMA ClientKeepsServer ==
    ASSUME ServerInv, NEW c \in Clients, Connect(c) \/ SendPiece(c) \/ Leave(c)
    PROVE  ServerInv'
<1>t. /\ TypeOK /\ pending \in Seq(Clients) /\ NoConn \notin Clients
      /\ conn \in [Clients -> {"none", "pending", "open", "closed"}]
      /\ sent \in [Clients -> Nat] /\ gone \in [Clients -> Ends]
      /\ setting.pieces \in [Clients -> Nat \ {0}]
  BY Types DEF ServerInv
<1>u. UNCHANGED <<setting, boss, sock, text, taken, got, task, file, pos, workThreads>>
  BY DEF Connect, SendPiece, Leave, bossVars, taskVars
<1>b. (/\ boss \in Bosses /\ sock \in Clients \cup {NoConn}
       /\ boss # "exited" => (sock = NoConn <=> boss = "accept"))'
  BY <1>t, <1>u, Types
<1>1. CASE Connect(c)
  <2>1. /\ conn[c] = "none" /\ pending' = Append(pending, c)
        /\ conn' = [conn EXCEPT ![c] = "pending"] /\ UNCHANGED <<sent, gone>>
    BY <1>1 DEF Connect
  <2>2. /\ pending' \in Seq(Clients) /\ Len(pending) \in Nat /\ Len(pending') = Len(pending) + 1
        /\ pending'[Len(pending) + 1] = c
        /\ \A i \in 1 .. Len(pending) : pending'[i] = pending[i]
    BY <1>t, <2>1, AppendProperties
  <2>3. TypeOK'
    <3>1. conn' \in [Clients -> {"none", "pending", "open", "closed"}]
      BY <1>t, <2>1
    <3> QED
      BY <1>t, <1>u, <1>b, <2>1, <2>2, <3>1, Types, TypesBack DEF TypeOK
  <2>4. QueueInv'
    <3>1. \A i \in 1 .. Len(pending) : pending[i] \in Clients /\ pending[i] # c
      BY <1>t, <2>1, ElementOfSeq DEF ServerInv, QueueInv
    <3>2. \A i \in 1 .. Len(pending') : i \in 1 .. Len(pending) \/ i = Len(pending) + 1
      BY <2>2
    <3>3. \A i \in 1 .. Len(pending') : conn'[pending'[i]] = "pending"
      BY <1>t, <2>1, <2>2, <3>1, <3>2 DEF ServerInv, QueueInv
    <3>4. \A i, j \in 1 .. Len(pending') : pending'[i] = pending'[j] => i = j
      BY <2>2, <3>1, <3>2 DEF ServerInv, QueueInv
    <3> QED
      BY <3>3, <3>4 DEF QueueInv
  <2>5. LoopInv'
    BY <1>t, <1>u, <2>1 DEF ServerInv, LoopInv
  <2>6. TaskInv'
    BY <1>u DEF ServerInv, TaskInv
  <2> QED
    BY <2>3, <2>4, <2>5, <2>6 DEF ServerInv
<1>2. CASE SendPiece(c) \/ Leave(c)
  <2>1. /\ UNCHANGED <<pending, conn>>
        /\ sent' \in [Clients -> Nat] /\ gone' \in [Clients -> Ends]
        /\ \A d \in Clients : sent'[d] <= setting.pieces[d]
    <3>1. CASE SendPiece(c)
      <4>1. sent[c] < setting.pieces[c] /\ sent' = [sent EXCEPT ![c] = @ + 1] /\ gone' = gone
            /\ UNCHANGED <<pending, conn>>
        BY <3>1 DEF SendPiece
      <4> QED
        BY <1>t, <4>1 DEF ServerInv, LoopInv
    <3>2. CASE Leave(c)
      <4>1. /\ sent' = sent /\ UNCHANGED <<pending, conn>>
            /\ \E how \in {"closed", "reset"} : gone' = [gone EXCEPT ![c] = how]
        BY <3>2 DEF Leave
      <4> QED
        BY <1>t, <4>1 DEF ServerInv, LoopInv, Ends
    <3> QED
      BY <1>2, <3>1, <3>2
  <2>2. TypeOK'
    BY <1>t, <1>u, <1>b, <2>1, Types, TypesBack DEF TypeOK
  <2>3. QueueInv' /\ TaskInv'
    BY <1>u, <2>1 DEF ServerInv, QueueInv, TaskInv
  <2>4. LoopInv'
    BY <1>u, <2>1 DEF ServerInv, LoopInv
  <2> QED
    BY <2>2, <2>3, <2>4 DEF ServerInv
<1> QED
  BY <1>1, <1>2

LEMMA ServerInit == Init => ServerInv
<1> SUFFICES ASSUME Init PROVE ServerInv
  OBVIOUS
<1>i. /\ setting \in Settings /\ boss = "accept" /\ sock = NoConn /\ text = "empty"
      /\ pending = << >> /\ conn = [c \in Clients |-> "none"]
      /\ sent = [c \in Clients |-> 0] /\ taken = [c \in Clients |-> 0]
      /\ gone = [c \in Clients |-> "here"] /\ got = [c \in Clients |-> << >>]
      /\ task = [c \in Clients |-> "none"] /\ file = [c \in Clients |-> NotFound]
      /\ pos = [c \in Clients |-> 0] /\ workThreads = 0
  BY DEF Init
<1>1. TypeOK
  <2>1. got \in [Clients -> Seq((Known \cup {NotFound, "ERROR"}) \X Nat)] /\ pending \in Seq(Clients)
    BY <1>i, EmptySeq
  <2> QED
    BY <1>i, <2>1 DEF TypeOK
<1>2. QueueInv
  BY <1>i, EmptySeq DEF QueueInv
<1>3. LoopInv
  <2>1. \A c \in Clients : sent[c] <= setting.pieces[c]
    BY <1>i, <1>1, Types
  <2> QED
    BY <1>i, <2>1 DEF LoopInv
<1>4. TaskInv
  BY <1>i DEF TaskInv
<1> QED
  BY <1>1, <1>2, <1>3, <1>4 DEF ServerInv

LEMMA ServerNext == ServerInv /\ [Next]_vars => ServerInv'
<1> SUFFICES ASSUME ServerInv, [Next]_vars PROVE ServerInv'
  OBVIOUS
<1>1. CASE BossStep
  BY <1>1, AcceptKeepsServer, ReadKeepsServer, CallKeepsServer DEF BossStep
<1>2. ASSUME NEW c \in Clients, \/ TaskStep(c) \/ SpuriousWakeup(c)
                                \/ Connect(c) \/ SendPiece(c) \/ Leave(c)
      PROVE  ServerInv'
  BY <1>2, HandlerKeepsServer, ClientKeepsServer DEF HandlerStep
<1>3. CASE UNCHANGED vars
  BY <1>3 DEF vars, bossVars, netVars, taskVars, ServerInv, TypeOK, QueueInv, LoopInv, TaskInv
<1> QED
  BY <1>1, <1>2, <1>3 DEF Next, Quiescent

LEMMA ServerInvariant == Spec => []ServerInv
BY ServerInit, ServerNext, PTL DEF Spec

(***************************************************************************)
(* The variables of the loop, the connections and the handlers keep their  *)
(* types, and between two accepts the descriptor denotes a connection.     *)
(***************************************************************************)
THEOREM ServerTypeCorrect == Spec => []TypeOK
<1>1. ServerInv => TypeOK
  BY DEF ServerInv
<1> QED
  BY <1>1, ServerInvariant, PTL

(***************************************************************************)
(* The gate of the handler threads: one arrives when the loop calls the    *)
(* handler, is counted between the two critical sections whichever way it  *)
(* takes, and wakes a sleeper when it leaves.                              *)
(***************************************************************************)
TaskPhases == [c \in Clients |-> TaskPhase(task[c])]

LEMMA GateStays ==
    ASSUME workThreads' = workThreads,
           \A c \in Clients : TaskPhase(task'[c]) = TaskPhase(task[c])
    PROVE  UNCHANGED Gate!vars
<1>1. TaskPhases' = TaskPhases
  BY DEF TaskPhases
<1> QED
  BY <1>1 DEF TaskPhases, Gate!vars

LEMMA GateLeaves ==
    ASSUME TypeOK, NEW c \in Clients, MissRelease(c) \/ Release(c)
    PROVE  Gate!Leave(c)
<1>t. task \in [Clients -> Labels]
  BY Types
<1>1. PICK label \in {"miss_header", "done"} : task' \in TaskSignal(task, c, label)
  BY DEF MissRelease, Release
<1>2. TaskPhase(task[c]) = "working" /\ TaskPhase(label) = "left"
  BY DEF MissRelease, Release, TaskPhase
<1>3. \A d \in Clients : TaskPhase(task[d]) = "waiting" <=> task[d] = "gate_wait"
  BY DEF TaskPhase
<1> DEFINE left == [TaskPhases EXCEPT ![c] = "left"]
<1>4. \A d \in Clients : left[d] = "waiting" <=> (d # c /\ task[d] = "gate_wait")
  BY <1>3 DEF TaskPhases
<1>5. ASSUME \A d \in Clients \ {c} : task[d] # "gate_wait", task' = [task EXCEPT ![c] = label]
      PROVE  TaskPhases' \in Gate!Signal(left)
  <2>1. TaskPhases' = left
    BY <1>t, <1>2, <1>5 DEF TaskPhases
  <2>2. {d \in Clients : left[d] = "waiting"} = {}
    BY <1>4, <1>5
  <2> QED
    BY <2>1, <2>2 DEF Gate!Signal, Gate!At
<1>6. ASSUME NEW d \in Clients \ {c}, task[d] = "gate_wait",
             task' = [task EXCEPT ![c] = label, ![d] = "gate"]
      PROVE  TaskPhases' \in Gate!Signal(left)
  <2>1. TaskPhases' = [t \in Clients |-> IF t = d THEN "entering" ELSE left[t]]
    BY <1>t, <1>2, <1>6 DEF TaskPhases, TaskPhase
  <2>2. d \in {t \in Clients : left[t] = "waiting"}
    BY <1>4, <1>6
  <2> QED
    BY <2>1, <2>2 DEF Gate!Signal, Gate!At
<1>7. \/ (\A d \in Clients \ {c} : task[d] # "gate_wait") /\ task' = [task EXCEPT ![c] = label]
      \/ \E d \in Clients \ {c} : task[d] = "gate_wait"
                                  /\ task' = [task EXCEPT ![c] = label, ![d] = "gate"]
  BY <1>1 DEF TaskSignal
<1>8. TaskPhases' \in Gate!Signal(left) /\ workThreads' = workThreads - 1
  BY <1>5, <1>6, <1>7 DEF MissRelease, Release
<1> QED
  BY <1>2, <1>8 DEF Gate!Leave, TaskPhases

LEMMA GateInit == Init => Gate!Init
BY DEF Init, Gate!Init, TaskPhase

LEMMA GateStep == ServerInv /\ [Next]_vars => [Gate!Next]_(Gate!vars)
<1> SUFFICES ASSUME ServerInv, [Next]_vars PROVE [Gate!Next]_(Gate!vars)
  OBVIOUS
<1>t. /\ TypeOK /\ task \in [Clients -> Labels]
      /\ sock \in Clients \cup {NoConn} /\ (boss # "exited" => (sock = NoConn <=> boss = "accept"))
  BY Types DEF ServerInv
<1>1. CASE UNCHANGED <<task, workThreads>>
  BY <1>1, GateStays
<1>2. ASSUME NEW c \in Clients, NEW label, task' = [task EXCEPT ![c] = label]
      PROVE  /\ TaskPhases' = [TaskPhases EXCEPT ![c] = TaskPhase(label)]
             /\ TaskPhases[c] = TaskPhase(task[c])
  BY <1>t, <1>2 DEF TaskPhases
<1>3. CASE Call
  <2>1. /\ sock \in Clients /\ task[sock] = "none" /\ workThreads' = workThreads
        /\ task' = [task EXCEPT ![sock] = "gate"]
    BY <1>3, <1>t DEF Call, ServerInv, LoopInv
  <2>2. PICK c \in Clients : c = sock
    BY <2>1
  <2>3. Gate!Arrive(c)
    BY <1>2, <2>1, <2>2 DEF Gate!Arrive, TaskPhases, TaskPhase
  <2> QED
    BY <2>3 DEF Gate!Next
<1>4. CASE Accept \/ Read \/ ReadEnd \/ ReadError \/ Refuse \/ Return \/ Close
  BY <1>1, <1>4 DEF Accept, Read, ReadEnd, ReadError, Refuse, Return, Close, taskVars
<1>5. ASSUME NEW c \in Clients, PassGate(c) PROVE Gate!Next
  <2>1. Gate!Admit(c)
    BY <1>t, <1>2, <1>5 DEF PassGate, TaskGoto, Gate!Admit, TaskPhases, TaskPhase
  <2> QED
    BY <2>1 DEF Gate!Next, Gate!Thread
<1>6. ASSUME NEW c \in Clients, WaitGate(c) PROVE Gate!Next
  <2>1. Gate!Sleep(c)
    BY <1>t, <1>2, <1>6 DEF WaitGate, TaskGoto, Gate!Sleep, TaskPhases, TaskPhase
  <2> QED
    BY <2>1 DEF Gate!Next, Gate!Thread
<1>7. ASSUME NEW c \in Clients, SpuriousWakeup(c) PROVE Gate!Next
  <2>1. Gate!SpuriousWakeup(c)
    BY <1>t, <1>2, <1>7 DEF SpuriousWakeup, TaskGoto, Gate!SpuriousWakeup, TaskPhases, TaskPhase
  <2> QED
    BY <2>1 DEF Gate!Next
<1>8. ASSUME NEW c \in Clients, MissRelease(c) \/ Release(c) PROVE Gate!Next
  BY <1>t, <1>8, GateLeaves DEF Gate!Next, Gate!Thread
<1>9. ASSUME NEW c \in Clients,
             Lookup(c) \/ MissHeader(c) \/ SendHeader(c) \/ SendChunk(c) \/ EndLoop(c)
      PROVE  UNCHANGED Gate!vars
  <2>1. workThreads' = workThreads
    BY <1>9 DEF Lookup, MissHeader, SendHeader, SendChunk, EndLoop
  <2>2. \A d \in Clients : \/ task'[d] = task[d]
                           \/ {task[d], task'[d]} \subseteq {"lookup", "miss_release", "header",
                                                             "loop", "release"}
                           \/ task[d] = "miss_header" /\ task'[d] = "done"
    BY <1>t, <1>9 DEF Lookup, MissHeader, SendHeader, SendChunk, EndLoop, TaskGoto
  <2>3. \A d \in Clients : TaskPhase(task'[d]) = TaskPhase(task[d])
    BY <2>2 DEF TaskPhase
  <2> QED
    BY <2>1, <2>3, GateStays
<1>10. ASSUME NEW c \in Clients, Connect(c) \/ SendPiece(c) \/ Leave(c)
       PROVE  UNCHANGED <<task, workThreads>>
  BY <1>10 DEF Connect, SendPiece, Leave, taskVars
<1>11. CASE UNCHANGED vars
  BY <1>1, <1>11 DEF vars, taskVars
<1> QED
  BY <1>1, <1>3, <1>4, <1>5, <1>6, <1>7, <1>8, <1>9, <1>10, <1>11
  DEF Next, BossStep, TaskStep, Quiescent

(***************************************************************************)
(* The gate of handler.c implements WorkerGate, on a miss, a whole         *)
(* transfer and one cut short by a failed write alike.                     *)
(***************************************************************************)
THEOREM HandlerGateImplemented == Spec => HandlerGateSpec
<1>1. Init => Gate!Init
  BY GateInit
<1>2. ServerInv /\ [Next]_vars => [Gate!Next]_(Gate!vars)
  BY GateStep
<1> QED
  BY <1>1, <1>2, ServerInvariant, PTL DEF Spec, HandlerGateSpec, Gate!Spec

(* The gate as an instance of the module with the proofs about it. *)
GateProofs == INSTANCE WorkerGateProofs WITH
    Threads <- Clients, Limit <- MaxThreads,
    count <- workThreads, gate <- [c \in Clients |-> TaskPhase(task[c])]

LEMMA HandlerGateSame ==
    /\ Gate!Init => GateProofs!Init
    /\ [Gate!Next]_(Gate!vars) => [GateProofs!Next]_(GateProofs!vars)
    /\ GateProofs!GateBound <=> Gate!GateBound
    /\ GateProofs!NoLostWakeup <=> Gate!NoLostWakeup
<1>1. Gate!Init => GateProofs!Init
  BY DEF Gate!Init, GateProofs!Init
<1>2. [Gate!Next]_(Gate!vars) => [GateProofs!Next]_(GateProofs!vars)
  BY DEF Gate!Next, GateProofs!Next, Gate!Thread, GateProofs!Thread,
         Gate!Arrive, GateProofs!Arrive, Gate!Admit, GateProofs!Admit,
         Gate!Sleep, GateProofs!Sleep, Gate!Leave, GateProofs!Leave,
         Gate!SpuriousWakeup, GateProofs!SpuriousWakeup, Gate!Quiescent,
         GateProofs!Quiescent, Gate!Signal, GateProofs!Signal, Gate!At,
         GateProofs!At, Gate!vars, GateProofs!vars
<1>3. GateProofs!GateBound <=> Gate!GateBound
  BY DEF Gate!GateBound, GateProofs!GateBound, Gate!Working,
         GateProofs!Working, Gate!At, GateProofs!At,
         GateProofs!Cardinality, Gate!Cardinality
<1>4. GateProofs!NoLostWakeup <=> Gate!NoLostWakeup
  BY DEF Gate!NoLostWakeup, GateProofs!NoLostWakeup, Gate!Waiting,
         GateProofs!Waiting, Gate!Entering, GateProofs!Entering,
         Gate!At, GateProofs!At, GateProofs!Cardinality,
         Gate!Cardinality
<1> QED
  BY <1>1, <1>2, <1>3, <1>4

(***************************************************************************)
(* Hence what WorkerGateProofs says of any gate holds of handler_get's:    *)
(* the count is exact and within its limit, and no handler sleeps while a  *)
(* free place has nobody on the way to it.                                 *)
(***************************************************************************)
THEOREM HandlerGateSound == Spec => [](Gate!GateBound /\ Gate!NoLostWakeup)
<1>1. HandlerGateSpec => GateProofs!Spec
  BY HandlerGateSame, PTL DEF HandlerGateSpec, Gate!Spec, GateProofs!Spec
<1>2. /\ GateProofs!Spec => []GateProofs!GateBound
      /\ GateProofs!Spec => []GateProofs!NoLostWakeup
  BY ServerAssumption, GateProofs!GateBounded, GateProofs!GateWakeups
  DEF GateProofs!IsFiniteSet, IsFiniteSet
<1>3. GateProofs!GateBound /\ GateProofs!NoLostWakeup =>
          Gate!GateBound /\ Gate!NoLostWakeup
  BY HandlerGateSame
<1> QED
  BY <1>1, <1>2, <1>3, HandlerGateImplemented, PTL

(***************************************************************************)
(* The first n items of the answer to c, when its path is known: a header  *)
(* and n - 1 bytes.                                                        *)
(***************************************************************************)
Begin(c, n) == [i \in 1 .. n |-> <<Path[c], i - 1>>]

LEMMA BeginIs ==
    ASSUME NEW c \in Clients, Path[c] \in Known, NEW n \in Nat, n <= Size[Path[c]] + 1
    PROVE  /\ Size[Path[c]] \in Nat /\ Len(Answer(c)) = Size[Path[c]] + 1
           /\ Begin(c, n) = SubSeq(Answer(c), 1, n)
           /\ Begin(c, Size[Path[c]] + 1) = Answer(c)
           /\ Len(Begin(c, n)) = n
<1>1. Size[Path[c]] \in Nat
  BY ServerAssumption
<1>2. Answer(c) = [i \in 1 .. Size[Path[c]] + 1 |-> <<Path[c], i - 1>>]
  BY DEF Answer
<1> DEFINE a == Answer(c)
           k == Path[c]
           m == Size[Path[c]] + 1
<1>3. m \in Nat /\ n <= m /\ a = [i \in 1 .. m |-> <<k, i - 1>>]
  BY <1>1, <1>2
<1> HIDE DEF a, k, m
<1>4. Len(a) = m /\ a \in Seq({k} \X Int)
  BY <1>3
<1>5. SubSeq(a, 1, n) = [i \in 1 .. n |-> <<k, i - 1>>]
  <2>1. SubSeq(a, 1, n) = [i \in 1 .. (n - 1 + 1) |-> a[i + 1 - 1]]
    OBVIOUS
  <2>2. n - 1 + 1 = n /\ \A i \in 1 .. n : i \in 1 .. m /\ i + 1 - 1 = i
    BY <1>3
  <2>3. \A i \in 1 .. n : a[i + 1 - 1] = <<k, i - 1>>
    BY <1>3, <2>2
  <2> QED
    BY <2>1, <2>2, <2>3
<1>6. Len([i \in 1 .. n |-> <<k, i - 1>>]) = n
  OBVIOUS
<1> QED
  BY <1>1, <1>3, <1>4, <1>5, <1>6 DEF a, k, m, Begin

LEMMA BeginGrows ==
    ASSUME NEW k, NEW p \in Nat, NEW n \in Nat
    PROVE  [i \in 1 .. p + 1 |-> <<k, i - 1>>] \o [i \in 1 .. n |-> <<k, p + i>>]
               = [i \in 1 .. p + 1 + n |-> <<k, i - 1>>]
<1> DEFINE s == [i \in 1 .. p + 1 |-> <<k, i - 1>>]
           t == [i \in 1 .. n |-> <<k, p + i>>]
           u == [i \in 1 .. p + 1 + n |-> <<k, i - 1>>]
<1>1. /\ s \in Seq({k} \X Int) /\ t \in Seq({k} \X Int) /\ u \in Seq({k} \X Int)
      /\ Len(s) = p + 1 /\ Len(t) = n /\ Len(u) = p + 1 + n
  OBVIOUS
<1>2. \A i \in 1 .. p + 1 : s[i] = u[i]
  OBVIOUS
<1>3. \A i \in p + 2 .. p + 1 + n : t[i - (p + 1)] = u[i]
  <2>1. ASSUME NEW i \in p + 2 .. p + 1 + n PROVE t[i - (p + 1)] = u[i]
    <3>1. i - (p + 1) \in 1 .. n /\ i \in 1 .. p + 1 + n /\ p + (i - (p + 1)) = i - 1
      OBVIOUS
    <3> QED
      BY <3>1
  <2> QED
    BY <2>1
<1> HIDE DEF s, t, u
<1>4. /\ s \o t \in Seq({k} \X Int) /\ Len(s \o t) = Len(s) + Len(t)
      /\ \A i \in 1 .. Len(s) + Len(t) : (s \o t)[i] = IF i <= Len(s) THEN s[i] ELSE t[i - Len(s)]
  BY <1>1, ConcatProperties
<1>5. \A i \in 1 .. p + 1 + n : (s \o t)[i] = u[i]
  <2>1. ASSUME NEW i \in 1 .. p + 1 + n PROVE (s \o t)[i] = u[i]
    <3>1. CASE i <= p + 1
      BY <1>1, <1>2, <1>4, <3>1
    <3>2. CASE i > p + 1
      <4>1. i \in p + 2 .. p + 1 + n /\ i \in 1 .. Len(s) + Len(t)
        BY <1>1, <3>2
      <4>2. (s \o t)[i] = IF i <= Len(s) THEN s[i] ELSE t[i - Len(s)]
        BY <1>4, <4>1
      <4>3. ~(i <= Len(s)) /\ i - Len(s) = i - (p + 1)
        BY <1>1, <3>2
      <4>4. (s \o t)[i] = t[i - (p + 1)]
        BY <4>2, <4>3
      <4> QED
        BY <1>3, <4>1, <4>4
    <3>3. i <= p + 1 \/ i > p + 1
      OBVIOUS
    <3> QED
      BY <3>1, <3>2, <3>3
  <2> QED
    BY <2>1
<1>6. s \o t = u
  BY <1>1, <1>4, <1>5, SeqEqual
<1> QED
  BY <1>6 DEF s, t, u

(***************************************************************************)
(* What a handler that works before it returns has sent, at each of its    *)
(* steps.  Once a write failed or came after the client closed ("broken")  *)
(* nothing more is sent to it.                                             *)
(***************************************************************************)
Prefix(c) == \E n \in 0 .. Len(Answer(c)) : got[c] = SubSeq(Answer(c), 1, n)

Answering(c) ==
    /\ conn[c] \in {"none", "pending"} => got[c] = << >>
    /\ sock = c /\ boss \in {"read", "parse", "parse_torn"} => got[c] = << >>
    /\ task[c] \in {"gate", "gate_wait", "lookup", "miss_release", "miss_header", "header"}
           => got[c] = << >>
    /\ task[c] \in {"miss_release", "miss_header"} => Path[c] \notin Known
    /\ task[c] \in {"header", "loop", "release"} => file[c] = Path[c] /\ Path[c] \in Known
    /\ task[c] = "loop" =>
          /\ pos[c] \in 0 .. Size[Path[c]]
          /\ gone[c] # "broken" => got[c] = Begin(c, pos[c] + 1)
    /\ task[c] = "release" /\ gone[c] # "broken" => got[c] = Answer(c)
    /\ task[c] = "done" /\ gone[c] = "here" => got[c] = Answer(c)
    /\ TurnedAway(c) \/ Prefix(c)

InlineInv == ~setting.detached =>
    /\ \A c \in Clients : task[c] \notin {"none", "done"} => sock = c /\ boss \in {"handler", "exited"}
    /\ boss = "handler" => text = Path[sock]
    /\ \A c \in Clients : Answering(c)

(* A step that is not about c. *)
LEMMA AnsweringKept ==
    ASSUME NEW c \in Clients, Answering(c),
           UNCHANGED <<setting, got[c], task[c], file[c], pos[c]>>,
           gone'[c] = gone[c] \/ (gone[c] = "here" /\ gone'[c] \in {"closed", "reset"}),
           conn'[c] \in {"none", "pending"} => conn[c] \in {"none", "pending"},
           /\ sock' = c /\ boss' \in {"read", "parse", "parse_torn"} =>
                 \/ sock = c /\ boss \in {"read", "parse", "parse_torn"}
                 \/ conn[c] \in {"none", "pending"}
    PROVE  Answering(c)'
<1>1. (TurnedAway(c) => TurnedAway(c)') /\ (Prefix(c) => Prefix(c)')
  BY DEF TurnedAway, Prefix, Answer
<1>2. Answer(c)' = Answer(c) /\ Begin(c, pos[c] + 1)' = Begin(c, pos[c] + 1)
  BY DEF Answer, Begin
<1> QED
  BY <1>1, <1>2 DEF Answering

LEMMA EmptyPrefix ==
    ASSUME NEW c \in Clients, got[c] = << >>
    PROVE  Prefix(c)
<1>1. SubSeq(Answer(c), 1, 0) = << >>
  BY SubSeqEmpty
<1>2. Len(Answer(c)) \in Nat
  <2>1. CASE Path[c] \in Known
    BY <2>1, BeginIs
  <2>2. CASE Path[c] \notin Known
    BY <2>2 DEF Answer
  <2> QED
    BY <2>1, <2>2
<1>3. 0 \in 0 .. Len(Answer(c))
  BY <1>2
<1> QED
  BY <1>1, <1>3 DEF Prefix

LEMMA BeginPrefix ==
    ASSUME NEW c \in Clients, Path[c] \in Known, NEW n \in Nat, n <= Size[Path[c]] + 1,
           got[c] = Begin(c, n)
    PROVE  Prefix(c)
<1>1. /\ Size[Path[c]] \in Nat /\ Len(Answer(c)) = Size[Path[c]] + 1
      /\ Begin(c, n) = SubSeq(Answer(c), 1, n)
  BY BeginIs
<1>2. n \in 0 .. Len(Answer(c))
  BY <1>1
<1> QED
  BY <1>1, <1>2 DEF Prefix

(***************************************************************************)
(* The steps of a handler that works before it returns.                    *)
(***************************************************************************)
LEMMA SendAnswering ==
    ASSUME ServerInv, NEW c \in Clients, sock = c, Answering(c), NEW n \in Nat,
           NEW items, Write(items, boss), boss \in {"handler", "exited"},
           task[c] \in {"header", "loop"}, task'[c] \in {"loop", "release"},
           file'[c] = file[c], UNCHANGED <<setting, sock, conn>>,
           n <= Size[Path[c]],
           gone[c] # "broken" => got[c] \o items = Begin(c, n + 1),
           task'[c] = "loop" => pos'[c] \in 0 .. Size[Path[c]] /\
                                (gone'[c] = "here" => pos'[c] = n),
           task'[c] = "release" => WriteResult # "ok"
    PROVE  Answering(c)'
<1>t. /\ gone \in [Clients -> Ends] /\ got \in [Clients -> Seq(Items)] /\ TypeOK
      /\ c \in Clients /\ c # NoConn
  BY Types DEF ServerInv
<1>k. Path[c] \in Known /\ file[c] = Path[c]
  BY DEF Answering
<1>c. conn[c] = "open"
  BY <1>t DEF ServerInv, LoopInv
<1>b. boss' \in {"handler", "exited"}
  BY <1>t, WriteCases DEF WriteDone, WriteLost
<1>1. gone'[c] # "broken" => gone[c] = "here" /\ gone'[c] = "here" /\ got'[c] = Begin(c, n + 1)
                             /\ WriteResult = "ok"
  <2>1. CASE WriteDone(items, boss) /\ WriteResult = "ok"
    BY <1>t, <2>1 DEF WriteDone
  <2>2. CASE WriteLost(boss)
    BY <1>t, <2>2 DEF WriteLost
  <2> QED
    BY <1>t, <2>1, <2>2, WriteCases
<1>2. TurnedAway(c)' \/ Prefix(c)'
  <2>1. CASE got'[c] = got[c]
    <3>1. (Prefix(c) => Prefix(c)') /\ (TurnedAway(c) /\ gone'[c] # "here" => TurnedAway(c)')
      BY <2>1 DEF TurnedAway, Prefix, Answer
    <3>2. TurnedAway(c) /\ gone'[c] = "here" => TurnedAway(c)'
      BY <1>1, <2>1 DEF TurnedAway
    <3> QED
      BY <3>1, <3>2 DEF Answering
  <2>2. CASE got'[c] = got[c] \o items /\ gone[c] # "broken"
    <3>1. n + 1 \in Nat /\ n + 1 <= Size[Path[c]] + 1
      BY <1>k, ServerAssumption
    <3>2. got'[c] = Begin(c, n + 1)
      BY <2>2
    <3>3. \E m \in 0 .. Len(Answer(c)) : got'[c] = SubSeq(Answer(c), 1, m)
      <4>1. /\ Len(Answer(c)) = Size[Path[c]] + 1 /\ Size[Path[c]] \in Nat
            /\ Begin(c, n + 1) = SubSeq(Answer(c), 1, n + 1)
        BY <1>k, <3>1, BeginIs
      <4>2. n + 1 \in 0 .. Len(Answer(c))
        BY <3>1, <4>1
      <4> QED
        BY <3>2, <4>1, <4>2
    <3> QED
      BY <3>3 DEF Prefix, Answer
  <2>3. got'[c] = got[c] \/ (got'[c] = got[c] \o items /\ gone[c] # "broken")
    BY <1>t, WriteCases DEF WriteDone, WriteLost
  <2> QED
    BY <2>1, <2>2, <2>3
<1>3. Begin(c, pos[c] + 1)' = Begin(c, pos'[c] + 1)
  BY DEF Begin
<1>4. task'[c] = "loop" /\ gone'[c] # "broken" => got'[c] = Begin(c, pos[c] + 1)'
  BY <1>1, <1>3
<1>5. task'[c] = "release" => gone'[c] = "broken"
  BY <1>1
<1> QED
  BY <1>k, <1>c, <1>b, <1>2, <1>4, <1>5 DEF Answering

LEMMA HandlerAnswering ==
    ASSUME ServerInv, NEW c \in Clients, HandlerStep(c), Answering(c),
           sock = c, boss = "handler", text = Path[sock]
    PROVE  Answering(c)'
<1>t. /\ TypeOK /\ task \in [Clients -> Labels] /\ file \in [Clients -> Known \cup {NotFound}]
      /\ pos \in [Clients -> Int] /\ gone \in [Clients -> Ends] /\ got \in [Clients -> Seq(Items)]
      /\ c # NoConn
  BY Types DEF ServerInv
<1>c. conn[c] = "open"
  BY <1>t DEF ServerInv, LoopInv
<1>p. ASSUME UNCHANGED <<setting, got, gone>> PROVE TurnedAway(c)' \/ Prefix(c)'
  BY <1>p DEF Answering, TurnedAway, Prefix, Answer
<1>a. Answer(c)' = Answer(c)
  BY DEF Answer
<1>1. CASE PassGate(c) \/ WaitGate(c) \/ SpuriousWakeup(c)
  <2>1. /\ UNCHANGED <<setting, boss, sock, conn, got, gone, file, pos>>
        /\ task[c] \in {"gate", "gate_wait"} /\ task'[c] \in {"lookup", "gate_wait", "gate"}
    BY <1>t, <1>1 DEF PassGate, WaitGate, SpuriousWakeup, TaskGoto, bossVars, netVars
  <2> QED
    BY <1>c, <1>p, <2>1 DEF Answering
<1>2. CASE Lookup(c)
  <2>1. /\ UNCHANGED <<setting, boss, sock, conn, got, gone, pos>> /\ task[c] = "lookup"
        /\ \/ Path[c] \in Known /\ file'[c] = Path[c] /\ task'[c] = "header"
           \/ Path[c] \notin Known /\ task'[c] = "miss_release"
    BY <1>t, <1>2 DEF Lookup, TaskGoto, bossVars, netVars
  <2> QED
    BY <1>c, <1>p, <2>1 DEF Answering
<1>3. CASE MissRelease(c)
  <2>1. /\ UNCHANGED <<setting, boss, sock, conn, got, gone, file, pos>> /\ task[c] = "miss_release"
        /\ task'[c] = "miss_header"
    BY <1>t, <1>3, SignalEffect DEF MissRelease, bossVars, netVars, Labels
  <2> QED
    BY <1>c, <1>p, <2>1 DEF Answering
<1>4. CASE MissHeader(c)
  <2>1. /\ UNCHANGED <<setting, sock, conn>> /\ task[c] = "miss_header" /\ task'[c] = "done"
        /\ Write(<< <<NotFound, 0>> >>, boss) /\ got[c] = << >> /\ Path[c] \notin Known
    BY <1>t, <1>4 DEF MissHeader, TaskGoto, Answering
  <2>2. << >> \o << <<NotFound, 0>> >> = << <<NotFound, 0>> >>
    OBVIOUS
  <2>3. Answer(c) = << <<NotFound, 0>> >> /\ SubSeq(Answer(c), 1, 1) = Answer(c)
        /\ SubSeq(Answer(c), 1, 0) = << >> /\ Len(Answer(c)) = 1
    <3>1. Answer(c) = << <<NotFound, 0>> >>
      BY <2>1 DEF Answer
    <3> DEFINE one == << <<NotFound, 0>> >>
    <3>2. one \in Seq({<<NotFound, 0>>}) /\ Len(one) = 1
      OBVIOUS
    <3> HIDE DEF one
    <3>3. SubSeq(one, 1, 1) = one /\ SubSeq(one, 1, 0) = << >>
      BY <3>2, SubSeqFull, SubSeqEmpty
    <3> QED
      BY <3>1, <3>2, <3>3 DEF one
  <2>4. \/ got'[c] = Answer(c)
        \/ got'[c] = << >> /\ gone'[c] = "broken"
    BY <1>t, <2>1, <2>2, <2>3, WriteCases DEF WriteDone, WriteLost
  <2>5. Prefix(c)'
    <3>1. \E n \in 0 .. Len(Answer(c)) : got'[c] = SubSeq(Answer(c), 1, n)
      <4>1. 0 \in 0 .. Len(Answer(c)) /\ 1 \in 0 .. Len(Answer(c))
        BY <2>3
      <4>2. got'[c] = SubSeq(Answer(c), 1, 1) \/ got'[c] = SubSeq(Answer(c), 1, 0)
        BY <2>3, <2>4
      <4> QED
        BY <4>1, <4>2
    <3> QED
      BY <1>a, <3>1 DEF Prefix
  <2>6. boss' \in {"handler", "exited"}
    BY <1>t, <2>1, WriteCases DEF WriteDone, WriteLost
  <2> QED
    BY <1>a, <1>c, <2>1, <2>4, <2>5, <2>6 DEF Answering
<1>5. CASE SendHeader(c)
  <2>1. /\ task[c] = "header" /\ task'[c] = "loop" /\ UNCHANGED <<setting, sock, conn, file, pos>>
        /\ Write(<< <<file[c], 0>> >>, boss)
    BY <1>t, <1>5 DEF SendHeader, TaskGoto
  <2>2. got[c] = << >> /\ file[c] = Path[c] /\ Path[c] \in Known /\ pos[c] = 0
    BY <2>1 DEF Answering, ServerInv, TaskInv
  <2>3. got[c] \o << <<file[c], 0>> >> = Begin(c, 0 + 1)
    <3>1. << >> \o << <<file[c], 0>> >> = << <<file[c], 0>> >>
      OBVIOUS
    <3>2. Begin(c, 0 + 1) = << <<Path[c], 0>> >>
      BY DEF Begin
    <3> QED
      BY <2>2, <3>1, <3>2
  <2>4. 0 \in Nat /\ Size[Path[c]] \in Nat /\ 0 <= Size[Path[c]] /\ 0 \in 0 .. Size[Path[c]]
    BY <2>2, ServerAssumption
  <2> QED
    BY <2>1, <2>2, <2>3, <2>4, SendAnswering
<1>6. CASE SendChunk(c)
  <2>1. /\ task[c] = "loop" /\ pos[c] < Size[file[c]] /\ Write(ChunkItems(c), boss)
        /\ \/ /\ WriteResult = "ok" /\ pos' = [pos EXCEPT ![c] = @ + ChunkLen(c)]
              /\ task' = task
           \/ /\ WriteResult # "ok" /\ pos' = [pos EXCEPT ![c] = -1]
              /\ task' = [task EXCEPT ![c] = "release"]
        /\ UNCHANGED <<setting, sock, conn, file>>
    BY <1>6, SendChunkIs
  <2>2. /\ file[c] = Path[c] /\ Path[c] \in Known
        /\ gone[c] # "broken" => got[c] = Begin(c, pos[c] + 1)
    BY <2>1 DEF Answering
  <2>3. /\ pos[c] \in Nat /\ ChunkLen(c) \in Nat /\ pos[c] + ChunkLen(c) <= Size[Path[c]]
        /\ Size[Path[c]] \in Nat
    BY <2>1, <2>2, ChunkTypes
  <2> DEFINE n == pos[c] + ChunkLen(c)
  <2>4. n \in Nat /\ n <= Size[Path[c]] /\ n \in 0 .. Size[Path[c]] /\ n + 1 = pos[c] + 1 + ChunkLen(c)
    BY <2>3
  <2>5. Begin(c, pos[c] + 1) \o ChunkItems(c) = Begin(c, pos[c] + 1 + ChunkLen(c))
    <3> DEFINE p == pos[c]
               m == ChunkLen(c)
               k == Path[c]
    <3>1. p \in Nat /\ m \in Nat
      BY <2>3
    <3>2. /\ Begin(c, pos[c] + 1) = [i \in 1 .. p + 1 |-> <<k, i - 1>>]
          /\ ChunkItems(c) = [i \in 1 .. m |-> <<k, p + i>>]
          /\ Begin(c, pos[c] + 1 + ChunkLen(c)) = [i \in 1 .. p + 1 + m |-> <<k, i - 1>>]
      BY <2>2 DEF Begin, ChunkItems
    <3> HIDE DEF p, m, k
    <3>3. [i \in 1 .. p + 1 |-> <<k, i - 1>>] \o [i \in 1 .. m |-> <<k, p + i>>]
              = [i \in 1 .. p + 1 + m |-> <<k, i - 1>>]
      BY <3>1, BeginGrows
    <3> QED
      BY <3>2, <3>3
  <2>6. gone[c] # "broken" => got[c] \o ChunkItems(c) = Begin(c, n + 1)
    BY <2>2, <2>4, <2>5
  <2>7. /\ task'[c] \in {"loop", "release"} /\ file'[c] = file[c]
        /\ task'[c] = "loop" => pos'[c] = n
        /\ task'[c] = "release" => WriteResult # "ok"
    BY <1>t, <2>1
  <2> HIDE DEF n
  <2> QED
    BY <2>1, <2>4, <2>6, <2>7, SendAnswering
<1>7. CASE EndLoop(c)
  <2>1. /\ UNCHANGED <<setting, boss, sock, conn, got, gone, file, pos>> /\ task[c] = "loop"
        /\ task'[c] = "release" /\ pos[c] >= Size[file[c]]
    BY <1>t, <1>7 DEF EndLoop, TaskGoto, bossVars, netVars
  <2>2. Path[c] \in Known /\ file[c] = Path[c] /\ pos[c] = Size[Path[c]]
    <3>1. Path[c] \in Known /\ file[c] = Path[c] /\ pos[c] \in 0 .. Size[Path[c]]
      BY <2>1 DEF Answering
    <3>2. Size[Path[c]] \in Nat
      BY <3>1, ServerAssumption
    <3> QED
      BY <2>1, <3>1, <3>2
  <2>3. Begin(c, pos[c] + 1) = Answer(c)
    <3>1. 0 \in Nat /\ Size[Path[c]] \in Nat /\ 0 <= Size[Path[c]] + 1
      BY <2>2, ServerAssumption
    <3> QED
      BY <2>2, <3>1, BeginIs
  <2> QED
    BY <1>a, <1>c, <1>p, <2>1, <2>2, <2>3 DEF Answering
<1>8. CASE Release(c)
  <2>1. /\ UNCHANGED <<setting, boss, sock, conn, got, gone, file, pos>> /\ task[c] = "release"
        /\ task'[c] = "done"
    BY <1>t, <1>8, SignalEffect DEF Release, bossVars, netVars, Labels
  <2> QED
    BY <1>a, <1>c, <1>p, <2>1 DEF Answering
<1> QED
  BY <1>1, <1>2, <1>3, <1>4, <1>5, <1>6, <1>7, <1>8 DEF HandlerStep, TaskStep

(* The steps of the loop and of the clients. *)
LEMMA InlineNext ==
    ASSUME ServerInv, InlineInv, [Next]_vars
    PROVE  InlineInv'
<1> SUFFICES ASSUME ~setting'.detached
             PROVE  /\ \A c \in Clients : task'[c] \notin {"none", "done"} =>
                           sock' = c /\ boss' \in {"handler", "exited"}
                    /\ boss' = "handler" => text' = Path[sock']
                    /\ \A c \in Clients : Answering(c)'
  BY DEF InlineInv
<1>t. /\ TypeOK /\ task \in [Clients -> Labels] /\ gone \in [Clients -> Ends]
      /\ got \in [Clients -> Seq(Items)]
      /\ conn \in [Clients -> {"none", "pending", "open", "closed"}]
      /\ sock \in Clients \cup {NoConn} /\ NoConn \notin Clients
      /\ (boss # "exited" => (sock = NoConn <=> boss = "accept"))
      /\ setting.pieces \in [Clients -> Nat \ {0}]
  BY Types DEF ServerInv
<1>u. setting' = setting
  BY DEF Next, BossStep, TaskStep, Accept, Read, ReadEnd, ReadError, Call, Refuse, Return, Close,
         PassGate, WaitGate, Lookup, MissRelease, MissHeader, SendHeader, SendChunk, EndLoop,
         Release, SpuriousWakeup, Connect, SendPiece, Leave, Quiescent, vars
<1>i. /\ \A c \in Clients : task[c] \notin {"none", "done"} => sock = c /\ boss \in {"handler", "exited"}
      /\ boss = "handler" => text = Path[sock]
      /\ \A c \in Clients : Answering(c)
  BY <1>u DEF InlineInv
<1> DEFINE Goal == /\ \A c \in Clients : task'[c] \notin {"none", "done"} =>
                          sock' = c /\ boss' \in {"handler", "exited"}
                   /\ boss' = "handler" => text' = Path[sock']
                   /\ \A c \in Clients : Answering(c)'
<1>1. CASE Accept
  <2>1. /\ boss = "accept" /\ sock' = Head(pending) /\ boss' = "read"
        /\ conn' = [conn EXCEPT ![Head(pending)] = "open"]
        /\ UNCHANGED <<setting, gone, got, task, file, pos>>
    BY <1>1 DEF Accept, taskVars
  <2>2. Head(pending) \in Clients /\ conn[Head(pending)] = "pending"
    <3>1. pending \in Seq(Clients) /\ pending # << >>
      BY <1>1, Types DEF Accept, ServerInv
    <3>2. Head(pending) = pending[1] /\ 1 \in 1 .. Len(pending) /\ Head(pending) \in Clients
      BY <3>1, HeadTailProperties, LenProperties
    <3> QED
      BY <3>2 DEF ServerInv, QueueInv
  <2>3. \A c \in Clients : task[c] \in {"none", "done"}
    BY <1>i, <2>1
  <2>4. ASSUME NEW c \in Clients PROVE Answering(c)'
    <3>1. conn'[c] \in {"none", "pending"} => conn[c] \in {"none", "pending"}
      BY <1>t, <2>1
    <3>2. sock' = c => conn[c] \in {"none", "pending"}
      BY <2>1, <2>2
    <3> QED
      BY <1>i, <2>1, <3>1, <3>2, AnsweringKept
  <2> QED
    BY <2>1, <2>3, <2>4
<1>2. CASE Read \/ ReadError \/ Close \/ Return
  <2>1. /\ UNCHANGED <<setting, text, gone, got, task, file, pos>> \/ (Read /\ text' = "raw"
                              /\ UNCHANGED <<setting, gone, got, task, file, pos>>)
        /\ \/ boss = "read" /\ boss' \in {"read", "parse", "parse_torn", "exited"}
              /\ UNCHANGED <<sock, conn>>
           \/ boss = "handler" /\ boss' = "close" /\ UNCHANGED <<sock, conn>> /\ task[sock] = "done"
           \/ boss = "close" /\ boss' = "accept" /\ sock' = NoConn
              /\ conn' = [conn EXCEPT ![sock] = "closed"]
    BY <1>2 DEF Read, ReadError, Close, Return, netVars, taskVars
  <2>2. \A c \in Clients : task[c] \notin {"none", "done"} => FALSE
    BY <1>i, <2>1
  <2>3. ASSUME NEW c \in Clients PROVE Answering(c)'
    <3>1. conn'[c] \in {"none", "pending"} => conn[c] \in {"none", "pending"}
      BY <1>t, <2>1
    <3>2. sock' = c /\ boss' \in {"read", "parse", "parse_torn"} =>
              sock = c /\ boss \in {"read", "parse", "parse_torn"}
      BY <1>t, <2>1
    <3> QED
      BY <1>i, <2>1, <3>1, <3>2, AnsweringKept
  <2> QED
    BY <2>1, <2>2, <2>3
<1>3. CASE Call
  <2>1. /\ boss = "parse" /\ boss' = "handler" /\ text' = Path[sock] /\ sock \in Clients
        /\ task[sock] = "none" /\ task' = [task EXCEPT ![sock] = "gate"]
        /\ UNCHANGED <<setting, sock, conn, gone, got, file, pos>>
    BY <1>t, <1>u, <1>3 DEF Call, netVars, ServerInv, LoopInv
  <2>2. \A c \in Clients : task[c] \in {"none", "done"}
    BY <1>i, <2>1
  <2>3. ASSUME NEW c \in Clients, c # sock PROVE Answering(c)'
    <3>1. task'[c] = task[c]
      BY <1>t, <2>1, <2>3
    <3> QED
      BY <1>i, <2>1, <2>3, <3>1, AnsweringKept
  <2>4. ASSUME NEW c \in Clients, c = sock PROVE Answering(c)'
    <3>1. got[c] = << >> /\ task'[c] = "gate" /\ conn[c] = "open"
      BY <1>t, <1>i, <2>1, <2>4 DEF Answering, ServerInv, LoopInv
    <3>2. (TurnedAway(c) => TurnedAway(c)') /\ (Prefix(c) => Prefix(c)')
      BY <2>1 DEF TurnedAway, Prefix, Answer
    <3> QED
      BY <1>i, <2>1, <3>1, <3>2 DEF Answering
  <2> QED
    BY <1>t, <2>1, <2>2, <2>3, <2>4
<1>4. CASE ReadEnd \/ Refuse
  <2>1. /\ boss \in {"read", "parse_torn"} /\ sock \in Clients /\ task[sock] = "none"
        /\ UNCHANGED <<setting, sock, conn, task, file, pos>>
        /\ \E items \in {<< <<"ERROR", 0>> >>, << <<NotFound, 0>> >>} : Write(items, "close")
        /\ gone[sock] = "closed" \/ setting.pieces[sock] > 1
    BY <1>t, <1>4 DEF ReadEnd, Refuse, taskVars, ServerInv, LoopInv
  <2>2. \A c \in Clients : task[c] \in {"none", "done"}
    BY <1>i, <2>1
  <2>3. boss' \in {"close", "exited"}
    BY <1>t, <2>1, WriteCases DEF WriteDone, WriteLost
  <2>4. \A c \in Clients : c # sock => got'[c] = got[c] /\ gone'[c] = gone[c]
    BY <1>t, <2>1, WriteCases DEF WriteDone, WriteLost
  <2>5. ASSUME NEW c \in Clients, c # sock PROVE Answering(c)'
    BY <1>i, <2>1, <2>3, <2>4, <2>5, AnsweringKept
  <2>6. ASSUME NEW c \in Clients, c = sock PROVE Answering(c)'
    <3>1. got[c] = << >> /\ conn[c] = "open"
      BY <1>t, <1>i, <2>1, <2>6 DEF Answering, ServerInv, LoopInv
    <3>2. \/ got'[c] = << >>
          \/ /\ got'[c] \in {<< <<"ERROR", 0>> >>, << <<NotFound, 0>> >>}
             /\ gone'[c] # "here" \/ setting.pieces[c] > 1
      <4>1. << >> \o << <<"ERROR", 0>> >> = << <<"ERROR", 0>> >>
            /\ << >> \o << <<NotFound, 0>> >> = << <<NotFound, 0>> >>
        OBVIOUS
      <4> QED
        BY <1>t, <2>1, <2>6, <3>1, <4>1, WriteCases DEF WriteDone, WriteLost
    <3>3. got'[c] = << >> => Prefix(c)'
      <4>1. Prefix(c)
        BY <3>1, EmptyPrefix
      <4> QED
        BY <3>1, <4>1 DEF Prefix, Answer
    <3>4. TurnedAway(c)' \/ Prefix(c)'
      BY <1>u, <3>2, <3>3 DEF TurnedAway
    <3> QED
      BY <2>1, <2>3, <2>6, <3>1, <3>4 DEF Answering
  <2> QED
    BY <2>1, <2>2, <2>3, <2>5, <2>6
<1>5. ASSUME NEW c \in Clients, HandlerStep(c) PROVE Goal
  <2>1. TaskFrame(c)
    BY <1>5, HandlerFrame
  <2>2. task[c] # "done"
    BY <1>5 DEF HandlerStep, TaskStep, PassGate, WaitGate, Lookup, MissRelease, MissHeader,
                SendHeader, SendChunk, EndLoop, Release, SpuriousWakeup
  <2>3. sock = c /\ boss = "handler" /\ text = Path[sock]
    BY <1>i, <2>1, <2>2 DEF TaskFrame
  <2>4. Answering(c)'
    BY <1>5, <1>i, <2>3, HandlerAnswering
  <2>5. ASSUME NEW d \in Clients, d # c
        PROVE  task'[d] = task[d] /\ got'[d] = got[d] /\ gone'[d] = gone[d]
    <3>1. task[d] # "gate_wait"
      BY <1>i, <2>3, <2>5
    <3>2. got'[d] = got[d] /\ gone'[d] = gone[d]
      <4>1. CASE \E items : Write(items, boss)
        BY <1>t, <2>3, <2>5, <4>1, WriteCases DEF WriteDone, WriteLost
      <4>2. CASE UNCHANGED <<got, gone>>
        BY <4>2
      <4>3. (\E items : Write(items, boss)) \/ UNCHANGED <<got, gone>>
        BY <1>5 DEF HandlerStep, TaskStep, PassGate, WaitGate, Lookup, MissRelease, MissHeader,
                SendHeader, SendChunk, EndLoop, Release, SpuriousWakeup, netVars
      <4> QED
        BY <4>1, <4>2, <4>3
    <3> QED
      BY <2>1, <2>5, <3>1, <3>2 DEF TaskFrame
  <2>6. ASSUME NEW d \in Clients, d # c PROVE Answering(d)'
    BY <1>i, <2>1, <2>3, <2>5, <2>6, AnsweringKept DEF TaskFrame
  <2>7. \A d \in Clients : task'[d] \notin {"none", "done"} =>
                               sock' = d /\ boss' \in {"handler", "exited"}
    BY <1>i, <2>1, <2>3, <2>5 DEF TaskFrame
  <2> QED
    BY <2>1, <2>3, <2>4, <2>6, <2>7 DEF TaskFrame
<1>6. ASSUME NEW c \in Clients, Connect(c) \/ SendPiece(c) \/ Leave(c) PROVE Goal
  <2>1. /\ UNCHANGED <<setting, boss, sock, text, got, task, file, pos>>
        /\ \A d \in Clients : conn'[d] \in {"none", "pending"} => conn[d] \in {"none", "pending"}
        /\ \A d \in Clients : \/ gone'[d] = gone[d]
                              \/ gone[d] = "here" /\ gone'[d] \in {"closed", "reset"}
    BY <1>6, <1>t DEF Connect, SendPiece, Leave, bossVars, taskVars
  <2>2. ASSUME NEW d \in Clients PROVE Answering(d)'
    BY <1>i, <2>1, AnsweringKept
  <2> QED
    BY <1>i, <2>1, <2>2
<1>7. CASE UNCHANGED vars
  <2>1. UNCHANGED <<setting, boss, sock, text, conn, gone, got, task, file, pos>>
    BY <1>7 DEF vars, bossVars, netVars, taskVars
  <2>2. ASSUME NEW d \in Clients PROVE Answering(d)'
    BY <1>i, <2>1, AnsweringKept
  <2> QED
    BY <1>i, <2>1, <2>2
<1> QED
  BY <1>1, <1>2, <1>3, <1>4, <1>5, <1>6, <1>7 DEF Next, BossStep, HandlerStep, Quiescent

LEMMA InlineInit == Init => InlineInv
<1> SUFFICES ASSUME Init PROVE InlineInv
  OBVIOUS
<1>i. /\ boss = "accept" /\ sock = NoConn
      /\ conn = [c \in Clients |-> "none"] /\ got = [c \in Clients |-> << >>]
      /\ task = [c \in Clients |-> "none"]
  BY DEF Init
<1>1. ASSUME NEW c \in Clients PROVE Answering(c)
  <2>1. got[c] = << >> /\ task[c] = "none"
    BY <1>i
  <2>2. Prefix(c)
    BY <2>1, EmptyPrefix
  <2> QED
    BY <2>1, <2>2 DEF Answering
<1> QED
  BY <1>i, <1>1 DEF InlineInv

LEMMA InlineInvariant == Spec => []InlineInv
BY ServerInvariant, InlineInit, InlineNext, PTL DEF Spec

(***************************************************************************)
(* With a handler that works before it returns a client receives its own   *)
(* answer in order, or was turned away for a request in parts or none,     *)
(* whatever the other clients do and whenever they go.                     *)
(***************************************************************************)
THEOREM InlineAnswers == Spec => []InlineOwnAnswer
<1>1. InlineInv => InlineOwnAnswer
  BY DEF InlineInv, InlineOwnAnswer, Answering, Prefix
<1> QED
  BY <1>1, InlineInvariant, PTL

(***************************************************************************)
(* With such a handler, and clients that stay and send their requests at   *)
(* once, every write arrives and nobody is turned away.                    *)
(***************************************************************************)
PlainInv == Plain =>
    /\ \A c \in Clients : gone[c] = "here"
    /\ boss = "close" => task[sock] = "done"

LEMMA PlainMeans ==
    ASSUME Plain, ServerInv, InlineInv, PlainInv
    PROVE  /\ ~setting.detached /\ setting.aborts = {}
           /\ \A c \in Clients : gone[c] = "here" /\ Answering(c)
           /\ \A c \in Clients : task[c] \notin {"none", "done"} =>
                  sock = c /\ boss \in {"handler", "exited"}
           /\ boss = "close" => task[sock] = "done"
           /\ boss # "parse_torn" /\ ~ReadEnd /\ ~ReadError /\ ~Refuse
           /\ \A c \in Clients : ~Leave(c)
<1>t. sock \in Clients \cup {NoConn} /\ (boss # "exited" => (sock = NoConn <=> boss = "accept"))
  BY Types DEF ServerInv
<1>1. boss # "parse_torn"
  BY <1>t DEF Plain, ServerInv, LoopInv
<1>2. \A c \in Clients : gone[c] = "here"
  BY DEF PlainInv
<1>3. ~ReadEnd /\ ~ReadError /\ ~Refuse
  BY <1>t, <1>1, <1>2 DEF ReadEnd, ReadError, Refuse
<1> QED
  BY <1>1, <1>2, <1>3 DEF Plain, InlineInv, PlainInv, Leave

LEMMA PlainWrite ==
    ASSUME Plain, ServerInv, PlainInv, NEW items, NEW next, Write(items, next), sock \in Clients
    PROVE  WriteDone(items, next) /\ WriteResult = "ok" /\ gone' = gone
<1>1. gone[sock] = "here" /\ sock # NoConn
  BY Types DEF PlainInv, ServerInv
<1> QED
  BY <1>1, WriteCases DEF WriteDone, WriteLost, ServerInv

LEMMA PlainNext ==
    ASSUME ServerInv, InlineInv, PlainInv, [Next]_vars
    PROVE  PlainInv'
<1>t. /\ TypeOK /\ sock \in Clients \cup {NoConn} /\ NoConn \notin Clients
      /\ (boss # "exited" => (sock = NoConn <=> boss = "accept"))
  BY Types DEF ServerInv
<1>u. setting' = setting
  BY DEF Next, BossStep, TaskStep, Accept, Read, ReadEnd, ReadError, Call, Refuse, Return, Close,
         PassGate, WaitGate, Lookup, MissRelease, MissHeader, SendHeader, SendChunk, EndLoop,
         Release, SpuriousWakeup, Connect, SendPiece, Leave, Quiescent, vars
<1> SUFFICES ASSUME Plain
             PROVE  (\A c \in Clients : gone'[c] = "here") /\ (boss' = "close" => task'[sock'] = "done")
  BY <1>u DEF PlainInv, Plain
<1>p. /\ ~setting.detached /\ \A c \in Clients : gone[c] = "here"
      /\ \A c \in Clients : task[c] \notin {"none", "done"} =>
             sock = c /\ boss \in {"handler", "exited"}
      /\ boss = "close" => task[sock] = "done"
      /\ ~ReadEnd /\ ~ReadError /\ ~Refuse /\ \A c \in Clients : ~Leave(c)
  BY PlainMeans
<1>1. CASE Accept \/ Read \/ Call \/ Return \/ Close
  <2>1. gone' = gone
    BY <1>1 DEF Accept, Read, Call, Return, Close, netVars
  <2>2. boss' = "close" => Return
    BY <1>1, <1>p DEF Accept, Read, Call, Return, Close
  <2>3. Return => task'[sock'] = "done"
    BY DEF Return, taskVars
  <2> QED
    BY <1>p, <2>1, <2>2, <2>3
<1>2. ASSUME NEW c \in Clients, HandlerStep(c)
      PROVE  (\A d \in Clients : gone'[d] = "here") /\ boss' # "close"
  <2>1. TaskFrame(c) /\ task[c] \notin {"none", "done"}
    <3>1. task[c] # "done"
      BY <1>2 DEF HandlerStep, TaskStep, PassGate, WaitGate, Lookup, MissRelease, MissHeader,
                SendHeader, SendChunk, EndLoop, Release, SpuriousWakeup
    <3> QED
      BY <1>2, <3>1, HandlerFrame DEF TaskFrame
  <2>2. sock = c /\ boss = "handler"
    BY <1>p, <2>1 DEF TaskFrame
  <2>3. (\E items : Write(items, boss)) \/ UNCHANGED gone
    BY <1>2 DEF HandlerStep, TaskStep, PassGate, WaitGate, Lookup, MissRelease, MissHeader,
              SendHeader, SendChunk, EndLoop, Release, SpuriousWakeup, netVars
  <2>4. gone' = gone
    BY <2>2, <2>3, PlainWrite
  <2> QED
    BY <1>p, <2>1, <2>2, <2>4 DEF TaskFrame
<1>3. ASSUME NEW c \in Clients, Connect(c) \/ SendPiece(c)
      PROVE  UNCHANGED <<gone, boss, task, sock>>
  BY <1>3 DEF Connect, SendPiece, bossVars, taskVars
<1>4. CASE UNCHANGED vars
  BY <1>p, <1>4 DEF vars, bossVars, netVars, taskVars
<1> QED
  BY <1>p, <1>1, <1>2, <1>3, <1>4 DEF Next, BossStep, HandlerStep, Quiescent

(***************************************************************************)
(* The file service these clients see: what was received, without its      *)
(* header, and the requests that are over.                                 *)
(***************************************************************************)
Asked == {c \in Clients : conn[c] # "none"}
Headers == [c \in Clients |->
               IF got[c] = << >> THEN "none"
               ELSE IF got[c][1][1] = NotFound THEN "FILE_NOT_FOUND" ELSE "OK"]
Bodies == [c \in Clients |-> IF got[c] = << >> THEN << >> ELSE Tail(got[c])]
Over == {c \in Clients : \/ got[c] = << <<NotFound, 0>> >>
                         \/ conn[c] = "closed" /\ gone[c] = "here"}

LEMMA ServiceStays ==
    ASSUME Asked' = Asked, Headers' = Headers, Bodies' = Bodies, Over' = Over
    PROVE  UNCHANGED Service!vars
BY DEF Service!vars, Asked, Headers, Bodies, Over

LEMMA SameService ==
    ASSUME UNCHANGED <<got, gone>>,
           \A c \in Clients : /\ conn'[c] = "none" <=> conn[c] = "none"
                              /\ conn'[c] = "closed" <=> conn[c] = "closed"
    PROVE  UNCHANGED Service!vars
<1>1. Asked' = Asked /\ Over' = Over
  BY DEF Asked, Over
<1>2. Headers' = Headers /\ Bodies' = Bodies
  BY DEF Headers, Bodies
<1> QED
  BY <1>1, <1>2, ServiceStays

(* What a client has of a known file, as header and body. *)
LEMMA BeginService ==
    ASSUME NEW c \in Clients, Path[c] \in Known, NEW n \in Nat, n <= Size[Path[c]]
    PROVE  /\ Begin(c, n + 1) # << >> /\ Begin(c, n + 1) # << <<NotFound, 0>> >>
           /\ Begin(c, n + 1)[1][1] # NotFound
           /\ Tail(Begin(c, n + 1)) = SubSeq(Service!File(Path[c]), 1, n)
           /\ Len(Tail(Begin(c, n + 1))) = n
           /\ SubSeq(Service!File(Path[c]), 1, Size[Path[c]]) = Service!File(Path[c])
<1> DEFINE k == Path[c]
           m == Size[Path[c]]
           f == Service!File(Path[c])
           b == Begin(c, n + 1)
<1>1. m \in Nat /\ n <= m /\ k # NotFound /\ f = [i \in 1 .. m |-> <<k, i>>]
      /\ b = [i \in 1 .. n + 1 |-> <<k, i - 1>>]
  BY ServerAssumption DEF Service!File, Begin
<1> HIDE DEF k, m, f, b
<1>2. b \in Seq({k} \X Int) /\ Len(b) = n + 1 /\ b[1] = <<k, 0>>
  BY <1>1
<1>3. b # << >> /\ b[1][1] # NotFound
  <2>1. Len(b) # 0
    BY <1>2
  <2>2. b[1][1] = k
    BY <1>2
  <2> QED
    BY <1>1, <2>1, <2>2
<1>4. b # << <<NotFound, 0>> >>
  <2>1. << <<NotFound, 0>> >>[1] = <<NotFound, 0>>
    OBVIOUS
  <2> QED
    BY <1>1, <1>2, <2>1
<1>5. f \in Seq({k} \X Int) /\ Len(f) = m
  BY <1>1
<1>6. Tail(b) = [i \in 1 .. n |-> <<k, i>>]
  <2>1. Tail(b) \in Seq({k} \X Int) /\ Len(Tail(b)) = n
        /\ \A i \in 1 .. n : Tail(b)[i] = b[i + 1]
    BY <1>2, <1>3, HeadTailProperties
  <2> DEFINE u == [i \in 1 .. n |-> <<k, i>>]
  <2>2. u \in Seq({k} \X Int) /\ Len(u) = n /\ \A i \in 1 .. n : u[i] = <<k, i>>
    OBVIOUS
  <2>3. \A i \in 1 .. n : b[i + 1] = <<k, i>>
    BY <1>1
  <2> HIDE DEF u
  <2>4. Tail(b) = u
    BY <2>1, <2>2, <2>3, SeqEqual
  <2> QED
    BY <2>4 DEF u
<1>7. SubSeq(f, 1, n) = [i \in 1 .. n |-> <<k, i>>]
  <2>1. SubSeq(f, 1, n) = [i \in 1 .. (n - 1 + 1) |-> f[i + 1 - 1]]
    OBVIOUS
  <2>2. n - 1 + 1 = n /\ \A i \in 1 .. n : i \in 1 .. m /\ i + 1 - 1 = i
    BY <1>1
  <2>3. \A i \in 1 .. n : f[i + 1 - 1] = <<k, i>>
    BY <1>1, <2>2
  <2> QED
    BY <2>1, <2>2, <2>3
<1>8. SubSeq(f, 1, m) = f
  BY <1>5, SubSeqFull
<1>9. Len([i \in 1 .. n |-> <<k, i>>]) = n
  OBVIOUS
<1> QED
  BY <1>3, <1>4, <1>6, <1>7, <1>8, <1>9 DEF k, m, f, b

(* A step in which only c receives something. *)
LEMMA ServiceReceives ==
    ASSUME TypeOK, NEW c \in Clients, NEW items, sock = c, WriteDone(items, boss), gone' = gone,
           UNCHANGED conn, conn[c] = "open"
    PROVE  /\ got'[c] = got[c] \o items /\ Asked' = Asked /\ c \in Asked
           /\ Headers' = [Headers EXCEPT ![c] = Headers'[c]]
           /\ Bodies' = [Bodies EXCEPT ![c] = Bodies'[c]]
           /\ Over' \ {c} = Over \ {c}
           /\ c \in Over <=> got[c] = << <<NotFound, 0>> >>
           /\ c \in Over' <=> got'[c] = << <<NotFound, 0>> >>
<1>1. got \in [Clients -> Seq(Items)]
  BY Types
<1>2. got'[c] = got[c] \o items /\ \A d \in Clients : d # c => got'[d] = got[d]
  BY <1>1 DEF WriteDone
<1>3. Asked' = Asked /\ c \in Asked
  BY DEF Asked
<1>4. /\ Headers' = [Headers EXCEPT ![c] = Headers'[c]]
      /\ Bodies' = [Bodies EXCEPT ![c] = Bodies'[c]]
  BY <1>2 DEF Headers, Bodies
<1>5. \A d \in Clients : d # c => (d \in Over' <=> d \in Over)
  BY <1>2 DEF Over
<1>6. Over \subseteq Clients /\ Over' \subseteq Clients
  BY DEF Over
<1>7. (c \in Over <=> got[c] = << <<NotFound, 0>> >>) /\ (c \in Over' <=> got'[c] = << <<NotFound, 0>> >>)
  BY DEF Over
<1> QED
  BY <1>2, <1>3, <1>4, <1>5, <1>6, <1>7

LEMMA SameWithout ==
    ASSUME NEW S, NEW T, NEW c, c \notin S, c \notin T, S \ {c} = T \ {c}
    PROVE  S = T
<1>1. S = S \ {c} /\ T = T \ {c}
  OBVIOUS
<1> QED
  BY <1>1

LEMMA ServiceRefuses ==
    ASSUME ServerInv, InlineInv, PlainInv, Plain, NEW c \in Clients, MissHeader(c)
    PROVE  Service!Refuse(c)
<1>p. sock = c /\ Answering(c) /\ boss = "handler"
  BY PlainMeans DEF MissHeader, Running
<1>t. TypeOK /\ c # NoConn /\ conn[c] = "open"
  BY <1>p, Types DEF ServerInv, LoopInv
<1>1. /\ Write(<< <<NotFound, 0>> >>, boss) /\ UNCHANGED conn
      /\ got[c] = << >> /\ Path[c] \notin Known
  BY <1>p DEF MissHeader, Answering
<1>2. WriteDone(<< <<NotFound, 0>> >>, boss) /\ gone' = gone
  BY <1>p, <1>1, PlainWrite
<1>3. /\ got'[c] = got[c] \o << <<NotFound, 0>> >> /\ Asked' = Asked /\ c \in Asked
      /\ Headers' = [Headers EXCEPT ![c] = Headers'[c]]
      /\ Bodies' = [Bodies EXCEPT ![c] = Bodies'[c]]
      /\ Over' \ {c} = Over \ {c}
      /\ c \in Over' <=> got'[c] = << <<NotFound, 0>> >>
  BY <1>p, <1>t, <1>1, <1>2, ServiceReceives
<1>4. got'[c] = << <<NotFound, 0>> >>
  BY <1>1, <1>3
<1>5. Headers[c] = "none" /\ Headers'[c] = "FILE_NOT_FOUND"
  BY <1>1, <1>4 DEF Headers
<1>6. Bodies' = Bodies
  <2>1. Bodies[c] = << >> /\ Bodies'[c] = << >>
    <3>1. Tail(<< <<NotFound, 0>> >>) = << >> /\ << <<NotFound, 0>> >> # << >>
      OBVIOUS
    <3> QED
      BY <1>1, <1>4, <3>1 DEF Bodies
  <2> QED
    BY <1>3, <2>1 DEF Bodies
<1>7. Over' = Over \cup {c}
  BY <1>3, <1>4 DEF Over
<1> QED
  BY <1>1, <1>3, <1>5, <1>6, <1>7 DEF Service!Refuse, Asked, Headers, Bodies, Over

LEMMA ServiceAccepts ==
    ASSUME ServerInv, InlineInv, PlainInv, Plain, NEW c \in Clients, SendHeader(c)
    PROVE  Service!Accept(c)
<1>p. sock = c /\ Answering(c) /\ boss = "handler"
  BY PlainMeans DEF SendHeader, Running
<1>t. TypeOK /\ c # NoConn /\ conn[c] = "open"
  BY <1>p, Types DEF ServerInv, LoopInv
<1>1. /\ Write(<< <<file[c], 0>> >>, boss) /\ UNCHANGED conn
      /\ got[c] = << >> /\ Path[c] \in Known /\ file[c] = Path[c]
  BY <1>p DEF SendHeader, Answering
<1>2. WriteDone(<< <<file[c], 0>> >>, boss) /\ gone' = gone
  BY <1>p, <1>1, PlainWrite
<1>3. /\ got'[c] = got[c] \o << <<file[c], 0>> >> /\ Asked' = Asked /\ c \in Asked
      /\ Headers' = [Headers EXCEPT ![c] = Headers'[c]]
      /\ Bodies' = [Bodies EXCEPT ![c] = Bodies'[c]]
      /\ Over' \ {c} = Over \ {c}
      /\ c \in Over <=> got[c] = << <<NotFound, 0>> >>
      /\ c \in Over' <=> got'[c] = << <<NotFound, 0>> >>
  BY <1>p, <1>t, <1>1, <1>2, ServiceReceives
<1>4. got'[c] = << <<Path[c], 0>> >> /\ Path[c] # NotFound
  BY <1>1, <1>3, ServerAssumption
<1>5. << <<Path[c], 0>> >> # << >> /\ << <<Path[c], 0>> >>[1] = <<Path[c], 0>>
      /\ << <<Path[c], 0>> >> # << <<NotFound, 0>> >> /\ << >> # << <<NotFound, 0>> >>
  BY <1>4
<1>6. Headers[c] = "none" /\ Headers'[c] = "OK"
  BY <1>1, <1>4, <1>5 DEF Headers
<1>7. Bodies' = Bodies
  <2>1. Tail(<< <<Path[c], 0>> >>) = << >>
    OBVIOUS
  <2>2. Bodies[c] = << >> /\ Bodies'[c] = << >>
    BY <1>1, <1>4, <2>1 DEF Bodies
  <2> QED
    BY <1>3, <2>2 DEF Bodies
<1>8. Over' = Over
  <2>1. got[c] # << <<NotFound, 0>> >> /\ got'[c] # << <<NotFound, 0>> >>
    BY <1>1, <1>4, <1>5
  <2>2. c \notin Over /\ c \notin Over'
    BY <1>3, <2>1
  <2> QED
    BY <1>3, <2>2, SameWithout
<1> QED
  BY <1>1, <1>3, <1>6, <1>7, <1>8 DEF Service!Accept, Asked, Headers, Bodies, Over

LEMMA ServiceDelivers ==
    ASSUME ServerInv, InlineInv, PlainInv, Plain, NEW c \in Clients, SendChunk(c)
    PROVE  Service!Deliver(c)
<1>p. sock = c /\ Answering(c) /\ boss = "handler" /\ gone[c] = "here"
  BY PlainMeans DEF SendChunk, Running
<1>t. TypeOK /\ c # NoConn /\ conn[c] = "open"
  BY <1>p, Types DEF ServerInv, LoopInv
<1>1. /\ Write(ChunkItems(c), boss) /\ UNCHANGED conn /\ task[c] = "loop" /\ pos[c] < Size[file[c]]
      /\ got[c] = Begin(c, pos[c] + 1) /\ Path[c] \in Known /\ file[c] = Path[c]
  BY <1>p, SendChunkIs DEF Answering
<1>2. WriteDone(ChunkItems(c), boss) /\ WriteResult = "ok" /\ gone' = gone
  BY <1>p, <1>1, PlainWrite
<1>3. /\ got'[c] = got[c] \o ChunkItems(c) /\ Asked' = Asked /\ c \in Asked
      /\ Headers' = [Headers EXCEPT ![c] = Headers'[c]]
      /\ Bodies' = [Bodies EXCEPT ![c] = Bodies'[c]]
      /\ Over' \ {c} = Over \ {c}
      /\ c \in Over <=> got[c] = << <<NotFound, 0>> >>
      /\ c \in Over' <=> got'[c] = << <<NotFound, 0>> >>
  BY <1>p, <1>t, <1>1, <1>2, ServiceReceives
<1> DEFINE p == pos[c]
           n == pos[c] + ChunkLen(c)
<1>4. /\ p \in Nat /\ n \in Nat /\ n <= Size[Path[c]] /\ p <= Size[Path[c]] /\ n \in p + 1 .. Size[Path[c]]
  <2>1. /\ pos[c] \in Nat /\ ChunkLen(c) \in Nat /\ ChunkLen(c) >= 1
        /\ pos[c] + ChunkLen(c) <= Size[Path[c]] /\ Size[Path[c]] \in Nat
    BY <1>1, ChunkTypes
  <2> QED
    BY <2>1
<1>5. got'[c] = Begin(c, n + 1)
  <2>1. Answering(c)'
    BY <1>p, HandlerAnswering, PlainMeans DEF HandlerStep, TaskStep, InlineInv
  <2>2. task'[c] = "loop" /\ pos'[c] = n
    BY <1>t, <1>2, SendChunkIs, Types
  <2>3. gone'[c] # "broken" => got'[c] = Begin(c, pos'[c] + 1)
    BY <2>1, <2>2 DEF Answering, Begin
  <2> QED
    BY <1>p, <1>2, <2>2, <2>3
<1> HIDE DEF p, n
<1>6. /\ Begin(c, n + 1) # << >> /\ Begin(c, n + 1) # << <<NotFound, 0>> >>
      /\ Begin(c, n + 1)[1][1] # NotFound
      /\ Tail(Begin(c, n + 1)) = SubSeq(Service!File(Path[c]), 1, n)
  BY <1>1, <1>4, BeginService
<1>7. /\ Begin(c, p + 1) # << >> /\ Begin(c, p + 1) # << <<NotFound, 0>> >>
      /\ Begin(c, p + 1)[1][1] # NotFound /\ Len(Tail(Begin(c, p + 1))) = p
  BY <1>1, <1>4, BeginService
<1>8. got[c] = Begin(c, p + 1)
  BY <1>1 DEF p
<1>9. Headers[c] = "OK" /\ Headers'[c] = "OK" /\ Headers' = Headers
  <2>1. Headers[c] = "OK" /\ Headers'[c] = "OK"
    BY <1>5, <1>6, <1>7, <1>8 DEF Headers
  <2> QED
    BY <1>3, <2>1 DEF Headers
<1>10. Len(Bodies[c]) = p /\ Bodies'[c] = SubSeq(Service!File(Path[c]), 1, n)
  BY <1>5, <1>6, <1>7, <1>8 DEF Bodies
<1>11. Over' = Over
  <2>1. c \notin Over /\ c \notin Over'
    BY <1>3, <1>5, <1>6, <1>7, <1>8
  <2> QED
    BY <1>3, <2>1, SameWithout
<1>12. n \in Len(Bodies[c]) + 1 .. Size[Path[c]]
       /\ Bodies' = [Bodies EXCEPT ![c] = SubSeq(Service!File(Path[c]), 1, n)]
  BY <1>3, <1>4, <1>10
<1> QED
  BY <1>3, <1>9, <1>11, <1>12 DEF Service!Deliver, Asked, Headers, Bodies, Over

(* close ends a request that was answered with a file. *)
LEMMA ServiceFinishes ==
    ASSUME ServerInv, InlineInv, PlainInv, Plain, Close
    PROVE  UNCHANGED Service!vars \/ \E c \in Clients : Service!Finish(c)
<1>t. /\ TypeOK /\ sock \in Clients \cup {NoConn} /\ (boss # "exited" => (sock = NoConn <=> boss = "accept"))
      /\ conn \in [Clients -> {"none", "pending", "open", "closed"}]
  BY Types DEF ServerInv
<1>1. PICK c \in Clients : c = sock
  BY <1>t DEF Close
<1>2. /\ conn' = [conn EXCEPT ![c] = "closed"] /\ UNCHANGED <<setting, got, gone>>
      /\ task[c] = "done" /\ gone[c] = "here" /\ Answering(c) /\ conn[c] = "open"
  BY <1>t, <1>1, PlainMeans DEF Close, taskVars, ServerInv, LoopInv
<1>3. got[c] = Answer(c)
  BY <1>2 DEF Answering
<1>4. Headers' = Headers /\ Bodies' = Bodies
  BY <1>2 DEF Headers, Bodies
<1>5. Asked' = Asked
  BY <1>t, <1>2 DEF Asked
<1>6. Over' = Over \cup {c}
  BY <1>t, <1>2 DEF Over
<1>7. CASE Path[c] \notin Known
  <2>1. c \in Over
    BY <1>3, <1>7 DEF Over, Answer
  <2> QED
    BY <1>4, <1>5, <1>6, <2>1, ServiceStays
<1>8. CASE Path[c] \in Known
  <2>1. Size[Path[c]] \in Nat /\ Size[Path[c]] <= Size[Path[c]] /\ 0 \in Nat /\ 0 <= Size[Path[c]] + 1
    BY <1>8, ServerAssumption
  <2>2. got[c] = Begin(c, Size[Path[c]] + 1)
    BY <1>3, <1>8, <2>1, BeginIs
  <2> DEFINE n == Size[Path[c]]
  <2>3. n \in Nat /\ n <= Size[Path[c]] /\ got[c] = Begin(c, n + 1)
    BY <2>1, <2>2
  <2>4. Service!File(Path[c]) = SubSeq(Service!File(Path[c]), 1, n)
    BY <1>8, <2>1, BeginService
  <2> HIDE DEF n
  <2>5. /\ Begin(c, n + 1) # << >> /\ Begin(c, n + 1) # << <<NotFound, 0>> >>
        /\ Begin(c, n + 1)[1][1] # NotFound
        /\ Tail(Begin(c, n + 1)) = SubSeq(Service!File(Path[c]), 1, n)
    BY <1>8, <2>3, BeginService
  <2>6. Headers[c] = "OK" /\ Bodies[c] = Service!File(Path[c])
    BY <2>3, <2>4, <2>5 DEF Headers, Bodies
  <2>7. c \notin Over
    BY <1>2, <2>3, <2>5 DEF Over
  <2>8. Service!Finish(c)
    BY <1>4, <1>5, <1>6, <2>6, <2>7 DEF Service!Finish, Asked, Headers, Bodies, Over
  <2> QED
    BY <2>8
<1> QED
  BY <1>7, <1>8

LEMMA ServiceStep ==
    ASSUME ServerInv, InlineInv, PlainInv, Plain, [Next]_vars
    PROVE  [Service!Next]_(Service!vars)
<1>t. /\ TypeOK /\ conn \in [Clients -> {"none", "pending", "open", "closed"}]
      /\ pending \in Seq(Clients)
  BY Types DEF ServerInv
<1>p. /\ ~ReadEnd /\ ~ReadError /\ ~Refuse /\ \A c \in Clients : ~Leave(c)
      /\ \A c \in Clients : Answering(c)
  BY PlainMeans
<1>1. CASE Accept
  <2>1. Head(pending) \in Clients /\ conn[Head(pending)] = "pending"
    <3>1. Head(pending) = pending[1] /\ 1 \in 1 .. Len(pending) /\ Head(pending) \in Clients
      BY <1>t, <1>1, HeadTailProperties, LenProperties DEF Accept
    <3> QED
      BY <3>1 DEF ServerInv, QueueInv
  <2>2. /\ UNCHANGED <<got, gone>>
        /\ \A c \in Clients : /\ conn'[c] = "none" <=> conn[c] = "none"
                              /\ conn'[c] = "closed" <=> conn[c] = "closed"
    BY <1>t, <1>1, <2>1 DEF Accept
  <2> QED
    BY <2>2, SameService
<1>2. CASE Read \/ Call \/ Return
  <2>1. UNCHANGED <<got, gone, conn>>
    BY <1>2 DEF Read, Call, Return, netVars
  <2> QED
    BY <2>1, SameService
<1>3. CASE Close
  BY <1>3, ServiceFinishes DEF Service!Next
<1>4. ASSUME NEW c \in Clients, Connect(c) PROVE Service!Next
  <2>1. /\ conn[c] = "none" /\ conn' = [conn EXCEPT ![c] = "pending"] /\ UNCHANGED <<got, gone>>
    BY <1>4 DEF Connect, taskVars
  <2>2. c \notin Asked /\ Asked' = Asked \cup {c}
    BY <1>t, <2>1 DEF Asked
  <2>3. Headers' = Headers /\ Bodies' = Bodies
    BY <2>1 DEF Headers, Bodies
  <2>4. Over' = Over
    <3>1. \A d \in Clients : conn'[d] = "closed" <=> conn[d] = "closed"
      BY <1>t, <2>1
    <3> QED
      BY <2>1, <3>1 DEF Over
  <2>5. Service!Ask(c)
    BY <2>2, <2>3, <2>4 DEF Service!Ask, Asked, Headers, Bodies, Over
  <2> QED
    BY <2>5 DEF Service!Next
<1>5. ASSUME NEW c \in Clients, MissHeader(c) \/ SendHeader(c) \/ SendChunk(c)
      PROVE  Service!Next
  BY <1>5, ServiceRefuses, ServiceAccepts, ServiceDelivers DEF Service!Next
<1>6. ASSUME NEW c \in Clients,
             \/ PassGate(c) \/ WaitGate(c) \/ Lookup(c) \/ MissRelease(c) \/ EndLoop(c)
             \/ Release(c) \/ SpuriousWakeup(c) \/ SendPiece(c)
      PROVE  UNCHANGED Service!vars
  <2>1. UNCHANGED <<got, gone, conn>>
    BY <1>6 DEF PassGate, WaitGate, Lookup, MissRelease, EndLoop, Release, SpuriousWakeup,
                SendPiece, netVars
  <2> QED
    BY <2>1, SameService
<1>7. CASE UNCHANGED vars
  <2>1. UNCHANGED <<got, gone, conn>>
    BY <1>7 DEF vars, netVars
  <2> QED
    BY <2>1, SameService
<1> QED
  BY <1>p, <1>1, <1>2, <1>3, <1>4, <1>5, <1>6, <1>7 DEF Next, BossStep, TaskStep, Quiescent

(***************************************************************************)
(* For clients that stay and send at once, a server whose handler works    *)
(* before it returns is the file service: every request is answered by     *)
(* itself and in order, and closed when all of its file was sent.          *)
(***************************************************************************)
THEOREM FileServiceImplemented == Spec => ImplementsFileService
<1>1. Init => PlainInv /\ (Plain => Service!Init)
  <2> SUFFICES ASSUME Init PROVE PlainInv /\ Service!Init
    OBVIOUS
  <2>1. /\ boss = "accept" /\ conn = [c \in Clients |-> "none"]
        /\ gone = [c \in Clients |-> "here"] /\ got = [c \in Clients |-> << >>]
    BY DEF Init
  <2>2. PlainInv
    BY <2>1 DEF PlainInv
  <2>3. Service!Init
    BY <2>1 DEF Service!Init
  <2> QED
    BY <2>2, <2>3
<1>2. ServerInv /\ InlineInv /\ PlainInv /\ [Next]_vars => PlainInv'
  BY PlainNext
<1>3. ServerInv /\ InlineInv /\ PlainInv /\ [Next]_vars => [Plain => [Service!Next]_(Service!vars)]_vars
  BY ServiceStep
<1> QED
  BY <1>1, <1>2, <1>3, ServerInvariant, InlineInvariant, PTL DEF Spec, ImplementsFileService

===============================================================================
