---------------------------- MODULE ProxyIpcProofs ----------------------------
(***************************************************************************)
(* Machine-checked proofs about the named objects of the proxy and its     *)
(* cache, for all sets of webproxy starts and of connections and for every *)
(* number of slots.                                                        *)
(***************************************************************************)
EXTENDS ProxyIpc, TLAPS

StartStages == {"shm", "reader", "writer"}
Stages == StartStages \cup
    {"off", "serving", "invalid", "refused", "stopped", "interrupted", "killed", "failed"}

(* What a webproxy made so far is still there under its name. *)
SemaphoresOwned ==
    \A p \in Proxies : Running(p) =>
        /\ \A i \in Slots : i < slot[p] => reader[i] = p /\ writer[i] = p
        /\ stage[p] = "writer" => reader[slot[p]] = p

(* The slots of p whose segment nobody has unlinked behind its back. *)
Kept(p) ==
    {i \in Slots : \/ i < slot[p]
                   \/ i = slot[p] /\ stage[p] = "writer"
                   \/ i = slot[p] /\ stage[p] = "reader" /\ reader[i] = None}

Interrupted == \E q \in Proxies : stage[q] = "interrupted"

SegmentsKept ==
    \/ Interrupted
    \/ \A p \in Proxies : Running(p) =>
          \A i \in Kept(p) : shm[i] # None /\ shm[i] = mapped[p][i]

(* Who talks to the cache has served, and fails only when the cache is gone. *)
PeersServed ==
    /\ \A p \in Proxies : stage[p] = "failed" => cache = "exited"
    /\ \A w \in Workers : worker[w] # "none" =>
          /\ peer[w] \in Proxies
          /\ stage[peer[w]] \in {"serving", "stopped", "killed", "failed"}

(* Nothing is opened before the slot is known. *)
NothingOpened ==
    \A w \in Workers : worker[w] \in {"none", "read_seg"} =>
        use[w].shm = None /\ use[w].reader = None /\ use[w].writer = None

(* The loop over the slots starts at the first. *)
LoopFresh == \A p \in Proxies : ~Running(p) => slot[p] = 0

IInv ==
    /\ TypeOK /\ LoopFresh /\ SemaphoresOwned /\ SegmentsKept
    /\ PeersServed /\ NothingOpened /\ CacheOutlives /\ OwnObjects

MainStep(p) ==
    \/ Start(p) \/ OpenSegment(p) \/ CreateReader(p) \/ CreateWriter(p)
    \/ Signal(p) \/ Kill(p) \/ CacheMissing(p)

WorkerStep(w) ==
    \/ \E p \in Proxies : Connect(w, p)
    \/ ReadSeg(w) \/ AttachSegment(w) \/ AttachReader(w) \/ AttachWriter(w)
    \/ Transferred(w)

(* The actions, one disjunct each. *)
LEMMA Steps ==
    ASSUME Next
    PROVE  \/ \E p \in Proxies : MainStep(p)
           \/ RemoveNames
           \/ \E w \in Workers : WorkerStep(w)
BY DEF Next, MainStep, WorkerStep

LEMMA SlotBounds ==
    /\ 0 \in Slots /\ NSeg \notin Slots /\ NSeg # 0
    /\ \A i \in 0 .. NSeg : i # NSeg => i \in Slots /\ i + 1 \in 0 .. NSeg
    /\ \A i \in Slots : i \in 0 .. NSeg
    /\ \A i \in Slots : i \in Nat
BY IpcAssumption DEF Slots

(***************************************************************************)
(* The types, and with them the bounds of the loop over the slots.         *)
(***************************************************************************)
ProcTypes ==
    /\ stage \in [Proxies -> Stages]
    /\ slot \in [Proxies -> 0 .. NSeg]
    /\ \A p \in Proxies : slot[p] = NSeg <=> stage[p] = "serving"
    /\ mapped \in [Proxies -> [Slots -> Objects]]

NameTypes == {shm, reader, writer} \subseteq [Slots -> Objects]

Uses == [slot : Slots, shm : Objects, reader : Objects, writer : Objects]

CacheTypes ==
    /\ cache \in {"up", "exited"}
    /\ worker \in [Workers -> {"none", "read_seg", "shm", "reader", "writer",
                               "transfer", "done"}]
    /\ peer \in [Workers -> Objects]
    /\ use \in [Workers -> Uses]

LEMMA TypeParts == TypeOK <=> ProcTypes /\ NameTypes /\ CacheTypes
BY DEF TypeOK, ProcTypes, NameTypes, CacheTypes, Stages, StartStages, Uses

LEMMA InitTypeOK == Init => TypeOK
BY SlotBounds, TypeParts
   DEF Init, ProcTypes, NameTypes, CacheTypes, Stages, NoNames, Unused, Uses, Objects

(* A process that ends leaves its variables well typed. *)
LEMMA EndTypes ==
    ASSUME ProcTypes, NEW p \in Proxies, NEW how \in Stages \ {"serving"}, End(p, how)
    PROVE  ProcTypes'
<1>1. NoNames \in [Slots -> Objects]
  BY DEF NoNames, Objects
<1> QED
  BY <1>1, SlotBounds DEF ProcTypes, End, Goto

LEMMA MainTypeOK ==
    ASSUME TypeOK, NEW p \in Proxies, MainStep(p)
    PROVE  TypeOK'
<1>0. ProcTypes /\ NameTypes /\ CacheTypes
  BY TypeParts
<1> SUFFICES ProcTypes' /\ NameTypes' /\ CacheTypes'
  BY TypeParts, PTL
<1>a. CacheTypes'
  BY <1>0 DEF MainStep, Start, OpenSegment, CreateReader, CreateWriter, Signal, Kill,
              CacheMissing, cacheVars, CacheTypes
<1>1. CASE Start(p)
  BY <1>0, <1>a, <1>1 DEF ProcTypes, NameTypes, Start, Goto, Stages, StartStages, nameVars
<1>2. CASE OpenSegment(p)
  <2>1. slot[p] \in Slots
    BY <1>0, <1>2, SlotBounds DEF ProcTypes, OpenSegment
  <2> DEFINE object == IF shm[slot[p]] = None THEN p ELSE shm[slot[p]]
  <2>2. object \in Objects
    BY <1>0, <2>1 DEF NameTypes, Objects
  <2>3. mapped' \in [Proxies -> [Slots -> Objects]]
    BY <1>0, <1>2, <2>1, <2>2 DEF ProcTypes, OpenSegment
  <2>4. NameTypes'
    BY <1>0, <1>2, <2>1, <2>2 DEF NameTypes, OpenSegment
  <2> QED
    BY <1>0, <1>a, <1>2, <2>3, <2>4 DEF ProcTypes, OpenSegment, Goto, Stages, StartStages
<1>3. CASE CreateReader(p)
  <2>1. NameTypes'
    BY <1>0, <1>3 DEF NameTypes, CreateReader, Objects
  <2>2. CASE reader[slot[p]] = None
    BY <1>0, <1>a, <1>3, <2>1, <2>2 DEF ProcTypes, CreateReader, Goto, Stages, StartStages
  <2>3. CASE reader[slot[p]] # None
    BY <1>0, <1>a, <1>3, <2>1, <2>3, EndTypes DEF CreateReader, Stages
  <2> QED
    BY <2>2, <2>3
<1>4. CASE CreateWriter(p)
  <2>1. NameTypes'
    BY <1>0, <1>4 DEF NameTypes, CreateWriter, Objects
  <2>2. CASE writer[slot[p]] = None
    <3>1. slot[p] \in 0 .. NSeg /\ slot[p] # NSeg
      BY <1>0, <1>4 DEF ProcTypes, CreateWriter
    <3>2. slot[p] + 1 \in 0 .. NSeg /\ (slot[p] + 1 < NSeg <=> slot[p] + 1 # NSeg)
      BY <3>1, IpcAssumption
    <3>3. NextStage(slot[p]) \in Stages
          /\ (NextStage(slot[p]) = "serving" <=> slot[p] + 1 = NSeg)
      BY <3>2 DEF NextStage, Stages, StartStages
    <3> QED
      BY <1>0, <1>a, <1>4, <2>1, <2>2, <3>2, <3>3 DEF ProcTypes, CreateWriter, Goto
  <2>3. CASE writer[slot[p]] # None
    BY <1>0, <1>a, <1>4, <2>1, <2>3, EndTypes DEF CreateWriter, Stages
  <2> QED
    BY <2>2, <2>3
<1>5. CASE Signal(p)
  <2>1. NameTypes'
    BY <1>0, <1>5 DEF NameTypes, Signal, ShmClean, NoNames, Objects
  <2> QED
    BY <1>0, <1>a, <1>5, <2>1, EndTypes DEF Signal, Stages
<1>6. CASE Kill(p)
  BY <1>0, <1>a, <1>6, EndTypes DEF NameTypes, Kill, Stages, nameVars
<1>7. CASE CacheMissing(p)
  BY <1>0, <1>a, <1>7, EndTypes DEF NameTypes, CacheMissing, Stages, nameVars
<1> QED
  BY <1>1, <1>2, <1>3, <1>4, <1>5, <1>6, <1>7 DEF MainStep

(* Opening an object by its name, whichever of the three it is. *)
LEMMA AttachTypes ==
    ASSUME CacheTypes, NEW w \in Workers,
           NEW kind \in {"shm", "reader", "writer"}, NEW name \in [Slots -> Objects],
           NEW next \in {"reader", "writer", "transfer"}, Attach(w, kind, name, next)
    PROVE  CacheTypes' /\ UNCHANGED <<procVars, nameVars>>
<1>1. use[w] \in Uses /\ name[use[w].slot] \in Objects
  BY DEF CacheTypes, Uses
<1>2. [use[w] EXCEPT ![kind] = name[use[w].slot]] \in Uses
  BY <1>1 DEF Uses
<1>3. use' \in [Workers -> Uses]
  BY <1>2 DEF CacheTypes, Attach, CacheExits
<1> QED
  BY <1>3 DEF CacheTypes, Attach, CacheExits, WorkerGoto

LEMMA WorkerTypeOK ==
    ASSUME TypeOK, NEW w \in Workers, WorkerStep(w)
    PROVE  TypeOK'
<1>0. ProcTypes /\ NameTypes /\ CacheTypes
  BY TypeParts
<1> SUFFICES CacheTypes' /\ UNCHANGED <<procVars, nameVars>>
  <2>1. UNCHANGED <<procVars, nameVars>> => ProcTypes' /\ NameTypes'
    BY <1>0 DEF procVars, nameVars, ProcTypes, NameTypes
  <2> QED
    BY <2>1, TypeParts, PTL
<1>1. ASSUME NEW p \in Proxies, Connect(w, p)
      PROVE  CacheTypes' /\ UNCHANGED <<procVars, nameVars>>
  BY <1>0, <1>1 DEF CacheTypes, Connect, WorkerGoto, Objects
<1>2. CASE ReadSeg(w)
  <2>1. ASSUME NEW i \in Slots
        PROVE  [use[w] EXCEPT !.slot = i] \in Uses
    BY <1>0 DEF CacheTypes, Uses
  <2>2. use' \in [Workers -> Uses]
    BY <1>0, <1>2, <2>1 DEF CacheTypes, ReadSeg, CacheExits
  <2> QED
    BY <1>0, <1>2, <2>2 DEF CacheTypes, ReadSeg, CacheExits, WorkerGoto
<1>3. CASE AttachSegment(w)
  BY <1>0, <1>3, AttachTypes DEF AttachSegment, NameTypes
<1>4. CASE AttachReader(w)
  BY <1>0, <1>4, AttachTypes DEF AttachReader, NameTypes
<1>5. CASE AttachWriter(w)
  BY <1>0, <1>5, AttachTypes DEF AttachWriter, NameTypes
<1>6. CASE Transferred(w)
  BY <1>0, <1>6 DEF CacheTypes, Transferred, WorkerGoto
<1> QED
  BY <1>1, <1>2, <1>3, <1>4, <1>5, <1>6 DEF WorkerStep

LEMMA NextTypeOK ==
    ASSUME TypeOK, [Next]_vars
    PROVE  TypeOK'
<1>1. CASE UNCHANGED vars
  BY <1>1 DEF vars, procVars, nameVars, cacheVars, TypeOK
<1>2. CASE RemoveNames
  <2>1. NameTypes' /\ UNCHANGED <<procVars, cacheVars>>
    BY <1>2 DEF RemoveNames, NameTypes, NoNames, Objects
  <2>2. ProcTypes' /\ CacheTypes'
    BY <2>1, TypeParts DEF procVars, cacheVars, ProcTypes, CacheTypes
  <2> QED
    BY <2>1, <2>2, TypeParts, PTL
<1> QED
  BY <1>1, <1>2, Steps, MainTypeOK, WorkerTypeOK

-------------------------------------------------------------------------------
(* What a step of webproxy leaves alone. *)

LEMMA MainFrame ==
    ASSUME TypeOK, NEW p \in Proxies, MainStep(p)
    PROVE  /\ UNCHANGED cacheVars
           /\ \A q \in Proxies \ {p} :
                 stage'[q] = stage[q] /\ slot'[q] = slot[q] /\ mapped'[q] = mapped[q]
           /\ stage[p] \in StartStages \cup {"off", "serving"}
BY TypeParts
   DEF ProcTypes, MainStep, Start, OpenSegment, CreateReader, CreateWriter, Signal, Kill,
       CacheMissing, End, Goto, Running, StartStages

(* It takes no semaphore from its name: not at its end either. *)
LEMMA SemaphoresStay ==
    ASSUME TypeOK, NEW p \in Proxies, MainStep(p), NEW i \in Slots
    PROVE  /\ reader[i] # None => reader'[i] = reader[i]
           /\ writer[i] # None => writer'[i] = writer[i]
BY TypeParts
   DEF NameTypes, MainStep, Start, OpenSegment, CreateReader, CreateWriter, Signal, Kill,
       CacheMissing, ShmClean, nameVars

(* A process that ends does not run, and starts no loop. *)
LEMMA EndStops ==
    ASSUME TypeOK, NEW p \in Proxies, NEW how, End(p, how)
    PROVE  stage'[p] = how /\ slot'[p] = 0
BY TypeParts DEF ProcTypes, End, Goto

LEMMA MainLoopFresh ==
    ASSUME TypeOK, LoopFresh, NEW p \in Proxies, MainStep(p)
    PROVE  LoopFresh'
<1>0. ProcTypes
  BY TypeParts
<1>1. slot'[p] = 0 \/ stage'[p] \in StartStages \cup {"serving"}
  <2>1. CASE Start(p)
    BY <1>0, <2>1 DEF ProcTypes, LoopFresh, Running, Start
  <2>2. CASE OpenSegment(p) \/ CreateReader(p) \/ CreateWriter(p)
    BY <1>0, <2>2, EndStops
       DEF ProcTypes, OpenSegment, CreateReader, CreateWriter, NextStage, Goto, StartStages
  <2>3. CASE Signal(p) \/ Kill(p) \/ CacheMissing(p)
    BY <2>3, EndStops DEF Signal, Kill, CacheMissing
  <2> QED
    BY <2>1, <2>2, <2>3 DEF MainStep
<1> QED
  BY <1>1, MainFrame DEF LoopFresh, Running, StartStages

-------------------------------------------------------------------------------
(* The semaphores of a webproxy. *)

LEMMA MainSemaphoresOwned ==
    ASSUME TypeOK, LoopFresh, SemaphoresOwned, NEW p \in Proxies, MainStep(p)
    PROVE  SemaphoresOwned'
<1> DEFINE Own(q) == Running(q) =>
              /\ \A i \in Slots : i < slot[q] => reader[i] = q /\ writer[i] = q
              /\ stage[q] = "writer" => reader[slot[q]] = q
<1>0. ProcTypes /\ NameTypes
  BY TypeParts
<1>1. ASSUME NEW q \in Proxies \ {p}
      PROVE  Own(q)'
  <2>1. stage[q] = "writer" => slot[q] \in Slots
    BY <1>0, SlotBounds DEF ProcTypes
  <2>2. q # None
    BY IpcAssumption
  <2>3. /\ stage'[q] = stage[q] /\ slot'[q] = slot[q]
        /\ \A i \in Slots : /\ reader[i] = q => reader'[i] = q
                            /\ writer[i] = q => writer'[i] = q
    BY <2>2, MainFrame, SemaphoresStay
  <2> QED
    BY <2>1, <2>3 DEF SemaphoresOwned, Running
<1>2. Own(p)'
  <2>1. CASE Start(p)
    BY <1>0, <2>1, SlotBounds DEF ProcTypes, LoopFresh, Running, Start, Goto, nameVars
  <2>2. CASE OpenSegment(p)
    BY <1>0, <2>2 DEF ProcTypes, SemaphoresOwned, Running, OpenSegment, Goto
  <2>3. CASE CreateReader(p)
    <3>1. CASE reader[slot[p]] = None
      <4>1. slot[p] \in Slots
        BY <1>0, <2>3, SlotBounds DEF ProcTypes, CreateReader
      <4>2. \A i \in Slots : i < slot[p] => reader[i] = p /\ writer[i] = p
        BY <2>3 DEF SemaphoresOwned, Running, CreateReader
      <4>3. \A i \in Slots : i < slot[p] => reader'[i] = p /\ writer'[i] = p
        BY <4>2, SemaphoresStay, IpcAssumption
      <4> QED
        BY <1>0, <2>3, <3>1, <4>1, <4>3 DEF NameTypes, CreateReader
    <3>2. CASE reader[slot[p]] # None
      BY <2>3, <3>2, EndStops DEF CreateReader, Running
    <3> QED
      BY <3>1, <3>2
  <2>4. CASE CreateWriter(p)
    <3>1. CASE writer[slot[p]] = None
      <4>1. slot[p] \in Slots /\ slot[p] \in Nat /\ slot'[p] = slot[p] + 1
        BY <1>0, <2>4, <3>1, SlotBounds DEF ProcTypes, CreateWriter
      <4>2. /\ \A i \in Slots : i < slot[p] => reader[i] = p /\ writer[i] = p
            /\ reader[slot[p]] = p
        BY <2>4 DEF SemaphoresOwned, Running, CreateWriter
      <4>3. reader' = reader /\ writer'[slot[p]] = p
        BY <1>0, <2>4, <3>1, <4>1 DEF NameTypes, CreateWriter
      <4>4. \A i \in Slots : i < slot[p] => writer'[i] = p
        BY <4>2, SemaphoresStay, IpcAssumption
      <4>5. \A i \in Slots : i < slot[p] + 1 => i < slot[p] \/ i = slot[p]
        BY <4>1, SlotBounds
      <4>6. stage'[p] # "writer"
        BY <1>0, <2>4, <3>1 DEF ProcTypes, CreateWriter, Goto, NextStage
      <4> QED
        BY <4>1, <4>2, <4>3, <4>4, <4>5, <4>6
    <3>2. CASE writer[slot[p]] # None
      BY <2>4, <3>2, EndStops DEF CreateWriter, Running
    <3> QED
      BY <3>1, <3>2
  <2>5. CASE Signal(p) \/ Kill(p) \/ CacheMissing(p)
    BY <2>5, EndStops DEF Signal, Kill, CacheMissing, Running
  <2> QED
    BY <2>1, <2>2, <2>3, <2>4, <2>5 DEF MainStep
<1> QED
  BY <1>1, <1>2 DEF SemaphoresOwned

-------------------------------------------------------------------------------
(* The segments of a webproxy. *)

(* A process that was ended from outside stays so. *)
EndedOutside == {"stopped", "interrupted", "killed"}

LEMMA EndedStays ==
    ASSUME TypeOK, NEW p \in Proxies, MainStep(p), NEW q \in Proxies, stage[q] \in EndedOutside
    PROVE  stage'[q] = stage[q]
<1>1. q # p
  BY MainFrame DEF EndedOutside, StartStages
<1> QED
  BY <1>1, MainFrame

(* Only the signal handler unlinks a segment. *)
LEMMA SegmentsStay ==
    ASSUME TypeOK, NEW p \in Proxies, MainStep(p), ~Signal(p), NEW i \in Slots, shm[i] # None
    PROVE  shm'[i] = shm[i]
BY TypeParts
   DEF NameTypes, MainStep, Start, OpenSegment, CreateReader, CreateWriter, Kill,
       CacheMissing, nameVars

(* While a webproxy serves, no other is past its first semaphore. *)
LEMMA ServesAlone ==
    ASSUME TypeOK, SemaphoresOwned, NEW p \in Proxies, stage[p] = "serving",
           NEW q \in Proxies \ {p}, Running(q)
    PROVE  Kept(q) = {}
<1>0. ProcTypes
  BY TypeParts
<1>1. 0 \in Slots /\ 0 < NSeg /\ \A i \in Slots : i \in Nat
  BY SlotBounds, IpcAssumption
<1>2. reader[0] = p
  BY <1>0, <1>1 DEF ProcTypes, SemaphoresOwned, Running
<1>3. slot[q] = 0
  BY <1>0, <1>1, <1>2 DEF ProcTypes, SemaphoresOwned
<1>4. stage[q] # "writer"
  BY <1>2, <1>3 DEF SemaphoresOwned
<1>5. reader[0] # None
  BY <1>2, IpcAssumption
<1> QED
  BY <1>1, <1>3, <1>4, <1>5 DEF Kept

LEMMA MainSegmentsKept ==
    ASSUME TypeOK, LoopFresh, SemaphoresOwned, SegmentsKept, NEW p \in Proxies, MainStep(p)
    PROVE  SegmentsKept'
<1>0. ProcTypes /\ NameTypes
  BY TypeParts
<1> DEFINE Mapped(q) == \A i \in Kept(q) : shm[i] # None /\ shm[i] = mapped[q][i]
<1>1. CASE Interrupted
  BY <1>1, EndedStays DEF SegmentsKept, Interrupted, EndedOutside
<1>2. CASE ~Interrupted /\ ~Signal(p)
  <2>0. \A q \in Proxies : Running(q) => Mapped(q)
    BY <1>2 DEF SegmentsKept
  <2>1. ASSUME NEW q \in Proxies \ {p}, Running(q)'
        PROVE  Mapped(q)'
    <3>1. stage'[q] = stage[q] /\ slot'[q] = slot[q] /\ mapped'[q] = mapped[q]
      BY MainFrame
    <3>2. Kept(q)' \subseteq Kept(q)
      BY <3>1, SemaphoresStay DEF Kept
    <3>3. Running(q)
      BY <2>1, <3>1 DEF Running
    <3>4. \A i \in Kept(q) : shm[i] # None /\ shm'[i] = shm[i] /\ shm[i] = mapped[q][i]
      BY <1>2, <2>0, <3>3, SegmentsStay DEF Kept
    <3> QED
      BY <3>1, <3>2, <3>4
  <2>2. ASSUME Running(p)'
        PROVE  Mapped(p)'
    <3>1. CASE Start(p)
      <4>1. slot'[p] = 0 /\ stage'[p] \notin {"reader", "writer"}
        BY <1>0, <3>1 DEF ProcTypes, LoopFresh, Running, Start, Goto
      <4> QED
        BY <4>1, SlotBounds DEF Kept
    <3>2. CASE OpenSegment(p)
      <4>1. slot[p] \in Slots /\ slot[p] \in Nat /\ slot' = slot
        BY <1>0, <3>2, SlotBounds DEF ProcTypes, OpenSegment
      <4>2. shm'[slot[p]] # None /\ shm'[slot[p]] = mapped'[p][slot[p]]
        BY <1>0, <3>2, <4>1, IpcAssumption DEF ProcTypes, NameTypes, OpenSegment
      <4>3. ASSUME NEW i \in Slots, i < slot[p]
            PROVE  shm'[i] # None /\ shm'[i] = mapped'[p][i]
        <5>1. i \in Kept(p) /\ Running(p)
          BY <3>2, <4>3 DEF Kept, Running, OpenSegment
        <5>2. shm[i] # None /\ shm[i] = mapped[p][i]
          BY <2>0, <5>1
        <5>3. i # slot[p]
          BY <4>1, <4>3, SlotBounds
        <5>4. mapped'[p][i] = mapped[p][i]
          BY <1>0, <3>2, <5>3 DEF ProcTypes, OpenSegment
        <5> QED
          BY <1>2, <5>2, <5>4, SegmentsStay
      <4> QED
        BY <4>1, <4>2, <4>3 DEF Kept
    <3>3. CASE CreateReader(p)
      <4>1. reader[slot[p]] = None
        BY <2>2, <3>3, EndStops DEF CreateReader, Running
      <4>2. Kept(p)' \subseteq Kept(p) /\ UNCHANGED <<shm, mapped>> /\ Running(p)
        BY <1>0, <3>3, <4>1 DEF ProcTypes, Kept, CreateReader, Goto, Running
      <4> QED
        BY <2>0, <4>2
    <3>4. CASE CreateWriter(p)
      <4>1. writer[slot[p]] = None
        BY <2>2, <3>4, EndStops DEF CreateWriter, Running
      <4>2. slot[p] \in Nat /\ slot'[p] = slot[p] + 1 /\ UNCHANGED <<shm, mapped>> /\ Running(p)
        BY <1>0, <3>4, <4>1 DEF ProcTypes, CreateWriter, Running
      <4>3. stage[p] = "writer" /\ stage'[p] \notin {"reader", "writer"}
        BY <1>0, <3>4, <4>1 DEF ProcTypes, CreateWriter, Goto, NextStage
      <4>4. \A i \in Slots : i < slot[p] + 1 => i < slot[p] \/ i = slot[p]
        BY <4>2, SlotBounds
      <4>5. Kept(p)' \subseteq Kept(p)
        BY <4>2, <4>3, <4>4 DEF Kept
      <4> QED
        BY <2>0, <4>2, <4>5
    <3>5. ~Kill(p) /\ ~CacheMissing(p)
      BY <2>2, EndStops DEF Kill, CacheMissing, Running
    <3> QED
      BY <1>2, <3>1, <3>2, <3>3, <3>4, <3>5 DEF MainStep
  <2> QED
    BY <2>1, <2>2 DEF SegmentsKept
<1>3. CASE ~Interrupted /\ Signal(p) /\ stage[p] = "serving"
  <2>1. ~Running(p)'
    BY <1>3, EndStops DEF Signal, Running
  <2>2. ASSUME NEW q \in Proxies \ {p}, Running(q)'
        PROVE  Kept(q)' = {}
    <3>1. stage'[q] = stage[q] /\ slot'[q] = slot[q]
      BY MainFrame
    <3>2. Running(q)
      BY <2>2, <3>1 DEF Running
    <3>3. Kept(q) = {}
      BY <1>3, <3>2, ServesAlone
    <3> QED
      BY <1>3, <3>1, <3>3 DEF Kept, Signal, ShmClean
  <2> QED
    BY <2>1, <2>2 DEF SegmentsKept
<1>4. CASE Signal(p) /\ stage[p] # "serving"
  BY <1>4, EndStops DEF Signal, SegmentsKept, Interrupted
<1> QED
  BY <1>1, <1>2, <1>3, <1>4

-------------------------------------------------------------------------------
(* The connections to the cache, and what their threads open. *)

(* A webproxy that serves can only be ended; it fails when the cache is gone. *)
LEMMA ServingStep ==
    ASSUME TypeOK, NEW p \in Proxies, MainStep(p), stage[p] = "serving"
    PROVE  stage'[p] \in {"stopped", "killed"} \/ (stage'[p] = "failed" /\ cache = "exited")
BY EndStops
   DEF MainStep, Start, OpenSegment, CreateReader, CreateWriter, Signal, Kill, CacheMissing

(* Nobody fails in another way. *)
LEMMA FailingStep ==
    ASSUME TypeOK, NEW p \in Proxies, MainStep(p), stage'[p] = "failed"
    PROVE  cache = "exited"
BY TypeParts, EndStops
   DEF ProcTypes, MainStep, Start, OpenSegment, CreateReader, CreateWriter, NextStage, Signal,
       Kill, CacheMissing, Goto

LEMMA MainPeersServed ==
    ASSUME TypeOK, PeersServed, NEW p \in Proxies, MainStep(p)
    PROVE  PeersServed'
<1>1. UNCHANGED <<cache, worker, peer>>
  BY MainFrame DEF cacheVars
<1>2. ASSUME NEW q \in Proxies, stage'[q] = "failed"
      PROVE  cache' = "exited"
  <2>1. CASE q = p
    BY <1>1, <1>2, <2>1, FailingStep
  <2>2. CASE q # p
    BY <1>1, <1>2, <2>2, MainFrame DEF PeersServed
  <2> QED
    BY <2>1, <2>2
<1>3. ASSUME NEW w \in Workers, worker'[w] # "none"
      PROVE  peer'[w] \in Proxies /\ stage'[peer'[w]] \in {"serving", "stopped", "killed", "failed"}
  <2>1. peer[w] \in Proxies /\ stage[peer[w]] \in {"serving", "stopped", "killed", "failed"}
    BY <1>1, <1>3 DEF PeersServed
  <2>2. CASE peer[w] = p
    BY <1>1, <2>1, <2>2, MainFrame, ServingStep DEF StartStages
  <2>3. CASE peer[w] # p
    BY <1>1, <2>1, <2>3, MainFrame
  <2> QED
    BY <2>2, <2>3
<1> QED
  BY <1>2, <1>3 DEF PeersServed

(* What a thread of the cache leaves alone. *)
LEMMA WorkerFrame ==
    ASSUME TypeOK, NEW w \in Workers, WorkerStep(w)
    PROVE  /\ UNCHANGED <<procVars, nameVars>>
           /\ \A v \in Workers \ {w} :
                 worker'[v] = worker[v] /\ peer'[v] = peer[v] /\ use'[v] = use[v]
           /\ worker[w] # "none" => peer' = peer
           /\ cache = "up"
BY TypeParts
   DEF CacheTypes, WorkerStep, Connect, ReadSeg, AttachSegment, AttachReader, AttachWriter,
       Attach, Transferred, WorkerGoto, CacheExits

LEMMA WorkerPeersServed ==
    ASSUME TypeOK, PeersServed, NEW w \in Workers, WorkerStep(w)
    PROVE  PeersServed'
<1>0. CacheTypes
  BY TypeParts
<1>1. stage' = stage
  BY WorkerFrame DEF procVars
<1>2. \A p \in Proxies : stage'[p] # "failed"
  BY <1>1, WorkerFrame DEF PeersServed
<1>3. CASE \E p \in Proxies : Connect(w, p)
  BY <1>0, <1>1, <1>2, <1>3, WorkerFrame DEF CacheTypes, PeersServed, Connect
<1>4. CASE ~\E p \in Proxies : Connect(w, p)
  <2>1. worker[w] # "none"
    BY <1>4 DEF WorkerStep, ReadSeg, AttachSegment, AttachReader, AttachWriter, Attach, Transferred
  <2> QED
    BY <1>1, <1>2, <2>1, WorkerFrame DEF PeersServed
<1> QED
  BY <1>3, <1>4

LEMMA WorkerNothingOpened ==
    ASSUME TypeOK, NothingOpened, NEW w \in Workers, WorkerStep(w)
    PROVE  NothingOpened'
<1>0. CacheTypes
  BY TypeParts
<1>1. CASE \E p \in Proxies : Connect(w, p)
  BY <1>0, <1>1 DEF CacheTypes, NothingOpened, Connect, WorkerGoto
<1>2. CASE cache' = "exited"
  BY <1>2, WorkerFrame
     DEF NothingOpened, WorkerStep, Connect, ReadSeg, AttachSegment, AttachReader, AttachWriter,
         Attach, Transferred, CacheExits
<1>3. CASE cache' # "exited" /\ ~\E p \in Proxies : Connect(w, p)
  <2>1. worker'[w] \notin {"none", "read_seg"}
    BY <1>0, <1>3
       DEF CacheTypes, WorkerStep, ReadSeg, AttachSegment, AttachReader, AttachWriter,
           Attach, Transferred, CacheExits, WorkerGoto
  <2> QED
    BY <2>1, WorkerFrame DEF NothingOpened
<1> QED
  BY <1>1, <1>2, <1>3

(***************************************************************************)
(* A connection whose proxy runs finds that proxy's semaphores under every *)
(* name, and its segment unless a start was interrupted.                   *)
(***************************************************************************)
LEMMA NamesOfPeer ==
    ASSUME TypeOK, SemaphoresOwned, SegmentsKept, PeersServed,
           NEW w \in Workers, worker[w] # "none", Running(peer[w]), NEW i \in Slots
    PROVE  /\ peer[w] \in Proxies /\ stage[peer[w]] = "serving"
           /\ reader[i] = peer[w] /\ writer[i] = peer[w]
           /\ Interrupted \/ (shm[i] # None /\ shm[i] = mapped[peer[w]][i])
<1>1. peer[w] \in Proxies /\ stage[peer[w]] = "serving"
  BY DEF PeersServed, Running
<1>2. slot[peer[w]] = NSeg /\ i < NSeg
  BY <1>1, TypeParts, IpcAssumption DEF ProcTypes, Slots
<1>3. reader[i] = peer[w] /\ writer[i] = peer[w]
  BY <1>1, <1>2 DEF SemaphoresOwned
<1>4. i \in Kept(peer[w])
  BY <1>2 DEF Kept
<1> QED
  BY <1>1, <1>3, <1>4 DEF SegmentsKept

(* The cache is only taken along by a webproxy that was ended from outside. *)
LEMMA WorkerCacheOutlives ==
    ASSUME TypeOK, SemaphoresOwned, SegmentsKept, PeersServed, CacheOutlives,
           NEW w \in Workers, WorkerStep(w)
    PROVE  CacheOutlives'
<1> DEFINE Ended == \E p \in Proxies : stage[p] \in {"stopped", "interrupted", "killed"}
<1>1. stage' = stage /\ cache = "up"
  BY WorkerFrame DEF procVars
<1> SUFFICES ASSUME cache' = "exited"
             PROVE  Ended
  BY <1>1 DEF CacheOutlives
<1>2. worker[w] # "none" /\ ~Connect(w, peer[w])
  BY <1>1 DEF WorkerStep, Connect, ReadSeg, AttachSegment, AttachReader, AttachWriter, Attach,
              Transferred
<1>3. peer[w] \in Proxies /\ stage[peer[w]] \in {"serving", "stopped", "killed"}
  BY <1>1, <1>2 DEF PeersServed
<1>4. CASE ~Running(peer[w])
  BY <1>3, <1>4 DEF Running
<1>5. CASE Running(peer[w])
  <2>1. use[w].slot \in Slots
    BY TypeParts DEF CacheTypes, Uses
  <2>2. \/ shm[use[w].slot] = None \/ reader[use[w].slot] = None \/ writer[use[w].slot] = None
    BY <1>1, <1>5 DEF WorkerStep, Connect, ReadSeg, AttachSegment, AttachReader, AttachWriter,
                      Attach, Transferred
  <2>3. Interrupted
    BY <1>2, <1>5, <2>1, <2>2, NamesOfPeer, IpcAssumption
  <2> QED
    BY <2>3 DEF Interrupted
<1> QED
  BY <1>4, <1>5

LEMMA MainCacheOutlives ==
    ASSUME TypeOK, CacheOutlives, NEW p \in Proxies, MainStep(p)
    PROVE  CacheOutlives'
BY MainFrame, EndedStays DEF CacheOutlives, EndedOutside, cacheVars

-------------------------------------------------------------------------------
(* Whose objects a connection uses. *)

Owns(w) ==
    worker[w] # "none" /\ Running(peer[w]) =>
        /\ {use[w].reader, use[w].writer} \subseteq {None, peer[w]}
        /\ use[w].shm \in {None, mapped[peer[w]][use[w].slot]} \/ Interrupted

LEMMA OwnsAll == OwnObjects <=> \A w \in Workers : Owns(w)
BY DEF OwnObjects, Owns, Interrupted

LEMMA MainOwnObjects ==
    ASSUME TypeOK, PeersServed, OwnObjects, NEW p \in Proxies, MainStep(p)
    PROVE  OwnObjects'
<1>1. UNCHANGED <<worker, peer, use>>
  BY MainFrame DEF cacheVars
<1>2. ASSUME NEW w \in Workers, worker'[w] # "none", Running(peer[w])'
      PROVE  Owns(w)'
  <2>1. peer[w] \in Proxies /\ stage[peer[w]] \in {"serving", "stopped", "killed", "failed"}
    BY <1>1, <1>2 DEF PeersServed
  <2>2. peer[w] # p
    BY <1>1, <1>2, <2>1, MainFrame, ServingStep DEF Running, StartStages
  <2>3. stage'[peer[w]] = stage[peer[w]] /\ mapped'[peer[w]] = mapped[peer[w]]
    BY <2>1, <2>2, MainFrame
  <2>4. Interrupted => Interrupted'
    BY EndedStays DEF Interrupted, EndedOutside
  <2>5. Running(peer[w])
    BY <1>1, <1>2, <2>3 DEF Running
  <2> QED
    BY <1>1, <1>2, <2>3, <2>4, <2>5, OwnsAll DEF Owns
<1>3. \A w \in Workers : Owns(w)'
  BY <1>1, <1>2 DEF Owns
<1> QED
  BY <1>3 DEF OwnObjects, Owns, Interrupted

LEMMA WorkerOwnObjects ==
    ASSUME TypeOK, SemaphoresOwned, SegmentsKept, PeersServed, NothingOpened, OwnObjects,
           NEW w \in Workers, WorkerStep(w)
    PROVE  OwnObjects'
<1>0. CacheTypes
  BY TypeParts
<1>1. UNCHANGED <<stage, mapped>>
  BY WorkerFrame DEF procVars
<1>2. ASSUME NEW v \in Workers \ {w}
      PROVE  Owns(v)'
  BY <1>1, WorkerFrame, OwnsAll DEF Owns, Running, Interrupted
<1>3. ASSUME Running(peer[w])', ~\E p \in Proxies : Connect(w, p)
      PROVE  Owns(w)'
  <2>1. worker[w] # "none"
    BY <1>3 DEF WorkerStep, ReadSeg, AttachSegment, AttachReader, AttachWriter, Attach, Transferred
  <2>2. peer' = peer /\ Running(peer[w])
    BY <1>1, <1>3, <2>1, WorkerFrame DEF Running
  <2>3. Owns(w) /\ use[w].slot \in Slots
    BY <1>0, OwnsAll DEF CacheTypes, Uses
  <2>4. /\ reader[use[w].slot] = peer[w] /\ writer[use[w].slot] = peer[w]
        /\ Interrupted \/ shm[use[w].slot] = mapped[peer[w]][use[w].slot]
    BY <2>1, <2>2, <2>3, NamesOfPeer
  <2>5. CASE ReadSeg(w)
    <3>1. use[w].shm = None /\ use[w].reader = None /\ use[w].writer = None
      BY <2>5 DEF NothingOpened, ReadSeg
    <3>2. use'[w].shm = None /\ use'[w].reader = None /\ use'[w].writer = None
      BY <1>0, <2>5, <3>1 DEF CacheTypes, Uses, ReadSeg, CacheExits
    <3> QED
      BY <3>2 DEF Owns
  <2>6. CASE use'[w] = use[w]
    BY <1>1, <2>1, <2>2, <2>3, <2>6 DEF Owns, Interrupted
  <2>7. CASE AttachSegment(w) /\ use' # use
    <3>1. use'[w] = [use[w] EXCEPT !.shm = shm[use[w].slot]]
      BY <1>0, <2>7 DEF CacheTypes, AttachSegment, Attach, CacheExits
    <3> QED
      BY <1>0, <1>1, <2>1, <2>2, <2>3, <2>4, <3>1 DEF CacheTypes, Uses, Owns, Interrupted
  <2>8. CASE AttachReader(w) /\ use' # use
    <3>1. use'[w] = [use[w] EXCEPT !.reader = reader[use[w].slot]]
      BY <1>0, <2>8 DEF CacheTypes, AttachReader, Attach, CacheExits
    <3> QED
      BY <1>0, <1>1, <2>1, <2>2, <2>3, <2>4, <3>1 DEF CacheTypes, Uses, Owns, Interrupted
  <2>9. CASE AttachWriter(w) /\ use' # use
    <3>1. use'[w] = [use[w] EXCEPT !.writer = writer[use[w].slot]]
      BY <1>0, <2>9 DEF CacheTypes, AttachWriter, Attach, CacheExits
    <3> QED
      BY <1>0, <1>1, <2>1, <2>2, <2>3, <2>4, <3>1 DEF CacheTypes, Uses, Owns, Interrupted
  <2> QED
    BY <1>3, <2>5, <2>6, <2>7, <2>8, <2>9 DEF WorkerStep, Transferred
<1>4. ASSUME NEW p \in Proxies, Connect(w, p)
      PROVE  Owns(w)'
  <2>1. use'[w].shm = None /\ use'[w].reader = None /\ use'[w].writer = None
    BY <1>4 DEF NothingOpened, Connect
  <2> QED
    BY <2>1 DEF Owns
<1>5. \A v \in Workers : Owns(v)'
  BY <1>2, <1>3, <1>4 DEF Owns
<1> QED
  BY <1>5 DEF OwnObjects, Owns, Interrupted

-------------------------------------------------------------------------------
(* The invariant, and what it gives. *)

LEMMA InitIInv == Init => IInv
BY InitTypeOK
   DEF Init, IInv, LoopFresh, SemaphoresOwned, SegmentsKept, PeersServed, NothingOpened,
       CacheOutlives, OwnObjects, Running, Unused

LEMMA MainIInv ==
    ASSUME IInv, NEW p \in Proxies, MainStep(p)
    PROVE  IInv'
<1>1. NothingOpened'
  BY MainFrame DEF IInv, NothingOpened, cacheVars
<1> QED
  BY <1>1, MainTypeOK, MainLoopFresh, MainSemaphoresOwned, MainSegmentsKept, MainPeersServed,
     MainCacheOutlives, MainOwnObjects
     DEF IInv

LEMMA WorkerIInv ==
    ASSUME IInv, NEW w \in Workers, WorkerStep(w)
    PROVE  IInv'
<1>1. LoopFresh' /\ SemaphoresOwned' /\ SegmentsKept'
  BY WorkerFrame
     DEF IInv, procVars, nameVars, LoopFresh, SemaphoresOwned, SegmentsKept, Kept, Running,
         Interrupted
<1> QED
  BY <1>1, WorkerTypeOK, WorkerPeersServed, WorkerNothingOpened, WorkerCacheOutlives,
     WorkerOwnObjects
     DEF IInv

LEMMA RemoveIInv ==
    ASSUME IInv, RemoveNames
    PROVE  IInv'
<1>1. TypeOK'
  BY NextTypeOK DEF IInv, Next
<1>2. UNCHANGED <<procVars, cacheVars>> /\ \A p \in Proxies : ~Running(p)'
  BY DEF RemoveNames, procVars, Running
<1>3. LoopFresh' /\ SemaphoresOwned' /\ SegmentsKept'
  BY <1>2 DEF IInv, procVars, LoopFresh, SemaphoresOwned, SegmentsKept, Running
<1>4. PeersServed' /\ NothingOpened' /\ CacheOutlives'
  BY <1>2 DEF IInv, procVars, cacheVars, PeersServed, NothingOpened, CacheOutlives
<1>5. OwnObjects'
  BY <1>2 DEF IInv, procVars, cacheVars, OwnObjects, Running
<1> QED
  BY <1>1, <1>3, <1>4, <1>5 DEF IInv

LEMMA NextIInv == IInv /\ [Next]_vars => IInv'
<1> SUFFICES ASSUME IInv, [Next]_vars
             PROVE  IInv'
  OBVIOUS
<1>1. CASE UNCHANGED vars
  BY <1>1, NextTypeOK
     DEF IInv, vars, procVars, nameVars, cacheVars, LoopFresh, SemaphoresOwned, SegmentsKept,
         PeersServed, NothingOpened, CacheOutlives, OwnObjects, Kept, Running, Interrupted
<1> QED
  BY <1>1, Steps, MainIInv, WorkerIInv, RemoveIInv

(* The variables keep their types, the loop over the slots its bounds. *)
THEOREM IpcTypes == Spec => []TypeOK
<1>1. IInv => TypeOK
  BY DEF IInv
<1> QED
  BY <1>1, InitIInv, NextIInv, PTL DEF Spec

(* A proxy that serves waits on semaphores it made itself (webproxy.c:204-219). *)
THEOREM IpcFreshSemaphores == Spec => []FreshSemaphores
<1>1. IInv => FreshSemaphores
  <2> SUFFICES ASSUME IInv, NEW p \in Proxies, stage[p] = "serving", NEW i \in Slots
               PROVE  reader[i] = p /\ writer[i] = p
    BY DEF FreshSemaphores
  <2>1. slot[p] = NSeg /\ i < NSeg
    BY TypeParts, IpcAssumption DEF IInv, ProcTypes, Slots
  <2> QED
    BY <2>1 DEF IInv, SemaphoresOwned, Running
<1> QED
  BY <1>1, InitIInv, NextIInv, PTL DEF Spec

(* A start that is refused does not take the cache along (simplecached.c:99-128). *)
THEOREM IpcCacheOutlives == Spec => []CacheOutlives
<1>1. IInv => CacheOutlives
  BY DEF IInv
<1> QED
  BY <1>1, InitIInv, NextIInv, PTL DEF Spec

(* A thread of the cache opens its own proxy's objects (simplecached.c:99-128). *)
THEOREM IpcOwnObjects == Spec => []OwnObjects
<1>1. IInv => OwnObjects
  BY DEF IInv
<1> QED
  BY <1>1, InitIInv, NextIInv, PTL DEF Spec

===============================================================================
