------------------------------- MODULE ProxyIpc -------------------------------
(***************************************************************************)
(* The named objects between the processes of project3/proxy_cache: each   *)
(* start of webproxy creates a segment and two semaphores per slot under   *)
(* fixed names, threads of simplecached open them by name.  Names and      *)
(* objects outlive the processes.  A name denotes None or an object, and   *)
(* an object is called by the start of webproxy that made it.              *)
(***************************************************************************)
EXTENDS Integers

CONSTANTS
    Proxies,    \* the starts of webproxy, in any order and at the same time
    Workers,    \* the connections to simplecached, a thread each
    NSeg        \* -n: the number of slots

None == 0

ASSUME IpcAssumption == NSeg \in Nat \ {0} /\ None \notin Proxies

Slots == 0 .. NSeg - 1

VARIABLES
    stage,      \* stage[p]: how far main of webproxy is, or how it ended
    slot,       \* slot[p]: the loop variable i
    mapped,     \* mapped[p]: the segments p mapped
    shm,        \* shm[i]: the object named /shm_seg_i
    reader,     \* reader[i]: the one named /sem_reader_i
    writer,     \* writer[i]: the one named /sem_writer_i
    cache,      \* "up", or "exited" by an exit(-1) of one of its threads
    worker,     \* worker[w]: what the cache's thread for w does next
    peer,       \* peer[w]: the proxy it is connected to
    use         \* use[w]: its slot and the objects it opened there

procVars == <<stage, slot, mapped>>
nameVars == <<shm, reader, writer>>
cacheVars == <<cache, worker, peer, use>>
vars == <<procVars, nameVars, cacheVars>>

NoNames == [i \in Slots |-> None]
Unused == [slot |-> 0, shm |-> None, reader |-> None, writer |-> None]

Init ==
    /\ stage = [p \in Proxies |-> "off"] /\ slot = [p \in Proxies |-> 0]
    /\ mapped = [p \in Proxies |-> NoNames]
    /\ shm = NoNames /\ reader = NoNames /\ writer = NoNames
    /\ cache = "up"
    /\ worker = [w \in Workers |-> "none"]
    /\ peer = [w \in Workers |-> None]
    /\ use = [w \in Workers |-> Unused]

Running(p) == stage[p] \in {"shm", "reader", "writer", "serving"}
Goto(p, label) == stage' = [stage EXCEPT ![p] = label]

(* The process is over, and with it its variables and mappings. *)
End(p, how) ==
    /\ Goto(p, how)
    /\ slot' = [slot EXCEPT ![p] = 0]
    /\ mapped' = [mapped EXCEPT ![p] = NoNames]

-------------------------------------------------------------------------------
(* main of webproxy. *)

(* Without an option out of its range; otherwise it ends, nothing made yet. *)
Start(p) ==
    /\ stage[p] = "off"
    /\ \E valid \in BOOLEAN : Goto(p, IF valid THEN "shm" ELSE "invalid")
    /\ UNCHANGED <<slot, mapped, nameVars, cacheVars>>

(* shm_open with O_CREAT alone: a segment that is there is used as it is. *)
OpenSegment(p) ==
    /\ stage[p] = "shm"
    /\ LET i == slot[p]
           object == IF shm[i] = None THEN p ELSE shm[i]
       IN  /\ shm' = [shm EXCEPT ![i] = object]
           /\ mapped' = [mapped EXCEPT ![p][i] = object]
    /\ Goto(p, "reader")
    /\ UNCHANGED <<slot, reader, writer, cacheVars>>

CreateReaderShared(p) ==        \* faulty variant: O_EXCL forgotten
    /\ stage[p] = "reader"
    /\ reader' = [reader EXCEPT ![slot[p]] = IF @ = None THEN p ELSE @]
    /\ Goto(p, "writer")
    /\ UNCHANGED <<slot, mapped, shm, writer, cacheVars>>

CreateReaderCleaning(p) ==      \* faulty variant: shm_clean before the exit
    /\ stage[p] = "reader"
    /\ \/ /\ reader[slot[p]] = None
          /\ reader' = [reader EXCEPT ![slot[p]] = p]
          /\ Goto(p, "writer")
          /\ UNCHANGED <<slot, mapped, shm>>
       \/ /\ reader[slot[p]] # None
          /\ End(p, "refused")
          /\ shm' = NoNames
          /\ UNCHANGED reader
    /\ UNCHANGED <<writer, cacheVars>>

(* sem_open with O_CREAT and O_EXCL: exit(-1) when the name is taken. *)
CreateReader(p) ==
    /\ stage[p] = "reader"
    /\ IF reader[slot[p]] = None
       THEN /\ reader' = [reader EXCEPT ![slot[p]] = p]
            /\ Goto(p, "writer")
            /\ UNCHANGED <<slot, mapped>>
       ELSE End(p, "refused") /\ UNCHANGED reader
    /\ UNCHANGED <<shm, writer, cacheVars>>

NextStageLate(i) == IF i < NSeg THEN "shm" ELSE "serving"   \* faulty: one slot too many

NextStage(i) == IF i + 1 < NSeg THEN "shm" ELSE "serving"

(***************************************************************************)
(* The same for the writer semaphore, and on to the next slot or to serve. *)
(* Its refusal never happens: the reader's name was free.                  *)
(***************************************************************************)
CreateWriter(p) ==
    /\ stage[p] = "writer"
    /\ IF writer[slot[p]] = None
       THEN /\ writer' = [writer EXCEPT ![slot[p]] = p]
            /\ slot' = [slot EXCEPT ![p] = @ + 1]
            /\ Goto(p, NextStage(slot[p]))
            /\ UNCHANGED mapped
       ELSE End(p, "refused") /\ UNCHANGED writer
    /\ UNCHANGED <<shm, reader, cacheVars>>

ShmCleanMatching ==             \* faulty variant: the names that were created
    shm' = NoNames /\ reader' = NoNames /\ writer' = NoNames

(***************************************************************************)
(* shm_clean unlinks the segments, whoever made them.  The semaphores stay:*)
(* /sem_reader0 and /sem_writer0 are not the names they were created with. *)
(***************************************************************************)
ShmClean == shm' = NoNames /\ UNCHANGED <<reader, writer>>

(* SIGINT or SIGTERM: _sig_handler cleans and exits. *)
Signal(p) ==
    /\ Running(p)
    /\ End(p, IF stage[p] = "serving" THEN "stopped" ELSE "interrupted")
    /\ ShmClean
    /\ UNCHANGED cacheVars

(* The process is gone without running any of its code. *)
Kill(p) ==
    /\ Running(p)
    /\ End(p, "killed")
    /\ UNCHANGED <<nameVars, cacheVars>>

(* A request when the cache is gone: connect or recv fails, exit(-1). *)
CacheMissing(p) ==
    /\ stage[p] = "serving"
    /\ cache = "exited"
    /\ End(p, "failed")
    /\ UNCHANGED <<nameVars, cacheVars>>

(* Whoever keeps the machine removes what was left when no webproxy runs. *)
RemoveNames ==
    /\ \A p \in Proxies : ~Running(p)
    /\ reader # NoNames \/ writer # NoNames \/ shm # NoNames
    /\ shm' = NoNames /\ reader' = NoNames /\ writer' = NoNames
    /\ UNCHANGED <<procVars, cacheVars>>

-------------------------------------------------------------------------------
(* A thread of simplecached, after its reply. *)

WorkerGoto(w, label) == worker' = [worker EXCEPT ![w] = label]
CacheExits == cache' = "exited" /\ UNCHANGED <<worker, use>>

(* A request of p: connection, path and reply. *)
Connect(w, p) ==
    /\ cache = "up" /\ worker[w] = "none"
    /\ stage[p] = "serving"
    /\ peer' = [peer EXCEPT ![w] = p]
    /\ WorkerGoto(w, "read_seg")
    /\ UNCHANGED <<procVars, nameVars, cache, use>>

(* The segment number arrives; when the proxy ended before, read returns 0. *)
ReadSeg(w) ==
    /\ cache = "up" /\ worker[w] = "read_seg"
    /\ IF Running(peer[w])
       THEN /\ \E i \in Slots : use' = [use EXCEPT ![w].slot = i]
            /\ WorkerGoto(w, "shm")
            /\ UNCHANGED cache
       ELSE CacheExits
    /\ UNCHANGED <<procVars, nameVars, peer>>

(* Open the objects by name, one after the other; exit(-1) without one. *)
Attach(w, kind, name, next) ==
    /\ cache = "up" /\ worker[w] = kind
    /\ IF name[use[w].slot] # None
       THEN /\ use' = [use EXCEPT ![w][kind] = name[use[w].slot]]
            /\ WorkerGoto(w, next)
            /\ UNCHANGED cache
       ELSE CacheExits
    /\ UNCHANGED <<procVars, nameVars, peer>>

AttachSegment(w) == Attach(w, "shm", shm, "reader")
AttachReader(w) == Attach(w, "reader", reader, "writer")
AttachWriter(w) == Attach(w, "writer", writer, "transfer")

(* With both ends alive the transfer ends; without the proxy it never does. *)
Transferred(w) ==
    /\ cache = "up" /\ worker[w] = "transfer"
    /\ Running(peer[w])
    /\ WorkerGoto(w, "done")
    /\ UNCHANGED <<procVars, nameVars, cache, peer, use>>

Next ==
    \/ \E p \in Proxies :
          \/ Start(p) \/ OpenSegment(p) \/ CreateReader(p) \/ CreateWriter(p)
          \/ Signal(p) \/ Kill(p) \/ CacheMissing(p)
    \/ RemoveNames
    \/ \E w \in Workers :
          \/ \E p \in Proxies : Connect(w, p)
          \/ ReadSeg(w) \/ AttachSegment(w) \/ AttachReader(w) \/ AttachWriter(w)
          \/ Transferred(w)

Spec == Init /\ [][Next]_vars

-------------------------------------------------------------------------------
(* Properties. *)

Objects == Proxies \cup {None}

TypeOK ==
    /\ stage \in [Proxies -> {"off", "shm", "reader", "writer", "serving",
                              "invalid", "refused", "stopped", "interrupted", "killed", "failed"}]
    /\ slot \in [Proxies -> 0 .. NSeg]
    /\ \A p \in Proxies : slot[p] = NSeg <=> stage[p] = "serving"
    /\ mapped \in [Proxies -> [Slots -> Objects]]
    /\ {shm, reader, writer} \subseteq [Slots -> Objects]
    /\ cache \in {"up", "exited"}
    /\ worker \in [Workers -> {"none", "read_seg", "shm", "reader", "writer",
                               "transfer", "done"}]
    /\ peer \in [Workers -> Objects]
    /\ use \in [Workers -> [slot : Slots, shm : Objects, reader : Objects, writer : Objects]]

(***************************************************************************)
(* The semaphores a serving proxy waits on are those it made itself, with  *)
(* their initial values, and the ones the cache finds by name.  So two     *)
(* proxies never serve with the same objects, whatever starts, stops and   *)
(* ends of other webproxy processes there are, half-finished ones included.*)
(***************************************************************************)
FreshSemaphores ==
    \A p \in Proxies : stage[p] = "serving" =>
        \A i \in Slots : reader[i] = p /\ writer[i] = p

(***************************************************************************)
(* A start that is refused does no harm: the cache and its transfers       *)
(* outlive it.  Only a webproxy that was ended from outside can take the   *)
(* cache with it (a path without a segment number, a name that is gone).   *)
(***************************************************************************)
CacheOutlives ==
    cache = "exited" => \E p \in Proxies : stage[p] \in {"stopped", "interrupted", "killed"}

(***************************************************************************)
(* While the proxy of a connection lives, its worker in the cache has      *)
(* opened that proxy's semaphores, and the segment that proxy has mapped   *)
(* unless a webproxy was interrupted in its start and unlinked it.  It     *)
(* lives until its signal handler is entered, which removes the names and  *)
(* exits in one step here.                                                 *)
(***************************************************************************)
OwnObjects ==
    \A w \in Workers : worker[w] # "none" /\ Running(peer[w]) =>
        /\ {use[w].reader, use[w].writer} \subseteq {None, peer[w]}
        /\ \/ use[w].shm \in {None, mapped[peer[w]][use[w].slot]}
           \/ \E p \in Proxies : stage[p] = "interrupted"

(***************************************************************************)
(* After webproxy was stopped by its signal handler, which is there to     *)
(* remove the objects, it can be started again: a start is refused only    *)
(* beside another webproxy or after one that could not run its handler.    *)
(***************************************************************************)
OrderlyStopAllowsStart ==
    [][\A p \in Proxies : stage[p] # "refused" /\ stage'[p] = "refused" =>
          \E q \in Proxies \ {p} : Running(q) \/ stage[q] \in {"killed", "failed"}]_vars
===============================================================================
