# A TLA+ verification of the GETFILE servers, client and caching proxy

The repository holds the programs of an operating systems course: a file
transfer and an echo pair, a GETFILE client and server with their
multi-threaded versions (`project1`), a GETFILE server that fetches its files
with libcurl and one that fetches them from a cache process over shared memory
(`project3`), and an image resizer over RPC (`project4`). The libraries
`gfserver` of project3, `simplecache`, `content` and `workload` are used and not
part of it. There is no documentation beyond usage texts and comments.

These modules describe all of its programs, check them with TLC on small
instances, and prove with TLAPS, for every size of the system, the safety
properties that hold of them, freedom from deadlock of the caching proxy among
them. Liveness is model-checked.

## 1. The system

| component | state it keeps | operations | talks to | what is hard |
|---|---|---|---|---|
| worker gate (`handle_with_cache.c`, `simplecached.c`, `gfserver_mt/handler.c`) | count of working threads, condition variable | enter, sleep, leave and signal | the threads of its process | lost wakeups, newcomers that overtake, early returns that must leave |
| proxy worker (`handle_with_cache.c`) | segment pool `ptr_status`, `bytes_send` | one thread per request: connect, send path, receive reply, take a segment, send pieces, release | the cache (UNIX socket, segments, semaphores), the client | a pool at its limit, failing sends, a shared buffer without lock |
| cache (`simplecached.c`) | one descriptor per key, `bytes_read` | accept and read the path; one thread per connection: look up, seek, reply, read the segment number, fill pieces | the proxy | file offset shared by threads, blocking accept loop |
| proxy start-up (`proxy_cache/webproxy.c`) | names of segments and semaphores | create, unlink on a signal | the kernel's named objects, other starts, the cache | what an earlier process left behind, starts that overlap |
| GETFILE server (`gfserver.c`) | one connection, `header[]` | accept, read, parse, call the handler, close | clients, the handler | requests in parts, connections that break, handlers that outlive the call |
| its threads (`gfserver_mt/handler.c`) | gate, `bytes_transferred` | look up, send header and chunks | the client's descriptor, `header[]` | the descriptor and the path are the loop's |
| GETFILE client (`gfclient.c`) | `bytesreceived`, status | connect, ask, read header, read body | a server | the header ends anywhere in a read |
| download client (`gfclient_download.c`) | files, `local_path` | rounds of create and join, unlink | its threads | several requests, one name |
| curl proxy (`proxy_server`) | a buffer and a curl handle per request | fetch, answer | libcurl, the client | a transfer cut short, codes other than 200 and 404, an early return |
| minify RPC (`project4`) | one static result | call, read, resize, reply, time out | the RPC library | callers that gave up, a result that outlives the routine |
| transfer (`transfer`) | the stream of a file | accept, send all; read, append | one peer | errors in the middle, of the file or the connection |
| echo (`echo`) | one buffer, sockets never closed | accept, receive, write back | one peer after the other | a short message in a used buffer, an empty one, descriptors that run out |

What makes each correct is stated in section 4; the hazards, each at
the line where it bites, are in `PROJECT.json`, with the property that would
catch it going wrong or the reason why there is none.

## 2. The modules

| module | models | correspondence |
|---|---|---|
| `WorkerGate` | the gate | `count` is `workThreads` / `currentWorkers`; a critical section is a step; `Signal` is `pthread_cond_signal` |
| `ProxyCache` | `handle_with_cache.c` and `simplecached.c` together, with the initial state `webproxy.c` makes | `pc[r]` and `cpc[r]` are the two threads that serve request r; a step is a critical section, a system call, a semaphore operation or one use of the segment |
| `ProxyIpc` | starts of `webproxy.c` in any order and at once, the signal handler, kill, and the threads of the cache that open the objects by name | `stage[p]`, `slot[p]` are the creation loop of start p; `shm`, `reader`, `writer` say which object a name stands for; `worker[w]`, `use[w]` are a thread of the cache and what it opened |
| `FileService` | what a file server promises (abstract) | `header`, `body` as the client sees them |
| `GetFileServer` | `gfserver.c` and `gfserver_mt/handler.c` | `boss` is the loop, `task[c]` the handler of a request, `sock` what the descriptor denotes, `text` what is in `header[]` |
| `GetFileClient` | `gfclient.c` and `gfclient_mt/gfclient_download.c` | `pc[k]` is `gfc_perform` for request k, `main`, `round`, `slot` the loops of `main` |
| `CurlProxy` | `proxy_server/webproxy.c` and `handle_with_curl.c` | `handler[r]` is the handler for r, `size`, `res`, `code` what libcurl reports, `announced` and `result` what it sends and returns |
| `MinifyRpc` | `minifyjpeg.c`, `minifyjpeg_svc.c`, `minifyjpeg_clnt.c`, `minify_via_rpc.c` | `server` is the stage of the one thread, `dst` the static result; `busy` and `waited` count ticks of the stage and of the call's time-out; `client[c]` is what the call returned |
| `Transfer` | `transferserver.c`, `transferclient.c` | `pos` is the file's offset, `stream[c]` what is on the way, `output[c]` the local file; `misread` holds the clients in whose service `fread` failed |
| `Echo` | `echoserver.c`, `echoclient.c` | `buffer` is the server's one buffer, `held` the sockets it never closed |
| `WorkerGateProofs`, `ProxyCacheProofs`, `ProxyIpcProofs`, `GetFileServerProofs`, `GetFileClientProofs`, `EchoProofs`, `MinifyRpcProofs`, `ProgramsProofs` | theorems | see section 5 |
| `Programs` | the programs that share no state (`ProxyIpc`, `Echo`, `Transfer`, `CurlProxy`, `MinifyRpc`): one is chosen at the start and runs alone | `program` is the choice; the properties keep their modules' names |
| `MCPrograms` | the instance of `Programs` for TLC | sizes only |
| other `MC...` | instances for TLC | constants only |

How they compose: `ProxyCache` is the composition of proxy and cache. It
implements `FileService` (`ImplementsFileService`) and, three times,
`WorkerGate`: the gates of both processes and the pool of segments, which is a gate for
NSeg threads (`ProxyGateSpec`, `CacheGateSpec`, `SegmentGateSpec`).
`GetFileServer` composes the loop with its handlers and implements the same two
(`ImplementsFileService`, `HandlerGateSpec`). `ProxyIpc` justifies the initial
state of `ProxyCache`: a proxy that serves has fresh semaphores of its own.

Definitions commented as *faulty variant* are not used by any specification.
They are operations with a plausible mistake in them, each of which breaks the
property listed with it under `mutants` in `PROJECT.json`: they show that the
property depends on that operation.

### What the abstraction does

* A file is a sequence of bytes that know their file and position, so that a
  byte of another file, a repeated or a lost one are all seen. Messages are what their
  receiver makes of them (a status, a segment number).
* A local byte counter (`bytes_send`, `bytes_read`) is updated in the step of the
  read or send it counts; the `sem_post` between the two lines cannot observe it.
* In `ProxyCache` all local system calls succeed and both processes stay up.
  `gfs_send` delivers everything or, to a client that is gone, returns -1: whether a
  write to a closed connection returns or raises SIGPIPE, and what happens to
  short writes, is decided by the `gfserver` library of project3.
* `simplecache_get` returns one descriptor per key. Files do not change.
* In `ProxyIpc` an object is known by the start that made it, so that an object
  unlinked and created again under its name is another one. A thread of the
  cache either gets through its transfer with a live proxy or stays in it.
* In `GetFileServer` only the loop opens descriptors after start-up, so that `accept` always
  gets the number just closed. SIGPIPE ends the process, as nothing ignores
  it. A request in several parts is parsed as the code does it (each part
  overwrites the start of the buffer): its end is found with a wrong text before
  it, or not found. `setting`, chosen once from the constant `Settings`, says
  whether the handler leaves its work to a thread (`detached`), in how many parts
  requests arrive and which clients may leave early. The handler that works
  before it returns is the work of `handler.c` done in the call; it shows what
  the loop promises with a handler of that kind, and is the reference for the
  other one.
* In `GetFileClient` reads fit the header buffer, paths and file names are
  accepted, and the variable `pthread_join` overwrites next to
  `returncode` (`gfclient_download.c:179` stores a pointer in an `int`) is one nobody
  reads. A header is `HeadLen` units; `Extra` is by how much the client's own
  rendering of it is shorter. An empty file counts as a failure, as in the code
  (line 163 asks for a positive length).
* In `Echo` a message has no zero byte; it may be empty, and then nothing is sent. The client prints its buffer up to the
  first zero; `overrun` holds the clients that found none among the bytes
  received, and what they print behind them is undefined.
* In `Transfer` the client's `read` error makes -1 the length of an `fwrite`, as
  the code does: the process crashes or foreign bytes (0) are appended. The
  server's `fread` may fail at any byte, and gives what it had read before.
* In `CurlProxy` the page a server sends with a code other than 200 is thrown away by
  the code, so only the code is kept: 404 when there is no file (`Origin[r]` is -1), 200 when there
  is, or 500 in either case, which stands for all the others (redirections are not followed).
  `Framed` are the answers that say how long they are: of these libcurl
  reports a part as an error, of the others it does not.
* In `MinifyRpc` time passes in ticks, in all three things the server's one thread does with
  a call: it reads the argument and sends the result for at most `Wire` ticks each, and resizes for
  at most `Work`. Every waiting call gets older with each tick. A call ends by success, by an
  error the server reports (`refused`), by a connection that breaks at any moment, or an encoding
  that fails at the client (`broken`), or by the time-out (`timed_out`); the code exits in the last three
  alike, and the model tells them apart only for the properties.

## 3. The runs

| run | instance | shows |
|---|---|---|
| `worker_gate` | 4 threads, limit 2 | types, exact bound, no lost wakeup, everyone is served |
| `proxy_cache_sessions` | 3 requests for different files, one empty; 3 proxy threads, 2 cache threads, 2 segments; two clients may go away at any moment | pool, semaphores, loops and answers are consistent in every interleaving, whatever is lost of an answer nobody reads |
| `proxy_cache_service` | 3 requests, two for the same file, one for an unknown path; 2 proxy threads, 1 cache thread, 1 segment | no state is a deadlock (`NobodyStuck`); the gates are implemented, and the file service too, as the cache's gate keeps the two requests for one file apart; every request ends answered |
| `proxy_cache_leak` (violation) | one client goes away | the segment and the place in the gate are lost for good (`handle_with_cache.c:150`) |
| `proxy_cache_same_file` (violation) | two cache threads, one key | bytes repeated or missing (`simplecached.c:138`) |
| `getfile_server` | 3 clients; files of 3 and 1 bytes and an unknown path; 1 thread at a time; three settings: plain, and with a torn request and a client that leaves, with and without threads | own answers and the file service for the handler that works before it returns; the gate on all paths; threads end |
| `getfile_server_stray` (violation) | threads | an answer goes to another client (`gfserver.c:167`) |
| `getfile_client_rounds` | 1 to 3 threads, 2 rounds, failing links, five kinds of answer | only the asked file is written, success is true, the right files stay, all rounds end |
| `getfile_client_header` (violation) | the header `gfserver.c` writes | the body starts one byte early (`gfclient.c:169`) |
| `getfile_client_unlink` (violation) | a failure in a round of three | the wrong file is removed (`gfclient_download.c:184`) |
| `programs` | `MCPrograms`: 3 starts of webproxy beside a cache; 3 echo clients, one with an empty message; 2 transfers; 3 curl requests; 3 image calls | the properties of `ProxyIpc`, `Echo`, `Transfer`, `CurlProxy` and `MinifyRpc` |
| `proxy_ipc_restart` (violation) | a webproxy stopped by its signal handler, then another | the second is refused: the handler unlinks other names than were created (`webproxy.c:71`) |

The bounds. Files take two pieces, one, or none: the loops run more than once, the
last piece is shorter than the others, and the empty loop is there. Three requests
against limits of one and two make threads sleep at each gate and be
overtaken, with a third thread holding what they want. Two segments are enough
for a mistaken one. The sessions of `proxy_cache_sessions` have files of their own, because
with two cache threads `ImplementsFileService` needs that; one cache thread serves two requests
for one file in `proxy_cache_service`, two do in `proxy_cache_same_file`, and the other
properties are proved for shared files too.
In the client a buffer of 5 with headers of 3 and a file of 4 gives every
position of the header's end in a read.

In `programs`, three starts of webproxy give one that serves, one that is
refused or overlaps with it, and one that comes after; two slots let a start be interrupted
between them. Echo has three clients for two descriptors, a buffer of 3 and messages of 2, 4 and 0,
so that a short message follows one that does not fit, and one is empty. A transfer is two full buffers, so
that the end of the file is found by a read of nothing; a read that fails gives each shorter
beginning. The curl requests are for a missing file, a file of two pieces and a file whose length is not told,
with 2 threads, each answered with any code; the image
calls take at most 3 ticks each, one per stage, and time out after 7, so that of three calls only one that
waited for both others does. Every
disjunct of every action is taken in some run, but for the refusal
in `CreateWriter`: a start that got the reader name of a slot always gets the
writer name too, since both are created in this order and never removed
(the names `shm_clean` removes are others).

Deadlock is checked where the system never stops but by being idle
(`Quiescent`: nobody is being served and the loops wait in accept). It is not
checked in `proxy_cache_sessions` and `proxy_cache_leak`, where a request whose client is gone may
really wait for ever, nor in `programs` and `proxy_ipc_restart`, whose programs end.

### Fairness

Every thread that can take its next step does so in the end (weak fairness
per thread): the kernel schedules it, mutexes are held for a few lines without
a blocking call, and a semaphore of a segment is waited for by one thread at a
time. Arrivals, departures of clients and spurious wakeups are not
promised. For `GetFileServer` the clients send the requests they began, and for
`GetFileClient` a server that is not cut off sends its answer and closes. For
`Echo` and `Transfer` the server and each client take their steps; nobody has to
leave. Weak fairness is enough for the gates although a newcomer may overtake a woken
thread, because each run has finitely many requests.

## 4. Correctness properties, by component

* Gate: the count is exact and bounded (`GateBound`); a sleeper never
  faces a free place nobody is on the way to (`NoLostWakeup`); `EveryoneServed`.
* Pool: count, flags and users agree (`SegmentsAccounted`), so the scan never runs past the end;
  a segment comes back (`SegmentReturned`, violated when a client goes away; for clients that
  stay it follows from `EveryRequestCompletes`).
* Proxy and cache: threads wait for each other at two gates, in the listen queue, for a segment, on
  the socket and on two semaphores, and none of these waits ever closes a circle (`NobodyStuck`).
  The deadlock check of TLC would not see one, as a sleeper may always wake up
  spuriously; the property only counts steps of the code. `ProxyReady`, `CacheReady` and
  `AcceptReady` spell out when such a step is possible, which ENABLED would say
  in a form that cannot be proved about.
* Segment: filled and sent alternately, by the two threads of one
  request (`SharedBufferExclusive`), and returned with the semaphores at their initial values
  although nobody resets them (`FreeSegmentIsReset`), because both loops of a
  session stop after the same number of pieces (`LoopsInStep`).
* Named objects: a serving proxy waits on semaphores it made itself
  (`FreshSemaphores`), the cache finds the objects of the proxy it talks to (`OwnObjects`) and is not
  ended by a start that was refused (`CacheOutlives`). `OrderlyStopAllowsStart` is violated.
* Answers: of the file asked for only (`OwnFileOnly`, `InlineOwnAnswer`), in order and whole for different
  files or with one cache thread (`ImplementsFileService`), for every request (`EveryRequestCompletes`,
  `EveryClientAnswered`). With two threads at the same file `BodyInOrder`, and with threads `OwnAnswer`, are violated.
* Threads of the server: `HandlerGateSpec`, `ThreadsEnd`.
* Client: `NothingForeignWritten`, `SuccessIsTrue`, `ReceivedFilesKept`, `EveryRoundEnds`.
  `FailedFileRemoved` is violated.
* Curl proxy: what a handler announces and returns is worth what `CurlAnswerTrue` says: FILE_NOT_FOUND that the
  origin did not answer with 200, OK that all bytes announced were sent and are the
  beginning of the origin's file, and all of it but for the exceptions below. Handles come back, but for the
  early return (`CurlHandlesReturned`).
* Minify: each caller has its own image (`OwnImage`). A caller may fail at once, by a broken connection or an
  error of the server; but one that times out met a server with as much work as its
  time (`TimesOutUnderLoad`), in which abandoned calls count once each.
* Transfer: a client that ends well has the whole file, but for the exceptions below (`WholeFileTransferred`); `TransferClientsEnd`.
* Echo: a client gets its own message (`EchoOfOwnMessage`), and does not wait for ever unless somebody
  sent an empty message (`EchoClientsEnd`).

Some properties name exceptions, because the code has them:

* The transfer client returns 0 with less than the file, or with foreign bytes, when its connection broke or the server
  exited (`read` gives -1, which line 119 does not see, or 0), and with a beginning of the file when the server
  could not read the rest (`transferserver.c:158`, which prints a line and closes in order).
* The curl proxy sends a part of the file as if it were all when libcurl ended a 200 with an error (line 62 asks for
  `CURLE_ABORTED_BY_CALLBACK` only), or when the answer did not say how long it is. It says FILE_NOT_FOUND
  of a file that is there when the origin answers with any other code than 200, or not at all.
* The echo server stops for good at a client with an empty message: `echoclient.c:64` refuses a
  missing message only, nothing is sent, and both `recv` wait for each other. `EchoClientsEnd`
  excepts the behaviours that end so (`StoppedByEmptyMessage`), and no others.
* The cache finds other segments than its proxy's, or none, when an interrupted start of `webproxy` has unlinked them
  (`OwnObjects`). There a proxy lives until its signal handler is entered: the handler removes
  the names and exits, one step of the model.

For the transfer and the curl proxy the properties say that with none of these the answer is whole.

## 5. What is proved

`WorkerGateProofs`, for every finite set of threads and every positive limit. The
invariant is the conjunction of types, `GateBound` and `NoLostWakeup`
(`GateInductive`, from it `GateTypeCorrect`, `GateBounded`, `GateWakeups`). The bound
needs nothing else; the wakeup property needs the exact count, as a departure
adds one free place and, through the signal, one thread on its way.

`ProxyCacheProofs`, for every number of requests, segments and threads, every
assignment of files to requests, the same file for several included, and every
set of clients that go away (`CacheAssumption`). None of the invariants of the
pool is inductive by itself: that a released segment has its semaphores at 0
and 1 depends on the cache having no piece left to write, which depends on the
byte counts of both loops, which depend on nobody else using the
segment. `IInv` adds to the five properties what is true of one request at any
moment:

1. `OneToken`: a segment in use has exactly one token, in one of its semaphores or
   with the one thread between its wait and its post;
2. `Handshake`: how far each of the two threads knows the other to be;
3. `Counts`: the reader is never ahead of the writer, both want more while a piece is
   pending, and either leaves only when the writer has written everything; while the
   client stays, the reader is behind by the pending piece and by nothing else.

Then `ReleaseSegment` finds no piece pending (else the reader would want more) and
no writer inside (else the file would not be complete), so the token is in the
writer semaphore. The proof treats the steps that leave a request's
session alone once (`BystanderSession`, `NeutralSession`) and then each action. The
counts hold with the -1 of failed sends, so all of it holds with
clients that go away; what fails then is only that the segment returns. The
results are `ProxyCacheInductive`, `ProxyCacheTypeCorrect`, `PoolConsistent`,
`BufferExclusive`, `PoolReset`, `NoForeignBytes` and `SessionsInStep`.

On top of it stand the refinements. `ProxyGateImplemented`, `CacheGateImplemented` and
`SegmentGateImplemented` map every step to a step of `WorkerGate` or a
stutter; the segment gate needs `SegmentsAccounted`, which makes NSeg - `seg_free` the number
of users. What `WorkerGateProofs` says of any gate then holds of the three:
`ProxyGateSound`, `CacheGateSound`, `SegmentGateSound` (exact bound, no lost wakeup).

`ProxyCacheNeverStuck` (`NobodyStuck`) puts both together. Suppose no step is
possible and no client is gone. Then the listen queue is empty, since `main` would accept
or the client it reads from send its path (`StuckQueue`). Nobody holds a segment: a holder
could only be at the head of its loop with the token in the writer semaphore, hence
with equal counts, hence with a cache thread that also wants more and finds that
semaphore up (`StuckHoldsNothing`). So by the gate of the pool nobody waits for a segment
(`StuckProxy`); so no thread of the cache is at work, and by its gate none waits there
(`StuckCache`); so nobody waits for a reply, and by the proxy's gate nobody waits
there either (`StuckIsServed`). What is left is an idle system. This argument is why
`Handshake` and `Counts` say in both directions where the two threads are.

`BodiesInOrder` and `FileServiceImplemented` hold of behaviours in which no two threads
of the cache are at the same file at the same time (`[]KeysApart`). The condition is needed, as
the run `proxy_cache_same_file` shows: the cache keeps one descriptor per key. Under
it the offset of a key in use is its worker's `bytes_read` (`FileRead`), and body, pending piece and
the rest of the file make up the file (`PartsSent`). The body of a client that went away is a beginning of
the file not shorter than `bytes_send` (`Abandoned`), so that a loop that ends has sent all of it
even then. Two theorems discharge the condition: `ServiceForDistinctFiles`, for requests for
different files, and `ServiceOfOneCacheThread`, for any requests when `simplecached` runs with one
thread, by `CacheGateSound`.

`ProxyIpcProofs`, for any starts, connections and number of slots: `IpcTypes`,
`IpcFreshSemaphores`, `IpcCacheOutlives`, `IpcOwnObjects`. The invariant says that a running
start owns the semaphores of the slots it is past (`SemaphoresOwned`, as they are created with
O_EXCL and nobody removes them), that its segments are still there unless a start was interrupted
(`SegmentsKept`), and that what talks to the cache has served (`PeersServed`). Two starts past
the same slot would own the same semaphores, so one serves alone; hence what a
thread of the cache finds by name is its proxy's.

`GetFileServerProofs`, for any clients, files, chunk sizes, limits and settings:

* `ServerTypeCorrect`: the invariant `ServerInv` joins the types with the queue (who is in
  it once, `QueueInv`), the descriptor (which connection is open where in the loop, `LoopInv`) and the
  handlers (`TaskInv`: who is past the gate is counted, `bytes_transferred` in range);
* `HandlerGateImplemented`: its gate implements `WorkerGate` on all paths, and so
  `HandlerGateSound`: exact bound, no lost wakeup;
* `InlineAnswers`: with a handler that works before it returns everyone gets
  a beginning of its own answer or is turned away. Its invariant `Answering(c)` follows one
  client through the loop: until its handler is called it got nothing, then header and
  `bytes_transferred` bytes, provided the descriptor still denotes its connection;
* `FileServiceImplemented`: with clients that stay and send at once, such a
  server is the file service (`PlainInv` adds that then no connection ever breaks).

`GetFileClientProofs`, for any number of threads and rounds, any answers, sizes and
buffer: `ClientTypeCorrect`, and for a server whose header is as long as the client takes it
to be (`Extra = 0`; with the one space more of `gfserver.c` the run `getfile_client_header` shows the
opposite) `OnlyTheFileWritten`, `SuccessCorrect` and `FilesKept`. `CallInv(k)` says what a call of
`gfc_perform` has written at each point: nothing before the header, then as much of the file as was
taken behind it; `MainInv` and `DiskInv` say which files main has removed when.

`EchoProofs` and `MinifyRpcProofs` are about the modules themselves (`EchoOwnMessage`,
`MinifyOwnImage`, `MinifyTimesOut`), for any clients and sizes. `MinifyTimesOut` rests on `LoadInv`: no
caller has waited longer than the time spent on the calls taken up so far (`Spent`), the last one
counted as far as it is done: `Left` is what it may still take from its stage on. For that, whoever
waits is known to the server (`Known`): in its inbox or at work on, else time would
pass for a call without being spent on one.

`ProgramsProofs` is about `Programs`, the specification the run `programs`
instantiates, under `ProgramsAssumption` (lengths, limits and times are numbers, callers are
finitely many). A step of the whole is a step of one program or leaves its variables alone, so the
theorems of `ProxyIpcProofs`, `EchoProofs` and `MinifyRpcProofs` carry over by instances of those modules:
`ProgramsTypeCorrect`, `ProgramsEcho`, `ProgramsOwnImage`, `ProgramsTimesOut`. The transfer pair and the
curl proxy are proved here:

* `ProgramsTransfer` (`WholeFileTransferred`). What a client that ended well has
  says nothing of the states before. `TransferInv` follows every client whose connection is
  intact through four phases (`Delivery`): it has not connected (`Fresh`), it is in the listen queue and nothing was sent
  (`Waiting`), it is served and what it has written with what is on the way is the file up to the
  server's offset (`Receiving`), or the server has closed (`Ended`), behind the last byte or where `fread` failed (`SentOut`). The queue has nobody twice
  (`QueuedOnce`), or a client could be served again behind its end; and the server closes only at the file's
  length or after a read error. A piece that is not full is the last, which the arithmetic of the
  send loop gives for any buffer, when the file can be read.
* `ProgramsCurlAnswers` and `ProgramsCurlHandles`, from `CurlInv`: what the handler announced and
  returned at each point of its code, and who holds a curl handle there.

Model-checked only: the liveness properties (`EveryoneServed`, `EveryRequestCompletes`,
`SegmentReturned`, `EveryClientAnswered`, `ThreadsEnd`, `EveryRoundEnds`, `EchoClientsEnd`,
`TransferClientsEnd`), as fairness and ENABLED are out of the prover's reach; that the three
`...Ready` are the guards of the actions is to be read from them. Every
invariant and every refinement that a passing run checks is stated by a theorem.

## 6. What is not modelled

* Failing local calls: `socket`, `bind` and `listen` where the program only exits, `malloc`,
  `mmap`, `ftruncate`, a `read` error of a cached file (`simplecached.c:139` cannot see one, as `read_len` is
  unsigned), a failing `pread` or `fwrite`.
* What `ftruncate` does to a segment in use when a second start has another
  `-z` (`webproxy.c:192`); the segment size is a constant of `ProxyCache`.
* The death of a process inside a transfer of `ProxyCache`: in `ProxyIpc` the
  cache's thread stays where it is, which is all there is to say.
* Descriptors and threads that are never given back
  (`handle_with_cache.c:63`, `gfclient.c:134`, the unjoined threads): a growth
  without bound, to be seen from the text. Where it has an effect of its own, in the echo
  server, it is modelled.
* How long the path pointer of a request lives (`handle_with_cache.c:176`) and what a
  short write returns: decided by the `gfserver` library of project3, which is not here.
* In the image service, a server that waits to write to a caller that is stopped but connected, for as long as the
  RPC library lets it; reading and writing is bounded by `Wire`. A failing image library, and the
  procedures that the client never calls.
* Reads of the GETFILE client that overrun its header buffer: undefined.
* The XDR and stub files of project4: generated. Two calls by one client process:
  `minify_via_rpc` makes one, and the `main` that
  calls it is not in the repository.
* `shm_channel.c` and `.h` hold no code.

## 7. Plan

1. A caching proxy with three requests of which two share a file and one client leaves, in one larger
   instance with the liveness of the others; a proof that the requests of clients that stay are not
   held up by those of clients that left, as long as a segment and a place in both gates remain.
2. `ProxyCache` over the objects of `ProxyIpc`: a transfer during which the proxy or
   the cache ends, and what the next start finds in its segments.
3. Freedom from deadlock of the server with its handlers and of the download client's rounds as invariants with
   proofs, in the manner of `NobodyStuck`.
