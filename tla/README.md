# AppUtil: models, checks and proofs

AppUtil is a library of C++ utilities for Windows applications: a thread pool,
a wrapper of ActiveMQ, a web service with its client, wrappers of the service
and process interface, the firewall and the port tables, and two archive
tools. This directory holds TLA+ modules for the parts whose correctness
depends on interleavings, failures and order, the configurations that check
them with TLC, and proofs that TLAPS checks.

## 1. Inventory

Paths are relative to the repository; `src/src` is the library's own code.

| Part | Source | State | Operations | Works with |
|---|---|---|---|---|
| Thread pool | `ThreadPool.cpp/.h` | slot array (handle, thread id, busy, exit), completion port, two flags, an event | Init, Fini, InputWork; threads MangerThread and WorkThread | any number of posting threads |
| MQ wrapper | `AMqWraper.cpp/.h` | map of connections, map (cache) of producers, lists of producers and consumers per connection, read-write lock, one mutex per connection | Init, Fini, Add/DelProducer, SendMsg, Add/DelConsumer; callbacks onException, onMessage | ActiveMQ library, calling threads |
| Web service | `WsService.cpp/.h`, `WsClient.cpp/.h` | exit flag, port, a socket per service thread | Start, Stop, SubRecvThread; RemoteConfig | gSOAP, the owner of the object |
| Windows wrapper | `WinApiWrap.cpp/.h` | none of its own, handles | GetProcInfo, GetSvrInfo, ServiceControl, StopService, KillProcessByAppName, ... | service control manager, process table |
| Firewall | `FireWallMgr.cpp/.h` | COM interface pointers | Init, Fini, IsFirewallOn, TurnOn/TurnOffFirewall, IsApp/IsPortEnabled, Add/RemoveApplication, Add/RemovePortRule | Windows firewall |
| Port detection | `PortDetect.cpp/.h` | none | GetTcpPortList, GetUdpPortList | Windows wrapper |
| Zip | `ZipTool.cpp`, `ZipTools.h` | folder path and name | Compress, CompressFile, UnCompress | minizip, files |
| 7-Zip | `7Zip/ZipLib.cpp`, `ZipSdk.cpp` | error counters, current file and stream | Compress, UnCompress; extract, update and open callbacks | 7-Zip engine |
| Test program | `main.cpp` | none | three manual tests | MQ wrapper, web service |
| Vendored | `public/`, `project/`, `bin/`, `doc/` | | | left out |

What is hard, part by part, and what makes it correct:

* **Thread pool.** The slot array has no lock. The client (Init, Fini), the
  manager and the workers read and write it in any order; the identifier of a
  worker appears in a slot before its handle does; a worker remembers its slot
  for life while the manager may refill slots; retirement, dequeue and time
  limit race. Correct means: each job is run at most once and never vanishes; a
  slot has one owner; there are never more than `iMaxNum` workers; core workers
  stay; queued jobs are served; Fini returns and leaves no worker behind.
* **MQ wrapper.** Two maps, under a read-write lock, and lists under another
  lock, refer to the same objects. SendMsg gives its lock up and takes it
  again; the library breaks a connection from a thread of its own. Correct
  means: cache and lists agree, a send never uses a deleted producer, one
  producer per URL, a connection lives as long as somebody uses it, calls
  return, DTK_OK means what it says.
* **Web service.** A flag stops the thread, which may be waiting in four
  different ways; one way out skips the clean-up. Correct means: a stopped
  service ends, and an ended one has no listening socket and holds no client.
* **Windows wrapper, port detection, firewall.** They ask the system and act
  on an answer that may be stale, or wait for a state that may never come.
  Correct means: success says something about the service, a wait ends, a name
  and a process that were found belong together.
* **Zip, 7-Zip.** Long sequences of library calls, each of which may fail,
  with clean-up that depends on how far they got, among files that others
  touch. Correct means: success says that everything was packed or unpacked,
  with its own attributes; what failed is not left behind looking good; what
  was not to be touched is not.

`PROJECT.json` lists the hazards of all parts, each at its line, with the
properties that cover it or the reason why none does yet.

## 2. Modules

| Module | Models |
|---|---|
| `JobPool` | abstract specification: what the thread pool promises to the callers of InputWork |
| `ThreadPool` | `CThreadPool`: client, manager, workers, slots, port; its properties; the refinement of `JobPool` |
| `MqMgr` | `MqMgr`, `MqConnection`, `MqProducer`, `MqConsumer` |
| `WsService` | `CWsService`, its thread, and `CWsClient` |
| `WinService` | the service functions of `CWinApiWrap` against a service control manager |
| `WinProcess` | the process functions of `CWinApiWrap`, and `CPortDetect`, against a host |
| `FireWall` | `CFireWallMgr` against a firewall that others change |
| `SevenZip` | `CZipLib`: Compress, UnCompress and their callbacks against the 7-Zip engine |
| `ZipTools` | `CZipTools` against a file system that others use |
| `MC...` | instances of these for TLC: URLs, lists, trees, archives, symmetry |
| `...Proofs` | theorems about each of the eight modules above but `JobPool`, for all values of their constants (section 4) |

Operators named in a comment `Mutant` are slips that a programmer could make
in the code; replacing the definition after them by one of them makes the named
run fail. They show that each property depends on the code it is about.

### 2.1 ThreadPool

State: the fields `hHandle`, `iThreadId`, `bIsBuy`, `bIsExit` of each slot;
the port `iocp` as a queue; the flags and the event; and for the client
(`cpc`, `ci`, `cNew`), the manager (`mpc`, `mi`, ...) and each worker (`pc`,
`idx`, `job`) the control point and the locals. A step is one access to shared
state, so that all interleavings of the code without locks are behaviours. The
setup in Init before the manager exists is one step, for nobody can see it.

| Code | Actions |
|---|---|
| `Init` | `InitSetup`, `InitFails`, `InitCreate`, `InitStore`, `InitReturns` |
| `Fini` | `FiniCall`, `FiniScan`, `FiniWait`, `FiniStop`, `FiniJoin`, `FiniDrain`, `FiniClose`, `FiniFree` |
| `InputWork` | `InputWork` |
| `MangerThread`, `GetThreadPoolStatus`, `AddThread`, `DeleteThread` | `MangerCheck`, `MangerEvent`, `MangerCount`, `MangerDecide`, `AddThread`, `AddThreadStore`, `DeleteThread` |
| `WorkThread` | `WorkerStart` ... `WorkerClear` |

`_beginthreadex` is external: it gives an unused thread identifier, runs the
thread before its handle is stored, or refuses. A worker that touches the
slots after Fini deleted them is undefined behaviour: the model lets it either
read what was there or end the process (`WorkerCrash`). `outlived` is a
history variable: it records that a worker survived its array, after which the
properties about slots claim nothing. The floating-point rates of
GetThreadPoolStatus are compared as integer products. A wait on the port may end
with packets still queued, for the port lets only so many of its threads run:
this holds of the workers (`WorkerTimeout`) and of the drain of Fini
(`FiniDrain`), and what the drain leaves is lost with the port (`FiniClose`).

### 2.2 MqMgr

A step is one section of code under one lock. `writer` and `readers` are the
read-write lock; `conn`, `listProducer`, `listConsumer`, `mapProducer` the
containers; `alive` is the heap of producers and `created` those whose
`m_pProducer` exists; `consuming` are the consumers that have their listener,
against those that are only listed; `callback` is where onException stands between the two
sections of DisConn. URLs are sequences of parts and `ParseMqUri` is
translated from the code. DelProducer, DelConsumer and Fini are one step each:
they hold the write lock throughout, and an onException that came between two of
their locked sections has the same effect before or after them. AddProducer and
AddConsumer are two steps, for Create runs without the connection's lock.
MqConsumer::Create catches whatever the library throws and returns nothing
(AMqWraper.cpp:739-761), so AddConsumer answers DTK_OK for a destination from
which no message will come, and finds it listed the next time: `hidden` is a
history variable with these consumers, the one exception in what DTK_OK means. A
use of a deleted or NULL object sets `fault` and the model stops. `Using` makes
the unprotected use of a session by a sender race with DestroyConn.

A URL may be spelt in more than one way: ParseMqUri ignores what stands before
the part "mq" (AMqWraper.cpp:223-228), so `mq/s/queue/d` and `x/mq/s/queue/d`
name the same destination of the same server (the search is for the text "mq/",
so that a part which merely ends in "mq" is taken as well: `EndsInMq`), while the
cache `m_mapProcucer` is
looked up by the whole string (36-62, 88-105). Then both URLs share a producer
with two entries in the cache, and DelProducer by one of them leaves the other
entry with the address of a deleted producer. The instances for TLC have one URL
for each destination, as the header describes them; the theorems name it as a
hypothesis (`OneSpelling`).

Assumed of the ActiveMQ library: it calls onException for a connection that is
up, and not for one that the wrapper has deleted. Assumed of the callers, as
`main.cpp` does: Fini is called when no other call is under way. A call with a
NULL callback or a URL that does not parse returns an error and changes
nothing. onMessage hands a message to the user and changes no state.

### 2.3 WsService

Each Start makes a thread with control `pc`, an object `pSvr`, the flag `bBind`
and the socket `master` of gSOAP. Binding may fail at any time, accept and serve
end by their time limits, clients give up by theirs. soap_bind first closes the
socket of its last attempt; when it fails it may leave the new one open, or bound
if it was listen that failed (stdsoap2.cpp:4746-4760), for soap_closesock closes
another socket. `Delete` closes it and resets the waiting connections. The object
is assumed to outlive its threads: Stop does
not wait, so this is the owner's duty.

### 2.4 WinService

`state` is what the service control manager knows of each service; services
settle and end by themselves, and other programs start, stop, pause, resume,
install and remove them (`Others`). A second thread of this process does
nothing that another program could not do, so one thread calls. Each query and
each control is a step, as is each turn of a wait loop that ends it; a turn
that does not changes nothing. Any call of the manager may fail. `handles`
holds the services that were opened: the code closes handles only if they are
NULL (WinApiWrap.cpp:319, 372, 440), so none is ever closed and the service
cannot be removed any more. `same` is a history variable: the services whose
state has not changed since the call began.

Assumed of the manager: a service that accepts a control is starting or
stopping from then on.

### 2.5 WinProcess

The host has processes by identifier, services and sockets that belong to them,
and may give an identifier to a new process once the old one has ended and
nobody has a handle of it. A call takes the `Steps` of its function; each list
it fetches is one step and shows one moment. `opened` are the processes the
code has a handle of, which GetProcPathByPid and KillProcessByAppName never
close. `gone` is a history variable: what ended since the call fetched its
first list. The size of a table is asked for before the table is fetched; that
it may have grown is one of the ways in which fetching fails. Sockets that do
not listen are left out, as the code skips them, and TCP and UDP are alike.

### 2.6 FireWall

Each function is a question (`Question`: the calls of IsFirewallOn,
IsAppEnabled or IsPortEnabled), and for those that change something an answer
acted upon (`Acts`, `Otherwise`) and the calls that make the change (`Change`).
A step is one call of a COM interface, taken from the head of `todo`; any may
fail (`Fail`), and each function ends by releasing the local pointers that are
not NULL (`Release`). `refs` counts what has been got and not given back,
`held` is the set of local pointers that are not NULL. Between any two steps
`Others` change a rule. An item of a rule that is gone may say anything. History:
`same` (rules nobody else has changed during the call), `failed` (an Item
failed for another reason than a missing rule), `mine` (the call has changed
the firewall). Assumed: Add of a rule that exists replaces it; one thread calls
(the class is a singleton and COM is initialised per thread).

### 2.7 SevenZip

The engine of 7z.dll is external. It asks the update callback for the stream of
each item and leaves out one that has none; it walks the items of an archive and
calls GetStream, SetCompleted and SetOperationResult in this order, `epc` being
where it is. Each callback that fails ends the work. When SetCompleted returns
S_FALSE while an item is decoded, the engine may also take it for damaged data
and go on: both are in the model (`Cancel`). Items have a path, are folders or
not, and have attributes and a time or not (0). `info`, `diskFile` and `stream`
are members of the callback and live from item to item. A folder that is listed
shows the files that are there at that moment; TraverseFloder passes over a
folder that cannot be listed, except the first, and so does `Traverse`. It also
overwrites the entry that FindFirst returned with the next one
(ZipLib.cpp:569-575): that is "." in a folder, but the root of a drive has no
".", and there it is a file or a folder, which is left out (`Firsts`). `first`
is a history variable with that entry. The results of setting the attributes and
the time of a file are ignored (279, 284): each may fail in `Stamped`, and the
history variable `refused` says which did, of which item. The lists of Compress
are sets: whether a path comes twice in an archive it makes is not looked at. The
folders are a tree (`TreeAssumption`): every one of them is somewhere below the
root, so that any set of folders has one whose own folder is not among them.
Left out: volumes, which Compress does not configure, passwords beyond "there is
none", and sizes.

### 2.8 ZipTools

A step is one call of the file system or of minizip. Folders on the way to where
files are written are counted: `dirs` of them are there, and
CreatedMultipleDirectory makes the others one by one (`MakeDir`), answering
false if the last was there already, as the code does. An archive is partial
while it is open, whole or damaged once closed. Where the code hands NULL to
fread or fwrite, throws where nothing catches, closes an archive twice, or takes
a negative count for a length, the model sets `fault`, and the program ends and
is started again (`Restart`); the archive it was writing is damaged then.
CompressFile ignores the result of zipCloseFileInZip (ZipTool.cpp:58): if its
flush fails minizip leaves the entry out and still finishes the archive. History
variables: `owed` are the files that the archive on disk was made for, `lost`
those of them that were left out like this, `missed` those in folders that could
not be listed, `ignored` says that the archive could not be deleted and nobody
looked, and `asked` is the option of the call before Compress assigned to it.
Assumed: Windows
does not let an open archive be replaced, and a folder that has files in it not
be removed.

## 3. Runs

| Run | Instance | Checks |
|---|---|---|
| `PoolSafety` | 3 slots, 1 core worker, 4 threads, 3 jobs | `TypeOK`, `SlotOwned`, `WithinMaxNum`, `BusyMeansServing`, `CoreWorkersStay` |
| `PoolRestart` | 2 slots, 3 threads, 2 jobs, two Inits, one refused resource | `JobsConserved` |
| `PoolLive` | 2 slots, 1 core worker, 3 threads, 2 jobs | `JobsServed`, `RetiredLeave`, `FiniEnds`, `ImplementsJobPool` |
| `PoolFiniHangs` | as PoolLive | violates `FiniReturns` |
| `MqRegistry` | 3 threads, queue, topic and malformed URL on one broker, 6 calls | `TypeOK`, `RegistryConsistent`, `SendsToItsDestination`, `NoEmptyConnection`, `ReturnsMeanIt` |
| `MqDrops` | 2 threads, 2 brokers, failing and breaking connections, no memory | `ProducersOwned`, `CallsReturn` |
| `WsStop` | 2 service threads, 2 clients | `TypeOK`, `NoOrphanListener`, `StopEnds` |
| `SvcControl` | 2 services, the lists of both | `TypeOK`, `ControlHasEffect`, `StopListHasEffect`, `StopWaitEnds` |
| `HostLists` | 2 identifiers, 2 programs, 2 services, 1 port | `TypeOK`, `HandleIsRight`, `PortsNamed` |
| `FwRules` | 2 applications, 1 port, the firewall | `TypeOK`, `NothingLeaks`, `ResultsMeanIt`, `NotDoneTwice` |
| `SevenZip` | 3 files in 3 folders, one of them .svn; 2 archives | `TypeOK`, `CompressedAll`, `ArchiveKept`, `ExtractedRight` |
| `ZipFiles` | 2 files, 2 folders on the way | `TypeOK`, `NoHalfArchive`, `PackedAll`, `SkipKeeps` |

What they show:

* Slots stay owned although nothing locks them: a slot is refilled only after
  its last worker has written to it for the last time, because the identifier
  is cleared last (`WorkerClear`). This holds while nothing is posted during
  Init (`EarlyPost` is FALSE). Otherwise the manager may fill a slot that Init
  then fills again, as TLC shows with `EarlyPost` TRUE and two core workers.
* Jobs are conserved over restarts, even by workers that outlive their array.
* Fini may never return (`PoolFiniHangs`), and may free the array under a
  worker (`outlived` in the model): it deals with the slots while the manager is
  still filling them.
* The cache and the lists of the MQ wrapper agree as long as connections stay
  up, and two threads that send to a new URL make one producer. The
  second lookup of SendMsg is not protected: a DelProducer between
  AMqWraper.cpp:137 and 138 makes it call a NULL pointer. A connection that is
  lost takes its producers with it (388-392) while the cache keeps their
  addresses, and the next send uses one. A broker that is down makes
  AddConnection return the address of the connection it deleted. These are the
  faults "null producer", "deleted producer" and "deleted connection" of the
  model, which ends there.
* DTK_OK of AddConsumer does not mean that messages will come: a failure of
  MqConsumer::Create is told to nobody, and calling again does not repair it.
* Every call returns: SendMsg gives its read lock up before AddProducer.
* A stopped web service ends, with no listening socket. The early return of the
  bind retry (WsService.cpp:42) leaks the object and what the last bind left of
  its socket. That socket is bound if it was listen that failed, and then keeps
  the port until the process ends.
* A success of ServiceControl or StopService means that the service has at
  least not stood still in the wrong state. It does not mean that the service
  is stopped, or runs: one that was starting, stopping or paused is left alone.
  The wait for a stop ends unless somebody starts the service again. The wait
  for a start has no such property: a service that fails to start is stopped
  for good and ServiceControl never returns (WinApiWrap.cpp:306).
* A call that looks up a process and opens it has the right one, unless that
  one has ended in between; then KillProcessByAppName terminates whatever
  process was given its identifier. The order in which the port lists are
  fetched leaves no living owner without a name.
* Whatever fails in a call of the firewall manager, nothing it has got is
  kept, an error means that the firewall is as it was, and DTK_OK that the rule
  is as asked for, with these exceptions, which the properties name.
  TurnOffFirewall has the test of TurnOnFirewall (FireWallMgr.cpp:179): it
  never turns off a firewall that is on and answers DTK_OK, though
  FireWallMgr.h:34-40 promises to turn it off. An Item that fails for any
  reason counts as a missing application (231). IsPortEnabled fails for a
  port without a rule (616), so that AddPortRule never adds a rule: it only
  enables one that is disabled.
* `ERROR_OK` of the 7-Zip Compress means that every file that nobody touched is
  packed, if its folders could be listed, but for one entry of the root of a
  drive, a file or a folder with all that is in it; a file that is locked gives
  HASFILES_FAILD. The old archive is lost only once the new one may be made.
  UnCompress gives each file the attributes and the time of its own item, or
  none where Windows refuses to set them, which it ignores. It never reads
  NumErrors (ZipLib.cpp:257): damaged items, and a cancel that came while an
  item was decoded, still end in ERROR_OK.
* An archive of CZipTools that can be opened is complete but for the files whose
  entry minizip could not finish, for which Compress answers ZIP_OK all the
  same, and unless DTK_DeleteFile failed after an error. Nobody notices either.
  ZIP_OK of Compress means the files that were listed with the same exception,
  and for ZIP_FILE_REPLACE no older ones. Compress replaces an archive
  whatever its option says: line 82 of ZipTool.cpp assigns where it should
  compare, though ZipTools.h:13-15 promises to append or to exit. UnCompress
  answers FILE_NOT_FOUND if the archive is there (194), so it unpacks only what
  appears later; it makes a folder only if that exists (200, 246), which
  CreatedMultipleDirectory reports as a failure: an item of which it
  does ends the loop with ZIP_OK (250). A file that was there before is
  therefore never replaced, whatever the option; ZIP_FILE_SKIP decides only
  about those that appear during the call (`SkipKeeps`). That ZIP_OK of UnCompress means
  "unpacked" is therefore no property of the model. A bare name of an archive
  throws out of Compress (369), a file that cannot be opened is read through
  NULL (40), and after an error the archive is closed twice (147, 152).

**Bounds.** `MaxNum` 3 with one core worker has an elastic slot below and above
another one; one more thread than slots lets a slot be refilled while its last
worker leaves. `MaxInits` 2 gives one generation of workers a successor.
`MaxFail` refuses one thread, port or event. With `MaxCalls` 6 (one is Init) two
threads race on a URL while a third deletes, and each can act again.
`MaxDrops` 1 breaks a connection at any point. `Seconds` 2 stands for the 30
seconds of the retry, `Backlog` 1 for the 100 connections that wait: the code
treats all but the last alike. Two services in a list make one that is erased
or refused while another is still to come; two identifiers let one be reused
while the other stays; two services can share a process. Two applications and a
port make both kinds of rule, and one that others change while the call is about
another. A file in the root, one in a folder below and one in a .svn folder are
the cases of TraverseFloder, and the first entry may be any; the archives have a path that comes twice, a
folder, and items with and without attributes and times. Two files let
one fail after the other was packed; two folders on the way, one be missing
below one that is there. Deadlock is not checked where a system may
come to rest: the client of a pool may do nothing more, the process of the MQ
wrapper stops at its fault or its last call. Termination of these calls is
checked as liveness instead.

**Fairness.** Threads that can run do run: weak fairness of the client inside
Init or Fini, of the manager, of each worker (the client's ProcessJob returns),
of each thread inside a call of the MQ wrapper, of a started onException, of
each service thread (accept and serve have time limits in the code). Windows
services that are starting or stopping get somewhere, and the thread that waits
for them runs (`SvcControl`); a turn of the wait loop that finds another state,
and a query that fails, are not forced. Nobody is made to call anything, no bind or send need succeed. That a lock is obtained
rests on the bound `MaxCalls`: the library does not say whether its read-write
lock starves a writer. `CallsReturn` excuses a call whose process has crashed by
one of the faults named above.

## 4. Proofs

Each `...Proofs` module extends a module of section 2 and proves theorems about
its specification, for every value of the constants: any number of slots,
threads, jobs, URLs, brokers, services, processes, rules, files and folders, lists
and archives of any length, any number of failures. Every invariant and every
action property that a passing run checks is also a theorem, and so is the
refinement of `JobPool`. Every invariant below was first checked by TLC on the instance of
a run.

| Module | Theorem | Statement, after `Spec =>` | Under |
|---|---|---|---|
| `ThreadPoolProofs` | `TypeCorrect` | `[]TypeOK` | |
| | `JobsAreConserved` | `[]JobsConserved` | |
| | `SlotsAreOwned` | `[]SlotOwned` | `~EarlyPost` |
| | `WorkersAreBounded` | `[]WithinMaxNum` | `~EarlyPost` |
| | `BusySlotsServe` | `[]BusyMeansServing` | `~EarlyPost` |
| | `FirstWorkersStay` | `[]CoreWorkersStay` | `~EarlyPost`, `EnoughThreads` |
| | `RestartedPoolImplements` | `ImplementsJobPool` | `~EarlyPost`, `[](outlived => ~bPort)` |
| | `PoolImplementsJobPool` | `ImplementsJobPool` | `~EarlyPost`, `MaxInits = 1` |
| `MqMgrProofs` | `MqTypeCorrect` | `[]TypeOK` | |
| | `ProducersHaveOneOwner` | `[]ProducersOwned` | |
| | `CacheAndListsAgree` | `[]RegistryConsistent` | `MaxDrops = 0`, `OneSpelling` |
| | `SendsAreSafe` | `[]SendsToItsDestination` | `MaxDrops = 0`, `OneSpelling` |
| | `NoConnectionForNobody` | `[]NoEmptyConnection` | `MaxDrops = 0`, `~NoMemory` |
| | `OkMeansDone` | `ReturnsMeanIt` | `MaxDrops = 0`, `OneSpelling` |
| `WsServiceProofs` | `WsServiceTypeCorrect` | `[]TypeOK` | |
| | `EndedServicesAreGone` | `[]NoOrphanListener` | |
| `WinServiceProofs` | `WinServiceTypeCorrect` | `[]TypeOK` | |
| | `ControlsHaveEffect` | `ControlHasEffect` | |
| | `StopListsHaveEffect` | `StopListHasEffect` | |
| `WinProcessProofs` | `WinProcessTypeCorrect` | `[]TypeOK` | |
| | `RightHandles` | `[]HandleIsRight` | |
| | `PortsAreNamed` | `PortsNamed` | |
| `FireWallProofs` | `FireWallTypeCorrect` | `[]TypeOK` | |
| | `FireWallGivesBack` | `[]NothingLeaks` | |
| | `FireWallMeansIt` | `ResultsMeanIt` | |
| | `FireWallActsOnce` | `NotDoneTwice` | |
| `SevenZipProofs` | `SevenZipTypeCorrect` | `[]TypeOK` | |
| | `EarlyFailuresKeepArchive` | `ArchiveKept` | |
| | `CompressedFilesAreAll` | `CompressedAll` | |
| | `ExtractedFilesAreRight` | `ExtractedRight` | |
| `ZipToolsProofs` | `ZipTypeCorrect` | `[]TypeOK` | |
| | `HalfArchivesAreSeen` | `[]NoHalfArchive` | |
| | `CompressPacksAll` | `PackedAll` | |
| | `SkipLeavesFiles` | `SkipKeeps` | |

**Assumptions.** All theorems rest on the `ASSUME`s of their module, which say
what the constants are (types, `None` and `Null` outside the sets they
complete, the tree of folders, that the first workers fit in the array). The
hypotheses in the last column are conditions under which the code keeps its
promise, and it does not without them:

* `~EarlyPost`: nobody posts a job while Init runs. If somebody does, the manager
  may fill a slot that Init then fills again (section 3).
* `EnoughThreads`: the system has at least `iInitialNum` thread identifiers.
  Otherwise the first workers cannot all be there.
* `MaxInits = 1`, or that no worker which has outlived its slot array meets
  an open port: such a worker uses slots of the next pool's array with the index
  it had in its own, so nothing is promised of that pool.
* `MaxDrops = 0`: no connection breaks. onException deletes the producers of
  one that does, and the cache keeps their addresses. Connections may still fail
  to be made.
* `OneSpelling`: each destination has one URL (section 2.2).
* `~NoMemory`: `new` does not fail. AddProducer that finds no memory leaves
  the connection it has just made without a producer.

**Arguments.** None of the properties is inductive by itself. What each needs
besides `TypeOK`:

* *ThreadPool.* Types need `LoopInv`: where Init and Fini index a slot, it
  exists. Conservation needs `JobInv`: only a worker that marks or serves has a
  job, a closed port is empty, a dead process has no threads. Ownership needs
  `ArrayInv` (which control points can see a deleted array), `QuietInit` (while
  Init runs no worker is busy, the manager adds nothing and the slots Init has yet
  to fill are empty) and `OwnInv` (each worker's slot carries its identifier,
  each identifier is in one slot): a worker that has not looked up its slot yet
  must be known to find one, and only one. The bound follows, for the workers
  at work map one to one to slots. `BusyInv` ties the busy flag to the worker that
  sets and clears it. `NewInv` and `CoreInv` say for each slot that Init is past
  that its worker stays: the manager retires above `iInitialNum` only.
* *The refinement.* A job is posted, running, finished or dropped in `JobPool`;
  `StatusMeansPlace` derives it from the place the job is in. InitSetup maps to
  Open, InputWork to Post, WorkerDequeue to Start, WorkerServe to Finish,
  FiniDrain to Drop, FiniClose to Close, every other step to a stutter.
  `JobPool` allows as many running jobs as the pool has slots: that
  there is room for Start (`RoomToRun`) is the bound on the workers
  (`OwnedInv`) once more. `PortInv` and `SingleInv` say when the port is open and
  that a worker that outlives its pool finds it closed.
* *MqMgr.* `CallInv`: what each control point knows of its call; `DownInv`: a
  connection is between the two sections of DisConn only when it is down;
  `KeptInv`: a connection is kept while something is created on it; `OwnInv`:
  the lists are disjoint and without repetition, and their union is the heap. Then,
  while connections stay up (`StaysUp`), `EntryInv`, `ListInv`, `CreateInv` and
  `SendInv`: an entry of the cache names a listed producer of its URL, a listed
  producer has its entry or a thread that is about to make it, and a sender
  holds what the cache names. They preserve each other only together. `UsedInv`
  with `ConsumerInv`: no connection is empty. `HeardInv`: a listed consumer has
  its listener, or its Create failed, or a thread is about to call it.
  `OkMeansDone` goes through the ways in which each call can return (`Cases`).
* *WsService.* `ServiceInv`: the object of a thread exists at certain places
  only, there is no socket without it, and the socket listens from a bind that
  succeeded to the deletion of the object, in particular nowhere on the way to
  the early return; `ClientInv`: a client is with one thread, in the queue of a
  listening socket or in its hands. `NoOrphanListener` is what is left of them at
  the end.
* *WinService.* `ControlInv`: what ServiceControl knows at each place of a service
  that has stood still; `StopInv`: the entries before the iterator are dealt
  with, also after one was erased.
* *WinProcess.* `FoundInv`: an identifier found is in use by what it was
  looked up by, as long as nothing has ended; `TableInv` and `SvrInv`: the same
  of the rows of the port table and the services listed.
* *FireWall.* `ProgramInv`: what is left to do is the tail of one of the code's
  functions; it gets nothing twice and answers or changes last. `LeakInv`: each
  pointer held counts once. `KnowInv`: what was learnt of the rule is true as
  long as nobody else changes it.
* *SevenZip.* `ItemInv`: the engine is at an item of the archive; `KeptInv`:
  nothing has been written before Create; `ExtractInv`: the last item of every
  path that the engine is past has its file, with its own attributes and time
  but for what was refused of that very item, and an error was counted where it
  is incomplete. For Compress `FoundInv`: there is a set of folders, closed under
  their folders where they were listed to the end and not passed over, whose
  files are all in the list, in the archive or among the failed (`Covers`), but
  for one that was passed over in the root. At the end it has every folder of `Listed`, or else the folders
  it lacks would be a set without one whose own folder is not among them.
* *ZipTools.* `CallInv`: what holds of the handle, the entry and the option
  at each place; `PackInv`: the list is complete until the first file is packed,
  and the open archive has what is not still to come but for the lost ones, and
  nothing that is not in the list; `SkipInv`: a file about to
  be written over is not one that ZIP_FILE_SKIP protects.

Each step lemma has one step per action. An action property follows from
`Inv /\ [Next]_vars => A` and the invariance of `Inv`. Where a list or a
table is walked, the least element with a property is taken from the
well-foundedness of the naturals instead of an induction.

**Only model-checked:** the liveness properties `JobsServed`, `RetiredLeave`,
`FiniEnds`, `CallsReturn`, `StopEnds` and `StopWaitEnds`. They rest on weak
fairness, thus on ENABLED, about which this prover does not reason.

That the hypotheses are needed is not proved, but TLC finds a counterexample
to the property when one of them is dropped: with two first workers and
`EarlyPost` TRUE, with fewer identifiers than first workers, with two Inits of a
pool of one slot (the worker that was left over runs a job besides the new one),
with `MaxDrops` 1, with two spellings of one URL, or with `NoMemory` TRUE in
`MqRegistry`. Only `CoreWorkersStay` was not seen to fail with `EarlyPost` TRUE:
whether `FirstWorkersStay` needs that hypothesis is open.

## 5. Plan

Order of work, the most important behaviour first; done but for the last.

1. `ThreadPool` with `JobPool`, and its first theorems.
2. `MqMgr`.
3. `WsService` with its client.
4. `WinService` and `WinProcess`.
5. `SevenZip` and `ZipTools`.
6. `FireWall`.
7. Theorems for all modules: the types, the invariants, the action properties,
   and the refinement of `JobPool`.
8. For `MqMgr` an abstract registry (URLs that are registered, destinations
   consumed) that it implements while connections stay up, with its
   refinement proof, and onMessage with a callback that calls back into the
   manager.

## 6. Not modelled

* `public/` and `doc/ws`: headers and sources of gSOAP, zlib and minizip, 7-Zip,
  ActiveMQ and DTK, most of the repository's lines by far, and the stubs that gSOAP
  generated. The library's own code in `src/src` has about five thousand lines. What it
  uses of the others is modelled as external, by what the calls may do to it.
* `project/`, `bin/` and the rest of `doc/`: no behaviour of their own.
* `main.cpp`: three manual tests, commented out, which show how the modules are
  meant to be called.
* In modelled parts: onMessage, which hands a message to the user's callback and
  changes no state of the wrapper, and the inside of the ActiveMQ library
  (`MqMgr`); multi-volume archives and the reading of properties (`SevenZip`);
  Init, Fini and GetLocalIp of `CWinApiWrap`, single calls of Winsock.
