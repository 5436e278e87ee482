# netpull in TLA+

netpull copies a directory tree from a server to a client over TCP and can
resume a copy that was interrupted. This directory holds a model of it in TLA+,
the TLC configurations that check the model, and proofs for TLAPS.

    tlc -workers 2 -config MCWorkerPool_all.cfg MCWorkerPool
    tlapm WorkerPoolProofs.tla

1. [The system](#1-the-system)
2. [Modules](#2-modules)
3. [Runs](#3-runs), and where code and documentation disagree
4. [Proofs](#4-proofs)
5. [Not modelled](#5-not-modelled)
6. [Plan](#6-plan)

## 1. The system

Two programs share a small library. All paths below are under `src/netpull/`.

### Components

| Component | State it keeps | Operations | Modules |
|---|---|---|---|
| Worker pool, submission keys (`parallel/worker_pool.*`) | priority queue, `done`, threads; per key the counter `pending` | `Submit` (`Prepare`, then queue), `WaitForTaskAndPop`, `Execute`, `WaitForPending`, `Done`, `WaitForCompletion` | `WorkerPool` |
| Client session (`client/netpull_client.cc`) | `job_id`, the set `to_complete`, the destination tree, its queued tasks | the read loop of `main`, `HandleTransfer`, `FileStreamTask`, `FileIntegrityTask`, the SIGINT handler, the abort path | `NetPull`, `StreamTransfer` |
| Server accept loop, jobs and logs (`server/netpull_server.cc`, `main`, `Job`) | the map `jobs`, each job's `completed_paths` and log stream, the log files | one request per connection: start, continue, file, success | `NetPull`, `ServerJobs`, `IpFilter` |
| Server manager thread and tasks (`server/netpull_server.cc`) | the client's connection and its mutex, a submission key, `ready_files` | `ClientManagerThread`, `HandleObject`, the server's `FileIntegrityTask` and `FileStreamTask` | `NetPull`, `ServerJobs`, `Framing`, `StreamTransfer`, `Paths` |
| Crawler (`server/fast_crawler.*`) | queue of duplicated directory descriptors | `Visit`, `PumpDirectoryEntries` | `Crawler` |
| Wire protocol (`netpull.proto`), sockets and frames (`network/socket.*`) | connections, `alive_` | length-prefixed messages, raw bytes, `connect`, `accept` | `Framing`, `StreamTransfer`, `NetPull` |
| Guarded containers (`parallel/guarded_*.h`) | a hash set or map with a mutex | `Insert`, `Contains`, `Erase`, `Put`, `GetAndPopIf` | `GuardedSet`, `NetPull` |
| Paths (`server/path.*`) | none | `Join`, `IsResolved`, `IsChildOf`, `RelativeTo` | `Paths` |
| Addresses and ranges (`network/ip.*`) | none | `GenericLessThan`, `Contains`, `MultiContains` | `IpFilter` |
| Console (`console.*`) | the list of lines, `diff`, the rows of the terminal | `Claim`, release, `Update`, `DrawAll`, logging | `Console` |
| Progress lines, UTF-8 width (`client/progress_builder.*`, `client/utf8.*`) | none | `BuildLine`, `ForString` | `ProgressLine`, `Utf8Width` |
| Digests and ids (`crypto.*`), descriptors (`scoped_resource.h`) | none | wrappers | none |

### How they interact

1. The client connects and sends `start` with a path or `continue` with a job
   id. The server's accept loop filters the peer's address, creates or loads the
   job and starts a detached manager thread on the connection.
2. The manager sends `Started`, crawls the tree, sends each directory itself and
   hands each file that is not yet completed to its pool. The task hashes the
   file and sends the object with size, digest and a one-time id. When the key
   of these tasks has no pending task the manager sends `Finished`.
3. The client creates what it is sent, and for a file submits a task which
   opens a *second* connection, sends the id, and reads raw bytes. The accept
   loop pops the id from `ready_files` and lets its pool stream the file.
4. With all bytes written the task submits a check under the same key. If the
   digest matches, the file leaves `to_complete` and the client opens a *third*
   connection with a success message; the accept loop adds the path to the job's
   set and its log.
5. After `Finished` the client waits for its key, shuts the pool down and prints
   the job id if anything remains in `to_complete`. The user may run it again.
6. Meanwhile every thread of the client shows its progress on a console line of
   its own, which a console thread draws below the messages.

### What is hard here

Three connections per file are handled by one accept loop in the order of
arrival while threads on both sides work in any order; nothing is retried and
no message is acknowledged; either process may die at any point, and only the
log and the destination tree survive; a client that dies between `connect` and
its request takes the server down; the source may change between the three
moments at which it is read. Managers hold references into a hash map that the
accept loop lets grow; calls move fewer bytes than they were asked to, a line of
the log may be written in part, descriptors run out; sizes, columns and prefixes
are computed with types and loops that meet their limits. `hazards` in
`PROJECT.json` lists these places with their lines.

### What makes each component correct

- **Pool**: the counter of a key is exact at every moment, so a wait that
  returns means that the whole chain of tasks is over; shutdowns end; waits end
  and queued tasks run, unless `Done` drops them or others overtake them for ever.
- **Session protocol**: `Started` once and first, `Finished` last, a directory
  before what is in it, no entry twice; an announced id is good until it is used.
- **Job and log**: a path is recorded only when the destination holds a whole
  version of it, and is not written again from then on; the log is ahead of the
  memory only by lines that a failed write has spoilt.
- **Client**: every run ends; a run without complaint has delivered everything
  but what failed calls have left out on the server; resuming ends with
  everything delivered, except below directories without write permission.
- **Framing**: whole messages in the order in which they were begun.
  **Streams**: all bytes, or a reason.
- **Containers**: no lost update. **Crawler**: every entry once, parents first,
  no descriptor lost, nothing left out in silence.
- **Paths**: what is opened, and what it is called when it is sent, goes by the
  names that were asked for. **Addresses**: the order of numbers.
- **Console**: all messages, then the lines. **Progress lines**: those of
  printable paths fit on a row; all tell the truth.

## 2. Modules

| Module | What it is | Relation |
|---|---|---|
| `TaskGroup` | the abstract promise of a submission key | abstract |
| `WorkerPool` | pool and keys, one action per critical section | implements `TaskGroup` |
| `AtomicSet` | the abstract promise of a thread-safe set | abstract |
| `GuardedSet` | the set with a mutex that `Erase` does not take | implements `AtomicSet` until the first `Erase` |
| `PullJob` | the abstract promise of a job: what is recorded is delivered, for good | abstract |
| `NetPull` | client, server, connections, log, crashes and restarts for one job | implements `PullJob` |
| `ServerJobs` | the server with several jobs, managers and clients, log files line by line | |
| `Channel` | the abstract promise of a connection: whole messages in order | abstract |
| `Framing` | the bytes of messages, sent by several threads and read by pieces | implements `Channel` |
| `TreeWalk` | the abstract promise of the crawler | abstract |
| `Crawler` | the queue of duplicated descriptors | implements `TreeWalk` |
| `Utf8Width`, `ProgressLine` | `ForString` and `BuildLine` as operators | used by the next |
| `StreamTransfer` | the bytes of one file from the disk to the digest, and its lines | |
| `Paths` | the operations on paths, in the steps of the server that call them | |
| `IpFilter` | the decision about a peer, part by part | |
| `Console` | lines, messages and the terminal | |

`MC…` modules are the instances for TLC, `…Proofs` modules hold the theorems
(section 4). `NetPullInvariant` and `FramingInvariant` define the inductive
invariants of the two modules for which they are long; the others stand in the
module of their proofs. An operator whose comment begins with "Faulty" is a
plausible bug, used as a replacement of a neighbouring definition to see that a
property notices it; it is part of no specification. Some properties are stated
with the words "It does not hold", most with the line of documentation they come
from: they are the subject of
[Disagreements](#disagreements-with-comments-and-documentation). Every action
names its code in a comment, and `map` in `PROJECT.json` gives the lines.

### WorkerPool

`phase[t]` follows a task: `new`, `prepared` (counted by its key),
`queued`, `running`, `finished`. `Submit` is `Prepare` followed by the queue
insertion in the code, under two mutexes, so it is two actions, `Submit` (or
`SubmitFollowUp` when the caller is a running task) and `Enqueue`.
`WaitForTaskAndPop` is `Pop` or, when `done` is set, `ExitWorker`: the code
looks at `done` first, so a full queue does not matter. Condition variables are
`absl::Mutex::LockWhen`, whose condition is the guard. `FinishTask` is the end
of `Run` together with the `ScopedDefer` that takes the task off its key.
`std::priority_queue` leaves equal priorities open, hence any maximal task may
be popped. `Run` is open, except that it may submit one follow-up under its own
key, which is what the client's `FileStreamTask` does. Each task object is submitted
once, but for those without a key: they stand for the streams of the server,
which come as long as requests do (`Renew`). With them priorities can starve a
task, and the liveness properties say under which condition it runs.

Every key has an owner, a thread that submits, then waits. `gate` is its
progress. `joined` is the end of `WaitForCompletion`.

### GuardedSet

`Insert` and `Contains` hold the mutex from their first action to their last;
`Erase` is the call, the search (`EraseFinds`, `EraseMisses`) and the removal
(`EraseCounts`, `EraseDangling`), all without it, as in the code. The hash table is
external (Abseil) and modelled by what a concurrent access can see of it: the values
in its slots, the size, which an insertion or erasure reads and later writes back,
and a growth, which starts from an empty array and moves the old slots over. A race
on it is undefined behaviour, of which the model has the lost and the misplaced
update. An erasure that a growth leaves with an iterator into the old array clears
the control byte at its distance from the new one (`EraseDangling`): its own slot
may go, any other, or none, and `dangled` remembers that it has happened. Up to then
no path is lost (`NothingForgotten`); afterwards one may be (`NothingEverForgotten`
does not hold). Growth may happen at any insertion, a superset of the load factor's
choice. The two uses of the class are in one instance: until the first `Erase` it is
`Job::completed_paths`, on which the server never calls it, and there the set is
exact and atomic; with `Erase` it is the client's `to_complete`, where each path is
inserted once and erased at most once, after its `Insert` has returned. `Put` and
`GetAndPopIf` of `GuardedMap` take the mutex for all they do, and are the set
`ready` of `NetPull` and `ServerJobs`.

### NetPull

The processes: the client's `main` (`client`), one task per file (`task`: queued,
open, streaming, check, verified, reporting, ended), the accept loop,
the manager (`manager`), and the server's tasks (`hashing`, `sending`). Between
them: `backlog`, the connections that `accept` has not returned yet, each with
its request and whether that request has been sent (`pending`, `sent`), or the
client died before (`eof`) or after it (`orphan`); `responses` on the first
connection; `stream[f]` on each second one. What survives: `logged` and `dst`.

- Contents are sequences of blocks. A digest is the content (SHA-256 is taken as
  injective), a size the number of blocks, `ready` the files whose random id is
  in `ready_files` (ids are taken as fresh, so an old one never matches).
- `ReadFile` opens with `O_CREAT` and without `O_TRUNC`: existing content stays,
  and `StreamBlock` writes at the offset it has reached.
- `AcceptContinue` reads the log back, and `emplace` keeps a job that is already
  in memory. `AcceptSuccess` updates memory first and then the log; a failed
  write leaves the stream bad (`logOk`), and later writes are lost as well.
- `AcceptSuccess` on a server that does not know the job drops the message.
- A task is any order of the pool: `MayPop` is the bound on executing tasks. The
  queue itself is `WorkerPool`.
- `HandleTransfer` puts a path into `to_complete`, and takes it out again at
  once if it is a directory whose `mkdirat` and metadata calls succeed.
- A directory is made with the mode it has on the server. `ReadOnly` are those
  whose mode keeps their owner from creating anything in them: `HasParent` is
  false for what is inside, in every run.
- The tasks' `Erase` of `to_complete` takes no lock for its second half. When it
  overlaps an `Insert` or another `Erase` (`Overlapped`), the set may be damaged
  from then on (`exact`), and `ExitFinished` then follows whatever `empty()` says.
- The crawl visits an entry after its directory, in any order. A failed `fstatat`
  leaves out an entry (`LeaveOut`), and a failed `openat`, `fdopendir`,
  `getdents64` or `dup` the rest of a directory (`LeaveOutRest`), with whatever is
  inside: `CrawlEnds` needs no entry that is left to be looked at, and `Finished`
  follows. `omitted` has them, and the files that could not be hashed.
- `TaskFails` and the faulty branches of `ReadDirectory`, `ReadFile`, `HashFile`,
  `StreamFile`, `AcceptSuccess` and `AcceptRefused` stand for the early returns
  after a failed call. A task that fails before it has sent its request closes a
  connection on which the accept loop then reads the end of file.
- `ServerExits` is the `return 1` of the accept loop when a connection closes
  before its request. The destructor of the pool then waits for its running tasks
  while detached managers go on. That is one step here: the accept loop takes
  nothing in between, and what tasks and managers do then they can do before it.

Abstractions, and what they cost:

- One job, one client process at a time. The user gives the path until a run has
  shown the id, and then `@id`. Several jobs and clients at once are
  `ServerJobs`.
- `Crawler` is the walk itself, with its descriptors and messages. Symbolic links
  behave as directories without entries.
- When a new manager starts, one that still serves a dead connection is not
  followed any further: its messages reach nobody, and its ids are unknown to
  the new client.
- A source file is replaced as a whole (rename); an open file keeps the old
  content while it is read.
- Once it is damaged, `to_complete` is no longer followed: what the set then is
  and how it comes to that is the subject of `GuardedSet`.
- A reset cuts accepted connections, and may or may not lose what has arrived.
  A silent partition (no reset ever) is not modelled: the code has no timeout.
- `edits`, `faults`, `outcome`, `hint` and `exact` are counters and observations;
  no guard of the program reads them except the two bounds and, for `exact`, what
  `empty()` may say.

### ServerJobs

The server as its accept loop sees the world: requests from any peer, in any order,
as late as they like, each with what a client could know by then. `jobs` is the map,
`moves` counts how often it has moved its values (Abseil's flat map does when it
grows: `GrowsAt`), and a manager remembers the count at its creation: `Valid(m)`
says that its `std::ref(jobs[id])` still points to the job. After that `IsCompleted`
and the path of the job may answer anything. `disk` has a log for each job: the
entries that whole lines name, and what an unfinished last line reads as (`tail`,
none, `Junk` or an entry; `Prefixes` says what a part of a line may read as,
`ReadBack` what the whole one does, which is not the entry if its name has a
newline). A line that continues an unfinished one is read together with it:
"Completed a" and then "Completed b" name the entry "aCompleted b", if there is one,
and `Merged` says what may come of that. `MarkCompleted` has its three outcomes:
written, failed (perhaps in part, and the stream is bad from then on), or through a
bad stream. `Continue` loads the log even of a job in the map, and `emplace` then
drops what was loaded. Managers are one action per entry (`Visit`) between `Begin`
and `Finish`; a hangup does not stop them. `Exit` is any end of the process; the log
files and `reported`, the observation of what clients have said, survive it. An id
is the pair of a manager and an entry, since each is made once. `Readings` are the
entries that torn lines for reported ones, and lines that continue them, may name;
where memory and log disagree, or a crawl skips what nobody has reported, it is by
one of these.

### Framing and Channel

The responses of one job on one connection. `phase` follows each message; its frame
goes out by `SendSome`, a call that moves at least one byte and at most what is left
of the length or of the body, which are separate calls. Tasks send objects under
`conn_mutex`; `Started` and `Finished` are sent without it (`MayBegin`). A task
sends nothing when the connection is not alive or its file cannot be opened or read
(`SkipTask`, `Unreadable`). The reader takes what has arrived in pieces
(`ReadSome`), turns the first bytes into a size (`ReadSize`) and the next into a
message (`ReadBody`). If it ever took something else than a length for a length, its
messages would no longer be those of `Channel`. `Break` is the end of the
connection, `Die` that of the server, both at any byte. `alive_` is cleared by an
EPIPE of the length but not of the body, which protobuf writes.

### Crawler and TreeWalk

`queue` has the directories still to be opened, in breadth-first order, `open`
the one whose entries `getdents64` returns, `unread` those still to come. `fds`
counts the descriptors: a duplicate for each element of the queue but the root,
and the open one. `taken` are the descriptors of the rest of the process, which
come and go; `openat` and `dup` fail when there is none left, or, `MaxFaults`
times, for another reason. `Read` handles an entry and queues a directory;
`Pass` passes over an entry that cannot be inspected; `Close`, `OpenFails` and
`ReadFails` are the three ways out of `PumpDirectoryEntries`, all of which pop.

### StreamTransfer, ProgressLine, Utf8Width

`StreamTransfer` is one file: the server's `sendfile` loop (`sent`, `server`),
the client's two splices (`total` bytes taken, `expected` of them in the pipe,
`written` to the file) and its `FileIntegrityTask` (`processed`). The announced
size goes through an `int32` (`AsInt`) and is compared as a `uint64` (`AsLong`);
both limits are constants (`IntLimit`, `LongLimit`), 8 and 64 in the instance, and
the sizes lie around those of 4 bits.
The file may have another size when it is streamed. At the top of each turn of
either loop the task updates its line with some path on some terminal; `Lines` is
what may then be on it.

`wcwidth` is what a terminal makes of a code point, and -1 that it is a control
character, such as a newline, which is printed as it is and has an effect of its
own. `Columns` is what the code counts for it, 0, and is not taken for the truth:
`LineFits` speaks of paths that are `Printable`, and counts their columns from
`wcwidth` itself (`ColumnsFrom`). `written` are the bytes of a line and
`ResultSize` the length of the buffer they go to; characters of no columns, of
which any number fits on a row, can exceed it (`ResultIsLongEnough` does not
hold), so the line of a path with such characters is claimed to fit only when its
bytes do. If every character has a column (`Spacing`) they always do.

`BuildLine` is an operator that returns the set of possible lines, as the numbers
they are made from. Doubles are rationals; a product that is a whole number may
be truncated to the one before. What is made from 0/0 is 0 or the smallest int.
The width of the room for the path is a `size_t` that may wrap (`SizeLimit`), and the
iterator that walks back over the characters may be left before the first (`index` -1,
`defined` false). `Back` is one turn of that walk, `Place` one turn of the loop over
the digits. `ForString` goes through the bytes with the masks of the code.
Paths come out of protobuf `string` fields, which are parsed only if they are
well-formed, so the strings are encodings of code points; the endless `continue`
of `utf8.cc:44` is reached by no such string, which is what
`ForStringDescribes` says: TLC evaluates it over short texts, and it is proved for
all.

### Paths

Characters matter here, so a path is a sequence of `"/"`, `"."`, `"a"` and the NUL
character, which a `string` of protobuf may have in it. The server compares and
joins all characters; the kernel is given `data()` and sees those before the first
NUL (`CString`, `Opened`). `OpensNamesAsked` is therefore about job paths without
one, and about names: where they lead, when a component of the job's path is a
symlink, is up to the file system, and the server follows it. The
operators of `path_internal` are translated with their assertions, and called in
the steps that call them: the check of the job's path (`Begin`), the root of the
crawl (`Visit`), directories inside (`Descend`), and `HandleObject`, for a file or
for a symlink with its target (`SendLink`). A failing assertion and a `substr`
beyond the end stop the server, and `cause` says which. `Components` is the
reference: the names that the file system sees in a path.

### IpFilter

A connection is accepted (`Accept`), and the loops of `MultiContains`, `Contains`
and `GenericLessThan` run part by part until one of their exits: first over the
denied ranges, then over the allowed ones. The reference is the order of
addresses as numbers (`Below`; the instance checks that it is the numeric one).

### Console

`lines` and `diff` are the program's, `above` and `cursor` the terminal: the rows
above the cursor's, and the cursor's. Drawing moves up by the lines drawn last,
which the code computes as the number of lines now less `diff` (`MovesUp`),
clears from there on, and writes one row for each line. That a line takes one row
is `LineFits` for printable paths on a wide enough terminal; for other paths, for
the status line and for messages it is assumed. Messages are drawn above.
`Update` takes no mutex, so a drawing may meet it half way (`Torn`).

## 3. Runs

| Run | Instance | Shows |
|---|---|---|
| `pool_all` | 2 workers, 2 keys, 5 tasks: a chain of two, equal and different priorities, one task without a key that comes again and again | counters exact, waits complete, `TaskGroup` implemented; with fairness, shutdown ends, and waits return and queued tasks run unless `Done` drops them or others come for ever |
| `netpull_safety` | 2 files (2 blocks, 1 block), one in a subdirectory, 2 client workers, 2 faults (in the crawl too), 1 edit | recorded files are delivered and stay so; order of responses; ids; a clean run has all that was not left out; `PullJob` implemented |
| `netpull_live` | 3 files, one of them in a directory without write permission, 2 client workers, 1 fault, no edit, fairness | every run ends; resuming delivers everything that can be created |
| `set_all` | 3 paths, 2 inserting threads, 1 reading, 1 erasing | exact and atomic until the first `Erase`; a path still to be completed stays in the slots until a growth leaves an erasure behind |
| `set_client` | 3 paths, a main thread that inserts and erases, 1 worker that erases | violation: `empty()` is wrong in the end |
| `jobs_all` | 2 jobs, 2 managers, the entries "a" and "aCompleted a", 3 peers of which one is denied, 1 torn write, 1 restart, a map that moves at its second job | what a manager with a good reference skips was reported, or a spoilt line reads like it; memory and log agree but for such lines |
| `framing_all` | 2 objects, one of a file that may be unreadable, lengths of 2 bytes, bodies of 1 to 3, calls that move 1 or 2 | `Channel` implemented, `Finished` last and, unless the connection ends, read |
| `stream_all` | 9 sizes around the limits of 4 bits, 6 paths, 9 terminals, chunks of 4 | a countable file is handed over or fails for a reason; tasks end; lines of printable paths fit; lines agree with the progress |
| `crawl_all` | 3 directories, one inside another, 3 files, 1 socket, 4 descriptors, 2 faults | descriptors exact, omissions reported, `TreeWalk` implemented, the crawl ends |
| `paths_all` | all job paths of up to 4 characters, NUL among them, 3 names, 2 served roots, absolute targets of up to 5 characters | what is opened goes by the names asked for; names agree; no path but the root of `/` stops the server |
| `ip_all` | 3 parts of 2 values, any one denied range, 1 or 2 allowed ones | the verdict is that of the numeric order |
| `console_all` | 3 threads, 1 text, 3 messages | the screen is all messages, then the lines |

**Bounds.** The set: two inserting threads to overtake each other if the mutex
allowed it (the programs have one each; the class promises more), three paths so
that a growth moves something while something else is placed. The pool: two workers
are needed for a task and its follow-up to run at once, two keys to see that they do
not disturb each other, three priorities and a keyless task for the queue; the
keyless task is renewed without a bound. `MaxFaults` of `NetPull` bounds crashes of
either side, interruptions, resets and failed calls, those of the crawl included;
two are enough for the cases that need a pair (a failed log write, then a crash; a
client that dies, then a late success message or a restart). `netpull_live` has the
failure that never goes away, a directory without write permission, in every run of
the client, and one fault beside it. The number of client runs is unbounded. A file
of two blocks distinguishes a prefix, a mixture and a whole; block names are unique
to version and offset, so that a mixture of two versions is neither. `MaxEdits = 1`
gives a source that differs between any two reads of it. `ServerJobs`: two jobs to
move the map, two managers to work on one job or on two, one restart between them;
the name of one entry is a prefix of the other's, which is what a torn line needs,
and what the one becomes when "Completed a" continues it is the other. `Framing`: a
length in two pieces, bodies that do and do not fit one call, two tasks. `Crawler`:
a directory in a directory, and two beside each other, so that the queue has more
than one element; four descriptors are fewer than the crawl and its surroundings may
want. `StreamTransfer`: sizes that become negative, zero and small when they are
truncated; a buffer that is smaller than most sizes; terminals with every remainder
by three, on both sides of 18 columns, from which on all parts of a line have room.
`Paths`: four characters give equal, nested and adjacent roots, `..`, `//`, a slash
at the end, and `/..` behind a NUL. `Console`: three lines so that one of the first,
the middle and the last goes.

Deadlock is checked for `NetPull`, where a user may always start again, and for
`Paths`, `IpFilter` and `Console`, which go round. The others stop by design.

**Fairness.** Threads that can run do; blocking calls in a task return, with an
error at the latest. In `NetPull` the user runs the client again and the
operator the server. Nothing makes a fault or an edit happen, and nothing
makes an owner submit to the pool, wait, or call `Done`. Weak fairness per
thread is enough because a thread's next step stays enabled until it is taken;
fairness of the accept loop is that of one thread, not of each kind of request.
The supply of tasks is not bounded by an assumption: a pool whose owners submit
for ever may starve a task, and the properties of `WorkerPool` name that case.
In `Framing` a send that waits for `conn_mutex` gets it in the end because there
are finitely many others. In `StreamTransfer` and `Crawler` it is that of one
thread on each side, whose calls return.

### Disagreements with comments and documentation

One of them has a run of its own, since what goes wrong is a matter of two
threads that no test would catch:

- `set_client`: "A thread-safe wrapper over a flat_hash_set"
  (`guarded_set.h:12`), but `Erase` does not lock. An insertion and an erasure
  that read the same size leave it wrong, and by `set.empty()` the client
  decides whether the run was complete. (`EmptyMeansComplete`)

The others are properties that are stated in the modules, each with the words "It
does not hold". To see the behaviour, put the property into the configuration
named, in place of its own.

| Property | Configuration | What the source says, and what happens |
|---|---|---|
| `CompletionWaitsForAll` | `MCWorkerPool_all` | "Wait for all tasks to complete, and shut down the workers." (`worker_pool.h:82`) The first statement of `WaitForCompletion` is `Done`, and queued tasks are never popped after it. The callers wait for their keys first, except on the client's abort path, which means to drop them. |
| `CleanRunMeansCompleted` | `MCNetPull_safety` | "Notifies the client that the current job has completed." (`netpull.proto:51`, of `Finished`) What the crawl cannot open or stat it leaves out, and a task that cannot open or read its file returns without a message; `Finished` is sent all the same, and the client does not compare `total` with what it got. |
| `FailureShowsJobId` | `MCNetPull_safety` | "If a job visibly fails or is interrupted, netpull will print this job ID to the screen at the very end" (`src/README.md:125`). When the connection breaks after `Started`, `main` returns 1 without it. |
| `ResumeRepairs` | `MCNetPull_live`, `MaxEdits = 1` | "these log files can be used to resume jobs that failed or got stuck" (`src/README.md:111`). A destination longer than the new source is not truncated, its digest never matches, and no number of runs repairs it. |
| `SkipsOnlyCompleted` | `MCServerJobs_all`, `MaxTears = 0` | "Has this job already completed sending the given path?" (`netpull_server.cc:145`) The manager got `std::ref(jobs[id])`; a later `emplace` grows the flat map and moves the job away under it. |
| `SkipsOnlyCompleted` | `MCServerJobs_all`, `GrowsAt = {}` | A write that fails may leave part of a line, which `Load` takes for the whole name of another path. A name with a newline in it does the same without any failure. |
| `DeadAfterPipe` | `MCFraming_all` | "false if any previous operations resulted in a SIGPIPE" (`socket.h:70`). The body of a message is written by protobuf, whose EPIPE does not reach `alive_`. |
| `FileArrives` | `MCStreamTransfer_all` | "the server will stream the file's contents" (`netpull.proto:23`). `bytes` is an `int32`: from 2 GiB on the client waits for a negative size taken as unsigned, or for the size modulo 2^32. |
| `ProgressInRange` | `MCStreamTransfer_all` | "the current progress (a value from [0:1])" (`progress_builder.h:22`). It is 0/0 for an empty file, and then converted to an `int`. |
| `ResultIsLongEnough` | `MCStreamTransfer_all` | "trying to get a decent-length buffer size, assume any char may be full-width UTF-8" (`progress_builder.cc:71`). Combining characters have bytes and no column, so any number of them fits into the columns and is copied; with enough of them the copy goes beyond the buffer. |
| `RootCanBePulled` | `MCPaths_all` | "The server path (/) is relative to the root directory" (`src/README.md:97`). With `-root /` the two join to an empty path, and the assertion in `Visit` stops the server. |
| `TargetsAreResolved` | `MCPaths_all` | "Both paths MUST be absolute and fully resolved." (`path.h:78`) `HandleObject` asks `IsChildOf` about the target of any symlink as it is. |
| `AdjustedIsBelow` | `MCPaths_all` | "Is this path a child of the other path?" (`path.h:78`) The prefix is one of characters: `/aab` is taken for a child of `/aa`. |
| `LinkKeepsMeaning` | `MCPaths_all` | "Drop the extra slash since all these paths are absolute." (`netpull_server.cc:362`) `RelativeTo` has dropped it already; the first character of the target goes. |
| `DrawnIsWhole` | `MCConsole_all` | "Update the contents of this ConsoleLine with the given text." (`console.h:97`) `Update` assigns the string without the mutex under which it is drawn. |

Two more contradict no sentence of the source, but limit what properties beside
them can say. `NoTaskIsStarved` (`MCWorkerPool_all`): while file requests keep
coming, the streams (`kFileStream`) of one client keep the hashes
(`kFileIntegrity`) of another in the server's queue. `NothingEverForgotten`
(`MCGuardedSet_all`): an erasure left behind by a growth may take another path out
of the set, so that `empty()` is right about the set and wrong about the transfer.

Below 18 columns the fixed parts of a line are wider than the terminal, in spite
of "Leave an extra space." (`progress_builder.cc:67`); `LineFits` begins there. It
says nothing of a path with a control character: a newline or a tab is counted as
no column and printed as it is, and the row is broken.

## 4. Proofs

Eight modules of theorems, for every value of the constants that the named
assumptions allow. Every safety invariant and every action property that a passing run
checks, and every refinement, is stated by a theorem. Each component has an
inductive invariant (`IInv`, or `StreamInv`, `PathsInv`, `NamesInv` where two
components share a module): lemmas show that it holds at first and, action by action,
that a step keeps it; the theorems follow.

| Module | Theorem | Statement |
|---|---|---|
| `WorkerPoolProofs` | `TypeCorrect` | `Spec => []TypeOK`; in particular no counter becomes negative |
| | `CounterIsExact` | `Spec => []PendingIsExact` |
| | `WaitIsComplete` | `Spec => []PassedMeansQuiet` |
| | `JoinIsFinal` | `Spec => []JoinedMeansIdle` |
| | `Refinement` | `Spec => ImplementsTaskGroup` |
| `GuardedSetProofs` | `TypeCorrect` | `Spec => []TypeOK`: types, and the mutex is held only inside a call |
| | `NothingLost` | `Spec => []NothingForgotten` |
| | `ExactWithoutErase` | `Spec => []QuietIsExact` |
| | `AtomicWithoutErase` | `Spec => ImplementsAtomicSet` |
| `CrawlerProofs` | `TypeCorrect` | `Spec => []TypeOK`: types, and the process keeps to its limit |
| | `DescriptorsAreExact` | `Spec => []FdsAreExact` |
| | `OmissionsAreReported` | `Spec => []NothingIsSilent` |
| | `Refinement` | `Spec => ImplementsTreeWalk` |
| `RequestProofs` (IpFilter) | `TypeCorrect` | `Spec => []TypeOK`: the loops stay within list, range and parts |
| | `FilterIsRight` | `Spec => []VerdictIsRight` |
| (Paths) | `PathsEndForReason` | `PathsSpec => []EndsForReason` |
| | `CrawlOpensNamesAsked` | `PathsSpec => []OpensNamesAsked` |
| | `SentPathIsNames` | `PathsSpec => []PathIsNames` |
| `ServerJobsProofs` | `TypeCorrect` | `PlainNames => (Spec => []TypeOK)` |
| | `SkipsAreSound` | `PlainNames => (Spec => []SoundSkipsWereReported)` |
| | `MemoryAndLogAgree` | `PlainNames => (Spec => []MemoryMatchesLog)` |
| `DisplayProofs` (Console) | `TypeCorrect` | `Spec => []TypeOK`: types, and no thread has two lines |
| | `ScreenIsInOrder` | `Spec => []MessagesThenLines` |
| (StreamTransfer) | `FileIsHandedOver` | `StreamSpec => []HandedOverOrFailedForReason` |
| | `LinesTellProgress` | `StreamSpec => []LineTellsProgress` |
| | `LinesFit` | `StreamSpec => []LineFits` |
| (Utf8Width) | `ForStringDescribes` | for every text, `ForString(Bytes(text)) = Described(text)` |
| `NetPullProofs` | `Invariance` | `Spec => []IInv`, the seven layers below |
| | `TypeCorrect` | `Spec => []TypeOK`: types, and the server works only on what its crawler has handled |
| | `CompletedIsThere` | `Spec => []CompletedIsDelivered` |
| | `CompletedIsLeftAlone` | `Spec => CompletedStaysDelivered` |
| | `ProtocolInOrder` | `Spec => []ResponsesInOrder` |
| | `IdsAreGood` | `Spec => []AnnouncedIsReady` |
| | `CleanIsComplete` | `Spec => []CleanRunIsComplete` |
| | `RefinesPullJob` | `Spec => ImplementsPullJob` |
| `FramingProofs` | `Invariance` | `Spec => []IInv`: frames one after the other, the client at its place in them |
| | `FinishedComesLast` | `Spec => []FinishedIsLast` |
| | `RefinesChannel` | `Spec => ImplementsChannel` |

**WorkerPool**: any set of workers, finite set of tasks, keys, priorities and
follow-ups (`KeyAssumption`, `TaskAssumption`; `FollowUpAssumption`: a follow-up
has its parent's key, and a task object is submitted from one place;
`ExitedAssumption`: a marker is not a task). The invariant has

- `TypeOK` and `PendingIsExact`. The counter can be decremented only if it is
  positive, which is known because the finishing task is one of those it counts;
  each needs the other.
- `OneWorkerPerTask`: a worker's task is `running`, and no two workers have the
  same. Without it `FinishTask` could take a task off its key twice.
- `ParentStillRuns`: while a follow-up is `prepared` by a task, that task still
  runs. This is what closes the window of the hand-over: a follow-up is counted
  before its parent is taken off the key.
- `PassedMeansQuiet`, which needs the two facts above: after a wait has returned
  with a counter of zero nothing of the key is in flight, so no running task
  could submit another one.
- `JoinedMeansExited`: once joined every worker has exited, whence no task runs.

For `Refinement` every step maps to a step of `TaskGroup` or to a stutter:
`Submit` and `SubmitFollowUp` are `Submit`, `FinishTask` is the end of a task,
and the wait of a key is the same on both levels.

**GuardedSet**: any threads and finitely many paths (`ThreadAssumption`,
`ValueAssumption`). There are two layers. `Safe` holds of every use: inserters
and readers exclude each other, the old array is in use only while a growth moves
it (otherwise a second growth would drop it), and an erasure under way is of a
path already counted as erased; while `dangled` is false, whatever is inserted and
not erased is in the slots or in the old array, since an erasure with a good
iterator clears its own path only. `Exact` holds until the first `Erase`: slots and
old array together are what has been inserted, and a size read under the mutex is
current until it is written back.

**Crawler**: any tree, limit and number of faults (`TreeAssumption`,
`LimitAssumption`). The invariant says where an entry can be: below a directory
that waits in the queue or has not been handled it is untouched
(`RestIsFresh`); every other one has been handled, or there is a message about it
or its directory, or it is still in the buffer (`Accounted`). The queue has no
directory twice and the root only in front (`QueueInv`), which is why closing the
front's descriptor is right, and what is queued has been handled once
(`QueuedIsHandled`), whence no entry is handled twice.

**IpFilter**: any number and base of parts and any lists (`SizeAssumption`,
`ListAssumption`). The ranges passed do not hold the address, the start of the
range at hand is no more than the address once its end is looked at, and the
operands agree in the parts before the one at hand.

**ServerJobs**: any jobs, peers, managers, tears and restarts (`LogAssumption`,
`BoundAssumption`), if no name has a newline in it (`PlainNames`): a name that has
one makes a whole line lie, which is the disagreement above. `LogInv` is about logs
and map, which only the accept loop changes: whole lines and unfinished ones name
what was reported or is among the `Readings`, `completed` too; what the log has more
than the memory is among them; and streams are bad and lines unfinished only after a
failed write. `ManagerInv` is about what managers have done with it: the job of a
manager at work is in the map, so that `Valid` means that what it reads is the job's
set. `SoundSkipsWereReported` follows since `reported` and the readings of torn
lines only grow.

**Console**: any threads and texts (`TextAssumption`). What is to be shown is that
`MovesUp` stays the number of rows drawn below the messages: a claim adds one to
the list and to `diff`, a release takes one from each, so their difference is
fixed until the next drawing, which sets `diff` to 0 and draws as many rows as
there are lines.

**NetPull**: any tree (`TreeAssumption`), any contents of the files
(`SourceAssumption`), any number of client workers, faults and edits. The
invariant, in `NetPullInvariant`, has seven layers. Each is preserved by a step
from a state in which the layers before it hold too, and so is proved
separately, action by action.

- `TypeInv`: types, with the facts that a digest is that of some content and that
  what the server hashes, offers or sends has been visited.
- `SessionInv`: who is connected to whom. `main`, the first connection as the
  server sees it, and `client` agree. `JobRequestsComeLast` is the fact about the
  backlog on which everything about several sessions rests: a request that opens
  a job stands behind all that earlier clients have left there, so by the time the
  job is opened every success message of theirs has been recorded or lost. Then
  `Started` is first and `Finished` last.
- `OnceInv`: an entry is on its way in one place only: not visited, being hashed,
  announced, or in a task. Without it two tasks could write one file.
- `ParentsInv`: an announced entry's directory has been made, or is announced
  before it.
- `DeliveredInv`: a file that a session may still write (`Writable`: in a task
  before its digest is checked, announced, or being hashed) is neither recorded
  nor about to be, whence a recorded file is not written. It needs `OnceInv`, and
  that a new session skips what `completed_paths` has, which needs in turn that
  the log is never ahead of it once it is loaded.
- `ReadyInv`: a connection that asks for a file belongs to a task that has opened
  it, and there is one at most for each file; so no other request takes the id
  out of `ready_files` before its own.
- `CleanInv`: what the crawler has handled is on disk, in `to_complete`, on its
  way, or was never sent for a failed call (`Accounted`); once `Finished` has been
  said nothing is on its way but before it, and nothing is left to be looked at, so
  that what was not visited is in `omitted` or inside something that is. An empty
  and undamaged `to_complete` (`exact`) then means that the rest is on disk.

TLC checked `IInv` as an invariant of the instance `netpull_safety` before it was
proved (949 589 states, the same bounds).

For `RefinesPullJob`, `ReadFile` and `StreamBlock` are `Write`, `AcceptSuccess` is
`Record` or a stutter (the write of the log may fail), and all else stutters; that
`AcceptStart`, which truncates the log, does so is a consequence of the invariant.

**Framing**: any objects, sizes and counts (`MessageAssumption`,
`SizeAssumption`). `SendersInv` says that one message is sent at a time, that all
frames begun but the last are complete as long as the connection holds, and that
nothing is begun after `Finished`. `LaidOut(start)` says that the bytes of the
`i`-th frame begun lie on the wire from `start[i]` on, with no gap; `start` is
quantified in `FramesInv` and not defined by a sum, so that no induction is
needed: each step says how it changes. `ReadingAt(start)` says where in
the frame after the messages it has got the client is. It follows that the four
bytes taken for a length are one, and that a body that has arrived is complete.
It is claimed only while the connection holds and the client reads: after a break
a frame may be cut off, and after a false return the client may be inside one.
TLC checked the invariant with the sum for `start` (the bounds of `framing_all`,
6 458 states).

**StreamTransfer**: any sizes, chunks and limits of the two integer types
(`WidthAssumption`: `2 * IntLimit < LongLimit`, which 2^31 and 2^64 satisfy).
`StreamInv` says where the bytes are (`BytesAccountedFor`: pulled is written or in
the pipe; no more is pulled than sent, sent than announced, processed than written),
and that a server which has closed without a fault has sent all there was
(`ClosedWhenSent`). A size below `IntLimit` comes through both conversions as it is
(`ConversionKeepsSize`), so the client's loop stops at that size. That a client
whose `splice` returns 0 has a reason to fail follows from `ClosedWhenSent`.

**Lines**: `Lines` is a function of the state, so `LinesTellProgress` and `LinesFit`
need no more of `StreamInv` than types, and lemmas about `BuildLine`. For the
percentage each turn of the loop leaves less than its factor (`PlaceOfFactor`), so
that four digits are enough (`PlacesOfTenths`); `TruncatedIsNear` bounds what a
double may become. For the width, `ShownMeans` says that a walk from the last
character stops with the longest end that leaves room for the ellipsis,
and `SpaceIsEnough` that from 18 columns on this end is not empty and no unsigned
difference wraps; it uses `NumberAssumption` (a terminal has fewer columns than a
`size_t` counts) and `ColumnsAssumption`: the widest character takes two columns,
which is what `wcwidth` returns at most. What the code counts for a printable path is
what a terminal makes of it (`PrintableColumns`), and its bytes are no more than four
to a column if every character has one (`FourToAColumn`), so that they have room in
the buffer. `ForStringDescribes` is what puts the cut at
the beginning of a character: the masks of `ForString` take each encoded code point
for as long as it is and find its value (`Encoded`, from arithmetic on the one to
four bytes), and so the loop comes from one character to the next.

**Paths**: any characters, roots, job paths, names, targets and depth
(`PathAssumption`: roots are absolute and resolved, which `realpath` sees to; a name
is not empty, is neither `.` nor `..` and has no slash, as `getdents64` and the
crawl leave it; nothing that comes from the kernel has a NUL in it). `PathsInv` says
that the served root and what is visited are absolute and resolved, that the
directory being read is below it by a proper path, and so on; `ObjectMeans` then
says what `IsChildOf` and `RelativeTo` make of an object. `NamesInv` adds the names.
It rests on `ComponentsOfConcat`: a path put together at a slash has the names of
both parts; `JoinedIsOpened` adds that all of what was joined is opened if there is
no NUL in the job's path.

**Recursive functions**. The installed provers cannot use the induction theorems of
the library, which take an operator. Induction is done with sets here instead: a
nonempty set of numbers has a least one (`LeastNat`, from `WFMin`, the theorem about
well-founded relations), so a set that has 0 and with each number the next has all
of them (`InductionUp`; `InductionDown` from the last element of a sequence to the
first). `RecursionUp` and `RecursionDown` show that the function which a recursive
definition chooses exists, and so satisfies its equations.

Only model-checked: liveness, which is outside TLAPS's reach here, as is `ENABLED`
(`WaitReturns`, `QueuedTaskRuns`, `ShutdownEnds`, `RunsEnd`, `ResumingDelivers`,
`FinishedArrives`, `TransferEnds`, `VisitReturns`).

## 5. Not modelled

- `crypto` and `scoped_resource.h`: wrappers whose effect is part of the actions
  that use them. `assert.h` is the failing assertion (in `Paths`, where it
  matters).
- Metadata (owner, times, extended attributes, the mode of files): carried and set,
  decides nothing except by a failed call. The mode of a directory decides what can
  be made in it (`ReadOnly`); a directory that cannot be entered is the same to the
  client as one that cannot be written.
- Where names lead: symlinks among the components of a job's path are followed, and
  so is what lies before a NUL in it. `Paths` is about names.
- What a terminal does with control characters.
- Parsing of addresses and ranges: `stoi` accepts text after a number, and a port
  is truncated by `htons`; both are left to the libraries. `operator<` of
  addresses has no caller.
- A relative destination, below which an adjusted link would not lead where it
  should; colours and log levels of messages; the text of messages; command lines;
  build files.
- `WaitForEmpty` and `GetAndPop` of the containers, which have no caller.
- The path error of a job with a bad root is a step of `ServerJobs` and `Paths`,
  but `jobs_all` has only good roots; `paths_all` has the bad ones.
- File names that are not UTF-8: protobuf logs them when they are sent and does
  not parse them when they are read, so each run of the client ends at such a
  file. `ResumingDelivers` is about trees without one, and `ForString` is modelled
  for well-formed strings only.
- Errors of `send` after which Linux would take more data; a partition without a
  reset.

## 6. Plan

Every module comes with an instance, a run and mutants. Done:

1. `TaskGroup`, `WorkerPool` and proofs.
2. `PullJob`, `NetPull` and proofs.
3. `AtomicSet`, `GuardedSet` and proofs.
4. `ServerJobs` and proofs.
5. `TreeWalk`, `Crawler` and proofs.
6. `Channel`, `Framing` and proofs.
7. `StreamTransfer`, with `ProgressLine` and `Utf8Width`, and proofs.
8. `Paths`, `IpFilter` and proofs.
9. `Console` and proofs.

Left: two clients that write one destination at the same time, as two runs with the
same directory do; names that are not UTF-8, at which every run ends.
