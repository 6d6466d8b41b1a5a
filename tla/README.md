# Models of the operating-systems course projects

TLA+ models, TLC runs and TLAPS proofs for the C programs in this repository:
a parallel word count over fork and a pipe (Project-1), two HTTP servers, one of
them over a thread pool, with their clients (Project-2), a demand-paging
simulator (Project-3) and a file-system simulator (Project-4).

## Inventory

| Part | State | Operations | Interaction | Hard behaviour | Correct when |
|---|---|---|---|---|---|
| Thread pool, `Project-2/webserver_part2.c:205-664` | two global flags, two thread counters, job list and its length, binary semaphore, three mutexes, two condition variables | `thpool_init`, `add_work`, `wait`, `destroy`, `pause`, `resume`; per thread `thread_do`; handler `thread_hold` | shared memory between workers, clients and a signal handler | merged posts of a binary semaphore, wakeups, unlocked reads, teardown, signals | no job lost or run twice, waits and destroy neither early nor stuck |
| HTTP server over the pool, `webserver_part2.c:40-198, 668-727` | descriptors, one stream per job, `strtok`'s position | `listener`, `handler`, `process` | a client of the pool; each connection is a job, known by the number of its descriptor; all handlers share `strtok`'s position | numbers used again, two handlers in `strtok`, files that take descriptors too, stalled and broken peers, SIGPIPE | each connection gets the reply to its own request and is closed, no descriptor is lost |
| `webserver_part1.c` | the same, and threads never reclaimed | a thread per connection | `strtok`'s position between threads | threads run out | the same |
| `htmlget.c`, `htmlget_multi.c` | receive buffer, `htmlstart`; none | one request; many threads with one request each, one process | clients of the servers | replies cut up on their way, a thread's `exit` ends them all | prints the body and only that; ends |
| MMU, `Project-3/pagetable.c` | page table, inverted table, per-process TLB with a pointer per set, count of used frames | `MMU`: TLB hit, page hit, page fault with or without eviction | calls the policy, the disk counters | several tables that must agree, stale TLB entries | each virtual page is memory of its own |
| Replacement, `replacement.c` | LRU list, FIFO index, clock hand and flags | `random`, `fifo`, `lru`, `clock` | called by the MMU, `list.c` | order kept across three callers | evicts the right page, always a frame |
| LRU list, `list.c` | nodes | insert and remove at head, at tail, of a value | called by `lru` | lists of one node | keeps each frame once |
| VM main, disk counters, generators | counters, text | read a request, call `MMU` | - | none | - |
| File system, `Project-4/fs.c`, `fs_util.c` | two bitmaps, free counters, inodes with arrays of block numbers, current directory, indirect map | `create`, `rm`, `mkdir`, `rmdir`, `cd`, `read`, `write`, `cat`, `ls`, `stat`, `df`, mount, unmount | shell calls one command at a time; blocks through `disk.c` | partial failure, directory cached in memory, slots named by inode number, old block numbers in an inode | one tree, each block owned once, counters exact, files keep their bytes |
| Word count, `Project-1/wc_multi.c` | pipe, children | fork, count, write; parent reads | pipe between processes | failing fork, dead child, who still holds which end | total is the sum of the files, every process ends |

`PROJECT.json` lists every component with its state of modelling, and the
hazards at their lines with the properties that would catch them.

## Modules

- **JobPool**: what the pool promises: jobs start in order of submission and
  once each, a wait returns only at an instant with nothing queued or running,
  the pool closes only when nothing runs.
- **ThreadPool**: the pool itself, one action per section of code between two
  points where threads can interfere. `pc` is where a worker is in `thread_do`,
  `cpc` where a client is in the API; the other variables carry the code's
  names, shortened (`keepalive` is `threads_keepalive`, `v` the semaphore's
  value). A critical section is one step, except where a variable changed in it
  is also read without its lock: `len` (read by `thpool_wait`) and
  `num_threads_alive` (read by `thpool_destroy`); there the change and the
  unlock are two steps and `rwmutex` or `thcountLock` names the holder between
  them. A condition-variable wait is a program point (`bwait`, `cond`) that a
  signal moves one thread from, whichever; `SpuriousWakeup` moves one without a
  signal. SIGUSR1 is a pending set and a set of threads inside the handler.
- **VirtualMemory**: each virtual page is a cell of its own.
- **Paging**: a request is one step; the path it takes through `MMU` is the
  action (`TLBHit`, `PageHit`, `FaultFree`, `FaultEvict`, `HitCrash`). The
  simulator counts transfers and keeps no data, so `ram` and `disk` are added:
  a write changes the frame that `MMU` returned, `disk_read` and `disk_write`
  copy a page. `order` is a history variable for the policies.
- **DList**: the functions of `list.c` as operators on a heap of nodes with
  their pointers. `DirectionsAgree` and `ListIsSequence`, assumptions of MCPaging
  that TLC evaluates in both paging runs, compare them, for every list that four
  calls make of three values and a fifth call on it, with the sequence that Paging
  has in its place: same data, same order, no node lost in the backward direction,
  and a write through NULL where and only where Paging's `RemovalCrashes` has it.
- **FileSystem**: a command is one step. Sizes are in blocks, a directory is
  the sequence of its entries, a data block has no content. `wild` is set when
  a command reads a block or writes a slot that is not what it takes it for:
  what follows depends on bytes found there, and the model stops. `stray` is 0
  while every command so far was one that the code carries out without damage
  to the tree (see below), then counts commands; `MaxStray` bounds it.
- **FileData**: FileSystem (by INSTANCE) with the bytes. Each action is the
  command of FileSystem together with what it moves; sizes and offsets are in
  bytes. `slot` is the array `directBlock` of each inode with what earlier files
  left in it, which `read` and `write` use without a look at the file's size.
  `content` is a history variable: what `create` and the writes reported stored.
  The small and the large path of `read` and `write` are `ByHelper`'s two sides.
- **WordCount**: the parent and its children as processes, the pipe as a
  sequence of records, and the sets of processes that hold its two ends, from
  which follows when `read` blocks, when it meets the end and when `write` kills.
- **HttpReply**: `process` after its parse, as the function from a request, the
  file tree and whether a descriptor is free to the reply. Both servers have it
  word for word. A reply is its status, the file or directory it is of, and a
  sequence of elements: the headers, the two ends of line that make the blank line
  (`HeaderLen` elements in all) and the body, any sequence of ends of line and text
  between (`Text`), so that a page may hold blank lines of its own. To list a
  directory that could not be opened is `Crash` (`readdir(NULL)`).
- **WebServer**: both servers, by the variable `design`, with the course's
  clients and foreign peers. Part 2 hands connections to **JobPool** (INSTANCE),
  the specification that ThreadPool is shown to implement. A job has its
  descriptor's number only (`arg`); the connection it works on is whatever that
  number stands for at each step. Sockets are external: connections, closing,
  resets and partial receives as Linux's TCP gives them to these programs.
  `fopen` and `opendir` take descriptors from the same numbers (`file`).
  `fgets` and each `strtok` are steps of their own: `hpc` goes "read", "line" (a line
  is read), "path" and "proto" (the second and the third `strtok` are to begin),
  "takepath" and "takeproto" (they have read the position and not yet set it),
  "reply" (`Respond` was the end of the parse and all of `process` that decides on
  the reply), "done". `saved` is `strtok`'s position, by whose line it is in; a
  handler that takes a word from another's line spoils the words of both, and its
  own are then any word of a line that was read, or none (`Understood`); a line on
  a stack that a thread of the pool uses again may be torn anywhere. `mixed`, a
  history variable, holds the handlers that were in their lines while another was.
  The reply goes to the stream's buffer and from there to the socket in blocks
  (`Buffer` elements, and the rest by `fclose`). `cut` is the history of connections
  where a `recv` ended inside the blank line after the headers.
- **MCThreadPool, MCPaging, MCFileSystem, MCFileData, MCWordCount, MCWebServer**:
  instances for TLC, with symmetry of workers or names and the views described
  in their comments. MCWebServer also evaluates `PagesSound`, about the replies
  to all paths of up to five elements.
- **ThreadPoolProofs, PagingProofs, FileSystemProofs, FileDataProofs,
  WebServerProofs, WordCountProofs**: theorems about the module each is named after.
- **ThreadPoolRefinement, PagingRefinement**: the theorems that need more of the
  state, up to the implementation of JobPool and of VirtualMemory; each extends
  the module of proofs above it.

Operators whose comment begins with "Mutant" are wrong versions of the operator
below them. Each property fails when the operator is replaced by one of them.

## Runs

| Run | Instance | Shows |
|---|---|---|
| `pool_safety` | 3 workers, 2 clients, both may wait, 4 jobs | counters exact, no lost job or wakeup, teardown alone, implements JobPool |
| `pool_live` | 2 workers, 2 clients, one waits, 2 jobs, 1 pause | jobs run, `thpool_wait` and `thpool_destroy` return, a resume releases |
| `pool_freed` | 2 workers, 1 job | refuted: pool freed while a worker unlocks its mutex |
| `paging_tlb` | 1 process, 5 pages, 3 frames, 2 TLB sets, FIFO, LRU, CLOCK | TLB entries resident, sets used well, eviction order, complete LRU list |
| `paging_data` | 2 processes of 2 pages, 2 frames, all policies, 2 values | tables agree, implements VirtualMemory |
| `fs_any` | 3 inodes, 5 blocks, any command, 6 past the first harmful one | counters exact, direct blocks owned once |
| `fs_tidy` | 4 inodes, 8 blocks, unbounded while nothing harmful is done | the directories are one tree, indirect blocks owned, only maps leak |
| `fs_rm_entry` | 4 inodes, 6 blocks | refuted: `rm` removes another entry |
| `fs_data` | 3 inodes, 7 blocks of 2 bytes, 2 direct, files of 2, 4 and 5 bytes, writes of 1 and 2 at every offset | files keep what `create` and the writes inside them put there; `read` gives what `cat` shows |
| `fs_large_write` | the same | refuted: a write that reaches the last direct block's end is reported and not made |
| `wordcount` | up to 3 files, 5 of files and characters together | counts right on tidy texts, conserved through the pipe; report after the last child; every process ends |
| `http` | both servers; four loads of 2 or 3 connections, foreign in two; 2 threads, 2 descriptors, backlog 1, a page with a blank line | descriptors, jobs and files matched; each handler that is alone in its line answers its own request; what `htmlget` prints; clients end |

Why the bounds are enough. The pool's hazards need two pushes merged into one
post, a worker that pulls, one that sleeps and one that steals the post: three
workers and four jobs give each at once with jobs left over. Liveness runs are
smaller, as every property of theirs is about at most two threads. Paging needs
a TLB set with more pages than ways and more pages than frames, and for data
two processes that evict each other; a second TLB set makes the victim's entry
outlive the fill of the new page unless it is shot down. `paging_tlb` leaves RANDOM out because it
has more pages than frames, which `random` in the code does not allow
(`RandomAssumption`). The file system needs a large file (three blocks when one
is direct), removed and made again, two names, nested directories, and full
bitmaps and directories. In `fs_tidy` two large files exist together (eight
blocks: the system's, the root's and three of each), in `fs_any` one. The
slot arithmetic beyond the array of entries (an inode number past
`MAX_DIR_ENTRY`) is in the model but outside these instances.

`fs_data` has files of one block, of exactly `SMALL_FILE` bytes and with a byte of
content in an indirect block; ranges inside a
block, across two, across the direct and the indirect ones, and one past the end.
Two files and a directory share seven blocks, so that blocks and inodes are used
again with old numbers left in the arrays, and a removed large file's leaked map
makes a later large file fail half way. `wordcount` needs a child that has
written, one that has not and a file yet to fork for: three.

`http` pairs `htmlget` with a thread of `htmlget_multi` and with a foreign peer,
such a thread with a foreign peer, and takes three threads together. A stalled
peer holds one of two threads and one of two descriptors. With two handlers at work
no descriptor is left for a file, so `fopen` fails (403) and `opendir` too (the
server dies); with one there is. Two handlers take their lines apart in every
order of the steps of `strtok`; with three connections a third begins after one is
done, on its descriptor number and where the position may still be in the line of
the one before, and part 1 runs out of threads. The index page has a blank line at
its start and is written in two blocks, so that every `recv` boundary inside and
around both blank lines occurs.

What "harmful" means in FileSystem (`stray`): an `rm` or `rmdir` whose entry is
neither the last nor at the slot with the inode's number; an `rmdir` of "." or
".." or of a directory that is not empty; an unmount outside the root. The
first is the run `fs_rm_entry`; for the second no document says what should
happen; the last is met below. FileData adds a write that goes past the file's
blocks, one to a directory, and one through an old block number that the same
range has already (`Copes`).

### Fairness

`FairSpec` assumes that a thread that can take a step, of its code or of the
signal handler, eventually does, that a client inside a call goes on with it,
and the owner inside `thpool_init` or `thpool_destroy` too. The operating system
schedules every runnable thread, jobs terminate (the model makes a job one
step), and a pending SIGUSR1 is delivered. Starting a call, a spurious wakeup
and the decision to destroy are not fair. Fairness is weak: nothing is assumed of
which thread obtains a mutex. A pause makes no promise about jobs, hence the
`paused \/ held # {}` in the liveness properties.

WordCount is weakly fair to the parent and to each child: the system schedules
them; that a child is killed is not fair. WebServer only asks that the programs
together do not stop while one of them can take a step (`WF_vars(ProgramStep)`),
since every connection is made once and takes a bounded number of steps, `strtok`
and writes included; foreign peers owe nothing. `ClientsEnd` says what the code gives for that: with as many
stalled peers as threads or descriptors the clients would wait for ever. Paging,
FileSystem and FileData promise no progress: they act when asked.

## Findings

1. The pool can be freed (`webserver_part2.c:385`) between a worker's decrement (`:513`) and its unlock (`:514`).
2. `fs.c:620`, `:751`: inode number used as an index into the directory.
3. `fs.c:515`: `file_write_helper` writes the old contents back and reports the new ones.

Also met, without a run of their own:

- `webserver_part2.c:506` sends one signal: of several callers of `thpool_wait` one wakes.
- A SIGUSR1 delivered after `thpool_resume` puts its thread on hold for good (`:437`).
- `list.c:32`: LRU crashes when the only loaded page is used again (`HitCrash`).
- `pagetable.c:91` stores a frame number in the TLB before it is assigned; the
  stored number is never read.
- `fs.c:92`: the unmount saves the current directory in the root's block.
- `rm` never frees the block of an indirect map; `OnlyMapsLeak` shows it to be
  the only kind of block lost.
- A large `create` that does not fit is reported created with the size asked for
  and keeps one byte less than the direct blocks hold (`fs.c:128, 135`); where it
  fits, it takes one block more than it needs when its size is a multiple of the
  block size (the byte at `SMALL_FILE - 1` is counted twice).
- A write that ends exactly with the last block of a file writes back the block
  that the next element of `directBlock` still names; if that is a block of the
  file itself the bytes just written are undone (`fs.c:466`). `Copes` leaves it out.
- A file's size is never changed by a write; a write past it goes to another
  file's block or to a directory's.
- A `read` that begins past the first indirect block copies to before its buffer
  (`fs.c:397-399`).
- The Location sent with a 302 has the working directory in front and is not
  found (`webserver_part2.c:146`, `PagesSound`); the index page is looked for
  under the working directory taken twice (`:150`).
- A write to a peer that reset its connection ends a server (SIGPIPE); a failed
  `pthread_create` ends part 1 (`webserver_part1.c:210`); a peer gone before
  `getpeername` leaves its descriptor open for ever (`:204`).
- `htmlget` prints nothing when the blank line after the headers is split
  (its comment at `htmlget.c:79` says so), or, when the page has a blank line
  itself, only what follows that (`:83` looks at every buffer until it finds one).
- `strtok` keeps its position in one variable for all threads: two handlers that
  parse at the same time (`webserver_part1.c:99-101`, `webserver_part2.c:127-129`)
  can answer each other's request, or one with 404, 501 or nothing at all.
  `RepliesRight` therefore speaks of the handlers that were alone in their lines;
  with one thread in the pool all are (`OneThreadAnswersRight`).
- When no descriptor is left, or the directory may not be read, `opendir` returns
  NULL, and `readdir(NULL)` ends the server with all its connections
  (`webserver_part1.c:137`, `webserver_part2.c:165`); of a file 403 is sent.
- `wc_multi` adds an uninitialised record for a child that died (`wc_multi.c:123`),
  and ends a file at a byte 255.

## Proofs

For every value of the constants that meets the named ASSUMEs.

- `TypeCorrect`, `PagingTypeCorrect`: type invariants; inductive as they stand.
  For Paging the content is that each policy yields a frame.
- `LostJobNever`: NoLostJob is not inductive alone. It needs that a pool not yet
  shared has no client at work and an empty queue (`PoolUnsharedAlways`) and the
  type of the program counters. The case that matters is a worker that takes the
  last unit of the semaphore (it is then on its way to pull) and one that pulls:
  either the queue is left empty, or it is at `pullpost`.
- `WakeupNeverLost`: a post moves a sleeper to the test, and a worker goes to
  sleep only when the semaphore is down.
- `FramesAlwaysAgree`: inductive with the type invariant; one step per path of
  `MMU`, the eviction split by whether a page is the victim, the new one or
  another.
- `TLBAlwaysResident`: needs FramesAgree, which says that the victim found through the
  inverted table is the only page evicted, so that removing its ways is enough.

- `CountersAlwaysExact`: the counts are cardinalities of sets of program points,
  so each action moves one thread in or out of a set.
- `PoolInvAlways`, `ClearedAlone`: ClearAlone is not inductive. It needs what each
  program point of the owner says of `keepalive` and `freed` (`Phases`), which
  thread holds `rwmutex` (`RwHolder`), that `thpool_init` returns with every
  thread counted in (`Started`), and the exact counters: an owner that reads 0
  then reads that no thread is left in its loop.
- `LoneWaiterHasReason`: WaiterHasReason under `OneWaiter`, a hypothesis of the
  statement as it is of the run: the worker that finds nothing working signals
  once, which leaves the second of two callers asleep. The server itself
  never calls `thpool_wait`.
- `JobsApartAlways`, `PoolImplementsJobPool`: no job is in two places, hence the
  step at which a worker pulls is JobPool's start of the first job, the step that
  ends a job its end, and all others stutter. That the pool closes only when
  nothing runs is PoolInv's.
- `PagingInvAlways`, `LruListAlwaysComplete`, `OldestEvicted`: the history variable
  `order` is tied to what the policy keeps: to the LRU list, place by place and
  through the inverted table (`LruOrder`), and to the frames counted backwards from
  the FIFO index (`FifoOrder`). So the list names every loaded frame once, and the
  victim is the page at the end of `order`.
- `TLBSetsAlwaysWellUsed`: inductive with FramesAgree: only a miss fills a way.
- `PagingImplementsVirtualMemory`: the refinement maps a page to its frame's data
  where it is resident and to the disk's elsewhere. Needs FramesAgree, and that a
  resident page that is not dirty is the same on disk (`CleanOnDisk`), so
  that an eviction without write-back loses nothing.
- `FSInvAlways`: types, exact counters, and `Ownership`: direct blocks are not
  inductive alone, since `rm` frees what the indirect map lists; so what an inode
  *owns* is its direct blocks, its map and what the map lists where it is
  intact, and all of it is marked in use and apart from every other inode's. A
  map that was written over owns nothing, and a step may only shrink what is
  owned. `FirstFreeBlocks` needs that the i-th clear bit exists (`BitAfter`), the
  counters that a list of different blocks has as many members as its length.
- `TidyInvAlways`, `TreeAlwaysSound`, `IndirectBlocksAlwaysOwned`,
  `OnlyMapsAlwaysLeak`: about sessions that keep `stray` at 0 ("What harmful
  means" above); without that they are false. The directories are stated as a
  function from inodes to entries, so that two lemmas about functions, `TreeGrows`
  and `TreeShrinks`, hold the argument; the commands only show that
  they change one directory and leave the blocks of the others. The tree also
  says that no directory is its own child (else `rmdir` could take the current
  one) and that the unmount still knows the root's block (`curDirBlock`). With it
  `rm` never writes outside the array of entries: `wild` stays false.
- `DataInvAlways`, `ContentAlwaysKept`, `ReadsBack`: FileSystem's two invariants
  (its lemmas are used through an INSTANCE, with any numbers as sizes), and three of
  the bytes. `Sized`: indirect blocks begin only after all the direct ones.
  `SlotsMatch`: the array of an inode begins with its file's blocks, whatever it has
  after these. `Held`: byte q of a file's contents is byte q % BLOCK_SIZE of its block
  q \div BLOCK_SIZE. The blocks of a file are different ones and no other file's, by
  `Ownership`; so a `create` or a write changes no byte of another file, and the
  leftover block that the last round of a write may touch is only written back
  (`WriteEffect`). That a buffer into which blocks are joined has each byte in its
  place (`FlattenBlocks`) is proved for every block size, with the division that
  finds it (`DivMod`, `DivBelow`). `WriteDirectKeepsData` is for a write at any
  place; only the model's Next is bounded by `Offsets`. Files that
  `file_write_helper` wrote are left out of the statements, see Findings.
- `WebInvAlways` and its consequences, for any pages, buffer, threads and
  descriptors, and any number of handlers in their lines. `Places`: a connection is
  in the backlog, on a descriptor, or finished, and never in two of these; a job's
  number stands for the connection it was accepted for. `Forgotten`: a descriptor
  without a job is that of a peer gone before `getpeername`. `FilesOpen`: an open
  file has a number that no socket and no other file has. `ParseApart`: two
  handlers in their lines are both `mixed`, all that is spoiled or torn is of mixed
  ones, and for one that is not the position, once it has set it, is in its own line
  until it is through. `Talk`: there is a page of which what was written, what is in
  the stream and what the peer may have lost are the three parts, and unless the
  handler is mixed it is an answer to the connection's own request. `Shows`: the
  buffer of `htmlget` is cleared from end to end, and what it printed is what follows
  the first blank line it found, which is the one behind the headers unless a `recv`
  ended inside that.
- `RepliesAlwaysRight`, `OneThreadAnswersRight`: from `Talk`. The second adds that a
  pool of one thread has one handler running, so that `mixed` stays empty.
- `BodyAlwaysShown`: from `Shows`, both for replies cut inside the blank line and
  for the others.
- `PipeInvAlways`, `ReportedLast`: records read plus records in the pipe are the
  children that wrote, until a read meets the end, when no writer is left.
- `CountInvAlways`, `CountsAlwaysConserved`, `TidyTextsCounted`: the sums over
  files and over the pipe are folds of the community modules. That a fold adds
  the members up in whichever order CHOOSE takes them is proved from the least
  number principle over finite sets (`TotalStep`, `TotalRemove`), because the
  library's induction theorems cannot be used. The records are of C ints
  (`Records`); so is what the parent finds in an uninitialised one, hence the
  assumption that `Garbage` is a set of such records.

Induction is by the least number principle throughout: a property of the
numbers is a subset of Nat there, and no operator has to be passed.

Model-checked only: the liveness properties (fairness and ENABLED are out of the
prover's reach). The three refuted properties are false and have no theorem. `DirectionsAgree`, `ListIsSequence` and `PagesSound`
are evaluated over bounded inputs.

## Plan

Done: the models and runs of all the parts above; the theorems above.

Every invariant and safety property of the passing runs is stated by a theorem. What
is left is DList: that each function keeps the nodes doubly linked, for any heap.

## Not modelled

The VM simulator's main program and its counters, the request generator and the
list's own test (they read, print and count); name lookup, MIME types, the
wording of headers, pages and queries, paths with "..", requests that arrive in
several segments; an end of line ("\r\n") that a `recv` cuts in two, which keeps
`htmlget` from finding a blank line as a cut between two of them does; an
index.html that is a directory; a page whose text holds format characters or a NUL, which
`htmlget` prints as a format and as a string; `gmtime`'s static result, which only the
wording of dates depends on; `ls`, `stat`, `df`, times and owners; reading and
splitting the shell's command line; failing `malloc`, and `pthread_create` failing
inside `thpool_init`; an unmount cut short.
