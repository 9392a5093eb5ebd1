# A verification development of avm-gen

avm-gen is a Qt/C++ library of helpers for applications that talk to devices and
servers: logging, worker threads, HTTP and FTP clients, settings, files and archives,
binary records, small numeric types. This directory holds TLA+ models of the parts of it
that have behaviour worth checking, TLC configurations for small instances, and proofs
for every value of the constants. All paths are relative to the repository (`src/`).

## The system

| component | state | operations | hard part |
|---|---|---|---|
| log file and archives (`src/files/files.cpp`, `src/files/ziputil.cpp`, `src/logger.cpp`) | the log, archives `.0.zip` to `.9.zip` | `writeLog`/`writeStart` append and call `Files::checkNGzip`, `rotateFiles`, `ZipUtil::CompressFile` | every file operation may fail, results are partly ignored, the process may be killed between two of them |
| message handler, `Logger`, `ErrorQueue` (`src/messagehandler.cpp`, `src/logger.cpp`, `src/errorqueue.cpp`) | two mutexes, levels, file name, pool of the last errors | the handlers installed with `qInstallMessageHandler`, setters, `writeStart`, `popError`, `clearCounter` | many threads; nested mutexes; a handler entered from inside `writeStart`; slots run under a mutex |
| `ThreadPool` (`src/threadpool.cpp`, `threadpool.h`) | map from id to thread and status | `create`, `start`, `finish`, `status`, destructor, a lambda in each worker | the map is shared by owner and workers and not locked |
| `HttpEngine` (`src/httpengine.cpp`) | URL, data, two flags, a timer, live replies | GET and POST queries, slots of the replies, timeout, cancel | event loops inside calls; reentrancy; redirections; late answers |
| `FtpEngine` (`src/ftpengine.cpp`) | two sockets, the paths | `connectToHost`, `list`, `setPath`, `get`, `close` | answers are matched to commands by their time of arrival only |
| `BinaryFile` (`binary_file.h`) | the bytes of a file | search, remove, move, update by iterator | iterators into bytes that move; off-by-one in ranges |
| other file operations (`src/files/files.cpp`) | files | save, load, temporary files, removal by age, rename | not atomic, several threads, kills |
| archives (`src/files/ziputil.cpp`) | libzip handles | compress, add, decompress, list | handles leaked or used after they were discarded |
| `Settings`, `MemSettings` | `QSettings` with one group stack, work directory | get, set, remove, groups, initialize | shared group stack, restart |
| `StdFunc`, `TimeFunc` | cancel flags | waits, bit indices, versions, dates | event loops in waits; boundaries |
| `uint24`, `NetIP`, CRC, `Convertable` | none | pure functions | widths and boundaries |
| XML helpers | one static document | attribute strings, DOM walks | text replacement; walks over children that change |
| `ExecuteCommandAsync` | a thread and a pipe | execute | order of signals, end of the thread |

They meet in few places. The message handler calls `ErrorQueue` and `Logger`; `Logger`
calls `Files::checkNGzip`, which calls `ZipUtil`; `Files` and `ZipUtil` log with
`qDebug`, which is how the message handler is entered again from below. `HttpEngine`
waits with `StdFunc::Wait`. Everything else is used by the application alone. The
hazards of each part are listed in `PROJECT.json` with their lines.

## The modules

| module | what it is |
|---|---|
| `RollingLog` | what a rotated log promises, with no files in it: the next message is added, or the oldest are given up while enough are kept |
| `LogRotation` | one log and its archives, one action per file operation; implements `RollingLog` |
| `LogRotationProofs` | theorems about `LogRotation` |
| `Logging` | the threads that log, the two mutexes, `ErrorQueue` |
| `LoggingProofs` | theorems about `Logging` |
| `ThreadPool` | owner and workers around the map |
| `ThreadPoolProofs` | theorems about `ThreadPool` |
| `QueriesInTurn` | what an engine promises that is asked one query at a time, with no replies, flags and timers in it |
| `HttpEngine` | queries, replies, flags and timer of one engine; implements `QueriesInTurn` |
| `HttpEngineProofs` | theorems about `HttpEngine` |
| `FtpEngine` | one engine, its server, and the channels between them |
| `FtpEngineProofs` | theorems about `FtpEngine` |
| `BinaryFile` | records on bytes |
| `Settings` | one `QSettings` with its group stack, the file under it, the work directory |
| `Archives` | the calls of `ZipUtil` on one archive, from several threads |
| `Files` | saving, renaming and removing files, from several threads |
| `Commands` | `ExecuteCommandAsync` and the threads it starts |
| `Numbers` | `uint24`, bit indices, versions, ratios, casts, values in byte arrays, addresses, parts of a second |
| `Checksums` | CRC16 and CRC32, beside the polynomial division their tables stand for |
| `Waits` | the calls of `StdFunc` and `TimeFunc` that wait in an event loop, inside one another |
| `Xml` | `XmlAttr` on the elements of a document |
| `XmlParse` | walks over the children of a node by a functor that changes them |
| `MemSettings` | a setting, its signal, and slots that set it again |
| `MCHelpers` | one run for the eleven parts from `BinaryFile` to `MemSettings` |
| `Filters` | what `SelectSeq` does, with a set in place of a test, as a function the provers can reason about |
| `DataProofs` | lemmas about data for the two modules below: induction, recursive functions, division, concatenation, `Filter` |
| `ComputingProofs` | theorems about `BinaryFile`, `Numbers` and `XmlParse` |
| `KeepingProofs` | theorems about `Settings`, `MemSettings`, `Files`, `Archives`, `Commands` and `Waits` |

Operators named `...Mutant` are defects that could have been written in place of the
definition that follows them; no specification uses them. `PROJECT.json` pairs each
with the property that must notice it.

### LogRotation

A message is a number, a file the set of messages in it. `Append` is the effect of
`writeLog` and `writeStart` up to `checkNGzip`; `CheckSmall`/`CheckBig` its size test;
`Remove`, `RemoveFails`, `SkipRename`, `Rename`, `RenameFails` one turn of
`rotateFiles`; `ZipOpen`, `ZipAdd`, `ZipClose`, `ZipFails` the calls of libzip under
`CompressFile` (libzip reads and writes in `zip_close`, through a temporary file);
`Truncate`, `TruncateFails` the end. `Crash` may fall between any two. `Logger`'s mutex
makes calls sequential, so there is one `pc`. Run `log_rotation` uses 3 archives (`Count`
= 2), logs that fill with 2 messages, 9 messages and 3 faults: enough to fill all
archives, evict twice and have a fault follow a fault.

`NewestGapFree` is what a reader of the logs relies on: the log and the k newest archives
hold an unbroken run of the newest messages, for each k. `SizeBound` is the promise of
`checkNGzip`, which holds while nothing fails. `NoDuplicates` and `EvictWhenFull` say
that a rotation without faults neither repeats messages nor wastes an index.
`RollingSpec` is the refinement. With faults, messages may be in two files (archived, but
not yet truncated), and a compression that keeps failing lets every later call shift the
archives by one until they are all gone: the abstract log allows this because the live
log then still holds enough. What a failed `remove` or `resize` does is the business of
`NewestGapFree` and `RollingSpec`, as the other three speak only of the time before the
first failure.

### Logging

`pc[t]` is where thread t is in the handler, or in `writeStart` for the thread `Main`.
`mhLock` and `logLock` are the two mutexes. A rotation is one step here. Qt sends a
message that is logged inside a handler to stderr, so only `writeStart`, called outside
any handler, can enter the handler again (`RotateStartFails`). The handler then waits for
the mutex `writeStart` holds: the application's threads that log all block. `Stuck`
names this state, and `CallsReturn` says it is the only way a call does not return. The
slot of `errCounts` may read the queue (`PopError`, `ClearCounter`): a consumer elsewhere
would need the handler's private mutex. Two threads, three messages, a queue limit of 1
(so that it overflows), two levels on both sides of the thresholds. Fairness: each
thread's own steps are weakly fair. The order in which threads get a mutex is not fair,
and need not be: the number of calls is bounded.

### ThreadPool

Each access of `m_threadMap` is a step, so that the owner's functions interleave with the
lambda of each worker. The races on the `QMap` itself (undefined behaviour) are left out:
what is shown goes wrong even when every map operation is atomic. The destructor's
`quit`, `wait`, `delete` and `remove` are steps of their own: `NoDanglingThread` says that
a deleted thread does not run and that no entry leads to it but the one about to be
removed, `NoUseAfterDestroy` that no lambda outlives the pool. The owner keeps the
documented protocol: `start` once per id, `finish` and `start` of ids in the map. The
deaths the code can reach with it (a null pointer in `finish`, `first()` of an empty list
in the destructor) end the behaviour with `failed`; `NeverFails` says it does not
happen, and run `threadpool_finish` shows that it does. Two ids give two workers that end
in any order; more add no kind of interleaving, and the theorems hold for any number.
Fairness: threads run, the work's slot returns (weak fairness), and the owner's event
loop, between two calls, delivers what was posted (strong fairness, since the owner may
be busy again and again).

### HttpEngine

`stack` holds the queries that wait: at most one, unless `Reentrant`. Query q asks host q,
so that hosts tell queries apart. A redirection names a host (that of any query) or is
relative: `Redirect` resolves it against `m_url`, as the code does for both, stores the
result there and starts a new request. `replies[q]` is the reply to the query's latest
request, and `hop` (0 or 1 in turn) tells its pieces from those of the request before, so
that a query may be redirected without end in a finite model. Failures, the timeout and
`CancelDownload` share `AbortAll`: Qt's `abort` runs the reply's `errorOccurred` and
`finished` slots on the spot. Two queries and two pieces let a query follow one that
failed, was redirected or stored its host in `m_url`; the theorems hold for any number.

Fairness: the innermost wait loop looks at the flags (`Return`), and a timer that one
request keeps waiting fires. A redirection starts the timer again, which is why the
fairness of `TimeoutOf` is that of one query and one request; nothing is assumed of the
network. `QueriesReturn` therefore has one exception, and names it: a query that is
redirected for ever does not return.

`InTurn` is the refinement of `QueriesInTurn`: the query under way is read off the flags
(`Current`), its host and what it has heard off its reply. It says that every query is
answered once, in turn, with the whole body its last host sent, in the order in which it
came, or with nothing if it failed, was cancelled or timed out; and that a redirection
leads to the host it names, and a relative one to the host that redirected. The exception
is a POST, which does not store its URL: its first redirection, if relative, is resolved
against the URL an earlier query left, so the abstract query may be led anywhere (`own`).
With reentrancy none of this holds: run `http_reentrant` shows `EmptyOnFailure` violated.

### FtpEngine

Client, server, and three queues: `cmds`, `net` (answers) and `wire` (data). A read takes
any non-empty beginning of what is under way, a wait may give up at any time, so every
delay is covered. An answer is a 226, a 227 with its port, or any other, which is all the
code looks at. The server serves commands in order, ends a port when it opens the next
and may refuse or abort anything. `late` remembers that the client went on without an
answer that was to come: a wait gave up, or a call ended with a command, an answer or a
transfer outstanding, as `get` does when the data connection is slow for a second
(`Leaves`). The second case matters only in runs longer than the four calls TLC
makes: the end of an aborted transfer is read as the answer to the next command, a
passive command refused later puts the client two answers behind, and with a seventh call
a stale `RETR` runs on a connection that another call opened. The proof of `RightFiles`
found it; see below. Two files, the listing, two pieces each and four calls allow an
answer to be one or two commands late on two different transfers. Fairness: the client
goes on, as each wait has a timeout. Files and listings are of finite size, so
`CallsReturn` says nothing of a server that sends for ever. Two things the code does are
allowed by the properties on purpose: `get` may report a file finished that is only a
beginning, and `list` may return only the first piece of the listing.

### BinaryFile

The bytes are those of the `QByteArray`; a byte knows its record and its place in it, so
an operation that tears a record is seen (`TypeOK`). `FindAllRanges`, `Erase`, `Move` and
`Refuses` are the code's arithmetic; `SearchAndMoveAgree` compares them with reference
definitions for every predicate, range and destination over files of up to four records,
in every order moves can produce. `SweepIsExact` is about a sequence of calls: ranges
found earlier are still good if removed from the last to the first.

### Settings

`conf` is what `QSettings` holds in memory, `saved` what is in the file of the
application and in the file it uses when it is constructed before `initialize`. `Exit`
writes the memory, `Kill` does not; afterwards a new process starts. `set` syncs and
`remove` does not, so `OnlyRemovalsPending`. `chosen` is the work directory a later
process should find: `WorkDirSurvives` holds for one that was set outside any group by a
program that called `initialize` first. Inside another caller's group it is stored under
that group and not found again, which the property leaves out and the model shows. Two
values, one group, one level.

### Archives

A handle is what libzip knew when it opened the archive (`old`) and what was added since
(`added`). Adding a file only notes its name (`Unread`): `zip_close` does the work, long
after `addFile` returned true, and does it in steps, as other threads run meanwhile.
`OpenSource` opens one of the files, `ReadSource` has read it to its end, and `Close`, when
all are read, renames the new archive over the old one; `CloseFails` may fall at each of
them. `DecompressFile` truncates the files it writes, so another call may cut a file short
that is being read (`CutShort`): `zip_close` then fails, or stores a beginning of the file
(`Torn`, `Blank`).

`ReportsTell` says what the return codes are worth: the archive changes only when a call
that stores reports no error, and it then holds, for each name the call was asked to
store, the bytes it was given, the file as it was when the call began or as it is, or a
beginning of it if the file was changed in between (`MayStore`); under other names it
holds what it held when the call opened it. `LostOnlyToOverlap` says that calls that do
not overlap lose nothing of one another.

A behaviour ends (`undefined`) where the code uses a handle it discarded
(`CompressDir` after a failed `addFile`), asks a null handle for its error (`AddFile`),
or reads into the array of size 0; for the last the model also goes on as a program
that survives the stray write: nothing arrives. Handles that the early returns leave open
are noted at `ReadFails`; the leak itself is not part of the state. Two threads, two
files, three calls and one fault: every pair of calls in every interleaving, and a third
that sees what they left.

### Files

A name leads to a file (`named`, `body`), and a thread keeps the file it opened when the
name is moved or removed. A small text is written when the file is closed, a large one at
once, so that a failed write may be reported, be cut short and not be reported, or go
unnoticed in `close`. `removeOlderThan` may remove any file at any time, which covers
every threshold and mask. Texts of two lengths (a short one saved over a long one would
leave a rest), two threads, three saves, one failure.

### Commands

`stage` is where the thread of each call is, `inbox` the event queue of the owner's
thread. Both `finished` and the thread's `exit` wait there while `run` goes on to emit
`resultAcquired`. After `popen` failed, or reading threw, `run` goes on with a pipe it
does not have: the behaviour ends there. `CommandsEnd` speaks of the states in which
nothing can go on, so it needs no fairness. Two calls, and an `ExecuteCommandAsync` that
may be deleted at any time.

### Numbers and Checksums

A byte has `Base` values and all widths follow, so that with `Base` = 4 every word of four
bytes is tried, at every boundary there is. `Thousand` = 5 is the base of the parts of a
second. `uint24` is driven through chains of operations beside the number it should be;
the conversions are compared with reference definitions for every word: `Clp2`
shifts and ors sets of bits, `AddressText` and `FromString` put numbers between dots and
split there, `GetFromByteArray` reads what `ToByteArray` put at any place.
`goldenRatio` is modelled for values that are not negative (from -59 to -50 the code
divides by zero), and `safeMemoryCopy` for indices that `size_t` can add to. `Checksums` keeps
the real tables: the first byte is any of the 256 (which reaches every entry), the next
two are 1 or 128. Its 32-bit words are pairs of halves, as TLC's integers are
narrower. It uses the module `Bitwise`, so nothing is proved about `Checksums`. A checksum
may be resumed from a stored value; `ChecksumsMatch` claims nothing of a CRC16 that was.

### Waits

`waits` are the event loops that run, the innermost last. Each has its own time, timer
and poll; the innermost delivers the events of all, but a loop that was told to quit
returns only when those inside it have. `Tick` lets time pass only when nothing is due,
so a wait is late for no other reason than the waits its handlers started, and `Ping`,
which stops the thread. `WaitsKeepTime` says so, and that a wait returns early only
because what it waits for came. The flag of `WaitFor` is the cancel flag, which others
may clear between the poll and the return; `CheckPort` reports a port closed when an
inner wait outlasted it, though the connection came. Two waits, three units of time.

### Xml

A style is a sequence of characters, since `getAttrValue` and `QString::replace` look for
names and values anywhere in it. One name begins the other, one value the other, as
`stroke` begins `stroke-width`. `StylesReplaced` compares the code's loop with what is
meant in every style of up to two parameters and in what any sequence of calls makes of
it. If the parameter searched for is the first of those to change and has the value
searched for, exactly the parameters asked for get their new values, as long as no name
asked for is part of another and no value part of another (`Clear`); a style without that
parameter and value is left alone, even if a longer name begins with its name. Elements
below an edited element are left alone, which is the code's order of recursion.

`OnlyAskedChange` is the same without `Clear`, as the header promises it, and run
`style_collision` shows it violated: looking for `s` in the style `sw:2` cuts the front off
the text that is written back (`sliced`), and `replace` changes a value wherever its text
stands, in another parameter's value too.

### XmlParse and MemSettings

Both are about a callback that changes what it is called from. `callForEachChild` looks
up the next sibling after the functor has run: `WalksComplete` holds unless the functor
removes the child it was given, which ends the walk (`left`). Three children and one
added. `set` emits before it returns, so a slot may call it again: `ListenersKnow` says
which listeners still know the value afterwards. Three listeners and four calls, nested
to any depth.

### MCHelpers

The parts from `BinaryFile` on share no state in the code either, so interleaving two of
them would multiply states and show nothing. The variable `part` picks the one that moves
in a behaviour, while the variables of the others keep their initial values.

## What the runs show

| run | expected | shows |
|---|---|---|
| `log_rotation` | pass | no fault or kill tears a hole into the history; refinement of `RollingLog` |
| `logging` | pass | one order in queue and file, the queue's window, every call returns unless `Stuck` |
| `logging_restart` | violation of `NameGuarded` | the file name is assigned outside the mutex, against `logger.h:54-57` |
| `threadpool` | pass | no worker outlives the pool, no entry leads to a deleted thread, true statuses, ends |
| `threadpool_finish` | violation of `NeverFails` | `finish` waits on a null pointer when the worker ends between its two lookups |
| `http` | pass | refinement of `QueriesInTurn` (the data of the host it was led to, or none), quiet between queries, every query returns unless redirected for ever |
| `http_reentrant` | violation of `EmptyOnFailure` | a nested query's data is returned by a failed outer one |
| `ftp` | pass | one transfer per local file, and the right one while the client left no answer behind |
| `ftp_wrong_file` | violation of `RightFile` | a late answer makes `get` store another command's data |
| `helpers` | pass | the small modules: agreement with reference definitions (`SearchAndMoveAgree`, `SweepIsExact`, `ArithmeticWraps`, `ConversionsAgree`, `ChecksumsMatch`, `StylesReplaced`), what kills leave of settings and files (`OnlyRemovalsPending`, `WorkDirSurvives`, `NoLeftovers`), what calls on one archive report and lose (`ReportsTell`, `LostOnlyToOverlap`), ends of commands (`CommandsEnd`), waits inside waits (`WaitsKeepTime`), callbacks that change what they are called from (`WalksComplete`, `ListenersKnow`) |
| `archive_read` | violation of `ReadsBack` | an entry that is found is read back as nothing (`ziputil.cpp:233`) |
| `style_collision` | violation of `OnlyAskedChange` | a name that begins another one makes an edit lose the front of the style (`xmlattr.cpp:120`), against `xmlattr.h:29-30` |

`CHECK_DEADLOCK FALSE` is set in all of them because bounds (messages, calls, queries)
end every behaviour; that calls return is stated as liveness instead.

### Where documentation and code disagree

The runs that expect a violation each show such a disagreement. The models follow the code
in these, too, and no property claims either side:

- `BitByIndex` (`stdfunc.h:113-117`) is documented to set the bit at the position given,
  and `IndexByBit` to return positions up to 32; the code refuses the highest one and
  returns 0. `ConversionsAgree` is about the positions below it.
- `UnixTime64ToInvStringFractional` is documented to end in `.mmm` (`timefunc.h:45`); of
  the last fractions of a second, which are above 1000 times the divisor, the code makes
  1000. `ConversionsAgree` is about the others.
- `CRC16(value)` is documented to start from `value` (`crc16.h:24`); the code ors its bytes
  with 0xFF, so that it always starts from 0xFFFF (`crc16.cpp:48`).
- `replaceDomWithNewAttrRecursively` is documented to look for `attrs.at(0)`
  (`xmlattr.cpp:8-9`) and to replace the values of all `attrs` (`xmlattr.h:29-30`); the
  code never reads `attrs.at(0)`, and looks for and replaces the value of
  `findInfo.ParameterName` in its place. The properties are about calls in which the two
  are the same.
- `callForEachChild` is documented to visit each child node (`xmlparse.h:70-71`); it visits
  elements only.
- `setWorkDir` is documented to survive restarts (`settings.h:62`); inside a group another
  caller opened it is stored under that group.

## What is proved

Every safety property of the passing runs but `ChecksumsMatch`, `StylesReplaced` and
`MCHelpers`' `TypeOK` is a theorem, for every value of the constants. Each proof module has the same
layout: the parts of the invariant with a line on each, `IInv` as their conjunction,
lemmas about the operators, one lemma or step per action, and the theorems at the end.

`LogRotationProofs`: `TypeCorrect`, `HistoryGapFree`, `SizeBounded`, `InOneFile`,
`NoIndexWasted` and `ImplementsRollingLog`. `NewestGapFree` is not inductive: during a
rotation the free index travels through the archives, and before the truncation the log
and archive 0 hold the same messages. `IInv` adds what is known at each `pc`, and that no
file holds a message that was not written. `NoDuplicates` needs `Apart` (archives are
disjoint at every `pc`, the log is disjoint from all but archive 0 before the truncation),
`EvictWhenFull` needs `Packed`: below an archive every index is taken but for the `Hole`
that travels. The refinement maps every action to a stutter, except `Append` (the next
message) and `Remove` (the oldest go, and the log, which is full at that point, stays).

`LoggingProofs`: `TypeCorrect`, `OneOrder` and `QueueIsNewest`. The order in the queue and
that in the log are made by two mutexes one inside the other, so `LocksHeld` is mutual
exclusion, and `PushedLast` says that between the queue and the log of one message nobody
pushes another. For the log to have each message once the messages must be
told apart: `Numbered` and `Fresh`. The message that a failing rotation logs has number 0 for
every such call, which is sound because the thread never comes back (`ZeroIsStuck`).

`ThreadPoolProofs`: `TypeCorrect`, `NoLambdaOutlivesPool`, `DeletedThreadsAreOver` and
`StatusIsTrue`. Their invariant ties each worker's place to its entry, its status and the
flag that `quit` sets; the destructor's last look at an empty map then implies that no
worker is before its removal. That a deleted thread is over needs what holds between
`wait` and `delete`: a thread that is over stays over (`DeletingIsOver`).

`HttpEngineProofs`: `TypeCorrect` always; `Quiet`, `FailuresAreEmpty` and `Implements`
for `Reentrant = FALSE`, a program that starts no query while another waits, since
`http_reentrant` shows that they fail otherwise.
`Single` says that one query waits, that only the latest reply is live and belongs to it,
that `data` is that reply's body and, once it is not a POST's first, `m_url` its host. The
refinement has one lemma per slot of a reply, each a step of `QueriesInTurn` or a stutter;
redirections may go on for ever and to any host.

`FtpEngineProofs`: `TypeCorrect`, `NeverMixed` and `RightFiles`. Two arguments meet. One
counts: a port is given for a passive command of some call (`PortsLeft`), named in one
answer at most (`PortsOnce`), and good for one transfer (`OnePerPort`), so whatever is on
the data connection is a beginning of one thing (`Contiguous`). The other says that
client and server are in step until something is late (`InStep`), so that the one thing
is what was asked for. The first attempt failed at `InStep`, because `late` then only
noted waits that gave up; TLC confirmed with seven calls that a file could be wrong
without one. `late` was corrected, not the code's part of the model.

`KeepingProofs` is about six modules. `Settings`: `SettingsTypeCorrect`,
`NothingSetIsPending` and `WorkDirKept`, for any groups nested to any depth.
`WorkDirSurvives` is carried across restarts by `Constructed` (an object made before
`initialize` stays on the wrong file) and `ChosenKept` (the file and the copy in memory
that will be written over it have the chosen directory).

`MemSettings`: `MemTypeCorrect` and `AllListenersKnow`. `ToBeTold` is what is true in the
middle of nested emissions: a listener that no slot has spoiled knows the value, or the
innermost emission has yet to reach it.

`Files`: `FilesTypeCorrect` and `NothingLeftOver`. `OneHolder` says who may have a file
open, `Buffered` and `BeingSaved` what is in the file and in the buffer until it is
closed, `WasSaved` what remains.

`Archives`: `ArchivesTypeCorrect`, `ReportsAreTrue` and `LostOnlyWhenOverlapping`.
`StoresAll` says that what a call was asked to store is what it has added and what is left
to do, `AddsRightly` that what was read of a file is what the call may store, which stays
so because files are only ever truncated (`FilesCutShort`). The last two theorems are
about action properties, proved of each step from the invariant before it.

`Waits`: `WaitsTypeCorrect` and `TimeIsKept`, for any depth of waits in waits. `Honest`
relates a wait's flags to its times; `Nested` says that an outer wait is given at least
the time of the inner ones, so that the innermost loop, which alone lets time pass, keeps
the time of all.

`Commands`: `CommandsTypeCorrect` and `CommandsAllEnd`, for any number of calls. `Told`
fixes what each object has emitted at each stage of its thread; `OnItsWay` says that what
a thread has posted is in the owner's inbox until it has been delivered, and that
delivering it is what ends the thread and deletes the objects. At rest the inbox is empty,
so everything has been delivered.

`ComputingProofs` is about the modules that compute. What they compute is defined by
recursion on sequences or numbers, so these proofs are inductions. An induction theorem
takes an operator as its parameter, which the provers cannot supply; `DataProofs` says the
same of sets: a set of naturals that is not empty has a least element (`WFMin` on
`NatLessThanWellFounded`). The set is that of the counterexamples.

- `BinaryFile`: `BinaryTypeCorrect`, `SweepsAreExact`, `SearchesAndMovesAgree`, for files
  of any length. The invariant `BinaryInv` says that a file is whole records, and
  `Sweeping` that it is, up to the end of the last range still to be removed, what was
  searched, and behind that what was searched without the records wanted. `findAllRanges`
  is shown to list exactly the maximal runs, by induction on what it has read; `move` by
  cutting the file in four pieces.
- `Numbers`: `NumbersTypeCorrect` and `WrapsLikeArithmetic`, for every base of a byte:
  copying three bytes of a word is a remainder, and a remainder of a remainder is one.
  `ConversionsHold` has a lemma for each conversion. Those about bits rest on powers of 2
  defined by recursion: with no bit below the k-th a word is a multiple of that power;
  after the shifts of `clp2` every bit below the highest is set, so that one more is a
  power. Addresses are read by following `Filter` past each dot.
- `XmlParse`: `ParseTypeCorrect` and `WalksVisitAll`, for any number of children. `WalkedTo`
  splits the children where the walk is: of the elements it visited, those that still
  stand are those before that place, in their order. If the functor changes nothing, they
  are all it visited.

Only assumptions named in the modules are used: `Count`, `MaxSize`, `MaxId`, `PortTime`
and `RecordSize` positive, bounds natural, no more children than nodes; that stand-ins for
nothing are not among the things they stand in for (`NoneAssumption`, `PathsAssumption`,
`CommandsAssumption`, `ContentsAssumption`); that the key of the work directory is a key
(`KeysAssumption`); that a thread `Main` exists, the default name is a name, levels are
those of Qt (`ThreadsAssumption`, `NamesAssumption`, `LevelsAssumption`); that a byte has
at least two values and a word is `Width` bits (`BaseAssumption`, `WidthAssumption`, true
of 256 and 32), and that a million is no more than a word holds (`ThousandAssumption`).
TLC evaluates them in the run of each module.

Left to TLC, and why:

- liveness (`CallsReturn` of `Logging` and of `FtpEngine`, `FinishEnds`, `DestroyReturns`,
  `QueriesReturn`): under fairness, and with ENABLED, it is out of the prover's reach;
- `StylesReplaced`: a search for one text in another, repeated over the parameters of a
  style that each replacement changes; not attempted;
- `ChecksumsMatch`: the module `Bitwise` is recursive, and the prover refuses it;
- `TypeOK` of `MCHelpers`: the conjunction of the parts' type invariants, each proved
  except those of `Checksums` and `Xml`;
- the expected violations, which are behaviours and need no proof.

## Not modelled

`PROJECT.json` lists every part left out with the reason. Formatting, date conversion,
progress signals and SSL warnings carry no state. FTP answers arrive whole. Races on
`QMap`, `QString` and other data that are undefined in themselves are taken as atomic steps. The return codes of
`SaveToFile` are left out, as no property reads them. `XmlBase` parses and prints one
static document; two threads in it are undefined behaviour of Qt. `XmlAttr` with fewer new
values than attributes does not end; the code asserts that they are as many. `RemoveSubstr`
does not end for an empty string. `LoadFromFile`, the searches for files, `XmlParse`'s
readers and the getters only read; `error.h`, `colors.h`, `datatypes.h`, `helper.cpp` and
`singleton.h` hold constants, types, output and one function-local static.

## Plan

1. Done: the log and its rotation with proofs; logging; `ThreadPool` with proofs;
   `HttpEngine` with `QueriesInTurn`; `FtpEngine`; `BinaryFile`; `Settings`; `Archives`;
   `Files`; `Commands`; `Numbers`; `Checksums`; `Waits`; `Xml`; `XmlParse`; `MemSettings`.
2. Left to model: `removeOlderThan` with its list and the order of removal; an abstract
   archive that `Archives` implements for calls that do not overlap.
3. Done: the proofs above. Left to prove: `StylesReplaced`, which needs lemmas about the
   first occurrence of a text in another, and the refinement of item 2 once it is stated.
