# A verification of the Eiffel Web Framework's server core

TLA+ models of the part of the Eiffel Web Framework (EWF) between a web server
and a service written in Eiffel: the FastCGI library that the framework carries
with it (`library/server/libfcgi`, C) and the EWSGI connectors on top of it
(`library/server/ewsgi`, Eiffel).  TLC checks the models on small instances,
TLAPS proves the safety of eight of them for every value of their constants, and
that three of them implement an abstract specification.
Paths below are relative to the root of the repository; `libfcgi/` stands for
`library/server/libfcgi/Clib/libfcgi/libfcgi/`.

## 1. Inventory

### 1.1 The parts and how they interact

```
   web server / HTTP client
        |  FastCGI records over a socket or pipe     |  HTTP          | CGI
   +----v--------------------------------------+     |                |
   | os_unix.c / os_win32.c                    |     |                |
   |   OS_Accept, OS_IpcClose, lock / mutex    |     |                |
   |   OS_AsyncRead/Write, OS_DoIo             |     |                |
   +----^----------------^---------------------+     |                |
        | OS_Read        | OS_Write                  |                |
   +----v-----+     +----v-----+                     |                |
   | fcgiapp  |     | fcgiapp  | <-- FCGX_VFPrintF   |                |
   | reader   |     | writer   | <-- fcgio.cpp       |                |
   +----^-----+     +----^-----+     (iostreams)     |                |
        | FCGX_GetStr    | FCGX_PutStr               |                |
   +----v----------------v-----+                     |                |
   | fcgi_stdio.c              |                     |                |
   +----^----------------^-----+                     |                |
        | FCGI_fread     | FCGI_fwrite               |                |
   +----v----------------v---------------------------v----------------v---+
   | EWSGI: WGI_LIBFCGI_CONNECTOR   WGI_NINO_CONNECTOR  WGI_CGI_CONNECTOR |
   |        WGI_REQUEST, WGI_RESPONSE_STREAM, input and output streams    |
   +----^-----------------------------------------------------------------+
        | service.execute (req, res)
   WSF_REQUEST / WSF_RESPONSE, form decoding, router, URI templates, service
```

| Part | State | Operations | What is hard about it | What makes it correct |
|---|---|---|---|---|
| async I/O table (`os_unix.c`) | `asyncIoTable`, the read and write sets, their posted copies, `numRdPosted`, `numWrPosted`, `maxFd` | `OS_LibInit`, `OS_AsyncRead`, `OS_AsyncWrite`, `OS_Close`, `OS_DoIo` | callbacks run in the middle of the dispatch scan and change what is scanned | no mark outlives its descriptor; nothing registered is missed or lost; operations complete |
| accepting (`os_unix.c`) | the `fcntl` lock, `shutdownPending`, the local `socket` and `sa` of `OS_Accept` | `OS_Accept`, `AcquireLock`, `ReleaseLock`, SIGUSR1, `OS_IpcClose` | several processes, a signal at any point, failing and interrupted calls, clients that give up | mutual exclusion on every path; only checked connections are served; none leaks; queue drained; shutdown honoured |
| reader (`fcgiapp.c`) | `FCGX_Stream` and `FCGX_Stream_Data` of the input, `FCGX_Request` | `FCGX_Accept_r`, `FCGX_GetStr`, `FillBuffProc`, `ProcessHeader`, `ReadParams`, `SetReaderType`, ... | bytes arrive in arbitrary pieces; records of other requests in between; recursion; the peer dies anywhere | an application gets exactly its streams; end of file means all of it; queries are answered |
| writer (`fcgiapp.c`) | two output streams with buffers, `nWriters`, `appStatus` | `FCGX_PutStr`, `FCGX_FFlush`, `FCGX_FClose`, `EmptyBuffProc`, `write_it_all`, `FCGX_Finish_r` | records are laid out in place, in buffers that may be full; partial and failing writes; close order | no overflow; well-formed records; complete answer or closed connection |
| OS layer on Windows (`os_win32.c`) | `fdTable`, completion ports, `acceptMutex`, `hListen`, two threads | descriptor allocation, `OS_AsyncRead*`, `OS_DoIo`, `StdinThread`, `OS_Accept`, `OS_IpcClose` | threads and the system post to the same queue; descriptors are reused; shared mutex | table agrees with the system; one completion each, in order; mutex given back |
| connectors and response (EWSGI) | `status_code`, `header_committed`, `res`, `rescued` | `launch`, `process_request`, the features of `WGI_RESPONSE_STREAM`, `read_input_data` | exceptions anywhere, also in the rescue clause; content in pieces | one well-formed response per request; every staying client answered; whole content read |
| `fcgi_stdio.c` | `_fcgi_sF` (a FILE and a stream for each standard file), `environ`, `acceptCalled`, `isCGI` | `FCGI_Accept`, `FCGI_Finish`, `FCGI_fopen`, `FCGI_fclose`, `FCGI_freopen`, reading and writing, exit | files closed, reopened and failing in any order between requests; freed streams; exit | no dangling pointers; no FILE lost; every request answered, with its status |
| `FCGX_VFPrintF` (`fcgiapp.c`) | position in the format, arguments taken, sizes of two buffers | one call | a specifier is scanned twice; `sprintf` into buffers of estimated size | arguments in step; honest count; no overflow |
| `fcgio.cpp` | get and put area, the attached stream | `overflow`, `underflow`, `sync`, `xsputn`, `xsgetn`, `setbuf`, `attach` | loops of the base class; buffers and streams exchanged in between | characters in order; a successful flush means all of them |
| Eiffel wrapper | none | `put_string`, `read_from_stdin` | | forwards |
| WSF, router, URI templates, CONNEG, encoders, HTTP client, ... | none beyond one request | string and table processing | grammar corner cases | equal to a reference definition |

`PROJECT.json` lists every component with its sources and status, and under
`hazards` what a test would hardly reach, each at its line.

### 1.2 What is left out, and why

* Third-party cryptography (`library/crypto`), drafts, examples, tools: not the
  framework's own logic.
* Socket creation, `OS_SpawnChild` and `OS_FcgiConnect` on UNIX: straight lines
  of system calls.  The writers of the cgi-fcgi bridge (`FCGX_CreateWriter`).
* HTTP header text, encoders, CONNEG (which uses floating-point qualities):
  conversions without state.
* WSF, router, URI templates: planned (section 6).

## 2. Modules

One module per component; `MC*` modules hold the values of constants for TLC,
`*_proofs` modules the theorems.  Definitions carry the names of the functions
they model; `PROJECT.json` maps each to its lines.  A definition with a
comment "Mutant:" is not part of a specification: it is a plausible wrong
version of the definition after it, used to show that a property can fail.

### OsAsyncIo: the asynchronous I/O table

The code's doubled variables are functions on `Dirs == {"rd", "wr"}`.  `pc` and
`fd` are the position in the scan of `OS_DoIo`; in `"cbrd"` and `"cbwr"` a
callback runs and every operation of the application is enabled, as in the code.
`OS_Close` keeps the code's details: it clears marks, does not touch the
counters and lowers `maxFd` by one only if the closed descriptor is the highest.
`careful` is chosen in `Init`: a careful application never closes a descriptor
whose completion is posted and not dispatched.  A descriptor past the end of the
table has no entry; `OS_Close` does not test for it.  Buffers, offsets and callback
pointers are left out.  A callback that calls `OS_DoIo` itself is not modelled.

### OsAccept: OS_Accept in several processes

One `pc` per process through both loops of `OS_Accept`; `where` says where each
connection is.  `socket` keeps its value when what it names is closed, as the
local variable does.  `Signal` and `OS_Sigusr1Handler` interrupt any process
anywhere.  `good` is the outcome of `ClientAddrOK` (TCP) or
`is_af_unix_keeper` (UNIX domain).

### FcgiReader: the input of a request

A connection is a *script*: the records the web server sends, laid out byte
after byte.  The reader's pointers are byte numbers, what the application has
received a set of byte numbers, so that loss, duplication and reordering all
show.  `Read` may return any positive number of the bytes sent so far (that
fit); the server may drop the connection at any byte (`srvOpen`, `cut`).  The
recursion `FillBuffProc` - `ProcessHeader` - `FillBuffProc` is made explicit by
`ret` and `outer`, and `half` keeps the state of the two `ReadParams` apart, that
of the environment and that of a `FCGI_GET_VALUES` which arrives in its middle.

`SupportedScript` says what a server must keep to for the library to follow it;
each clause was found by a counterexample, from TLC or from a proof that did not
go through (section 5).  Padding and content: none where the library takes it for
something else, and some after `FCGI_GET_VALUES`.  Order: nothing of a stream
after its end (the library would hand it to nobody and `ContentOf` would miss
it); a request id is used again, and a kept connection continued, only when what
came before has been answered (`Waits`: the reader throws away what it has
buffered when the next request is accepted); another request begins only while
one of the owner's is being read (else the library takes it for the owner's).
A web server that does not multiplex and waits for `FCGI_END_REQUEST` keeps to all
of these.

### FcgiWriter: the output of a request

Buffers are sequences of tagged bytes; the web server's parser (`rx`) takes what
arrives apart again.  `write_it_all` transfers any positive number of bytes at a
time, or fails.  Two streams, closed in any order by the application or by
`FCGX_Finish_r`; the last one ends the request.

### FcgiRequest: what the library promises the web server

An abstract specification with three variables: the `phase` of a connection
(closed, idle, busy), whether the web server is `owed` (the rest of) an answer,
and whether the connection can be `trust`ed (sound, broken, or an error on it
was cleared by the application).  Its one rule is that of `FCGX_Finish_r`: a
connection is kept for another request only when nothing is owed and no
stream has an error.  `FcgiReader`, `FcgiWriter` and `FcgiStdio` each instantiate
it with a refinement mapping (`Request`) and are shown to implement it
(`ImplementsRequest`): the reader where errors come from the input, the writer
where a write breaks off inside a record, the stdio package where the
application closes and abandons the streams.

### FcgiStdio: the standard files

A stream is known by the number of its request and the standard file it was made
for; of its bytes the model keeps whether some are buffered.  `FCGI_Accept`,
`FCGI_Finish` and exit share the steps of `FCGX_Finish_r` (`closeErr`,
`closeOut`, `free`), and return to where `ret` says.  The FILEs and the
`FCGI_FILE`s of `FCGI_fopen`, `fdopen`, `popen` and `tmpfile` are taken from small
sets; `malloc`, `fopen` and `freopen` may fail.  The application may do anything
except use its standard files after a failed `FCGI_Accept` ("application should
exit") or a file that `FCGI_freopen` failed to reopen.  A failed `ASSERT` in
`FCGI_fwrite`, and the NULL that `FCGI_StartFilterData` passes on when stdin stands
for nothing, end the process (`aborted`) without the exit handler.  `lastSet` is
the status in the last call of `FCGI_SetExitStatus`, whatever the code did with it;
`StatusHonoured` compares it with what is sent, and its two exceptions are the
cases in which the code does not do what the function's comment promises.

### FcgiPrintf: FCGX_VFPrintF

A format is a sequence of directives with the properties of their arguments
(type, length).  The model follows the fast path, its second scan as the slow
path, the arguments `va_arg` takes on both, and the sizes of the buffer on the
stack, the auxiliary buffer and the rebuilt specifier; characters are counted.
What `sprintf` writes (`Wrote`) is external and may be more than `strlen` finds
(`Strlen`), after `%c` of a NUL.  The exponent of a long double is that of the
double it is cast to (`DoubleExponent`).  A failed assertion or allocation aborts
the process or, as in a build without assertions, does not; what is overwritten
then is not modelled.  The formats are a constant: text between two directives
is not empty, numbers written in a format are not negative, and an integer needs
no more than `LongestInteger` characters by itself, the figure in the code's
estimate.

### FcgiStreambuf: the C++ stream buffer

Character `i` of request `r` is `<<r, i>>`, so that loss, duplication and
reordering show.  `gbuf`, `gptr` and `pbuf` are the get and the put area; the
loops of `std::streambuf` that call `overflow` and `underflow` are made explicit
by `todo`.  The application attaches the next request, changes the buffer and
destroys the stream buffer at any point between calls.  An error closes the
stream underneath (`failed`), but, as `FCGX_PutStr` looks at `isClosed` only when
its buffer is full, it takes what fits in the `room` that is left, and
`FCGX_FFlush` of a closed stream succeeds.  A read above `INT_MAX` gives nothing,
which the istream reports as an end of file (`refused`).

### OsWin32: the Windows layer

A process is a server or a bridge between standard I/O and FastCGI.  `ops` is
the history of the overlapped requests, each with the place where it is waited
for; `port` and `stdinPort` are the completion queues.  `waiting` says whether a
client is at the listening socket: only then can `select` return for it
(`acceptSocket`, `acceptSocket_Refuse`), and only without one does it time out and
is the flag looked at (`acceptSocket_Timeout`).  `OS_ShutdownPending` sets the
flag; `ShutdownRequestThread` also ends a process that listens at a pipe.

### WgiConnector: the Eiffel connectors

The loop of requests, `service.execute` as any sequence of features that the
preconditions allow, an exception anywhere, and the rescue clause with `retry`.
The client may go away: then writes raise exceptions in the CGI and Nino
connectors and are ignored by libfcgi (`Raises`), unless the assertion in
`FCGI_fwrite` aborts the process (`Aborts`).  An exception may have no trace
(`rescue_untraced`).  `read_input_data` reads the content in strings of at most
`Chunk` bytes; the length goes through an `INTEGER_32` whose width is a constant
(`TwoTo31`, `nb32`), so that it may turn negative or into 0.  What the Eiffel runtime
does with a string of negative size is external: an exception, or the end of the
process.

## 3. Runs

| Run | Instance | Checks |
|---|---|---|
| `async_table` | descriptors 0 and 1, a table of two entries, so it grows | `ClosedForgotten`, `TableCovers`, `OutstandingHeld`, `PostedCounted`; `OperationCompletes` |
| `accept` | two processes, two connections, locking, TCP or UNIX domain | `LockDiscipline`, `ServesOwnApproved`, `NoLeak`, `ShutdownBound`; `QueueServed` |
| `reader` | two connections, scripts of web servers that keep to `SupportedScript` and of some that do not, buffer of 8 bytes, 2-byte headers | `Delivered` (in order, and all of it at the end), `StreamsInTurn`, `PositionAccounted`, `PassedAnswered`, `QueryAnswered`; `ImplementsRequest` |
| `writer` | two requests, buffers of the smallest size (4 units), writes that fit, fill and overflow | `BufferFits`, `ResponseIntact`; `ImplementsRequest`, `CallsReturn` |
| `stdio` | two requests, two FILEs, one `FCGI_FILE`, two exit statuses, stdout may be reopened | `NoDangling`, `FilesHeld`, `RequestsAnswered`, `StatusHonoured`; `ImplementsRequest` |
| `printf` | formats of up to three directives: every operation, plain and with flags; `l`, `L` and sizes that are refused; widths none, 99, 100, 500, -99, -100 and too large; precisions none, 95, 200 and negative; the longest integers and doubles, long doubles within and beyond the range of a double, NUL characters | `ArgumentsInStep`, `CountHonest`, `FormatFits` |
| `streambuf` | two requests, no buffer or buffers of 1 and 2, calls of 1, 2, 4 and 5 characters with `INT_MAX` = 4 | `InputInOrder`, `OutputInOrder`, `FlushedMeansAll` |
| `win32` | table of 4 entries of which standard I/O takes 3, one handle that is a valid index and one that is not, 2 operations, 2 opens | `SocketsAccounted`, `OneCompletion` (one completion per operation, those of standard input in order), `MutexDiscipline`; `OperationCompletes`, `ShutdownStops` |
| `connector` | three connectors, two requests, contents of 0, half, 1 and 1.5 chunks, and, with integers of 3 bits for `INTEGER_32`, lengths that turn negative (5), into 0 (8) and into a smaller one (10 and 11) | `ResponseShape`, `Answered`, `FormComplete`; `RequestEnds` |
| `async_leak`, `accept_shutdown`, `reader_multiplex` | as above, one property each | disagreements of the code with its comments (section 5) |

**Bounds.**  Descriptors, processes and connections are interchangeable apart
from order, and every interaction the code has is between two of them (a
descriptor being dispatched and one being closed; a holder of the lock and a
waiter; a request and the next one on the connection).  Sizes are scaled: the
reader's and writer's arithmetic depends on comparisons between header length,
buffer size and record lengths, and the chosen lengths make content, padding and
headers end before, at and after the end of the buffer.  The writer's buffers
have the smallest size that `NewStream` allows; two requests show what one
leaves behind for the next.  The connector's `Chunk` of 2 replaces 1024, and its
`TwoTo31` of 4 the 2^31 of the code.
`FcgiPrintf` keeps the code's sizes (100, 25 and the limit of six digits): each
directive is run before and after one that takes its argument on either path.
In `stdio` one `FCGI_FILE` is enough for two FILEs to compete for it, and only
stdout is reopened because the three standard files differ in nothing that
`FCGI_freopen` looks at; the proofs need neither restriction.

**Deadlock checking** is on in the runs of `OsAsyncIo` and off elsewhere: a
server that has exited, a client with nothing more to send and a bounded number
of requests are legitimate ends.

**Fairness.**
* `OsAsyncIo`: the application calls `OS_DoIo` in a loop and callbacks return
  (weak); `select` does not leave a ready descriptor out for ever (strong).
* `OsAccept`: each process takes its next step (weak), and a process that is
  again and again able to accept a connection succeeds some time rather than
  failing or being interrupted always (strong).
* `FcgiWriter`: the library's loops go on: a write transfers something or fails.
* `OsWin32`: the program calls `OS_DoIo`, serves and accepts again, `select`
  returns when a client waits and after a second without one, other processes release the mutex (weak); the
  system does not starve a waiter on a mutex (strong).
* `FcgiReader`, `FcgiStdio`, `FcgiPrintf`, `FcgiStreambuf`: none is assumed; their
  properties, `ImplementsRequest` included, are safety.
* `WgiConnector`: the service ends by itself, the client sends its content or
  goes away, the connector's own steps are taken (weak).

## 4. Proofs

The `*_proofs` modules prove, for every value of the constants:

| Theorem | Property |
|---|---|
| `AsyncTypeOK`, `AsyncClosedForgotten`, `AsyncTableCovers`, `AsyncOutstandingHeld`, `AsyncPostedCounted`, `AsyncScanEnds` | of `OsAsyncIo` |
| `AcceptLockDiscipline`, `AcceptServesOwnApproved`, `AcceptNoLeak`, `AcceptShutdownBound` | of `OsAccept` |
| `StdioTypeOK`, `StdioNoDangling`, `StdioFilesHeld`, `StdioRequestsAnswered`, `StdioStatusHonoured`, `StdioImplementsRequest`, `StdioNothingOwed` | of `FcgiStdio` |
| `PrintfArgumentsInStep`, `PrintfCountHonest`, `PrintfFormatFits`, `PrintfTerminates` | of `FcgiPrintf` (in `FcgiStdio_proofs`) |
| `ConnectorResponseShape`, `ConnectorAnswered`, `ConnectorHeaderAgrees`, `ConnectorFormComplete`, `ConnectorReadingEnds` | of `WgiConnector` |
| `ReaderDelivered`, `ReaderStreamsInTurn`, `ReaderPositionAccounted`, `ReaderPassedAnswered`, `ReaderQueryAnswered`, `ReaderImplementsRequest`, `ReaderNothingOwed` | of `FcgiReader` |
| `WriterBufferFits`, `WriterResponseIntact`, `WriterImplementsRequest`, `WriterCallsEnd`, `WriterNothingOwed` | of `FcgiWriter` |
| `StreambufInputInOrder`, `StreambufOutputInOrder`, `StreambufFlushedMeansAll` | of `FcgiStreambuf` |
| `Win32SocketsAccounted`, `Win32OneCompletion`, `Win32MutexDiscipline` | of `OsWin32` |

Each rests on one inductive invariant `IInv` (`PrintfInv` for `FcgiPrintf`), the conjunction of the type
invariant, the properties and what they need to be inductive.  TLC has checked
each `IInv` on the instance of the component's run before it was proved.

* **OsAsyncIo** (from `LastFd \in Nat`, `InitTableSize >= 2`).  `UnusedEmpty`: `OS_Close`
  returns early while `asyncIoInUse` is false, so the sets must be empty then or
  a close would leave marks behind.  `CursorInRange`: the scan's cursor is a
  descriptor wherever its entry is touched.  `PostedCounted` needs the
  cardinality lemma `FdSetsFinite`.  `AsyncScanEnds`: the loop test of `OS_DoIo`
  reads `maxFd` again and callbacks raise it, so the bound of the scan is the
  largest descriptor, not the `maxFd` it began with; each step lowers `ScanLeft`
  and nothing a callback does changes it.
* **OsAccept** (from `None` and the processes being distinct from the other
  values).  `SocketHeldOrRefused`: the stale value of `socket` is never approved,
  which is the reason that a connection closed in an earlier iteration cannot be
  served.  `LateOnce`: only a process that was asked to stop has accepted late,
  and it does not reach `accept` again.
* **FcgiStdio** (from the standard files, the other `FCGI_FILE`s, the FILEs and
  NULL being distinct).  `Control`: streams exist only between `FCGX_Accept_r`
  and `FCGX_Finish_r`.  `Ends`: `nWriters` counts the writers that are not
  closed, so the last one is the one that ends the request (`Counted`,
  `Answering`), and a failed write leaves an error that `FCGX_Finish_r` sees,
  unless the application has cleared it (`Seen`).  `Status`: as long as no call of
  `FCGI_SetExitStatus` was ignored, `appStatus` is the last one set or the inherited
  one until the request is answered, and `sentStatus` is after.  `Held`: a FILE has one holder
  or is in `FCGI_fopen`'s hand, and what is held is open.  The refinement
  `StdioImplementsRequest` goes action by action: `Accept_Connect` is `Connect`,
  `Accept_Request` is `Begin`, closing a writer is `Answer`, `Fail` or a stutter,
  `FCGI_clearerr` is `Waive` or a stutter, and `Finish_Free` is `Keep` or `Close`,
  where `Keep` is the step that needs `Seen` and `Answering`.
* **FcgiRequest**.  `NothingOwed`, the promise of the abstract specification, is
  proved once about its steps and holds of reader, writer and package by their
  refinements (`ReaderNothingOwed`, `WriterNothingOwed`, `StdioNothingOwed`).
* **FcgiPrintf** (from `FormatsAssumption`, for any set of formats).  `PrintfInv`:
  the cursor is within the format (`InFormat`); the arguments taken are those of
  the directives before it, with those the current one has taken on either path
  (`ArgsTaken`, `Scanned`); the count is what has been written and, if all
  directives are printed as in C (`AllAsInC`), the sum of what C prints for those
  before the cursor (`CountKept`); the buffer chosen has room for the conversion
  and is no shorter than a positive width (`Room`).  Sums over the format are the recursive
  function `SumBefore`, whose equations (`SumsDefined`, `BeforeStep`) are proved by a
  least counterexample.  `SlowConversion` shows that the code's estimate covers
  what `sprintf` writes, the width apart; for `%f` it needs that a number with binary exponent `e`
  has at most `e/3 + 1` decimal digits before the point (`Exponents`).
  `DigitsBound` gives the 22 of 25 bytes that a rebuilt specifier can take.
  `PrintfTerminates`: every step lowers `Left`, at most eight steps for each
  directive that is left.
* **WgiConnector** (from `Lengths \subseteq Nat`, `Chunk > 0`, `TwoTo31 > 0`).  `Progress`
  relates `pc`, `status_code` and `header_committed` to the number of items the
  client has received; `TraceLast` says that the trace is sent at the end of an
  execution only; `left + got = length` keeps the unsigned `n64` from wrapping and
  gives `FormComplete`.  `ConnectorReadingEnds`: while there is a reading, what is
  left is not zero (`Remaining`), and the size asked for is not 0 unless the length
  is a multiple of 2^32 (`Width`), so that each round takes something off it, and
  a short read sets it to 0.
* **FcgiReader** (from headers, BEGIN bodies and buffers that are not empty, and
  scripts whose records follow one another without a gap).  The invariant has two
  halves.  `Control /\ History` holds whatever the server sends and the application
  does.  `Control`: the buffer, the calls of `FillBuffProc` and their returns, the
  phases of a request, the bytes of a BEGIN body that are still to come.
  `History`: records whose headers have been read lie behind the reader
  (`Behind`), so a header that is read is new and no record is answered twice
  (`Answers`); a pair is two bytes (`Environment`); what has been sent, the server
  was allowed to send (`Sending`).  The refinement needs no more than this half
  (`ReaderControl`).  The other half is about a supported server and an application
  that reads to the end (`Good`).  `Following`: the reader is `Aligned` (counters,
  current record and bytes received agree: `Accounted`, `Current`, `Exact`), or
  `Dead` (it has reported an error and is read no more), or `Astray` (the
  environment ended by an error within a record; the reader is in the middle of
  it, where it finds no header until the connection is closed).  `Exact` says
  that what the client has are the bytes of its streams before `pos`; every step
  that moves `pos` either takes bytes of the stream that is read (`TakenBytes`) or
  passes bytes of no stream (`PassedBytes`, `InHeader`), and at the end of a
  stream `EndMeansAll` gives the rest.  `Owned`: the requests on the connection are
  the owner's, one after the other, which is where the answers a server waits for
  come in (`NotSentYet`, `NoReuse`, `NothingLeft`).  `AllAnswered` and `Queries`:
  what calls for an answer has it, except for the query that is being read, whose
  padding is still ahead (`Reading`), so that `FillBuffProc` does not wait within
  it.  `Received` gives `Delivered` and `StreamsInTurn`.  Two lemmas say once which
  of the steps touch neither the records nor the answers (`RecordsLeftAlone`) or
  none of the streams (`StreamsLeftAlone`); the proofs about those parts then look
  only at the other steps.
* **FcgiWriter** (from `Unit > 0`, buffers of at least four units).  The property
  `ResponseIntact` speaks of what the web server has; the proof must speak of what
  it will have.  `Pending` is the sequence of the bytes that are certain to be
  sent: the rest of the buffer that `write_it_all` is working on and, while a
  stream is closed, the buffer and what `WriteCloseRecords` has still to put in
  it.  `Sending` says that, as long as no write has failed, these bytes lead the
  web server (`Leads`: there is a trace of `Receive` steps) from `rx` to a state
  that is `Expected`: between two records, ended if and only if `nWriters` is 0,
  with all of the streams that are closed, and for a stream that is open with
  everything up to what its buffer holds (`Holding`).  Each action either takes a
  byte off `Pending`, or adds the bytes of one or more whole records; that a whole
  record leads from between two records to between two records is the lemma
  `LeadsRecord` (header, content, padding), with `LeadsEof` and `LeadsEnd` for the
  other two kinds.  `Control` relates `nWriters`, `rawWrite` and
  `wasFCloseCalled` to `pc` and `ret`, so that FCGI_END_REQUEST is put by the last
  close.  `BufferFits` needs the lemma `EncapsulatedFits`: content rounded up to the
  unit stays below the size because the size is a multiple of it.  For the
  refinement, an answer is `Complete` exactly when the server has understood
  FCGI_END_REQUEST, and then nothing is pending: a write that can fail, or another
  byte, means that the answer is still owed.  `WriterCallsEnd` gives each state
  within a call a `Rank`: the phase of the call (closing comes before freeing, a
  flush before an end of stream), what is still to be put, whose turn it is
  (fill, encapsulate, write) and what is unsent.  Ranks are ordered
  lexicographically, which is well-founded, and every step of the library lowers
  them: a full buffer that is emptied leaves the turn to the filling again, but
  with less to put.  `CallsReturn` is this and the fairness of `FairSpec`.
* **FcgiStreambuf** (for buffers, calls and requests of any size).  The characters of a request
  are `Chars(r, 0, n)`; the invariant says where each part of that sequence is: in
  `read`, between `gptr` and the end of the get area, or still in the stream, and
  for output in `out`, in the put area, or in the hand of `xsputn`.  For a stream
  that an error has closed this holds as long as it still `Takes` something; when
  its buffer is full it never takes anything again, whatever the put area holds.
  `FlushedMeansAll` needs besides that every error but one met by the destructor
  has been reported (`Told`).
* **OsWin32** (for tables and handles of any number).  `TInv` relates the table to the handles
  that are open and to the control of `OS_LibInit` and `OS_Accept` (each socket
  behind one descriptor, the listener's entry, the keys of the completion port);
  `OInv` says in which queue each overlapped request is (`Named`, `Once`,
  `Queued`), that standard input's queue is sorted and that nothing that was lost
  has a later request delivered after it (`Ordered`, `Lost`).

Only model-checked, as the prover has no rules for fairness: the liveness
properties `OperationCompletes`, `QueueServed`, `CallsReturn`, `ShutdownStops` and
`RequestEnds`.  For `CallsReturn` the part that does not depend on fairness, the
rank, is proved.  The library's induction theorems cannot be instantiated here;
where a proof needs an induction over a length (`LeastElement` in the proofs of
reader, writer, `FcgiPrintf` and `OsWin32`), it goes by a least counterexample
instead, from `WFMin`.

## 5. What the models show about the code

Each of these has a run whose counterexample shows it (see `findings`):

1. `async_leak` (`WorkSeenWhenNothingPosted`): `OS_Close` clears a posted bit and not the counter; `OS_DoIo`
   never selects again.
2. `reader_multiplex` (`EveryEndMeansAll`): `skip` survives an empty record of another request and
   the next record of the own request is dropped.
3. `accept_shutdown` (`ShutdownLeaves`): a pending shutdown after a refused connection makes
   `OS_Accept` loop for ever, with the lock held on a TCP socket.

Met while modelling, part of the models, without a run of their own:

* Reader: `ReadParams` returns 0 when the connection is lost between two pairs
  (`libfcgi/fcgiapp.c:2272`), so `FCGX_Accept_r` hands a truncated environment to
  the application, with the error pending on the input stream
  (`StreamsInTurn` is stated for streams without one).  The content of a
  management record of unknown type is delivered to the application; padding
  after a BEGIN body or an end-of-stream record is taken for a header; a kept
  connection with unread input misreads the next request.  A second
  `FCGX_StartFilterData` drops data.  `appStatus` of a request survives into the
  next one that sets none, which reports a status that is not its own, where the
  comment at `fcgi_stdio.c:244` promises "the status code the request would have
  exited with" (the exception `inherited # 0` of `StatusHonoured`).  An unpadded `FCGI_GET_VALUES` that ends with the
  buffered bytes is not answered while the server waits (`QueryAnswered` is
  stated for the others); `ProcessManagementRecord` does not free its parameters
  when the type is unknown.
* Asynchronous table: `OS_Close` reads the entry of a descriptor that was never
  registered, past the end of the table too (`libfcgi/os_unix.c:731`).
* Writer: after a write error `FCGX_FClose` writes the buffer again.
* `fcgi_stdio.c`: a failing `FCGI_Accept` leaves the standard files and `environ`
  pointing at what it has freed; a FILE that `FCGI_freopen` has put in a standard
  file is lost with the next `FCGI_Accept` (the `orphans` of `FilesHeld`);
  `FCGI_StartFilterData` does not test its stream for NULL; `FCGI_fwrite` asserts
  that the write has not failed, so that a web server that goes away aborts the
  process; `FCGI_SetExitStatus` does nothing once stdin is closed and is too late
  once both writers are, although "the last call before the request ends (by
  calling FCGI_Accept) determines the value" (`ignored` in `StatusHonoured`); a
  file that stands for nothing makes `FCGI_fprintf` return 0 and
  `FCGI_vfprintf` EOF.
* `FCGX_VFPrintF`: the bound for `sprintf` leaves a negative width out, leaves no room
  for the NUL of a width of 100 or more, and takes the exponent of a long double
  from a cast to double, which gives none for values beyond its range:
  `FormatFits` says that these are all, and how far the second goes.  `%c` of a
  NUL prints nothing, or the blanks before it, and a negative precision counts
  as 0 where C takes it for none (`AsInC`); `%lf` is refused.
* `fcgio.cpp`: at the end of the input `uflow` moves `gptr` on, so that an unget
  gives back the wrong character, and without a buffer a peek takes the
  character (`strayed`); a read of more than `INT_MAX` characters is reported as
  the end of the file with input left (`refused`); `attach` drops what was written
  and not flushed, and the destructor ignores that its flush fails.  A stream
  that an error has closed goes on taking what fits in its buffer and reports a
  successful flush, although `SetError` says that "writes have no effect"
  (`libfcgi/fcgiapp.c:966`); `FlushedMeansAll` counts such an error as reported by
  the call that met it.
* Windows: `instance` never changes, so that callbacks of closed descriptors are
  called; `OS_FcgiConnect` tests the result of `connect` the wrong way round;
  `OS_IpcClose` returns early when `FlushFileBuffers` or `DisconnectNamedPipe`
  fails and the entry of the table is lost (`SocketsAccounted` is stated for
  sockets); `OS_Close` never closes pipe handles; `StdinThread` ends at the end
  of the input without posting the completion; `OS_CreateLocalIpcFd` leaks its
  socket when `bind` or `listen` fails; `shutdownPending` is looked at only when
  `select` times out, which clients that are refused one after the other prevent
  for ever, and `OS_ShutdownPending` does not stop a process that waits in
  `ConnectNamedPipe` (the two exceptions of `ShutdownStops`).
* Connectors: an exception between status and end of header leaves a response
  without an end of header; with CGI and Nino, a client that goes after the
  header makes the rescue clause fail and be retried for ever (`Retrying` in
  `RequestEnds`); a CONTENT_LENGTH that is a multiple of 2^32 makes
  `read_input_data` ask for 0 bytes for ever (`Endless`), and one between 2^31 and
  2^32 creates a string of negative size; an exception without a trace leaves the
  client without a status; with Nino a short read is taken for the end of the
  content (the exception stated in `FormComplete`).
* Eiffel wrapper, not modelled: `fcgi_end_of_input` is inverted (`feof = 0`);
  `set_fcgi_exit_status` ignores its argument; the precondition
  `a_text_does_not_has_ending_crlf_crlf` compares five characters with four.

## 6. Plan

Order: the parts where several actors meet came first (1 to 6, done), then the
layers that use them, then pure algorithms.

1. `OsAsyncIo` + proofs - done.
2. `FcgiReader` + proofs - done.
3. `FcgiWriter` + proofs - done.
4. `OsAccept` + proofs - done.
5. `OsWin32` + proofs - done.
6. `WgiConnector` + proofs - done.
7. `FcgiRequest`, and the refinements of `FcgiReader`, `FcgiWriter` and `FcgiStdio`
   + proofs - done.
8. `FcgiStdio` + proofs, `FcgiStreambuf` + proofs, `FcgiPrintf` + proofs - done.
9. `WsfRequest`: form data to tables, `name[key]` merging, lookup order, against
   a reference definition.
10. `RequestRouter`: choice of a handler by path, method and nesting, against a
    reference definition; URI templates over abstract segments.
