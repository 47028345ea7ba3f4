# A TLA+ model of situ

situ compiles a schema of messages into code for C, C++, Rust and Python.  The
compiler is passes over an immutable tree and string templates; what has state,
time, callbacks and I/O is what the templates produce, and it comes in *layers*:

- **accessors**: setters, transforms and finalizers over one buffer, which keep
  track of the tags and derived fields a write has left stale;
- **rung 4, framing**: a reader that cuts a byte stream into messages in place;
- **rung 5, conversation**: a table of requests that wait for their replies;
- **rung 6, drive**: a machine that sends, retransmits, matches and gives up;
- **drivers**: the loops that run the machine over a socket and a clock (epoll,
  poll, select, ppoll and blocking over one template, io_uring, asyncio, Tokio, Qt).

This directory models, checks and proves those, and the passes of the compiler
they rest on where a pass has a promise of its own: which obligations a write
invalidates, what a struct's capabilities say of its members, what a comparison
of two revisions reports, and how imports are merged.  Every definition is
translated from the source, for generated code from the emitter that writes it;
`PROJECT.json` gives the lines.

## Inventory

| Part | State | Operations | Interacts with | What is hard | What makes it correct |
|---|---|---|---|---|---|
| Readers (`codegen/*/frame.py`, `walker/session.py`) | buffer, bytes held, length of the message handed out | `push`, `next`, `advance` | the caller; `required` and the view guard | C and C++ drop lazily, by whichever call comes next; Rust asks `required` again when it drops; Python copies | no byte lost or repeated, the view intact, never waiting for what cannot come |
| `<struct>_required` (`codegen/c/emit.py`) | none; what it answered before is a promise | one walk over the members | the readers | lengths the peer chose, runs of variable elements, sums that saturate | never more than the message has, never less than it said before |
| Pending table (`codegen/c/converse.py`) | slots of key and handle | `init`, `record`, `match` | the machine, or the user | two requests under one key, holes, a full table | a bounded bag of waiting requests |
| C machine (`codegen/c/drive.py`) | the pending table and a second table (request, handle, deadline, retries left) | `init`, `send`, `on_message`, `step` | `submit`, a clock, the loops | two tables kept in step, late and doubled replies, a 32-bit clock | each exchange ends once; retries add up; nothing before its timeout |
| C++ and Rust machine (`codegen/cpp/drive.py`, `codegen/rust/drive.py`) | one table | the same | the same | Rust's array of 32 submits a step | the same |
| Python machine (`codegen/python/drive.py`) | an insertion-ordered dict | the same | the same, with exceptions | a second request replaces the first; deadlines are not cut to 32 bits | only a request's own key ends it |
| C loops (`codegen/c/driver.py` and five waits; `io_uring.py`) | `stop`, the wait, the result; two rings and one receive buffer | `run`, hooks | the C machine, the user's hooks, a signal handler, the socket, the kernel | hooks that send or stop, a signal between check and wait, failures, operations submitted oldest first | one `on_done` per run, every expiry told, no oversleep, the run ends, the buffer never written while a hook reads it |
| asyncio loop (`codegen/python/asyncio_driver.py`) | future, timeout, `stop` | `run`, hooks | the Python machine, other tasks | sends and cancels during the await, hooks that raise | the same |
| Tokio loop (`codegen/rust/tokio_driver.py`) | the future, its timer | `run`, hooks, the drop of the future | the Rust machine, the runtime | `select!` drops the branch that lost | never deaf, ends, `on_done` once |
| Qt pump (`codegen/cpp/qt.py`) | `finished_`, a notifier, a timer, queued calls | `start`, `stop`, two handlers, the run function | the C++ machine, the event loop, hooks that re-enter it | a handler goes on with what it read before its hook stopped, started or deleted the pump | never deaf, ends, `on_done` once per start, not deleted under a handler |
| Message and views (`runtime/c/situ.h`, setters of `codegen/c/emit.py`) | the dirty word, the generation | setters, transforms, recompute, finalize, view checks | the coverage the compiler computed | a write that moves members, tags over tags | no stale tag or field without its bit; a view of an older layout is caught |
| Editor (`editor/document.py`) | buffer, history, notes | `set` and the recomputation of tags, undo, open, save | the packed image | tags walked in declaration order | no stale tag the user was told is right |
| Capabilities, requirements, revision (`situc/capability.py`, `propagate.py`, `resolve.py`, `requirements.py`, `revision.py`) | none that lasts | rows, meets, discharge, comparison | the layout, and the schema of the last release | one axis met the wrong way or forced over a member's | a struct speaks for its members; what an edit breaks is reported |
| Imports (`situc/imports.py`) | the names seen, the merged tree | `expand` | the file system | diamonds, cycles, unreadable files | complete, once each, dependencies first |
| Layout, propagation table, lexer, parser, the emitters of other languages, dissectors, documentation, wire output, C walker, language server, command line | | | | functions of their input, or formatting | not modelled, see below |

`PROJECT.json` lists the components with their sources and status, and under
`hazards` what is hard to test in this code, at its line, with the properties
that cover it.

## Modules

```
MessageStream      what a framed stream is
FrameReader        the C and C++ reader                  implements MessageStream
RustReader         FrameReader's variables, Rust's calls
GrowingReader      the same for Python and the walker    implements MessageStream
RequiredWalk       the walk of <struct>_required
RequiredWalkProofs of it

SlotTable          what the tables share: requests, keys, handles, first free slot
ConverseTable      the C pending table, as operators
Pending            what a pending table promises: a bounded bag
Converse           record and match as a system          implements Pending
Rungs              one of the readers, or the table
RungsProofs        of all of them

Exchange           what rung 6 promises of every exchange
DriveTable         the slots with deadlines, as operators, and the clock
DriveC             the C machine: ConverseTable + DriveTable     implements Exchange
DriveOneTable      the C++ and Rust machine: DriveTable alone    implements Exchange
DriveDict          the Python machine                            implements Exchange
DriveTableProofs   of the slots, for all that hold them

RunLoop            DriveC + what the C run functions share
ReadinessLoop      RunLoop + the wait and receive of the drivers on a descriptor
UringLoop          RunLoop + the rings of io_uring
CDrivers           one loop or the other                 both implement DriveC
CDriversProofs     of DriveC and of both loops
AsyncioLoop        DriveDict + the coroutine                implements DriveDict
DriveDictProofs    of both
EventHost          DriveOneTable + a socket and one timer
QtPump             EventHost + the pump and the run function
TokioLoop          EventHost + the future
OneTableHosts      any caller, the pump or the future    all implement DriveOneTable
DriveOneTableProofs  of the machine and its hosts

Coverage           which write leaves which obligation stale: said by the
                   compiler, and as the bytes have it
CoveredMessage     Coverage + the generated writes, dirty word and generation
EditorDocument     Coverage + the editor's set and recomputation
CoverageProofs

Capability         the lattice, the requirements, the change of a value
SchemaGate         Capability + rows, resolution and revision of a struct
Imports            expand, one step at a time
CompilerProofs     of the last two

MCRungs MCDriveC MCDriveOneTable MCDriveDict MCLoops MCAsyncioLoop MCCompiler
                   the instances for TLC
```

An MC module may hold several components that do not interact: a variable
(`part` or `host`) chooses which of them runs, and the others stay as they are.

**FrameReader, RustReader, GrowingReader.** `buf`, `have` and `ready` are the
reader's fields, a byte is its position in the stream, and `pushed` and `taken` are
history.  In `FrameReader` each call begins with the lazy drop (`Moved`).
`LenAt(p)` is the length of a message that starts at `p`, `KnownNeed(p, h)` what
`required` can say of it from `h` bytes, within the contract of
`KnownNeedAssumption` (more than it has, no more than the message), and
`ViewRefuses` is the SIZE_MIN guard.  Rust's `next` changes nothing and `advance`
does the drop, of what `required` answers at that moment; the readers of Python
and the walker have a buffer that grows, and the walker's `next` has noted the
length before it acquires the view: where that is refused, Python's reader keeps
the message and the walker drops it at the next call.

**RequiredWalk.** A struct is a sequence of variable members with the fixed bytes
between them; `Receive(b)` adds a byte to what has arrived and `RequiredOf` is the
walk, as the emitter lays it out per kind of member (`Member`, with `Nested`, `Run`
and `Variant` for the members that call another struct's function).  A loop of the
emitted code is `Iterated`, its values after each turn; `Generated[n]` is the
functions where calls may go `n` deep, and `Deepest` is deeper than any can go.
`Format` says where a message may end, read from the schema and not from the walk;
`RequiredKeepsContract` says that the answer is whole exactly at such an end, is
above what has arrived otherwise, and never shrinks: the `KnownNeedAssumption` above.

A struct may contain itself, in a run, an arm or a plain member, as the emitter
allows (`emit.py:6199-6222`: the plain function of a struct with a `[depth]` checks
no depth).  `SchemaAssumption` is what the model needs of a schema:

- each struct takes a byte.  The compiler refuses most of those that take none
  (`emit.py:5820`, `traverse.py:3113`), and for one of pads alone it emits no reader;
- a struct calls itself, or a later one, only behind a byte.  Structs can be
  numbered so unless one reaches itself in front of its first byte, which needs a
  `peek` to end: the compiler accepts such a struct and the model leaves it out;
- the fixed bytes of each are far below UINT32_MAX.

**ConverseTable, Converse.** A slot holds the key and handle of a request; the
packing of a key is abstracted to its value, `NoKey` where it cannot be read.
`record` takes the first free slot, `match` frees the first with the key.  `Pending` counts how
often each request waits, and how many do; `Rungs` maps the slots to these counts.

**DriveTable, DriveC, DriveOneTable.** A slot holds a request, its deadline
(modulo `Modulus`, which stands for 2^32) and its retries left.  `Step` is one
call: the walk over all slots with its expiries, retransmissions and the earliest
deadline.  `clock` is true time and `Now` what the code reads.  `DueMax` is the
size of Rust's array, and at least `Cap` for the others.  `state`, `sent` and
`lastTx` are history.  In `DriveC` a `send` fills both tables and an `on_message`
goes through the handle from one to the other.

**DriveDict.** The dict is the sequence of its entries, in insertion order.
`Step` walks, then submits; with `SubmitFails` the first submit that raises ends
it.

**RunLoop, ReadinessLoop, UringLoop, AsyncioLoop.** `pc` is where the loop is.
A *turn* calls `step` and keeps its result across `on_expired`.  While a hook runs
the user may send (in `SendingHooks`) or set `stop`; a signal handler may set it
at any time.  `Arrive` brings any datagram: a reply, late, doubled, unasked for,
unreadable or malformed.  `TimePasses` is a millisecond of the wait or, up to
`MaxLag` of them, one outside it.  The coroutine computes its wait from a second
reading of the clock (`Arm`), after `on_expired`.  In `UringLoop`, `sq` is the submission ring,
`recvs` the RECVs with the kernel and `cq` their completions; `Submit(q, n)` has the
kernel take the `n` oldest, and an enter that is interrupted takes none and is a
success to the machine (`UringSend`).  `clean` is history: no enter has failed, and no run
has left an operation on the ring.

**EventHost, QtPump, TokioLoop.** `wake` is when the one timer fires.  The Qt
pump lives on one thread, so what interleaves is what the stack holds: a frame per
handler that has called a hook, with where it goes on (`then`) and what it read
before.  In a hook the user sends (in `SendingHooks`), stops, starts again and,
with `MayNest`, runs an event loop, which dispatches other handlers above the
frame.  `queue` holds `rearm` calls and the run function's deletion.  The Tokio
future borrows the machine mutably, so nobody sends while it lives; another task
may drop it where it awaits.

**Coverage, CoveredMessage.** `schema` is any struct of a set: declaration order,
regions, `covers` clauses, the members an invariant takes a size, count or offset
of, the members each length decides, and the fields a scattered transform runs
over.  `CoveredBy` is what the compiler joins to a member.  `InputOf` is what the
bytes of an obligation depend on, the lengths that decide how much of it there is
or where anything in it, or itself, is read: a write to a length moves no bytes, so
every later member is read elsewhere.  `Staled` is what a write really leaves wrong,
`stale` the truth, `dirty` the word.  A generated write marks and moves the
generation (modulo `Wrap`) as the emitted setter does; the caller keeps the rules
the header states, writes through a view it has just taken and keeps another one
(`view`) as long as it likes, also past `situ_msg_init`.  `Sound(s)` says when the
compiler's join names every dependency.

**EditorDocument.** `SetField(f)` stores and begins the walk; `WalkTag(t)` takes
the next tag in declaration order and skips it, computes it, or reports it as stale
(no kernel, or the computation refused).  `wrong` is which tags disagree with the
bytes, `noted` which the user was told of.

**Capability, SchemaGate.** A value is a place in its axis's weakening order with
parameters.  `Row` is one effect of the propagation table, any effect on any
member; `Resolve` gives the struct's and the field's vectors; `Revise` keeps the
old ones and starts again.

**Imports.** `stack` holds the files being read with the directives left, `seen`
the keys, `merged` the declarations in the order they are spliced.

The definitions just before a mapped one and named after it (`MovedStopsEarly`,
`TurnTruncatedFirst`) are the plausible mistakes used as mutants: with one in place
of the code's form the property named in `PROJECT.json` is violated.

## Runs

| Run | Shows | Bounds |
|---|---|---|
| `rungs` | `ViewIntact`; `WaitingHelps`: no reader waits for what cannot come; `ReadersImplementStream`; `DropsOneWhole` of the Rust reader; `StreamGoesOn`: a caller that keeps pumping gets everything that fits; `RequiredKeepsContract`; `PendingSpec`: the table is a bounded bag | buffer of 4, messages of 3, 2, 4, 2 and 6 bytes: one fills the buffer, one does not fit; pushes of any size; a table of 3 for 4 requests, two under one key and one without; 23 structs, one or more per kind of member and four that contain themselves or each other, and every string of up to 6 of 4 bytes: 0 ends, 15 is UINT32_MAX, so sums saturate |
| `drive_c` | `Tracked`, `Answerable`, `NoStrandedRecord`, `RightExchange`: the two tables agree; `Patience`, `ExchangeSpec` | 2 slots, 3 requests, two of them under one key; timeout 2, one retry, 6 ms: enough to fill the table, expire, and use a slot again |
| `drive_one_table` | `ExchangeSpec` and `RefusedOnlyWhenFull` of the C++ and Rust machine under any caller, the Qt pump and the Tokio loop; `NeverDeaf`: what arrives and what is due is looked at; `DoneOnce`, `CompleteMeansIdle`, and `HostEnds` under fairness | 2 slots; 4 requests for any caller (4 ms), 2 for a host (9 ms); 1 datagram, 2 starts, 1 ms of delay, every hook but `on_expired` sending, no nested loop |
| `drive_python` | `ReplacedByItsKey`, `ExpiriesTold`, `Patience`, and `ExchangeSpec` for requests with their own key | 2 places, 5 requests (two under one key, one without), timeout 1, a clock that wraps at 3 |
| `loops` | `DoneOncePerRun`, `ExpiriesTold`, `CompleteMeansIdle`, `NoOversleep`; `FdRunEnds` under fairness; `BufferOwned` and `RingHasOneRecv` with enters that fail and a ring used again | 2 exchanges, 2 runs, 1 datagram, timeout 2, one retry, 1 ms of delay; on a descriptor `Horizon` 10 is past the last moment of any behaviour, so it cuts none; on the ring 4 ms |
| `loop_asyncio` | `DoneOncePerRun`, `CompleteMeansIdle`, `NoOversleep`, and `RunEnds` under fairness | 2 exchanges, 2 runs, 2 datagrams, timeout 2, 1 ms of delay; the clock's 16 ms are past the last moment of any behaviour |
| `compiler` | `StaleIsMarked`, `StaleViewCaught`, `NotesTruthful`, `MergedIsComplete`, `StructSpeaks`, `RegressionReported` | 3 fields (one a length), 2 tags, 1 derived field, 2 regions, 11 layouts with every `covers` clause and 5 readings; a view kept across 4 moves of a generation modulo 4, so it wraps and skips its 0; 3 files with at most 2 imports each, so every small cycle and diamond; a struct of two members, one of them a tag, with one axis (or the two that a requirement joins) varying at a time |

`CHECK_DEADLOCK FALSE` is set for all but `rungs`, `drive_c` and `drive_python`: a
user may never call run again, a struct has only two revisions.

Five runs end in a violation: they state what a comment or a document says and find
that the code does something else.

- `drive_c_leak` (`RefusedOnlyWhenFull`).  `step` drops an exchange out of retries
  from its own table and leaves its record in the pending table.  After `cap` of
  these `send` refuses with nothing open.
- `loop_on_expired_send` (`CompleteMeansIdle`, with `on_expired` sending).  The
  loop leaves on what `step` said before the hook sent, with an exchange open.
- `qt_nested` (`DeletedUnwound`, with `MayNest`).  An event loop in a hook delivers
  the deadline that finishes the exchange and then the queued deletion of the pump,
  under the handler that called the hook and goes on to read `finished_`.
- `coverage_sizes` (`TransmittableIsCurrent`, on any struct the checks accept).  A
  setter marks what covers the member itself, not what depends on an extent the
  member decides: writing the length of a run leaves a field derived from the run's
  size stale with a clean dirty word.  The structs of the run (`UnnamedLength`) derive
  that field and have tags whose coverage names all they depend on, so nothing else
  can be stale.
- `struct_gate` (`StructGate`, on any struct).  The size of a struct is forced to
  its minimum, so it passes `max_size` with a member that is larger or unbounded.

The instances below were explored with the same modules and are not kept as runs;
each is a run above with the property, and where it says so a constant, changed.

- `Patience` in `MCDriveC` with `Modulus` 8 and 10 ms: `step` compares `now_ms >=
  deadline_ms` unsigned; the driver's comment says the comparison is wrap-safe in
  `step` too (`driver.py:280`).  Near the wrap requests are sent again and given up
  at once.
- `SendsSubmitted` in `MCLoops` on the ring, with `on_expired` sending: a RECV
  published on the turn that ends the run is submitted in place of the hook's SEND,
  which stays on the ring; the next run waits for its reply.  The operation left
  behind can also be the RECV, and the loop waits deaf.
- `LateReplyRefused` in `MCDriveC`: the leak's other face, a reply to an expired
  exchange is answered SITU_OK, where the comment promises SITU_ERR_CONSTRAINT.
- `BoundsMeansTooBig` in `MCRungs` with a message of 1 byte and `SizeMin` 2:
  `next` answers SITU_ERR_BOUNDS for it, drops nothing and answers so for ever; in
  Rust `advance` drops it.
- `Budget` in `MCDriveOneTable` with `DueMax` 1: in Rust, slots due beyond the
  array's places spend a retry without a submit.
- `ExpiriesTold` in `MCDriveDict` with `SubmitFails`: a submit that raises in
  `step` loses the count of what the same call gave up.
- `RunEnds` in `MCAsyncioLoop` with `Start` 6, `Modulus` 8 and `Wraps`: the clock
  is cut to 32 bits, the deadline is not, and an exchange sent within a timeout of
  the wrap is never due.
- `MCDriveOneTable` with `MayNest` and only the safety properties: apart from
  `DeletedUnwound` they hold (701,050 states).
- `StaleIsMarked` in `MCCompiler` on any accepted struct: a write to a length, which
  marks what covers the length, leaves unmarked a tag over a run it sizes or over a
  member behind that run, and a tag or derived field that is itself behind it and so
  read elsewhere.  And recomputing a derived field or a tag that sits inside another
  tag's region clears its own bit and marks nothing, so the outer tag is stale
  unmarked if its own bit was cleared first.
- `StaleViewCaught` in `MCCompiler` without `OnlySettersMove`: `situ.h` has generated
  setters report any mutation that can move members, but a scattered transform over
  a length, and the recompute of a derived field that is itself a length, store it
  and leave the generation, so a view of the older layout passes.
- `StaleViewCaught` of every view, also one taken before `situ_msg_init`: the
  generation is 1 again, so a view of generation 1 of the message before passes.
- `NotesTruthful` in `MCCompiler` on any accepted struct: the editor computes a tag
  declared after one that covers it, and leaves that one wrong after having said it
  was recomputed.

Some disagreements between comments and code came up while modelling and are taken
as the code has them: `imports.py:40` says that cycles are refused, but the edge is
dropped without a word (as `test_imports.py:98` expects); `rust/frame.py:85` says
there is no `advance`, which there is; `wellformed.py:5015` accepts a region no
tag covers if the struct has any tag; `decision/0011` orders layers by nesting,
`layout.py:1834` by the number of region names.

## Fairness

- *Readers* (`rungs`): the caller keeps calling `next` and, while bytes are left,
  keeps pushing, and in Rust keeps dropping (`Asks`, `Feeds`, `Drops`, weak): the use
  the comments on the readers describe.
- *Loops*: the thread or task that runs the loop is scheduled (weak fairness of
  `Loop`), and time passes (strong fairness of `TimePasses`, since an interrupted
  wait disables it for a moment, again and again).  On the ring nothing is assumed.
- *Qt and Tokio*: the event loop dispatches what is due, the future is polled and
  hooks return (`HostWorks`, weak), and time passes (`TimeGoesOn`, strong).

Nothing is assumed of the user, the network, signals or failures: the runs end with
every reply lost.

## Proofs

TLAPS proves, for every value of the constants:

- `ReaderInvariant`: `Spec => [](TypeOK /\ Contents /\ ViewIntact)`, for every
  buffer size, every stream and every `required` within its contract.  The
  inductive invariant adds `pushed <= End`.  `MovedContents` says what the lazy drop
  leaves, whichever call performs it, and `OutcomeIsOneMessage` that what `next`
  hands out is one whole message; the second is where the contract is used.
- `ReaderImplementsStream`: `Spec => StreamSpec`, step by step from that invariant.
- `ReadersKeepViews`, `ReadersNeverWaitInVain`, `ReadersDropOneWhole`,
  `ReadersOfEveryBackendStream`: `ViewIntact`, `WaitingHelps`, `DropsOneWhole` and
  `ReadersImplementStream` of `RungsSpec`, so of every backend's reader.  Rust's has the
  invariant of C's, with `advance` alone dropping; the growing one has `GrowingInv`.
  `OutcomeOfFront` is where the contract of `required` is used: a reader that waits
  with a full buffer would have been told of a need above its size.
- `TableIsABoundedBag`: `RungsSpec => PendingSpec`.  The refinement counts slots, so each
  step is a set of slots that gains or loses one; that a refused request means a full
  bag, and a refused reply that nothing waits under its key, rests on `WalkFinds`, that
  a walk over a nonempty set of slots has a first.
- `WalkKeepsContract`: `WalkSpec => []RequiredKeepsContract`, for every schema of
  `SchemaAssumption`, structs that contain themselves included, every buffer and
  every UINT32_MAX, so for these the assumption of the reader is what the generated
  code does.  The invariant `WalkInv` says that what was promised is no more than what
  is needed; the weight is in `RequiredIsRight`, which says of each function that it
  `Keeps` the contract: right on each buffer, and on a longer one the same answer or
  no smaller need.  Three inductions over sets of numbers (`Induct`) lead there.  Over
  the turns of a run (`RunStep`, `RunFollowsStep`): `Credit` counts the elements to come
  at their floor, so a total given early is no more than one given late.  Over the
  members (`WalkStep`): `Sound` says that the total is the place and the fixed bytes
  behind it (`Behind`), or both have saturated, and then the place is past every byte.
  And over how deep the calls go (`StructsKeep`): functions that may call `n` deep
  answer every buffer with a call to spare for each struct and byte, since a call
  either is of an earlier struct or has fewer bytes left.  The floor in `Keeps` is
  needed for the first: it is why a run may ask for `framing_floor` of each element
  and not for its SIZE_MIN.
  `RequiredFramesMessages` puts it as the reader uses it (`LenAssumption` and
  `KnownNeedAssumption` of `FrameReader`): a message has one length, of a byte at least,
  and each prefix of the stream is answered with it or with a need between what the
  prefix holds and that length.
- `DriveTracks`: `Spec => [](TypeOK /\ Tracked)` for the C++ and Rust machine, with
  any number of slots, requests and keys.  `Tracked` (an exchange is open exactly
  while one slot holds it) is not inductive alone: `TableInv` adds the types and
  `BudgetBound`, a bound on retries left and submits made.  The effect of each
  operation on the table is a lemma of `DriveTableProofs` (`StoreTable`, `FreeTable`,
  `StepTable`), stated of the table alone so that the C machine uses it as well.
- `DrivePatience`: under `NoWrap` (the clock's end plus a timeout is below the
  modulus) no exchange is tried again or given up early.  The invariant is `Timed`:
  a stored deadline is the true time of the last submit plus the timeout.
- `DriveImplementsExchange`: with `DueMax >= Cap`, `Spec => ExchangeSpec`, with
  `Budget` as the invariant: retries left and submits made add up.  The
  assumption is the one Rust's array of 32 breaks for larger tables.
- `DriveCTracks`, `DriveCPatience`, `DriveCImplementsExchange`: the same three of the
  C machine, from the same lemmas, whatever keys and handles requests share.
- `DriveCAnswerable`, `DriveCNeverStrands`, `DriveCRightExchange`: the two tables of the
  C machine stay together, where each request has a handle of its own
  (`OwnHandles`, as in `MCDriveC`).  The three are inductive together, with
  `RecordedOnce`.  That `send` never fails between the tables is a counting argument
  (`SlotForRecord`): every open exchange has a record, so if no slot were free no
  place for a record would be.
- `LoopsDriveTheMachine`: `LoopSpec => Spec` and `UringSpec => Spec` of `DriveC`.  The
  loops reach the machine through its calls alone, so the theorems above hold of it
  in every C driver.  It needs `Inbox`, that what a receive delivers is a datagram.
  `LoopsImplementExchange` joins it with the refinement: each run function implements
  `Exchange`; `HostsImplementExchange` and `AsyncioImplementsExchange` below do the same
  for the other hosts.
- `LoopsDoneOnce`, `LoopsTellExpiries`: `DoneOncePerRun` and `ExpiriesTold` of both
  loops.  The invariant `LoopInv` adds to the machine's `Inv` where the loop is and
  what it will return (`Control`), and `Told`, which is finite counting: one step gives
  up as many exchanges as it counts slots (`ToldStep`), because `Tracked` lets no
  exchange have two.
- `LoopsCompleteIdle`: `CompleteMeansIdle` of both loops, where no `on_expired` hook
  opens an exchange (`NoSendOnExpired`).  `Drained` carries what `step` said across
  that hook; `loop_on_expired_send` shows that without the hypothesis it is false.
- `RingOwnsBuffer`: `BufferOwned`.  In `RingInv` the RECVs on the submission ring, with
  the kernel and completed but unread add up to `recv_posted`: a turn adds one where it
  is clear, a submit moves one (`SubmitCounts`), and a reap takes one and clears it.
- `RingKeepsOneRecv`: `RingHasOneRecv`.  `Owing` says that while nothing has gone wrong the
  submission ring holds exactly what the coming wait will submit: each send, of the
  turn or of a hook, publishes one operation and submits one, the oldest, so the RECV
  of the turn may go out with a hook's send and the send with the wait.
- `LoopNeverOversleeps`: `NoOversleep` on a descriptor, under `WaitsFit` (the clock does
  not wrap, every counted submit is made, the timeout is under half the modulus, where
  the signed difference the loop computes is the true one).  The invariant `Waking`
  follows the wait from the turn through `on_expired`, whose sends are due no earlier.
- `DriveRefusesOnlyWhenFull`: `RefusedOnlyWhenFull` of the C++ and Rust machine, again by
  counting (`FullTable`): where no slot is free as many exchanges are open as there are
  slots.  In C it is false (`drive_c_leak`), and by expiry alone:
- `DriveCLeaksOnlyExpired`: in C, under `OwnHandles`, it holds until a first exchange
  expires.  `Owed` says that what is recorded is open or expired, since a reply takes
  the only record of the exchange it ends; so without an expired one a full pending
  table holds the open exchanges, once each.
- `HostsDriveTheMachine`: `HostsSpec => Spec` of `DriveOneTable`, for any caller, the Qt pump
  and the Tokio loop, so what is proved of the machine holds in all of them.
- `HostsDoneOnce`: `DoneOnce`, from the types of the stack and of the future (`PumpTypes`,
  `TokioTypes`) and that the pump cannot finish twice between two starts.
- `HostsCompleteIdle`: `CompleteMeansIdle`, where no `on_expired` hook opens an exchange.  In
  `Drained` a handler that read that nothing is next, and is still below others on
  the stack, has an idle machine; deliveries and steps of the handlers above it keep it.
- `HostsNeverDeaf`: `NeverDeaf` under `NoWrap` and `DueMax >= Cap`, with nested event loops or
  without.  `Attentive` says that while the pump runs the notifier is on or a handler
  on the stack will turn it on, and that the timer is in time, a `rearm` is queued, or
  a handler on the stack will set it; `Timely` that the wait such a handler read before
  its hook is still no longer than the earliest deadline, whatever the hook sent.
- `PumpDeletedUnwound`: `DeletedUnwound` where no hook runs an event loop (`~MayNest`);
  `qt_nested` shows that without the hypothesis it is false.
- `DictTracks`: `Spec => []DictInv` of the Python machine: the types, no key twice, an
  exchange open exactly while one entry holds it (`OpenIsLive`), and `Spent`, what was
  sent and when.  A walk keeps a subset of the positions in their order, which the
  lemmas about `InOrder` turn into facts about the new sequence: each entry kept is an
  entry from before, and each one that is kept comes once.
- `ReplacedOnlyByItsKey`, `DictPatience`: without any hypothesis, the second also
  across the wrap of the clock, since Python does not cut a deadline.
- `DictTellsExpiries`, `DictImplementsExchange`: where submit does not raise
  (`~SubmitFails`); an exception in `step` loses the count, as below "Runs".  The
  refinement is of the requests that have their key to themselves.
- `AsyncioDrivesTheMachine`: `LoopSpec => Spec` of `DriveDict`, so all of these hold in the
  coroutine, with its hooks and the tasks that send while it awaits.
- `AsyncioDoneOnce`, `AsyncioCompleteIdle` (no `on_expired` hook sends) and
  `AsyncioNeverOversleeps` (the clock does not wrap, the timeout and what the loop may
  be late are each under half the modulus): as for the C loops, with `Waking` following
  the deadline `step` reported through `on_expired` and the second reading of the
  clock, and the wait through the sends of other tasks, which are due no earlier.
- `DirtyWordIsSound`: `StaleIsMarked` for any set of structs each of which is `Sound`
  (what is in a tag's regions, and every length that decides an extent or a place an
  obligation depends on, is named by its coverage), and any order of writes,
  transforms, recomputes and finalizers.  The invariant `MarkInv` adds to `stale
  \subseteq dirty` that what is dirty is closed under what covers it, and that a tag
  just written is right.
- `ViewsAreCaught`: a view taken since the message was bound that passes its check is
  of the present layout, where only setters move members (`OnlySettersMove`), for any
  `Wrap`, unless it was kept across `Wrap - 1` moves or more (situ.h speaks of exactly
  2^32 mutations, but 0 is skipped, so it is one fewer).
- `NotesStayTruthful`: `NotesTruthful` on every struct that meets `EditorSound`,
  through `WalkInv`: tags that the walk has passed are right or noted.
- `GateInvariant`, `RegressionsAreReported`: the vectors stay well formed under
  rows, resolution and revision, and a requirement that an edit breaks is reported
  as weakened unless the member moved up the order of that axis, for any axes and
  values (`ValuesAssumption`, `NumbersAssumption`).
- `StructsSpeak`: `StructSpeaks`.  `GateInv` says that a resolved struct has the meet of
  its members as they are; `MeetAllIsWorst` that on an axis without numbers the meet is
  as weak as the weakest of them, and `MeetsByRank` that there a demand is met by rank
  alone.  `meet_all` is a fold, so the argument is by the least number of members for
  which it could fail, and needs only that they are finitely many (`EntriesAssumption`).
  On `offset`, `size` and `align`, the struct's own axes, it is false (`struct_gate`).
- `ImportsAreComplete`: `MergedIsComplete`, for any graph of imports, a finite one or not.
  `ImportsInv` says that the calls of `expand` stand on a path of imports from the root
  (`OnAPath`), that no file has two places among the calls and what arrived in them
  (`EachOnce`), that what is seen is exactly those and holds every directive behind a call
  and of every file that returned (`Walked`), and what the order rests on (`InOrder`): a
  file that returned ahead of one it imports can be reached from that one.  A cycle
  enters through the second half of it: a file whose call is open reaches all that
  returns meanwhile.

What the proofs assume of the constants are the named `ASSUME`s of the modules
(positive capacity, timeouts and moduli, keys and handles of the right sets),
evaluated by TLC on every run, and the hypotheses named above.

Only model-checked: liveness and everything under fairness (`StreamGoesOn`, `HostEnds`,
`FdRunEnds`, `RunEnds`), out of the prover's reach.  Every safety property of a passing
run is a theorem, some under the hypotheses named above.

## Not modelled

- *Of what is modelled*: `setup` and teardown of the ring and its size of 8 entries; a
  debug build's overflow panic in Rust; a handle used again while a record leaked
  as in `drive_c_leak` still names it; the bytes of messages and keys; in
  `required`, peeked selectors, with them a struct that contains itself in front of
  its first byte, transformed and sealed members and bit-sized runs; members located
  by an `at` field, and lengths written as text, which have no setter;
  undo, redo, open and save of the editor, which swap whole buffers; which row of
  the propagation table fires on which construct (any sequence of effects is
  considered, so what is shown holds for every table).
- *Functions of their input*, without state that outlives a call: lexer, parser,
  most of the layout and of the well-formedness checks, the compiled-layout
  interpreters in Python and C, and the emitters.  The emitters are nine tenths of
  the code: string templates whose control, where the emitted code has any, is what
  the modules above are, and whose text a model would only repeat.
- *Formatting*: dissectors, documentation, wire output, diagnostics, the command
  line and build tools.
- *The language server*: a synchronous loop over one client that keeps the text of
  open documents; its handlers are one assignment each.

`PROJECT.json` gives the reason for each component.

## What is left

Next would be a model of the editor's history with saves in between; the layout's
placement as operators against a reference definition; and `StructGate` as a theorem of
the structs for which it is true.
