# A verification project for zeroproxy_gdk

TLA+ models of the parts of the clients that keep state and meet concurrency,
crashes or untidy input: the task scheduler, the emulated online services and the
game's socket functions in front of them, the lobby handshake, the wire format of
the answers, the component loader, the emulated Steam callbacks, the controller
emulation, the property store and the log. TLC checks each on small instances;
TLAPS proves every safety invariant that TLC checks for every instance.

Paths below are relative to `src/src` unless they start with `src/`. Code that
is duplicated in several clients is modelled once, from the copy named here.

## 1. Inventory

The repository builds one library per game (`client-*`), loaded in place of a
system library (`common/proxies`). It attaches before the game runs, hooks
functions of the game and of Windows, and from then on runs on the threads of
the game, on a few threads of its own, and inside hooks.

| Component | State | Operations | What is hard | What makes it correct |
|---|---|---|---|---|
| **Scheduler** `component/scheduler.cpp` (ten copies) | per pipeline `new_callbacks_`, `callbacks_`; `kill`; the async thread | `schedule`, `loop`, `once`, `execute`, `post_load`, `pre_destroy` | any thread schedules, handlers schedule, two hooks drive one pipeline, unloading races the thread | no task lost, doubled, reordered or starved; the iterator stays valid; the join comes back |
| **TCP services** `demonware/servers/tcp_server.cpp`, hooks in `component/demonware.cpp` | `in_queue_`, `out_queue_` per service; `socket_map` | `connect`, `closesocket`, `send`, `recv`, `select`, `frame`, unloading | emptiness read without the lock and used after a real `select` that may block, byte stream cut at any length, several sockets on one service | bytes once and in order, no false end of connection, every packet handled |
| **UDP services** `udp_server.cpp`, `stun_server.cpp`, `server_main` | `in_queue_`, `out_queue_` per socket, `blocking_sockets`, `exit_server` | `sendto`, `recvfrom`, `ioctlsocket`, `frame`, unloading | one reader walks all services, the service thread runs in between, unload against start | answers go to their socket, in order; losses are known exactly |
| **Lobby session** `lobby_server.cpp`, `keys.cpp`, `reply.cpp` | `packet_buffer`, keys, `msg_count`: globals of the process | handshake, authentication, tasks | two sides derive keys from a transcript over several packets | equal keys, answers in the order of the tasks |
| **Byte buffer and records** `demonware/byte_buffer.cpp`, `data_types.hpp`, `reply.hpp` | bytes and a cursor | typed reads and writes, `serialize`, `deserialize`, `service_reply::send` | two lists of fields kept in step by hand, reads whose result nobody looks at, short answers | every field comes back, and the answer is used up |
| **Component loader** `common/loader`, `common/proxies/proxy_base.cpp` | the list of components, four once-only phases | `activate`, `post_load`, `post_unpack`, `pre_destroy` | activation sorts while it goes, several threads run into the unpacking hook, handlers throw, the process exits in the middle | components in order, each phase once, complete before anyone goes on |
| **Steam callbacks** `client-t6/steam/steam.cpp` | `results_`, `result_handlers_`, `callback_list_`, `call_id_` | `register_call`, `return_call`, `run_callbacks`, (un)register | recursive mutex: handlers and listeners come back in while the vectors are walked | each result to its handler once and to every listener once per registration |
| **Controller emulation** `component/xinput_probe.cpp`, `settings.cpp` of iw4 and iw5 | key flags, B button, active pad; binds, write time | `poll_controllers`, `check_settings` | pads and windows come and go, the ini file is edited while keys are held; in iw5 two threads share the binds | no stuck key, one meaning per press, no missed edit |
| **Property store** `common/utils/properties.cpp`, `named_mutex.cpp`, `client-t6/component/name.cpp`, `identification.cpp` | one JSON file for all instances of a game; a folder as the mark of a migration | `load`, `store`, the import of the legacy file, the choice of a name | instances that die while they write, look-then-store in two critical sections | one map to all, instances agree on the name, nobody waits for the dead |
| **Logger and console** `common/logger` | two files, the line the user types | `print`, `write`, the input thread | a file is opened for one writer only; threads print over the line of input | a lost line has a reason, the input survives |
| Hooks, allocator `common/utils/hook.cpp`, `memory.cpp` | place and original bytes; a pool of pointers | `create`, `enable`, `clear`; `allocate`, `free` | - | not modelled, see section 6 |
| Registry, auth3, umbrella | none beyond their queues | one answer per request | - | in the modules of the transports |
| Steam proxy, Arxan, unpacking, UWP/WinRT hooks, DLC unlocker, patches, branding, content, Lua hooks, t9 console, crash filter, proxies' exports, signatures, PE parser, bit buffer, wrappers of Windows and libraries | none, constants, or code that never runs | - | - | not modelled, see section 6 |

**How they interact.** `proxy_base` calls the loader's `activate` and
`post_load`; a hook set by one component calls `post_unpack` from a thread of the
game. A component's `post_load` or `post_unpack` schedules its tasks, sets its
hooks, starts its thread; its `pre_destroy` joins them. The hooked socket
functions put packets into the queues of the services and take the answers out;
the service thread (`server_main`) moves them. The lobby service is what handles
the packets of one TCP service, and the records of the reply format are what it
answers with. In iw4 the poll and the settings are tasks of the main pipeline; in
iw5 they are threads. Every component logs.

## 2. The modules

| Module | Of | |
|---|---|---|
| `TaskQueue` | what the scheduler promises | abstract specification |
| `Scheduler` | `client-iw4-store/component/scheduler.cpp` | implements `TaskQueue` |
| `ReplyStream` | what a TCP service promises | abstract specification |
| `TcpServer` | `tcp_server.cpp`, socket hooks of t7 | implements `ReplyStream` |
| `UdpServer` | `udp_server.cpp`, `stun_server.cpp`, datagram hooks, the life of `server_main` | |
| `LobbySession` | `lobby_server.cpp`, `keys.cpp`, `reply.cpp`; the game's client is external | stands on the promise of `ReplyStream` |
| `ByteBuffer` | `byte_buffer.cpp`: a write is a function, a read the set of its outcomes | operators |
| `ReplyFormat` | the 24 record types of `data_types.hpp` (t7, iw4) and `service_reply::send` | extends `ByteBuffer` |
| `ComponentLoader` | `component_loader.cpp`, `proxy_base.cpp`, the unpacking hook, the splash thread | |
| `SteamCallbacks` | `steam.cpp`, the interfaces that post results | |
| `XInputProbe` | `xinput_probe.cpp`, `settings.cpp` of iw4 | |
| `IW5Probe` | the same two files of iw5, on two threads | extends `XInputProbe` |
| `PropertyMap` | what the property store promises | abstract specification |
| `PropertyStore` | `properties.cpp`, `named_mutex.cpp`, `name.cpp`, `identification.cpp` | implements `PropertyMap` |
| `Logger` | `logger.hpp`, `console.cpp` | |
| `SchedulerProofs`, `TcpReplyProofs`, `UdpServerProofs`, `LoaderProbeProofs`, `SteamProofs`, `PropertyStoreProofs`, `LobbyLoggerProofs` | proofs | those with two names hold several components |
| `ReplyFieldProofs` | lemmas on the fields of an answer | used by `TcpReplyProofs` |

Each `MC...` module only gives values to the constants. A definition whose
comment begins with "Mutant of" is a plausible bug, used by nothing: putting it
in place of the definition it names breaks the property it was written for, so
the property does depend on that code.

### Scheduler

`newCallbacks` and `callbacks` are the two vectors, `owner` the recursive mutex
of `callbacks_`, `at` the iterator, `elapsed` is `now - last_call` no finer than
the comparison with the interval. `execute` is cut where another thread can see
a difference: `Acquire`, `Merge`, one step per task (`SkipTask`, `CallHandler`),
the return of the handler (`HandlerContinues`, `HandlerEnds` with its `erase`),
`Release`. `Schedule` may come from any thread, before `post_load` and from
inside a handler. `PostLoad`, `PreDestroy`, `AsyncThreadEnds` and `Join` are the
life of the component. The frame hooks stay after `pre_destroy`: so do their
drivers. Left out: a handler that throws, and one that executes its own pipeline.

### TcpServer and ReplyStream

`frame` looks (`FrameBegins`), pops (`FramePops`) and handles (`FrameHandles`);
the lock covers the pop alone. `recv` is `RecvLooks` (`pending_data`) and
`RecvTakes` (`handle_output`), because the emptiness they read is read outside
the mutex. `select` is `SelectLooks`, which asks the services, and
`SelectReports`, which adds the sockets found to the answer of the real `select`
in between; with `exit_server` set it asks nobody. A byte is named by its request
and position, so that a duplicate or a swap shows. `closesocket` unlinks the
socket and leaves the queues as they are. Two sockets may be linked to one service
and read its one `out_queue_`: the history `raced` names the sockets that another
one came before in the middle of their call. The thread begins with
`exit_server = false` (`ServerStarts`) and tests it in every round
(`ServerWakes`); `PreDestroy` sets it, and `Unhook` follows the join. Until then
the hooks still queue packets for a thread that has ended. `recv` is called with
a positive length.

### UdpServer

Adds what the datagram functions do: `recvfrom` visits the services in the
order of the `unordered_map` (`RecvVisit`) and each that has an answer writes it
into the same buffer, as much of it as there is room for: with a length of 0
(`noRoom`) it is taken and nothing is returned. `found` are the answers that a
call has taken, `lost` those that it did not return, each with what it did
return. `ioctlsocket` and `closesocket` change the note of the socket's mode.
`ServerStarts` is the first statement of the thread (`exit_server = false`),
`ServerWakes` its loop test, `PreDestroy` and `Unhook` the unloading.

### LobbySession

The service side is the branches of `lobby_server::handle`: the zero message,
the header that is acknowledged, the authentication that derives the keys, the
encrypted task, the rest. A hash is injective, so a key is the transcript it was
derived from. The client is external: it starts, authenticates, sends tasks and
compares what it gets, as the messages the code expects say; `asked` are the tasks
it waits for. It may put a keep-alive into the send of another message; `coalesced` records that.

### ReplyFormat and ByteBuffer

An answer is bytes; a read of `ByteBuffer` is the set of what it may return, for
where the code reads a local that nothing has set the outcome is any value of it.
A record is two lists, each translated from its own function: the calls of its
`serialize` and those of its `deserialize`, each call with its member.
`bdFileMetaData` inherits a `deserialize` that reads nothing. An address writes
itself only if its family is `AF_INET` and is read into one whose family is that;
`ForeignRecords` are the addresses with another family among those written.
`OutOfStep` names the records whose two lists differ. `SendBegins` is
`service_reply::send` up to the records, `Serialize` takes the next record and
`WriteNext` writes one field; `sent` remembers the fields and where each begins.
`Arrive` hands the client the bytes, or those up to any place, and `ReadNext` takes
the fields back one by one along the `plan` that the types of the records give;
`inStep` counts the reads in front of the first record out of step, and `strayed`
says that there is one. A read that leaves the bytes, or divides by the size of an
array without elements, is an outcome of its own (`Outside`). `ReadArray` stands
for `read_array`, which nothing in the repository calls.

### ComponentLoader

`Activate` is one `push_back` with its stable sort. A phase is a static local:
`status` goes from "new" to "running" and to its result once, other callers wait.
`Handler` runs one component's handler, which may throw where the code catches.
`AttachGoesOn` is `on_dll_process_attach`: a failed `post_load` ends it, but
leaves the hooks. `EnterHook` and `HookGoesOn` are threads of the game inside the
hook that unpacks, `LoadImage` and `SplashGoesOn` the thread of iw8 that polls
`is_post_unpack_phase_complete`. `Exit` may come at any time.

### SteamCallbacks

`RegisterCall`, `ReturnCall`, `RegisterCallResult` are the three moments of a
call the game makes. `run_callbacks` holds the mutex throughout: `RunBegins` takes
the end of `results_`, `RunHandler` runs the handler of a result, `WalkBegins` and
`RunListener` go through `callback_list_`, `ResultEnds` goes on, `RunEnds` is
`results_.clear()`. While a handler or a listener runs (`inside`) its thread may
ask, post, register and unregister. A vector that grows under a walk may move:
then either nothing is noticed, or the process `Dies`. One that is erased from
shifts its elements under the walk (`Underlay`).

### XInputProbe

`down` are the flags, `keyboard` what the system believes is held down:
`SetStates` sends an event for every flag that changes, with the key bound at
that moment. `Apply` is a poll that finds a pad, `ReleaseAll` one that finds none
or a window in the background. `check_settings` takes the write time
(`CheckSettings`), reads the numbers (`LoadNumbers`, which throw if they do not
parse: the process ends) and the binds one by one (`LoadBind`), while the user
edits. Poll and load exclude each other, being tasks of one pipeline.

### IW5Probe

In iw5 the poll is cut at every key, and between the flag of an input and the
event that is sent for it (`flight`), because `ReloadBind` of the other thread may
come in between. `Owing` are the inputs that owe a key to the keyboard.

### PropertyStore and PropertyMap

An instance goes through `load` (`Lock` to `Loaded`), chooses a name if there is
none (`Choose`) and goes through `store` (`LoadForStore` to `Stored`). Each step at
which a death makes a difference is one action, so the file may be `Absent`,
`Torn` (opened with truncation and not yet written) or a document. `Die` leaves
the file and gives the mutex up. `PropertyMap` is one map in which `load` and
`store` take effect at one moment. `excuse` records two ways in which
instances come to differ, overlapping set-ups and a write cut off. The first
start copies the players folder; the folder is its own completion mark.

### Logger

`print` writes to a file if `client_module` is set and its path has a folder
(`Filing`). It tries the file beside the library (`Open`) and, if there is a
temporary folder (`GetTempPathA`), the one there (`OpenTemp`); `fopen_s` refuses a
file that another writer has open and one that nobody can open (`shut`, either
file). `console::write` reads
the row of the cursor (`Look`), prints over it (`PrintLine`) and prints it again
(`PrintInput`) under a mutex; the user types at any moment, and an instance may
die. The actions of the file and of the console share `logVars`, `LogInit`, `LogNext`
and `LogSpec`.

## 3. The runs

| Run | Instance | Shows |
|---|---|---|
| `scheduler` | a loop with an interval, a `once`, a task that ends when it likes, a delayed async task; two frame hooks on one pipeline and the async thread | tasks are neither lost nor doubled, a pass walks a snapshot, `TaskQueue` is implemented, every task is called, unloading ends |
| `tcp_server` | two sockets on one service, three requests with answers of 2, 0 and 1 bytes, buffers of 1 and 4, starting and unloading at any time | an end only after a race, what `select` reports is readable since its look, `ReplyStream` is implemented, every request is handled while the service thread is there |
| `udp_server` | two sockets, two services, two datagrams, `recvfrom` with and without room, starting and unloading at any time | every discovery has one fate, answers reach their socket in order, an answer lost for want of anything but room has given way to the one the same call returned, every datagram is handled, unloading ends |
| `lobby_session` | one connection, reopened, five messages, two may share a send | equal keys even when messages are dropped; the first conversation is accepted, tasks are answered in order, the handshake progresses |
| `reply_format` | answers with up to two records of any type, addresses of another family among them, plain and structed, with and without an error; those with one record cut after any byte | every value comes back into the member it was written from, and the answer is used up, up to the first record whose two lists differ |
| `component_loader` | five components of three priorities, two threads and the splash thread, any handler may throw | the components are sorted, phases once and in order, nobody passes early, the hook comes back |
| `steam_callbacks` | two threads, two listeners on a list of up to two, two calls | a result is dropped only when posted from inside or overtaken, results run once and listeners as often as they are registered, a waiting handler runs |
| `xinput_probe` | a stick, a button, a trigger, two pads, three ini files, one edit | keys are accounted for, B means one thing, no edit is missed, in the background everything comes up |
| `iw5_probe` | a stick, a button, one pad, three files, two edits | keys are accounted for with a load between any two of them, both threads settle |
| `property_store` | two instances, two names, three files of earlier runs, a legacy file, two deaths | `PropertyMap` is implemented, names agree, every start returns |
| `property_store_migration` | the same | violated: "Already migrated" of a folder whose copy was cut off (section 4) |
| `logger` | two instances that share both files, three threads, a typist with two keys; either file shut to everybody, no temporary folder, no module or one without a folder | a lost line was refused by both files, the row is the input |

**Bounds.** Every counter of the game's own doing is bounded: `MaxRequests`,
`MaxSends`, `MaxMessages`, `MaxCalls`, `MaxListening`, `MaxEdits`, `MaxDeaths`, `MaxLines`,
`MaxKeys`, `MaxObjects`, the set `Tasks`. Two threads, sockets or instances are
enough for each race, since no lock or queue tells more than two parties apart;
two or three messages let one be queued, one in hand and one answered. Two deaths
are an abandoned mutex and one abandoned again by its heir. A tick, an elapsed
time and the threshold of 180 ms are counted up to the comparison that reads them
and no further. Five components cover equal, lower and higher priority, and one
that is not wanted. Two records are one that follows another. A list of three
listeners instead of two (0.9 million states) holds in `steam_callbacks` as well. Where a
theorem of section 5 states the property, no bound matters to it.

**Deadlock** is checked for the scheduler. The other
systems really may stop: the process ends, the component is unloaded, or the
bounded game has nothing left to do.

**Fairness.** Weak fairness for each of the program's own threads and for
the end of a function already entered: they loop without waiting on anything but
mutexes that are held for a step, and the scheduler's fairness covers a frame
hook as well, since a running game goes on drawing frames. The two threads of
iw5 are fair each; an instance of the property store that has begun its start
goes on until it dies. Strong fairness only for `RunBegins` (the game pumps its
callbacks every frame, though another thread may hold the mutex at times), `Poll`
and `CheckSettings` (each comes due again while the other runs). No fairness for
the game's and the user's choices: nobody has to send, call, load, unload, edit,
die, type or switch windows. `reply_format` and `logger` state safety only, and
assume none.

**Types.** The state modules but `Logger` and `ReplyFormat` have a `TypeOK`. It
holds on each instance of the table; it is left out of the registered runs, whose
properties say more, and it is proved for the scheduler, the property store and, as
part of the inductive invariants, the TCP service.

## 4. What the models made plain

One contradicts a comment and is a finding: `identification.cpp:21` says of an
existing folder "Already migrated", but the folder is created before the copy, so
that a start that dies in between leaves one that no later start completes
(`property_store_migration`).

The others contradict no text of the repository; the properties are stated so
that they hold around them.

- `packet_buffer` (`keys.cpp:109`) only grows, so a second lobby conversation of
  a process derives other keys than its client and is refused; hence
  `FirstConversationIsAccepted`.
- Two sockets on one TCP service share its `out_queue_`: one may read the
  other's answer, and a `recv` that looked in time may return 0, which says the
  connection has ended. `NoFalseEnd` says that this takes the race.
- `select` asks the services before the real `select`, which may block, and adds
  its findings after it: another socket of the service may have read in between,
  and a socket is reported readable that no longer is. `ReadableStaysReadable`
  counts from the look and names this case.
- `recvfrom` keeps visiting services after it has an answer, and the next one
  overwrites it; one with length 0 takes an answer and returns none.
  `LossOnlyByOverlap` says that with room nothing but the first loses answers.
- Between the end of the service thread and the removal of the hooks the game's
  packets are queued for nobody; the two properties on handling end there.
- A `pre_destroy` before the first statement of `server_main` is undone by
  `exit_server = false`, and the join waits for ever; `UnloadFinishes` begins
  after that statement.
- A failed `post_load` leaves the hooks set so far; unpacking then goes on with
  components that were never loaded. `PhasesFollowEachOther` has the exception.
- A Steam result posted from inside a handler is cleared unseen, and may
  reallocate the vector being walked; one posted before its handler is registered
  may be walked over by another thread. A listener that is unregistered from
  inside a walk lets the walk skip one or run one twice, and one that is registered
  twice hears everything twice.
- Three record types are not read the way they are written: `deserialize` of
  `bdMatchMakingInfo` and `bdDDLChecksumResult` leaves fields out, and
  `bdFileMetaData` has none. An address of another family than `AF_INET` writes
  less than is read. Nothing of the repository writes and reads these, so the
  properties end in front of them. An empty array makes the reader of its header
  divide by zero (nothing reads one); a `deserialize` reads on after a field that
  failed.
- A key whose bind changes while it is held stays down in the system until
  somebody presses it; two inputs on one key release each other. `NoStuckKeys`
  and `HeldKeysAreDown` name exactly these keys. In iw5 a load between the flag
  and the key adds one more way, which `NothingElseIsDown` names.
- A process that ends while inputs are held releases nothing.
- Two instances that set up their names at once may show two names; the one that
  stored first keeps its own until it ends. A death between the truncation and
  the write loses the whole map.
- A line that two threads or games log at the same moment may go to the fallback
  file, or to none; so may one of a client whose folder cannot be written, since
  there is nothing behind a fallback that fails.
- In `client-t6` nothing executes the main pipeline, which the Steam proxy's
  clean-up task is scheduled on.

## 5. What is proved

Each theorem is for every value of the constants, from the named assumption of
its module (the constant functions have their types, "none" values are none, the
async thread is a driver, the attaching thread is none of the game's, there are
finitely many sockets, the values of a record's fields fit their kinds).

| Theorem | |
|---|---|
| `SchedulerProofs`: `TypeCorrect` | `Spec => []TypeOK` |
| `IteratorAlwaysValid` | the iterator is inside its vector and only the mutex's holder has one |
| `NothingIsLostOrDoubled` | a task scheduled and not ended is in one of the two vectors of its pipeline, once |
| `PassAlwaysWalksASnapshot` | a pass changes its vector only by the erase of the handler that returned |
| `SchedulerKeepsItsPromise` | `Scheduler` implements `TaskQueue` |
| `TcpReplyProofs`: `OnlyARaceEnds` | `NoFalseEnd` |
| `SelectIsRight` | what `select` reports is readable until somebody reads, unless another socket has read since its look |
| `ServiceKeepsPromise` | `TcpServer` implements `ReplyStream` |
| `FieldsAreKept` | of an answer, whole or cut, a read into a member reports what was written from it, until a read fails or a record is out of step |
| `AnswersAreUsedUp` | an answer without record out of step that arrived whole is read to its last byte, and no read of it fails |
| `ReplyFieldProofs`: `ArraysComeBack` | which arrays `read_array` gives back, and that an empty one divides by zero |
| `UdpServerProofs`: `AnswersAreInOrder` | a socket reads answers to its own requests, those of one service in order |
| `LossIsByOverlap` | a `recvfrom` with room loses an answer only to one of another service that the same call returns |
| `DiscoveriesHaveOneFate` | a STUN request is queued, or answered once: waiting, with a `recvfrom`, read or lost |
| `LoaderProbeProofs`: `LoaderKeepsOrder` | the components are sorted, and every phase calls a prefix of them |
| `LoadingComesBeforeUnpacking` | unpacking comes after a loading that called everybody or failed |
| `HookHoldsEverybodyBack` | nobody passes the hook before everybody is unpacked |
| `SteamProofs`: `EveryResultRunsOnce` | no result is handled or freed twice, every listener of a walk nobody erases from runs as often as it was registered |
| `OnlyNestedResultsAreDropped` | `DroppedOnlyWhenNested` |
| `LoaderProbeProofs`: `EveryEditIsRead` | iw4: binds that pass for up to date are the file's |
| `EveryPressMeansOneThing` | iw4: a tap of C is the end of a press on the active pad that was no hold |
| `NoKeyIsStuck`, `NoKeyIsMissing` | iw4: what is down belongs to a held input or to a key whose bind changed, and a held key is down unless it was bound twice |
| `WhatIsDownIsOwed` | iw5: what is down is a held input, the hold of B, or a bind that changed |
| `PropertyStoreProofs`: `TypeAndMutex` | types, and one instance at a time inside a call |
| `NameStaysTheStoredOne` | instances that run show the stored name, but for the named excuses |
| `StoreImplementsMap` | `PropertyStore` implements `PropertyMap` |
| `LobbyLoggerProofs`: `KeysAgree` | a client that is ready has the keys of the service |
| `FirstIsNeverRefused` | the first conversation of a process is accepted |
| `TasksAreAnswered` | a task that a ready client waits for is answered once, in order, and no count is skipped |
| `InputSurvivesWrites` | after a write the row is what the user typed |
| `LinesAreKept` | a line with a folder to go to is in one file once, or each of the two had another writer, was shut to everybody or had no folder |

**Arguments.** *Scheduler*: the type invariant is not inductive alone: that `erase`
is given a position inside the vector needs `IteratorValid`, and that a merge does
not disturb another driver's iterator needs that a driver is inside a pass exactly
while it owns the mutex. `Shape` is their conjunction; `AcquireShape` to
`OtherShape` prove it action by action. `IInv` adds that only scheduled tasks end
and `NothingLostOrDoubled`. The module begins with the facts on sequences: appending,
concatenating and removing keep injectivity and the elements. The refinement takes
the two vectors as one queue (`Queues`) and the mutex's holder as the one that runs
a handler (`Runs`), for which `OwnerFeeds` says that it is a driver of that pipeline;
erasing at the iterator is removing the task because no task is there twice.

*TcpServer*: `LooksHold` ties the look of `recv`, the look of a `select` that has
not reported yet and its report to the queue, for the sockets nobody has come
before; the refinement is a step simulation, in which a `recv` that takes bytes is a
read of the stream and the moves between the queues stutter.

*ReplyFormat*: a field is well formed if its value fits its kind; its bytes are
`Encoded`. `FieldBack` says, kind by kind, what a read returns where these bytes
begin, in the whole buffer and in any beginning of it (`Cut`), and `PreambleMatch`
and `RecordIs` that the fields of every answer fit the reads of the client
(`Matches`), kind and member, up to the first record whose two lists differ
(`KeepsStep`, `inStep`). `ReplyInv` then
has the bytes of each field at its place in the buffer (`WireHolds`), the plan in
step with the fields (`PlanMatches`), and the client, unless a read failed, where
the next field begins or past the end of what it has (`CursorStands`). The
induction goes along the steps of the writer and of the reader, so that it needs
none over the data.

*UdpServer*: an answer on its way never gets past an older one of the same service
and socket. The invariant orders the stations: request queue, hand, answer queue,
the answers a `recvfrom` has taken (`Taken`: from services it has already visited),
and what was read. `OneOfEach` says that a call takes one answer of a service at
most, and that one with room has a result if it took any, so that what it loses
gives way to the answer of another service.
`DiscoveriesHaveOneFate` counts each request in exactly one of these places: the
order makes the places of one service disjoint (`Moves` says what a step takes from
one and puts into the next), the service of a request those of two.

*ComponentLoader*: the vector is sorted after each insertion (`Ordered`) because the
components that stay in front of a new one are a prefix (`PlaceOfNew`, from
`DownwardClosed`); it does not change once a phase has begun, since nobody is in one
while the attaching thread activates (`StillActivating`); a walk has called exactly
what is in front of its iterator (`Walked`); and whoever has passed has seen the
status "true" (`Passed`), at which the walk is at the end.

*SteamCallbacks*: `Once` ties each run of a handler to a result that is freed or lies
before the iterator (`Passed`), and each call under way to no result yet; `Walk` keeps
the walk on the front of the list of listeners while nothing is erased, and counts
the turns of each; `Told` says of
every result how its handler is accounted for, and that what lies beyond the end
which `run_callbacks` took was posted from inside a handler.

*XInputProbe*: unless the file has changed since its time was taken, what a load has
read so far (`ReadSoFar`) is what the file says; a press that is down began on the
active pad (`PressIInv`). `KeysIInv` says that what is down is owed (`Owed`) and what
is owed is down unless `mixed`. A poll touches many keys at once; that the set
comprehension of `SetStates` keeps `Good` is shown key by key, from which inputs of
the key were down and which are.

*IW5Probe*: `Accounted` only shrinks when an input is released after its key, the
hold of B belongs to a press, and a load moves the key of an owing input to
`strayed` in the step that changes its bind.

*PropertyStore*: `Mutual` (who is inside owns the mutex), `Knows` (what an instance
knows of the disk at each step) and `CopiesAlone` give the types and the
refinement, with the contents a writer is about to write as the map; `Agreement`
adds what the nameless and the named know of the stored name.

*LobbySession*: with one connection (`Alone`) every queued packet and answer has one
client. `KeysInv` orders the authentications: the keys were derived at the last one
handled, and a client that is ready has sent none since. `FirstInv` says where a
conversation stands (`Greeting` to `Served`) and what of it is in the queues, which
makes the buffer the client's transcript as long as nobody else has put anything in
(`EarlierInv`: else `hellos` is above 1). `AskedInv` ties the tasks a client waits
for to the answers and the requests under way; a later task has a later number
and is behind.

*Logger*: `FilesInv`: who holds a file will close it (`HoldersClose`), and who is at
the fallback was refused by somebody or found the file shut (`FallbackHasReason`).
For the console `MutexIsKept` and, unless a key fell into the middle of a write,
`InputIsKept`: what a writer has seen is what was typed.

**Only model-checked.** Liveness under fairness, which is out of the prover's reach:
the properties of the table in section 3 that say what happens in the end. Every
invariant that a run checks is proved.

## 6. Not modelled

- **Code that never runs.** The Arxan components, the exception filters of s1, s2
  and iw8, iw8's `discord.cpp` and the console of t9 are commented out of the
  registry (`// REGISTER_COMPONENT`); `post_thread_setup` is called from there
  alone. `common/scylla`, `bit_buffer` and `utils/http` have no user. Together about
  10,000 of the 47,900 lines.
- **Code about code that is not here.** Hooks, unpacking, integrity handling,
  patches, signatures and the engine headers (6,400 lines) write and read machine
  code and structures of the games. A detour of the repository is created once, by
  the thread of a phase, and the order of the phases is modelled.
- **Forwarders and constants.** Proxies' exports, UWP and WinRT hooks, most Steam
  interfaces, content and branding tables, resources.
- **Demonware services.** The repository has the framework; every registration of
  one is commented out, so a task is always answered "no error".
- **Allocator.** A vector of pointers under one mutex; `freeaddrinfo_stub` looks and
  frees a pointer that only its caller holds.
- **Reuse of a socket handle.** `closesocket` keeps the answers of a UDP socket; the
  model gives every handle one life, and nothing in the repository says what a
  second one may expect.
- In modelled components: a scheduler handler that throws or executes its own
  pipeline, a Steam handler that calls `run_callbacks`, the relative movement of the
  mouse.

The rest of the repository is thus mostly outside what a state model can say
something about, which is why the map covers a small share of all its lines.

## 7. Plan

1. A composition of `LobbySession` with `TcpServer` over `ReplyStream`'s promise.
2. `SteamProxy` with the pipelines of t6 that are executed.

## 8. Running it

`tlc -workers 2 -config MCScheduler.cfg MCScheduler` and so on for each `MC` pair
(`MCPropertyStoreMigration.cfg` is for `MCPropertyStore`); the longest takes about two
minutes. `tlapm SchedulerProofs.tla` and so on for each proof module.
`PROJECT.json` maps every definition to the lines it stands for and lists the
hazards of the code with the properties that watch them.
