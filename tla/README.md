# TLA+ models of zeta_vault

zeta_vault is a small secret store for one user of one machine. A server
process keeps an encrypted vault file open and answers requests on a Unix
socket; programs reach it through a C library, and people through the command
line client `zeta_vault_ctl`. These modules describe the parts in which
crashes, interleavings and limits decide whether a secret survives. TLC checks
them on small instances; TLAPS proves the most important properties for every
instance.

Paths below are those of the repository (`src/...` is its `src` directory).

## 1. The system

| Part | State | Operations | Module |
|---|---|---|---|
| Vault store, `src/storage/vault_store.cpp` | the vault file, `<path>.lock`, `key_`, `locked_`, `secrets_` | constructor (`acquire_file_lock`, `load_existing`, `create_new`), `put`, `get`, `remove`, `list`, `lock`, destructor; `persist`, `write_file_atomically` | `VaultStore`, `DurableMap` |
| Session loop, `src/server/server.cpp` | `stop_requested`, the listener's backlog, the one connection served, request and response | `run`, `handle_client`, `classify_exception` | `VaultService`; `Wire` (bytes) |
| Endpoint, `src/server/server.cpp` | the entry at the socket path, `listener_`, `owns_endpoint_` | `remove_stale_endpoint`, `open_listener`, `close_listener`, `~server` | `Endpoint` |
| Start-up, `src/server/main.cpp` | `creating`, the password, the parent directory | the prompts, `ensure_private_parent`, the order of `main` | `Startup`; `Endpoint` |
| Client library, `src/client/client.cpp` | socket and `next_request_id` of each handle | `create`, `destroy`, `ping`, `put`, `get`, `remove`, `list`, `lock`, all through `transact` | `VaultService`; `Wire` (bytes) |
| Codec, `src/protocol/protocol.cpp` | none | encoders and decoders of headers and payloads | `SizeLimits` (sizes), `VaultService` (matching), `Wire` (frames) |
| Socket I/O, `src/common/io.cpp` | none | `write_all`, `read_all`, receive and send timeouts | `Wire`, `Exchange` |
| Management client, `src/ctl/ctl.cpp` | private input and output files, a value on its way to the terminal | `put`, `get`, `put-utf8`, `show-utf8`; `remove`, `list`, ... | `Ctl` = `SecretInput` + `SecretOutput` + `Utf8` |
| Hidden input, `src/common/hidden_input.cpp` | the terminal, `terminal_guard` | `prompt_hidden_input` | `HiddenInput` |
| Secure buffers, C++ wrapper, wire primitives, build, examples, tests | | | not modelled, section 8 |

How they interact. `main` opens the vault, which takes the lock of the vault
file, and then creates the server, which takes over the socket path. The two
paths are independent options. A client connects as soon as the kernel has room
in the backlog, whether or not the server accepts; the server's only thread
serves one connection until it closes, fails, or is silent for five seconds.
Every request is a call of the store, which rewrites the whole vault file for a
change. A call of the client that fails on its connection closes it for good.
The management client reads what it stores from a private file or from the
terminal, and writes what it gets to a new file or to the terminal; other
programs of the user work on the same files at the same time. Before a server
serves, `main` looks whether there is a vault, asks for its password once or
twice, makes the directory if its path has one and takes the lock, in this order.

What is hard about it: a kill or a power failure inside the rewriting of the
file; two servers started on one vault, or on one socket path; calls that time
out on the client's side and are executed later; answers that are still in the
connection when the next call begins; limits that three layers define
separately; one thread for all clients; requests that are cut off in the middle
of a frame; private files that change while they are read, or appear while they
are written; a terminal that remembers what was typed before the echo went
off. `PROJECT.json` lists these hazards with
the line at which each bites and the properties that cover it.

What makes each part correct:

- store: a change that was acknowledged survives; a change that failed leaves
  no trace; the file can always be opened again; no vault is overwritten by one
  that another process made or under another key;
- service: the answer to a call is about that call; what the answers let the
  callers conclude about the vault is true; every call returns; the server
  serves those who wait and obeys its signal;
- endpoint: clients reach the server that serves; no remains of a crash keep a
  server from starting; a server that stops leaves nothing behind and takes
  nothing away from others;
- sizes: what one layer accepts, the next layers can store, load and return;
- connection: a header is read where a header begins; a call is carried out at
  most once; two ends that wait for each other do not wait for ever;
- management client: a secret is one content of one file whose permissions were
  checked; a get replaces nothing and publishes only whole files; a text that
  is shown can do nothing to the terminal;
- hidden input: what was echoed is not taken for a password, what was not is
  not run as a command, and the echo comes back;
- start-up: a new vault has a confirmed password and, if its path names a
  directory, a private one.

## 2. Modules

| Module | What it is |
|---|---|
| `DurableMap` | What a vault promises: one map that changes one identifier at a time, and a copy on the disk to which a power failure returns. |
| `VaultStore` | The store, one system call at a time, over a file system that loses what has not been synchronised. Implements `DurableMap`. |
| `VaultService` | Client handles, connections and the server's loop. |
| `Exchange` | What a connection promises: every call is carried out at most once, and an answer comes after that. |
| `Wire` | One connection, one `send` or `recv` at a time. Implements `Exchange`. |
| `Endpoint` | The socket path, one system call at a time. |
| `Startup` | `main` up to the accept loop, one system call at a time. |
| `SizeLimits` | One secret and the list of identifiers on their way through the limits. |
| `SecretInput` | `read_private_file` while other programs change the file. |
| `SecretOutput` | `write_new_file_atomically` of several processes and other programs. |
| `Utf8` | The two walks over a text that is stored or shown. |
| `Ctl` | A command of the management client: composes the last three. |
| `HiddenInput` | Prompts on a terminal where the user types at any time. |
| `...Proofs` | Theorems about the module they are named after: `VaultStore`, `VaultService`, `Wire`, `Endpoint`, `Startup`, `SizeLimits`, `HiddenInput`, and `Ctl` with the three modules it composes. |
| `MC...` | Instances for TLC; each `.cfg` is one run. `Wire` needs no definitions and is run as it is. |

`VaultService` contains no file: its `disk` is one map which a put or a remove
changes in one place or not at all (`ChangesAreCalls`). That is `DurableMap`, which `VaultStore` is
proved to implement, restricted to kills of the process: after a kill the
kernel still has the renamed file. It contains no bytes either: whole frames
pass, or the connection is given up. That is what `Wire` shows of the bytes:
a reader is never inside of a frame where it expects a header (`Framed`), and
what is cut off is carried out at most once or not at all (`Exchange`).
Operators that no next-state relation uses (`OpenNoLock`, `SyncCloseOnly`, ...)
are plausible wrong versions of the operator that follows them. Each property is
shown to fail when one of them takes the place of the right one.

### VaultStore and the code

A process is in one of the states of `pc`: `down`, `opening` (the lock is held,
the constructor runs), `ready`, and inside `persist`: `seal`, `write`, `sync`,
`rename`, `dirsync`, named for the call that comes next.

- `Open` is `acquire_file_lock`; a process that cannot have the lock does
  nothing. `Load` is `load_existing`, `Create` is `create_new` up to `persist`,
  `Refuse` is every exception of the constructor before `persist`.
- `Put` and `Remove` are the methods up to their call of `persist`, with the
  candidate map they hand over; memory changes in `SyncDir` only, where the
  caller of `persist` takes the candidate and returns.
- `Seal` ... `SyncDir` are `write_file_atomically`. `Fail` is any failure before
  the rename, which unlinks the temporary file; failures after the rename are
  ignored by the code, so they are the value `FALSE` of `SyncDir`'s argument.
- `Crash` kills a process, `PowerLoss` all of them. Files have a flag `synced`:
  a file whose name survives a power failure without it may be torn.
  `durable` is the file the path names on the disk; `Writeback` lets the kernel
  write the directory back when it likes.

A key stands for a password with the salt of the file; a sealed file opens
under its own key only. Sizes are kept: `PlaintextSize` of a map is a parameter,
so the limits of `persist` and of `read_file` can disagree in the model as they
could in the code.

`mayHold` is the callers' knowledge: the values an identifier may have,
which is one value once a call has returned and two while it is under way.

### VaultService and the code

`spc` is the place of the server's thread: `head` and `wait` are the loop of
`run`, `session`, `exec`, `reply` and `closing` are `handle_client`. A connection
has two queues: requests as whole frames, answers as a header and a payload,
because the client reads and checks them separately. `cli` and `srv` are its open
ends; closing loses what the other side had sent, as `close` on a Unix socket
does, and a connection that waits in the backlog still has its request queued
after its client has gone.

`Call`, `RecvHeader`, `RecvMismatch`, `RecvPayload`, `AllocationFails`,
`RecvFails` and `SendFails` are the paths through `transact`. The ones that go
through `fail_transaction` close the connection; `AllocationFails` does not,
because it is an exception that is caught one level further up. `Execute` is the
switch over the message type with its `catch`; `ReplyFails` is every way to leave
`handle_client` when answering, including `encode_response` throwing outside of
the `try`.

`expect` and `seen` are what callers may conclude. Each identifier is
changed by one client (`Writer`) and may be read by all: with several
writers the last acknowledged change would not be defined by the answers
alone. A client that gives up a call does not know whether its change took
effect, or will; `expect` then has both values. An acknowledged change
settles the matter. `Calls` gives each client the operations it uses.

`AcceptFails` and `Down` are the ways in which the server ends when the kernel
refuses a call; `SessionFails` is every failure of the socket in a session.
The definitions from `RealRequests` to `ServiceInv` at the end of the module are
the inductive invariant of section 5.

### Endpoint and the code

The path is `NoSock`, `Stale` (a socket nobody has open), `NotASocket`, or the
server whose socket it is. `Lstat`, `Probe`, `Unlink`, `Bind`, `Chmod` and
`Listen` are the calls of `remove_stale_endpoint` and `open_listener`; `Close`,
`LstatOwn`, `UnlinkOwn` those of `close_listener`; `Release` is the end of the
destructor, which releases the vault. `Start` requires the lock of the vault,
as `main` does; which vault and which socket path a server has are constants.

`OneVault(e)` says that the servers on a path serve one vault. The properties
about a live entry have it as a premise, path by path: without it they are
false, for the reason the run `endpoint_entry` shows (finding 2).

### Startup and the code

`prompt` and `confirm` are the two prompts of `main`, `mkdir`, `chmod`, `lstat`
are `ensure_private_parent`, then the constructor of the store follows with
`lock`, `exists`, `load` or `create`; `handlers` and `serving` are the rest of
`main`. The directory is absent, open to others (`wide`) or private; `onDisk` is
what a power failure returns to. A vault is the key it is sealed with and, as a
ghost, whether that password had been confirmed; `removed` records that someone
took a vault away.

`ensure_private_parent` returns at once for a path without directory part
(`src/common/io.cpp:110-112`). The servers in `Bare` have such a path: for them
nothing is made or looked at, here as in the code, and they may share the
directory, and the vault in it, with servers that name it in full. A directory
may be open to others from the beginning, and users open and close it at any time
(`OpenDirectory`, `CloseDirectory`).

`Create` is `create_new` down to the `rename`: `write_file_atomically` looks at
the directory a second time, and the temporary file, which `VaultStore` has call by
call, is left out. `SyncDir` is the `fsync` of the directory after it. A failure
there is ignored, and certain for a path without directory part, whose parent is
the empty path. Until then a kill leaves the vault as it is, and a power failure
returns to any mixture of old and new permissions (`onDisk`) and of old and new
entries (`stored`), which `Writeback` brings to the disk one by one.

What may be said of the directory of a vault is a ghost of the vault, `privacy`:
nothing (`none`), that its maker found the directory private (`checked`), or also
that the disk has it so (`synced`). A vault of a `Bare` server begins with
`none`. Whoever opens the directory takes back what was said of the vault in it; so
does a power failure for a vault that was only `checked`. A user who opens the
directory between the second look and the `rename` is, in the model, one who opens
it right after the `rename`: the vault ends with `none` in a directory that is open,
and nothing is claimed of it.

### Wire and the code

Each end has what it still has to send (`data`), what it has received
(`buffer`), and a pipe that holds `Buffer` bytes. `Send` and `Recv` move any
number of bytes there is room for, as `send` and `recv` do; the loops of
`write_all` and `read_all` are their repetition. A byte is a frame and a place in
it, so a header that is read in the wrong place can be told from a right one;
`decode_header` refuses what does not begin with the magic and takes anything
behind it. `TimesOut` lets a call fail when it is blocked, `SendFails` and
`RecvFails` also when the other end has closed. `NoMemory` is the exception
between the header and the payload of an answer.

### SecretInput, SecretOutput, Utf8 and the code

`SecretInput`: a byte of a file is the number of the change that wrote it, so
two contents are equal only if they are one. Other programs append, truncate or
overwrite (`mode` says which of these happen in a behaviour), or let the path name
another file. `StatPath`, `ExtraSkipped`, ... are wrong versions; `Open`, `Stat`,
`Read`, `Extra` are the calls of `read_private_file`, the last one being the
`read` of one byte beyond the size.

`SecretOutput`: every get has its temporary name; `target` is what the path
names, `onDisk` both kinds of names on the disk, `written` and `synced` the state
of each file. `Create` ... `SyncDir` are the calls of `write_new_file_atomically`,
`Fail` its clean-up. `Rename` succeeds on a free path only (`RENAME_NOREPLACE`).
The ghosts `removed`, `lost` and `safe` are what the properties allow for: others
may take the file away, and a failure to synchronise the directory is ignored.

`Utf8`: `Accept` takes the next character by the byte ranges of
`is_valid_single_line_utf8`; `Display` is the second walk, which trusts the first
and looks at the first byte only to know how far it may read. The reference
definition, `IsCharacter`, goes by code points.

`Ctl` runs one command: `put` uses the first, `get` the second, `put-utf8` and
`show-utf8` the third.

### HiddenInput and the code

A key is a letter or the end of a line, recorded with whether the terminal echoed
it (`shown`). `Save`, `Hide` and `Restore` are the `terminal_guard`, whose calls of
`tcsetattr` discard what was typed before (`TCSAFLUSH`); `TakeKey` is the loop of
`prompt_hidden_input`. When no program runs, the shell reads. `disturbed`
records what no program can help: it was killed at its prompt, two prompts
overlapped on one terminal, or the terminal refused to be restored
(`RestoreFails`: a destructor cannot report that its `tcsetattr` has failed).

### SizeLimits and the code

An identifier and a value of given lengths, and a number of other secrets, go
through `encode_put_request`, `decode_put_request`, `put`, `load_existing`,
`encode_response`, `decode_response` and `encode_id_list`, each with the limits
it has in the code. The numbers are the real ones.

## 3. Runs

| Run | Instance | Shows |
|---|---|---|
| `store` | two processes, three identifiers of which two fit, two values of which two of the larger do not fit, two keys | `NoLostWrite`, `MemoryMatchesVault`, `AlwaysReopenable`, `SealKept`, and that the store implements `DurableMap` |
| `service` | a client that puts, removes and locks, one that gets; two identifiers of which one fits, two connections, a backlog of two | `StoreWithinContract`, `GetAnswers`, `LockIsKept` under timeouts, kills, restarts and abandoned requests |
| `service_live` | two clients, one that pings and one that lists, two connections, fairness | `CallsReturn`, `Served`, `StopsWhenQuiet` |
| `wire` | frames of three bytes and up to four more, sockets that hold three, five calls, fairness | `Framed`, `CallEnds`, and that the connection implements `Exchange` |
| `endpoint` | two servers of one vault on one socket path, three servers of two vaults on another | `Reachable`, `StartsOverRemains`, `LiveEntryKept`, `NothingLeftBehind` |
| `startup` | three servers, one of them under a path without directory part; two passwords; a directory that is absent, private, or open to others, and is made open to others | `ConfirmedUnlessRemoved`, `ServesItsVault`, `VaultIsPrivate` |
| `limits` | lengths at and around every limit | `SentIsStored`, `StoredReloads`, `ListFits`, `LongIdReadable` |
| `ctl` | four input files; three gets to one path; every text of up to three boundary bytes and the four-byte forms | `WholeContent`, `GrowthNoticed`, `FromCheckedFile`; `NeverReplaces`, `PublishedWhole`, `SuccessStays`, `NoRemains`; `SingleLineUtf8`, `ReadsInside`, `ShownIsSafe` |
| `hidden` | two programs, one of which prompts twice | `ValueNeverShown`, `HiddenStaysPrivate`, `EchoRestored` |
| `store_bare_path` | as `store`, the parent directory is never synchronised | a counterexample to `NoLostWrite` (finding 1) |
| `endpoint_entry` | the second path of `endpoint` | a counterexample to `RemovesItsEntry` (finding 2) |
| `limits_readable` | as `limits` | a counterexample to `StoredIsReadable` (finding 3) |

A run checks all properties of one instance. Deadlock is checked except where a
behaviour ends: `limits` and `limits_readable` (the secret has arrived), `ctl`
(the value has been stored, shown or refused), `wire` (the connection is closed;
a new one is a new instance).

Why the bounds are enough.

- Store: the lock admits one process at a time, so a second one is all it takes
  to overwrite the first. Three identifiers with room for two reach the count
  limit with a new identifier and with a replacement; two values of different
  sizes reach the size limit without reaching the count limit. Two keys suffice
  for a vault to be sealed under the wrong one. The number of crashes and
  power failures is not bounded, and neither is any counter: the state space is
  finite.
- Service: one connection is served while another, perhaps abandoned, waits
  with its request; a client whose connections are both taken has a third only
  when one is freed, which delays it and nothing else. Request identifiers go
  round after two (`MaxRequestId`), far sooner than the 64 bits of the code,
  which makes it easier for an old answer to be taken for a new one. With one
  value, a put and a remove are the two changes that can be confused. The
  signal is left out here (`MaySignal`), since a kill, which the run has at any
  point, ends the server in the same state; `service_live` has it. The theorems
  of section 5 have every number of clients, connections, identifiers and values.
- Wire: a header is longer than what a socket can be left with after a frame,
  payloads are absent, shorter than the socket's room, and longer than it, so
  that a request can block on an answer nobody reads. Five calls (`MaxCalls`)
  leave several after every failure that keeps the connection. The timeouts
  happen whenever an end is blocked.
- Endpoint: an entry is taken away by a second server; the third on the second
  path lets the first two share a vault while another vault's server interferes.
- Startup: two servers race for the directory and the creation, the third works
  on the same vault from within its directory and never looks at it. One
  password is right and one is wrong. Kills, power failures, removals and changes
  of the permissions are not bounded.
- Sizes: every formula is linear in the lengths, so its comparisons can change
  only at the boundaries, all of which the sets contain with both neighbours;
  the theorems do without this argument.
- Input: one byte more than the limit, and two changes (`MaxChanges`) of which one
  falls before and one after any read. Two private files can replace each other.
- Output: one get publishes, one is under way, and the third finds what they
  leave; the other programs and the failures are not bounded.
- Texts: the code compares bytes with constants; `Edges` has these and their
  neighbours. The theorems are about all texts.
- Hidden input: a line longer than `Limit` is accepted by the terminal
  (`LineMax`), which holds a full line and the beginning of the next (`MaxQueue`).

## 4. Fairness

`FairSpec` assumes weak fairness of the steps the server's thread takes on its
own (`Poll`, `PollAgain`, `Accept`, `ReadRequest`, `Execute`, `CloseSession`,
the two outcomes of answering) and of the steps of a client inside a call: the
kernel schedules runnable threads. `GiveUp` and `RecvFails` are fair because
both ends set timeouts on their sockets (`SO_RCVTIMEO`, `SO_SNDTIMEO`; five
seconds on the server, the handle's `timeout_ms` at the client): a read that
nothing arrives for returns. Nothing is assumed about `Start`, `Signal`,
`Crash`, `Connect`, `Call`, `Destroy` and `SendFails`: users may stop at any
time, the server may never be started again, and a client may keep a handle
open without using it.

`Served` and `StopsWhenQuiet` have the premise that calls do not go on for ever
(`Quiet`). The code needs it: the receive timeout starts again with every
request, so one busy client keeps the thread, and the signal is looked at
between sessions only. `CallsReturn` needs no premise.

`Wire` has weak fairness of the work of either end inside a call (`ClientWork`,
`ServerWork`): its thread runs, and a blocked call ends by the timeout its socket
was given (`set_socket_timeout` on both ends). It assumes nothing about new calls,
`Destroy` and the end of the server. `CallEnds` says that a client in a call comes
out of it, also when each end waits for the other to make room.

The timeout of a read begins again with every byte that arrives. A peer that
sends single bytes slowly has not been modelled as one that does so for ever:
frames are finite, so each of its calls ends, but none of the liveness properties
bounds the time that takes.

## 5. Theorems

All are checked by TLAPS to the last step, for all values of the constants that
satisfy the named assumptions. In each module the inductive invariant is a
conjunction of named parts, there is one lemma for each action or group of
actions, and the temporal theorem is the last step.

**VaultStore**, from `StoreAssumption` (an empty map fits the file, the
identifiers are finitely many, the marks are no values) and `NoFileAssumption`.
`NoLostWrite`, `MemoryMatchesVault` and the refinement are not inductive: that a
put keeps memory and file together follows only from what the temporary file
holds when it is renamed, from the lock, and from the count of the candidate.
`IInv` says these things:

- `Exclusive`: a process that lives holds the lock;
- `KeyState`, `KeyInUse`: the key is there exactly while the store is unlocked,
  which it is throughout `persist`;
- `BeforeRename`, `AfterRename`: what the file holds, seen from the process,
  before and after the rename;
- `OneEdit`: the candidate differs from memory in one identifier;
- `TempFile`: the temporary file on its way to hold the candidate;
- `FilesGood`: both the visible and the durable file are synchronised, can be
  opened, and carry the same seal.

`Gone` is shared by the four ways to end. From `Spec => []IInv` follow
`MemoryIsVault`, `VaultReopens` and `SealIsKept`. `AcknowledgedWritesSurvive`
adds `NoLostWrite` itself to the invariant and assumes `DirSync = {TRUE}`: that
opening and synchronising the parent directory succeeds. The code ignores a
failure there, and the run `store_bare_path` shows that the assumption cannot be
dropped. `Refinement` maps `current` and `stable` of `DurableMap` to the contents
of `vault` and `durable`; only `Rename`, `SyncDir`, `Writeback` and `PowerLoss`
are more than a stutter.

**VaultService**, from `ServiceAssumption`: `TypeCorrect`, `VaultWithinContract`,
`AnswersAreTrue`, `LockedStaysLocked`, `VaultChangesByCalls`, `VaultIsDurableMap`.
That the vault is within the contract depends on every change that may still be carried out, wherever it waits. `ServiceInv`
describes where requests are:

- `Queue`: a connection with an unread request is the one being served or waits
  in the backlog, each once, and a closed one has nothing;
- `Known`: the value of an identifier, and the value every change still waiting
  would give it, are among those its callers allow for;
- `Handle`, for each client, has three parts. `Turn`: an answer in its connection
  belongs to its present call, or is the unread rest of an earlier one, which
  is a payload and never taken for a header. `Ordered`: while an older change of
  the client waits somewhere, its present connection is behind that one and has
  no answer; the server takes connections in order, so nobody is told of a later
  change before the older one is settled. `Remembered`: the values a reader may
  see have been possible since its call began.

`VaultChangesByCalls` states what the service takes for granted of the store, and
no more than `DurableMap` gives: the vault changes in one identifier at a time,
while it is unlocked, to what the put or remove asks for that the server is
working on. `VaultIsDurableMap` draws the conclusion: the service's vault is a
behaviour of the specification that `VaultStore` is proved to implement, one in
which the power does not fail.

**Wire**, from `WireAssumption` (sizes are numbers, a header has
a byte to begin with and a socket has room for one): `TypeCorrect`,
`FramesAreWhole`, and `Refinement`, that every step of a byte is a step of
`Exchange` or a stutter. `Call`, `Execute`, `Return` and the ways to give up
map to `Call`, `Execute`, `Answer` and `Fail`. What makes it true cannot be said of
a buffer, a pipe or the data still to send alone, since any number of bytes may have
moved: the three together are one `Stream`, which sending and receiving do not
change (`SendStreams`, `RecvStreams`). `WireInv` says what it may be:

- `ToServer`: from nothing up to the rest of one request, the one that is asked
  and not done, beginning with its header unless the server has read that;
- `ToClient`: part of the answer to the present call, or bytes that begin in the
  middle of an unread payload, which `decode_header` refuses;
- `Bounded` and `Numbered`: an end reads no more than it wants, and the number
  of the last request, the one done and the calls made are in that order.

**Endpoint**, from `EndpointAssumption`. `TypeCorrect` and `PathsCleared` hold
whatever the servers share. The other four are about paths with `OneVault(e)`:
there the lock of the vault excludes the servers from each other, and
`EntrySeen` says what each knows of its path, whatever happens on other paths.
Without the premise `RemovesItsEntry` is false, as `endpoint_entry` shows; so
are `Reachable` and `LiveEntryKept`, for the same reason.

**Startup**, from `StartupAssumption`: `PasswordIsConfirmed`, `VaultIsItsOwn`,
`DirectoryIsPrivate`. The decision to confirm is older than the lock, so the
invariant carries it along (`LookedFor`): a server that decided not to confirm had
seen a vault, which is there still unless removed. `DirectoryIsPrivate` says that
a vault made under a path with a directory part is in a private directory until
somebody opens it. It speaks of the directory as it is now, so it needs what a power
failure would make of it (`DiskIsPrivate`): where the directory was synchronised after
the vault was made, the disk does not have it open to others. What the second look
of `write_file_atomically` is for can be seen from the mutant without it: a directory
that was opened after the first look gets a vault.

**SizeLimits**: `NoSizeRefusedLate`, `NoSizeUnloadable`, `FullListFits`,
`LongIdIsReadable` for all lengths and counts; `Passed` records which limits a
secret has passed by now. The product of count and identifier length in
`FullListFits` is bounded by a lemma on the monotonicity of multiplication.

**HiddenInput**, from `HiddenInputAssumption`: `TypeCorrect`, `NoShownKey`,
`NoHiddenCommand`, `EchoComesBack`, for any number of programs, keys and lines. A
prompt gives the terminal back as it found it, so the invariant says what it
found: prompts are `Alone`, each has saved a terminal that echoes (`EchoSaved`),
the echo is off exactly while one reads (`EchoOff`), and what waits in the queue was
typed under the present setting (`QueueAsEchoed`), because each change empties it.

**Ctl**: `CommandsBehave` shows that a behaviour of the client is a behaviour of each
of the three components below, and `CtlKeepsItsPromises` that it has all the
properties of the run `ctl`. The theorems of the three are in `CtlProofs` as well.

**SecretInput**, from `InputAssumption`: `NoMixture`, `GrowthIsNoticed`,
`CheckedFileOnly`, `NoFalseAlarm`, for any sizes and any number of changes.
`ReadFromStart` and `SameAsStart` compare what has been read with the content when
`fstat` looked; `held` has every content since.

**SecretOutput**, from `OutputAssumption`: `NothingReplaced`, `PublishedIsWhole`,
`SuccessIsKept`, `FailureIsClean`, for any number of gets. `Published` says that
the path never names an unfinished or unsynchronised file, in memory or on disk.

**Utf8**, from `TextsAssumption`, for texts of any length: `WellFormedIsCharacter`
shows that the byte ranges of the code are exactly the encodings of scalar values,
by arithmetic on four byte variables; `ValueIsUtf8`, `SecondWalkStaysInside` and
`TerminalGetsNoControl` follow with an invariant that relates the two walks
(`SecondWalk`).

The inductive invariants were checked with TLC on the same instances as the
runs before they were proved; they are not among the properties of the runs
because the theorems have them for every instance.

Every safety property of a passing run is the subject of a theorem. Only
model-checked are the liveness properties `CallsReturn`, `Served`, `StopsWhenQuiet`
and `CallEnds`: they rest on fairness, which involves ENABLED and is out of reach of
the proof system as used here. So is induction over data, which no theorem
needs: the walks over texts and files are steps of behaviours.

## 6. Findings

1. `store_bare_path`: with a vault path that has no directory part,
   `write_file_atomically` opens the empty path to synchronise the directory,
   fails, and ignores it. A put that returned can be lost in a power failure.
   `src/ctl/ctl.cpp` uses `"."` in the same situation.
2. `endpoint_entry`: with servers of different vaults on one socket path, one
   that stops can remove the live entry of the other.
3. `limits_readable`: a value within four bytes of 1 MiB under an identifier of
   up to three characters is stored, and its get closes the session instead
   of answering.

Behaviour the models show and no line of the repository promises otherwise:

- A put into a full vault throws `std::length_error`, which
  `classify_exception` takes for a `logic_error` and answers as LOCKED.
  `LockIsKept` allows for it.
- The stop flag is read between sessions, so a client that calls more often than
  every five seconds keeps the server running after SIGTERM (`StopsWhenQuiet`
  has the premise).
- An input file that is rewritten in place, without a change of its length, is
  stored as a mixture (`WholeContent` is about files that only grow or only
  shrink).
- A kill at the prompt leaves the terminal without echo. The terminal itself
  cuts lines at 4095 bytes in canonical mode, whatever the limit of the program.
- A server killed between `mkdir` and `chmod` leaves a directory that later
  servers refuse.
- With a path without directory part nothing looks at the directory
  (`src/common/io.cpp:110-112`): the vault may be made and served in one that is
  open to others. `VaultIsPrivate` has this exception. `README.org:86` says that the
  socket's parent directory is private; a socket path without directory part takes
  the same early return.
- A power failure between the `rename` and the `fsync` of a new directory, or after
  that `fsync` has failed, may leave a vault in a directory the disk has as it was
  before its `chmod`. Later servers with a full path refuse to serve it there.
- A new vault can be lost in a power failure together with its directory, whose
  own name nobody synchronises.
- If the vault is removed between the look of `main` and the lock, a new one is
  created under a password that was typed once.
- An answer that is left unread, because there was no memory for it, and a large
  request make both ends wait until their timeouts.

## 7. Plan

Done: the store with its refinement and proofs, the service with its proofs, the
bytes of a connection with their refinement, the endpoint, the start-up, the
sizes, the management client's files and texts, hidden input, and the proofs of
all their safety properties. Left, in order of what they would add:

1. The backlog of `VaultService` with the probe of `Endpoint`, which connects
   without a timeout and blocks while the backlog of the other server is full.
2. Allocation failures inside the store: `parent_path` after the rename.
3. The order of fields in headers and payloads, by folds rather than recursion.

## 8. Not modelled

- Cryptography (libsodium): a file opens under its own key only; nonces and key
  derivation are not represented.
- Frames whose fields are not well-formed: the decoders refuse them and both
  ends give the connection up, which the models do for the ones they have.
- Owner and permission checks other than those named above, `SO_PEERCRED` and
  other users: they refuse before any state changes.
- Allocation failures inside the store, section 7.
- Several paths to one file (links): two servers that name one vault by two
  paths have two lock files.
- `remove`, `list`, `ping` and `lock` of the management client, which are one call
  of the library each, and the parsing of arguments, which is sequential.
- The character class of identifiers: a test of one string.
- The removal of the vault's directory while servers start.
- A clean-up that fails: the `unlink` of a temporary file after a failed get, or a
  failed rewriting of the vault, whose result the code ignores.
- An end of file typed in the middle of a line: the terminal then hands out the keys
  before it without an end of line, and the prompt goes on reading.
- Secure buffers (`secure_bytes.h`): ownership of one allocation, no protocol.
- The C++ wrapper: each call is one call of the C library.
- Build scripts, examples, tests, and the external library of wire primitives.
