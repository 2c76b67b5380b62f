# rdesk: a verification development

TLA+ models of the rdesk remote desktop, model-checked with TLC, and theorems
about them checked with TLAPS.  `PROJECT.json` lists the components, the runs,
the source lines every definition stands for, and the hazards of the code with
the properties that cover them.

    tlc -workers 2 -config WakeCalls.cfg MCWakeServer     # one run
    tlapm WakeServerProofs.tla                            # one module of proofs

## 1. The system

rdesk lets a person see and control another computer or phone.  Programs:

* **relay server** (`crates/rdesk_server`, Rust, axum/tokio).  One process,
  many tasks on several threads, state in `DashMap`s.  It knows accounts, the
  hosts that are online ("previews"), the viewers' sessions, the last frame of
  each host, queues of commands for hosts, files in transit, and the wake
  service of each account.
* **Flutter client** (`flutter_client`, Dart, with native runners).  Both the
  *host* (captures the screen, polls for commands) and the *viewer*.  One
  isolate: what lies between two awaits is atomic, but timers and callbacks
  come in at every await.
* **wake helper** (`tools/wake-helper`, Go; a Kotlin twin on Android).  A small
  agent that stays on in the home network, polls the server and writes magic
  packets.
* a **peer-to-peer prototype** (`rdesk_core`, `rdesk_net`, `rdesk_crypto`,
  `rdesk_bridge`), which the client does not use.

### Components, state, operations, what is hard, what must hold

**Wake requests in the server** (`wake/routes.rs`, `model.rs`, `store.rs`).
State: per account agents, targets and requests (on disk, one writer lock) and
two maps in memory, when an agent last polled and a target last sent a
heartbeat.  Operations: register and rotate and stop agents, bind and rebind
and delete targets, create a request, poll (claims it), authorize (the one
permit to send), result, heartbeat, and the advance of requests with time.
Hard: handlers authenticate and read *before* they take the writer lock; every
other commit can come in between; a restart turns running requests into
interrupted ones; the history is pruned.  Must hold: one running request per
target; a permit is given once; an end is an end; what a request claims to have
happened has happened; a stopped or rotated credential has no effect; every
request comes to an end, and the maps forget what was deleted.

**Pairing** (`wake/pairing.rs`).  State: pairings in memory, under one lock of
their own.  A computer of the account creates one and shows a proof (a QR code, or
sixteen characters to type); a phone resolves and confirms it; the computer
claims it with a proof of its own and so becomes a target.  A pairing can be
cancelled, expires after some minutes, and is forgotten at a restart; limits per
account refuse further pairings and wrong proofs.  Hard: the claim holds the lock
of the pairings while it waits for that of the user store and writes the file, and
then marks the pairing in memory; targets are created and deleted, accounts
deleted, by calls that take only the second lock; answers are lost and clients
hang up.  Must hold: a target and the claim it came out of are seen together or not at all; a computer
is one target; whoever was told that it is a target, is one; no two calls wait
for each other.

**Accounts** (`main.rs`, `store.rs`).  Users, an index by name, sessions (kept
in a second file), presence of devices.  Hard: a handler is dropped at an await
when its client hangs up, in the middle of writing; a login overlaps the
deletion.  Must hold: a deleted account stays deleted over a restart; no
session of a user that is gone gives access; names are unique.

**Screens on demand** (`main.rs`).  State: registration of the host, sessions
of viewers, leases with an *epoch* per audience, the last frame, a broadcast
channel per WebSocket.  Operations: register, resolve, fetch a frame (renews the
lease), stop, close, connect, ping and pong, commands over the WebSocket, upload,
expire.  Hard: session,
lease and frame are in different maps under different locks.  Must hold: no
lease without a session; no frame of one audience is shown to the next; a
viewer that crashed, or stopped, does not keep the host capturing.

**Commands and files** (`main.rs`; on the host `desktop_host_provider.dart`,
`incoming_file_store.dart`).  State: a queue per device, a waiter per call, the
files in transit and their total size; on the host one command at a time, a
generation of hosting, and transfers beside it.  Operations: queue a command
and wait, poll, complete, expire, upload, download, unregister.  Hard: requests,
answers and reports are lost; the caller times out or hangs up while its
command is queued or performed; hosting ends and begins anew with another
token.  Must hold: what the viewer is told happened; nothing twice; clicks in
order; the room for files is given back; only the user of *this* hosting lets
in the viewer that asked.

**Wake helper** (`core.go`).  State: a journal on disk, the job at hand, two
clocks.  Hard: crashes and lost replies between every two steps, a clock that
sleeps or is set.  Must hold: packets of a request are written by one execution
at most, only within the permit, never reported falsely; every execution is
settled in the end.

**Hosting and capture** (`desktop_host_provider.dart`, `desktop_host_service.dart`).
State: intent to host, generation, token, epoch and lease as the host sees
them, the capture in flight, the LAN listener.  Hard: answers to polls that come
after hosting was switched off and on; epochs that begin anew when the server
restarts; overlapping starts of the listener.  Must hold: nothing captured once
the lease is over or hosting is off; no frame of an old audience is sent to a
new one; nobody stays let in who was thrown out; one listener while hosting, none
after; hosting that stays on becomes reachable whatever overlapped.

**Viewer** (`session_provider.dart`, `connection_provider.dart`), **Android host**,
**Android agent**, **wake on the client**, **directory and sign-in**, **updates**,
**key forwarding**: see the notes in `PROJECT.json`.  Screens, widgets, native
capture and input, the prototype, deployment: not modelled, with the reasons
there.

### Interactions

Hosts, viewers and agents only *call* the server (HTTP, WebSocket); the server
never calls them.  A host learns that it is to capture from its poll of the demand,
and of commands from its poll of the queue; a viewer learns of the result from
the answer to its own call, which waits on a channel until the host reports.
Accounts own devices, and the wake data is part of the user's record, under the
lock of the user store.

## 2. Modules

| module | models | composes |
|---|---|---|
| `WakeServer` | the wake service of one account | |
| `UserStore` | what the server promises of its accounts: memory and file | |
| `Accounts` | accounts, sessions, presence and their two files; implements `UserStore` | `INSTANCE UserStore` |
| `AccountsLate` | the same, with a rename that outlives its call | `EXTENDS Accounts` |
| `Pairing` | pairing computers with the wake service of one account | |
| `WakeOnce` | what a wake helper promises: one execution per request | |
| `WakeHelper` | the helper's engine; implements `WakeOnce` | `INSTANCE WakeOnce` |
| `ScreenRelay` | screens on demand of one device, in the server | |
| `ScreenStop` | the same, with a record of who has stopped | `EXTENDS ScreenRelay` |
| `CommandRelay` | commands and files of one device: server *and* host | |
| `HostSession` | what hosting promises the rest of the desktop host | |
| `HostSwitch` | switching hosting, throwing out, registration, LAN listener; implements `HostSession` | `INSTANCE HostSession` |
| `CaptureHost` | demand, leases, capture and uploads of the desktop host, with the relay's epochs | `EXTENDS HostSession` |
| `MC...` | instances for TLC | extend the above |
| `...Proofs` | theorems and their proofs | extend the above, `TLAPS` |

How state and actions correspond to the code is in the header and the variable
comments of each module; `map` in `PROJECT.json` names the lines.

### WakeServer

A commit (the closure given to `update_wake`, with its pruning and saving) is
one step: `user_store_write` is held over it.  What a handler reads before it is
kept in the record `calls[task]`, and is as old as it likes when the commit
comes.  `now` is the server's clock; the code uses the system's clock, which the
model takes to be monotone.  A credential is the number of its issue.  `Abandon`
stands for every way in which a call ends without a commit: refused, failed to
save, timed out, dropped.  `Restart` applies `recover_after_restart`.  The polls'
wait for a job is a repeated step of the same task.  A poll may look at its
credential before and claim after a rotation; it is harmless because authorize
refuses, and the model lets it happen.

The periodic cleanup is three steps: it collects the ids there are (`Cleanup`), drops
the entries of the two maps by what it collected (`Retain`), and advances the account
like any other call.  A computer that is deleted between the first two keeps its entry
until the next time.  The advance of a call reads the clock and then the heartbeats, in
the model at once: a heartbeat in between is later than the clock the call goes by,
and `observed_online` refuses it (`seen <= now`).  The account too is read there, which
only decides whether to go on: the commit reads it again.

### UserStore, Accounts, AccountsLate

`Accounts` has the calls of several accounts.  Four things change: the user records
(`users`: for each account the revision of its data, where the detailed data is that
of `WakeServer` and `Pairing`), the index of names, the sessions, and the presence
of devices; the first and the third have a file.  A call that changes a record is
looked at (`Register`, `Delete`, `Wake`), waits for `user_store_write`, looks
again and takes a snapshot (`TakeLock`), renames the new file (`Rename`), and
publishes the change in memory (`Registered`, `Revised`, `Deleted`); it may fail at
the write and may be dropped at each await (`Drop`).  Whoever is dropped after the rename leaves a
file that is one change ahead of the memory: nobody was told of it, and it becomes
true if the server restarts before the next write.  `UserStore` says exactly this,
and the run `accounts` checks that `Accounts` implements it.  The file of sessions
is written in place, so that a crash leaves it cut off (`sessionFile = None`),
which costs the sessions.  A crash is one of the process, not of the power: the
code syncs the file of users (`store.rs:43`), but neither that of sessions nor the
directory with the new names.  `Drop` takes a rename that was handed to the file system's thread as
executed before anybody else renames; `AccountsLate` drops this assumption, and
is the finding `accounts_late`.  Passwords are right, lifetimes of sessions and
presence may end at any time; ids are never used twice.

### Pairing

One account, its pairings, and its targets in memory and file.  A pairing's time is
a flag that may be set at any time (`Expire`); `Pruned` removes the expired ones
where the code calls `prune`.  A claim passes the places `wait` (for the
pairing lock), `queue` (for the store, holding the first lock), `writing`,
`renamed`; all other calls begin at `queue`.  `Touch` is any call of
`update_wake` that leaves the list of targets alone (also the cleanup's), `Close`
the deletion of the account.  Proofs are right: a call with a wrong one is refused and
counted, and the count only refuses more.  What the token of a target is exchanged
for later, and which agent wakes it, is `WakeServer`'s.  A claim dropped after the rename
leaves its target in the file and not in memory, where the next write
removes it; only a restart in between makes it real, and then no pairing is left.

### WakeHelper

One goroutine: `pc` is where it is, `frame` its local variables.  The server is
arbitrary, within what the code of the server enforces: a job is delivered, any
number of times, while it has not expired.  `now` is true time, `lag` and `skew`
the errors of the two clocks; on one machine one of them is unreliable
(`clock`).  The check of the deadline and the write of a packet are one step,
the pause between packets is time passing.  A save that fails may have renamed
the file or not, and ends the process (`run` returns `storage_failed`): hence
memory equals disk whenever the process goes on.

### ScreenRelay

What a handler does under the entry lock of `screen_demands` is one step; reads
before and after are steps of their own.  Leases are countdowns of ticks.  A
registration's or a session's lifetime is abstracted: they may end at any time.
Tokens are minted once, connections made once.  The first check of `fetch_frame`
is merged with the start of the handler.  `kept` records that one on-demand host
has been registered without interruption: the promise about frames is for such a
host (see the finding).  A command that comes over a viewer's WebSocket is awaited
in the loop of that connection (`LinkCommand`, `LinkAnswered`): until the host has
answered, the connection sends no frame and hears no pong, and its lease runs out
by itself.  The viewer of this repository sends its commands by HTTP and leaves this
to others, but the server offers it.  `ScreenStop` adds a record of the
connections whose viewer has stopped, for the finding `screen_stop` only.

### CommandRelay

The server's queue, waiters and files together with the host's loop.  All timers
are abstracted: a command may become stale, a wait may end and a request may be
lost at any time, so the properties hold whatever the constants
(`COMMAND_TTL_MS`, `FILE_RECEIVE_TIMEOUT`, `_relayFileWindow`).  A viewer's
session is one flag.  Three kinds of calls: an input, a file, and a request to
be let in without a password; `asked` is the host token that request was made
of.  The ends of hosting are a change of generation (`NextGeneration`) and, later,
the loss of the token (`ForgetToken`); that they may come apart is more than the
code does.  A poll whose host has given up waiting still takes a command
(`PollAstray`).  Dropping the receiver and removing the waiter at a timeout are
one step.  What a viewer is told is not the answer that its call got: most handlers
pass `ok` on, but `clipboard_get` and `list_displays` drop it and give the text,
`file_list_request` says `"ok": true` to every answer, and `resolve_preview` tells
whether there is a session.  `Replies` lists what each kind of call may be told, and
`AnswersTrue` is about these replies: it holds of every success, failure and text that
is told, and says nothing of a list of files or of an empty clipboard or display list,
which come after a failure or a stale command as well.  Empty files are left out
(`Sizes`): they take no room.  A file that its upload has given back while the host
still downloads it is not counted any more, in the code as in the model.  A file is given back when its upload ends: the five minutes after which
`cleanup_expired` drops a file are not modelled, since the upload that holds it has
ended long before (`FILE_RECEIVE_TIMEOUT`).  Ghosts: `performed`, `pushed`, `letIn`.

### HostSession, HostSwitch

The host is one Dart isolate: a step is what runs between two awaits.
`_hostTransition` is `chain`, whose head is the transition that runs; beside it
run `disconnectCurrentViewer` (`disc`), the recovery timer (`maint`), the
registration (`reg`, one at a time: `_relayRegisterBusy`) and the shared attempt
to open the listener (`lan`: `_lanRelayStarting`).  Each keeps the generation it
began with and looks at it where the code calls `_hostCurrent`.  `sockets` counts
the listening sockets of the process, `server` is the one that `_lanRelayServer`
names, by the generation of its handler.

On the relay's side a registration and its removal are one step each; the host
may have given up the call, and the request then arrives later or never (`late`).
The owner's account may take the place of the token in a registration, as in
`register_preview`.

Throwing out (`revokeAccessAndDisconnect`) has awaits between its parts, and each is
a step: the list of trusted viewers is cleared (`Revoke`), the password replaced unless
it is a permanent one (`RevokePassword`), the generation moved and the token given up
(`Disconnect`, `DiscUnregisters`, `DiscClosed`).  A registration reads the password,
then the list (`RegisterRead`), and only then looks at the generation and sends.  The
model follows one viewer who could get in by one `way`, the password or the list, which
is fixed in a behaviour: `open` says whether the host would let it in, and
`srv.open` whether the relay would by the registration it has.  `Trust` puts a viewer
on the list again at any time, as `/session/trust` and the relay's command do, which
look neither at the generation nor at a revocation under way.  So what the
comment at `desktop_host_provider.dart:498` wants, that the viewer cannot come straight back,
is not so for a viewer whose trust is given between the clearing and the new
generation: the next registration carries it.  `RevokedStays` says what
does hold: the relay lets nobody in by the registration in use whom the host would not.

Three abstractions:
a task that waits for a registration that another one makes is not held (nothing
follows that wait but the start of the command loop); `_busy` does not keep the
recovery timer away, because `refresh` clears it at any time; and the relay drops
a registration that nobody renews (`Expire`) only after the host has dealt with
the answer to its last call (30 seconds against a few).  `dispose` is not
modelled.

`HostSession` says only what the capture relies on: hosting as the user said last,
no service begun and no token learned while it is off.  The run `hosting` checks
that `HostSwitch` implements it, and `CaptureHost` is built on it instead of on
the detailed module, which keeps it small.

Two things the model shows that are no violations of a promise.  A heartbeat
between the unregistration and `_relayHostToken = null` of a disconnect gets a
new token that the disconnect then forgets; a host without an account cannot
renew that registration and waits until the relay drops it.  And a disconnect that
overtakes a queued start leaves the service not started (`_isRunning` false) while
hosting is on, since the start finds another generation.  `HostingSettles`
therefore speaks of the listener and the registration, and not of `running`.

### CaptureHost

One poll of the demand (`poll`), one picture being taken or uploaded (`shot`: the
code awaits the upload before `_captureInFlight` is cleared), the leases as
countdowns.  Counters that are only compared with what a call remembers are
flags: a poll is of the present hosting or of an `old` one, `shot.live` and
`shot.valid` say that `_captureGeneration` of the provider and of the service are
still those of the picture.  Epochs are numbers, because after a restart of the
relay they come again.  For the properties a picture has the audience it was
taken for, `now` or `old`; a new audience makes every picture an old one.

The relay's side is that of `ScreenRelay` with one step for each request; what two
steps of `upload_frame` can do is the finding `screen_upload`.  Whether a picture
is uploaded is a choice (unchanged ones are not).  An upload that was cancelled may
have reached the relay.  A lease that ended takes its frame with it, since every
reader prunes first.  The permission dialogs, the errors shown and the indicator of
viewers are left out.

## 3. Runs

| run | instance and bounds | shows |
|---|---|---|
| `wake_calls` | 1 agent, 1 target, 2 overlapping calls and the cleanup, 2 requests, 2 credentials, clock up to 1, cleanup from 1 on | interleavings of calls: `OneActivePerTarget`, `AuthorizedOnce`, `TerminalForGood`, `OnlyCurrentCredentialActs` |
| `wake_live` | 1 target, 1 request, 2 revisions, 1 call beside the cleanup, clock up to 3, history kept for 3, fair | `Evidence`, `ActiveBound`, `EveryRequestSettles`, `RuntimeForgets` |
| `accounts` | 2 user ids for 1 name, 1 device, 2 overlapping calls and the periodic save, 1 revision, crashes and dropped calls without limit, fair | `NamesUnique`, `SeenIsKept`, `DeletedForGood`, `ImplementsStore` (refinement), `DeletedUnlisted` |
| `accounts_late` | the same, one late rename at a time | **finding**: `DeletionFinal` fails |
| `pairing` | 1 computer, 2 pairings of which 1 open at a time, 2 tokens, 2 targets, 2 overlapping calls and the cleanup, crashes and dropped calls without limit | `ClaimWhole`, `OnePerDevice`, `AnswersKept`, `LocksComeFree` |
| `helper` | 2 jobs, the second when the first may have left the journal, journal of 1, 2 packets, 1 crash, skew 1, time up to 7, fair | `ReportTrue`, `AtMostOnce` (refinement), `WithinPermit`, `ReceiptSettles` |
| `screen` | 1 token, 1 connection, lease of 1 tick, buffer of 1 frame, 2 epochs, both kinds of hosts, fair | `LeaseHasSession`, `OwnAudience`, `CrashedExpire` |
| `screen_stop` | the same | **finding**: `StopHolds` fails |
| `screen_upload` | the same, on-demand hosts only | **finding**: `NoPredecessor` fails |
| `commands` | 2 calls of any kind, files of size 1 with room for 1, 2 host tokens | `AnswersTrue`, `PerformedOnce`, `InOrder`, `HeldByUploads`, `LetInByUser` |
| `hosting` | 1 revocation, in by password, by trust or neither, 3 host tokens, 3 changes of generation, 1 loss where no way is followed, fair | `StoppedIsStopped`, `ListenerCurrent`, `RevokedStays`, `HostingSettles`, `ImplementsSession` (refinement) |
| `capture` | 1 host token, lease of 1 tick, 2 audiences and one more after a restart of the relay, 1 LAN viewer let in at a time, hosting switched without limit, fair | `OffIsDark`, `LeaseHonest`, `AudienceOnly`, `SessionCurrent`, `CaptureEnds` |

Why the bounds suffice for the question asked.  Two overlapping handlers are
where a read before a lock meets a commit after it; what a third could add is a
second commit in between, which the cleanup task and a finished call's successor
already supply.  The helper's clock values are distances between few events
(creation, expiry, permit, pruning), and 7 ticks let all of them fall in any
order.  In `screen` one token with a fetch *and* a connection gives two leases of
one session, which are what the races are about; the second epoch is the "next
audience".  In `commands` two calls can be queued together, overtake and block
each other, and two files exceed the room together; two tokens are an old and a new
hosting.  In
`accounts` two ids want the one name, so that a name is freed and taken again while
an old call of it is under way; in `pairing` the two pairings are of one computer, so
that the first has ended or was claimed when the second is confirmed, and two
tokens are the computer itself and another that holds its proof.  In `hosting` three changes of generation are an on, an off and an on
again with a disconnect anywhere between, while four calls of the first generation
are still awaited; three tokens are the one held, the one at the relay and the one
in an answer; one viewer and one way is enough, since the
two ways share no state.  Losses are left to the behaviours without a way, because
`RevokedStays` is said of hosts whose requests arrive.  In `capture` one tick is enough for an
answer that is late and for a lease that has ended, since leases are all of one
length; with two host tokens (1.5 million states) all five properties hold as well.  Constants that only bound the model are named (`MaxNow`, `LastCreate`,
`MaxGen`, `MaxRev`, `MaxRequests`, `MaxCrashes`, `MaxSkew`, `MaxEpoch`, `MaxReg`,
`CleanFrom`, `MaxLosses`, `MaxCodes`, `MaxIds`)
and appear in guards only.  The theorems below have none of these limits.

`CHECK_DEADLOCK FALSE` stands where the system may really stop: at the end of
the model's clock (the wake runs), and in `commands` when every call has ended,
the tokens are used up and the host has none; in `hosting` and `capture` when
hosting is off and nothing is under way.

Symmetry is used only in runs without liveness properties: of the tasks that serve
calls (`wake_calls`, `pairing`), the tokens that computers choose (`pairing`), and the
calls of viewers (`commands`).

No run checks a type invariant, nor `ReservedOnDisk` (helper), `FrameOfAudience`
(screens) and `PrunedWhenOver` (wake): these are proved, and the time of the runs is for
what is not.  For `PrunedWhenOver` an instance needs requests of two computers that
fill the list while the first is still observed.

### Fairness

* `WakeServer!FairSpec`: time passes, and the periodic cleanup task runs and
  finishes (`tokio::spawn` with an interval in `main`).  No call of any client is
  assumed.
* `WakeHelper!FairSpec`: the goroutine runs and its calls end (the HTTP client
  has timeouts); a dead process is started again (systemd, procd, the
  application); the disk does not refuse every write (strong fairness).
* `ScreenRelay!FairSpec`: time passes, the cleanup runs, and a handler that was
  called goes on.  Nothing is assumed of hosts and viewers.
* `HostSwitch!FairHostSpec`: a task that can go on does, the periodic timers fire,
  the relay's cleanup runs.  A weakly fair disjunction of a task's steps is enough:
  a task is at one await at a time.
* `CaptureHost!FairCaptureSpec`: time passes, the timer of 250 ms runs while hosting
  is on, and a poll is answered or times out.  Viewers, pictures and uploads are not
  assumed to go on.
* `Accounts!FairSpec`: the cleanup that runs every 15 seconds one day finds expired what
  nobody can refresh any more: a device that is listed for a deleted account.
* `CommandRelay` and `Pairing` have none: their properties are safety properties.

### Findings

* `StopHolds` (`main.rs:1770`): a pong checks its lease and renews it under
  two locks; a stop between them is undone.
* `NoPredecessor` (`main.rs:1101`): an upload that was accepted before its host
  unregistered, and committed after it registered again, skips the check of the
  epoch.
* `DeletionFinal` (`store.rs:45`): the rename of a call that its client abandoned is
  still executed, without the lock; when another call has deleted the account in the
  meantime, the older file takes the place of the newer one and a restart brings the
  account back.

Seen on the way, and not a run:

* deleting a target deletes its requests too, by which the limit of ten requests per
  minute (`docs/remote-wake.md`) is counted;
* `file_list_request` (`main.rs:1822`) answers `"ok": true` with an empty list when the
  command was stale or failed, and always for the desktop host, whose switch of
  commands has no case for it (`desktop_host_provider.dart:1353`);
* a viewer that is trusted again between the steps of a revocation is back at once,
  against the comment at `desktop_host_provider.dart:498` (see HostSwitch).  A session on
  the LAN it does not get (`SessionCurrent`), but its place on the list it keeps.

## 4. Theorems

All are of the form `Spec => []Inv` or `Spec => ActionProperty`, for every value
of the constants that satisfies the named assumptions; the clocks, credentials
and epochs are unbounded naturals, and the model bounds are parameters like any
other.

| module | theorem | states |
|---|---|---|
| `WakeServerProofs` | `TypeCorrect`, `BindingCorrect`, `RequestsBound`, `EvidenceCorrect`, `PermitOnce`, `EndsForGood`, `CredentialCurrent`, `PrunedOnlyWhenOver` | `TypeOK`; `OneActivePerTarget` and `ActiveBound`; `ActiveBound`; `Evidence`; `AuthorizedOnce`; `TerminalForGood`; `OnlyCurrentCredentialActs`; `PrunedWhenOver` |
| `WakeHelperProofs` | `TypeCorrect`, `JournalFirst`, `ReportsTrue`, `Implements`, `PermitKept` | `TypeOK`; `ReservedOnDisk`; `ReportTrue`; the refinement `AtMostOnce`; `WithinPermit` |
| `ScreenRelayProofs` | `TypeCorrect`, `LeasesAuthorized`, `FrameForAudience`, `FramesForViewers` | `TypeOK`; `LeaseHasSession`; `FrameOfAudience`; `OwnAudience` |
| `CommandRelayProofs` | `TypeCorrect`, `AnswersHold`, `OncePerformed`, `PerformedInOrder`, `RoomHeld`, `UserLetsIn` | `TypeOK`; `AnswersTrue`; `PerformedOnce`; `InOrder`; `HeldByUploads`; `LetInByUser` |
| `CaptureHostProofs` | `TypeCorrect`, `Off`, `LeasesHonest`, `SessionsCurrent`, `AudiencesOnly` | types; `OffIsDark`; `LeaseHonest`; `SessionCurrent`; `AudienceOnly` |
| `HostSwitchProofs` | `TypeCorrect`, `Implements`, `Stopped`, `Listener`, `Revoked` | types; `ImplementsSession` (refinement); `StoppedIsStopped`; `ListenerCurrent`; `RevokedStays` |
| `AccountsProofs` | `TypeCorrect`, `SeenKept`, `NamesAreUnique`, `Deletion`, `Implements` | types; `SeenIsKept`; `NamesUnique`; `DeletedForGood`; `ImplementsStore` (refinement) |
| `PairingProofs` | `TypeCorrect`, `ClaimIsWhole`, `OneTargetPerDevice`, `AnswersAreKept`, `LocksAreFreed` | types; `ClaimWhole`; `OnePerDevice`; `AnswersKept`; `LocksComeFree` |

The arguments:

* **Bindings.** Not inductive alone: what a running request needs also has to
  hold of the tables (an agent that a target names is not deleted; a bound target
  has the revision of its running request).  A commit reads the tables inside
  its step, so what calls captured before does not matter, and the invariant
  speaks of the tables only.
* **Evidence.** A request may be advanced by a clock and a heartbeat that were
  read earlier.  The invariant adds that every captured clock is at most `now`
  and every captured heartbeat at most the captured clock.
* **AuthorizedOnce, TerminalForGood** then follow per commit from the guards.
* **Credentials.** `authorize` and `result` compare the credential before they have
  the store's lock, and not again.  `Captured` says why that is enough: a call names a
  request of its own agent, and as long as that request is in progress, the
  credential with which the call came is in force, because what takes the credential
  away (stop, delete, enable with a new one) ends those requests in the same commit.
* **History.** The limit on requests is looked at for the last 60 seconds only, but
  it holds of every window of that length (`RateBound`, for all windows of the past:
  nothing is inserted into them any more, and `ThinnerBound` says that a list that only
  loses records keeps it).  What is newer than a request that is still observed lies in
  two windows, hence in the list with room to spare (`PushedOut`); this is where
  `HistoryAssumption` is needed.
* **Helper.** The invariant ties `pc`, `frame`, the journal in memory and on
  disk, and the packets sent: packets of a job exist only if the disk names the
  job or the job has expired so long ago that it cannot be delivered.  The last
  part is why the assumption `Validity + 2 * MaxSkew <= Grace` is needed: an entry
  leaves the journal by the helper's own clock.  In the code it is 30 seconds
  against seven days.
* **Screens.** Captured modes and epochs in an upload, and the `since` of fetches
  and buffers, are related to the present epoch while `kept`; leases to sessions
  by the second check under the lock.
* **Commands.** `PlaceInv`: a command is at one place at a time (not pushed,
  queued, in the loop, reported, being received), has no answer while it is
  anywhere, and was performed only after it left the queue.  `AnswersTrue` and
  `PerformedOnce` follow.  `AccInv` for `LetInByUser`: an answer "yes" to a call
  comes with the acceptance by the host asked, or that host's token is not the
  registered one any more and, since tokens are not made twice, never will be.
  `OrderInv` for `InOrder`: the queue is the end of what was pushed (`QueueIsTail`), a
  command in the host's loop was pushed before all that is queued and after every click
  that was performed (`RunBefore`), and a file that is saved meanwhile does not count.
  `QueuedOnce` adds that a command was pushed once, so that "before" has one meaning.
  `UploadInv` for `HeldByUploads`: a call has a size exactly as long as its upload goes
  on, and the bytes of different uploads are different elements of `Held`; so a
  reservation adds a disjoint set of as many bytes, and each way to end takes it away.
* **Capture.** `Quieter` relates the capture before and after `_stopCapture` and
  `_syncCaptureDemand`: neither begins anything for an audience nor revives what was
  stopped.  `AudienceInv`: whatever has the relay's present epoch (the answer of a
  poll, the host's `known`, a picture in the making, in the cache or on its way) is
  of the present audience; it is preserved because a new audience takes an epoch that
  nothing has yet, which is where the proof needs that the relay has not restarted.
  `LeaseInv` adds that the answer to a poll of today promises no more than was granted
  when it left, less its age; `DarkInv` that uploads are cancelled while hosting is off.
* **Hosting.** Neither property says anything while calls are under way, so
  `HostInv` (theorem `Followed`) says what there is then: what an earlier hosting
  left behind has a stop in `chain`, or a disconnect still to unregister, that will
  remove it (`StopFollows`, `StaleFollows`); every listening socket has one owner
  that closes it (`SocketsOwned` counts them); nobody binds while there is a
  listener (`BindAlone`); only the first transition runs (`OneRuns`).  The
  refinement needs the types and that the relay's new tokens are remembered by
  nobody.
* **Revoked access.** `RevokeInv`: a registration under way that carries what was
  revoked is not of the present generation any more, or the revocation has not come yet to
  throw the viewers out (`RegFresh`); and while one of an earlier generation is under way, the
  host has no token or a stop or disconnect will take it back (`RegStale`).  With no
  request lost the relay likewise keeps what was revoked only until then
  (`StaleLeaves`), and a registration that was answered left there what it carried
  (`AnswerKept`).  When no call is under way none of these excuses is left.
* **Accounts.** The heart is `FileInv`: the file is what is in memory, or one change ahead
  of it, and this change is `Due`: it may be made now, by an id that nobody else
  registers (`Fresh`), or as the deletion that was asked for.  `CallInv` says the same of
  the snapshot of the call that holds the lock.  So a restart, which makes the file the
  memory, takes one step that the call could have taken: a name stays with
  one account, what was told is kept, and what is gone does not come back.  `IndexInv`,
  `ToldInv` and `GoneInv` tie the index and what clients know to the memory.
* **Pairing.** As in Accounts, the file is at most one change ahead (`Ahead`): a target that
  nobody was told of, of a computer that has none, or a removal that was asked for.
  `CallInv` says of the call that holds the pairing lock that its pairing is
  unclaimed, confirmed and not cancelled, and stays so, since all that changes pairings
  needs the lock (expiry may come, and is looked at again when the store's lock is there);
  `LockInv` names the holder of each lock and where it is.  All of it, with
  `ClaimWhole`, is the invariant `IInv`.

Assumptions: `NoneAssumption`, `CleanerAssumption`, `TimeAssumption`,
`BoundAssumption`, `HistoryAssumption` (WakeServer), `HelperTimes`, `RelayParameters`,
`CommandParameters`, `HostParameters`, `CaptureParameters`, `AccountParameters`,
`PairingParameters`.
They say that model values are distinct, that constants are numbers and that the
disconnects are finitely many.  Two also relate constants as the code's values do:
`HelperTimes` has the inequality above, and `HistoryAssumption` says that a request is
observed for at most two windows of the request limit and is kept for longer, and that the
list has room for the requests of two windows (120 s of 60 s windows, a week, 50 of
2 x 10).

### Only model-checked

The liveness properties: `EveryRequestSettles`, `RuntimeForgets`,
`ReceiptSettles`, `CrashedExpire`, `HostingSettles`, `CaptureEnds`,
`DeletedUnlisted`.  They rest on fairness and `ENABLED`, which the prover does
not handle.  Every invariant and every action property of a passing run has
a theorem.

## 5. Not modelled, and what is left

Parts of modelled components:

* *Server.* The WebSocket of old hosts (`handle_ws_host`): it is kept for hosts that do
  not poll, and no host of this repository opens it, so that its peer would be
  invented.  `file_download` only reads.  Of two registrations of a device whose reads
  overlap (`main.rs:847`) one only is in the models: a host makes one at a time.
  Limits of rates (logins, pairings, wrong proofs) only refuse.
* *Helper.* Flags, configuration, installation and the event log: sequential code around
  the engine.
* *Desktop host.* Requests of the LAN that act on the computer, the indicator of
  viewers, the retries of permissions, `dispose`; names and existing files in
  `IncomingFileStore`.  What an input does to the computer is external.

Components without a module:

* **Viewer session** (`session_provider.dart`, `connection_provider.dart`): the server's
  side of it is `ScreenRelay` and `CommandRelay`; the reconnection of the viewer itself
  would be the next module.
* **Wake on the client** and **account and directory on the client**: they show what the
  server says, with timers; next after the viewer.
* **Android wake agent**: a second engine in Kotlin, to be checked against `WakeOnce`
  like the first.
* **Android host**: the protocol of the desktop host with other permissions.
* **Key forwarding**: which keys are held at the host; a small machine, after the viewer.
* **Application updates**: a sequential flow with one retry.
* **Peer-to-peer prototype**: not used by the client, with stubs where the connection
  would be made; its cryptography is not state a model checker helps with.
* **Screens and widgets**, **native runners**, **deployment, website, scripts**: layout,
  interfaces of operating systems, and configuration.

Proofs still to be done: of the safety properties that the runs check none.  The
next ones belong to the modules above, when they are written.
