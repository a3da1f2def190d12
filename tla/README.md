# TLA+ models of the rgb-lightning-node Node.js adapter

This directory is a verification project for the code of this repository: TLA+
modules, TLC configurations, and TLAPS proofs. The repository publishes an
rgb-lightning-node to JavaScript. Most of its own logic is the *native overlay*
in `src/patches/release-adapter-v0.17.0-beta.3.patch` (called **the patch**
below; line numbers are lines of the patch file): an in-process external
signer, node teardown and startup rollback, the policy that decides who backs
up the wallet, restore, and BIP-322 signing. Around it are the NAPI addon
(`src/src/lib.rs`), the JavaScript facade (`src/index.js`,
`src/json-boundary.js`) and the scripts that build and admit an addon binary.

What runs concurrently: host threads inside addon or C-FFI calls; the node's
tokio tasks; the threads of the wallet; other devices that share the remote VSS
store; and the death of the process or of the machine at any step.

## 1. Inventory

### Native external signer (patch 5895-6060, 1258-1330; `src/src/lib.rs` 114-211)
*State*: per signer a terminal gate (`shutting_down`), a reader/writer lock over
the optional signer state, the lock's poison flag, the `Arc` clones (host handle,
node attachment), and the exclusive lock of the disk store.
*Operations*: create (with or without storage), every signing call
(`with_state`), `shutdown`, releasing or destroying a handle.
*Hard*: a call that passed the gate before the shutdown closed it; release
against revocation; a destructor that panics and poisons the lock; a second
session on the same store.
*Correct when*: operations run only on state that exists, an acknowledged
shutdown is complete and terminal, releasing a handle revokes nothing.

### Snapshot policy and wallet guard (patch 7473-7830, 3430-3600, 4270-4350, 1790-1830)
*State*: three files (preference, unsaved marker, completion receipt), flags in
memory, rgb-lib's dirty flag, the remote archive's version.
*Operations*: load, save and commit the preference; `before_mutation` /
`after_mutation` around each wallet operation; sync with comparison of views;
backup; re-enable; status; startup snapshot.
*Hard*: power loss between rename and directory sync; a write that fails after
its rename; a lost acknowledgement; a foreign writer between two reads; status
read in two halves; panics.
*Correct when*: no change is ever unannounced, the reported preference is the
saved one, the receipt is for our own upload, nothing is uploaded while off,
"on" implies caught up.

### Session tasks and node teardown (patch 1396-1560, 1850-1900, 2060-2180, 2480-2690, 3330-3360)
*State*: two registries of owned futures, background processor, retrying
stores, remote writer fence, database pool, cancel token, state-change flag,
teardown mutex with a cached outcome, the published session.
*Operations*: unlock (start, rollback), wallet operations, lock, terminal
shutdown; accept, dial, spawn, join.
*Hard*: connections let in while admission closes; panics and reaping; remote
storage that never answers; two teardowns; rollback with live workers.
*Correct when*: the fence is free only if nobody can write, failures keep it,
an acknowledged shutdown is final, every call returns.

### Signer attachment (patch 5651-5670, 5752-5775, 5829-5892, 3334-3350)
*State*: the attachment of a node (the identity it was checked for and the
message signer bound to it), the unlocked wallet's identity, the persisted key
source, the cancel token.
*Operations*: attach a host or a native signer (bootstrap, publish, bind),
detach, BIP-322 sign and address, mark terminal, stop.
*Hard*: the bootstrap runs without a lock while the node shuts down; another
caller replaces the attachment between publication and binding; a signer is
revoked meanwhile; the attachment does not follow the unlocked wallet.
*Correct when*: a proof is signed by the key of the wallet that was unlocked, and
after terminal shutdown nothing is attached or signed.

### VSS restore (patch 6458-7323)
*State*: storage directory with wallet, marker and receipt key; a preparation's
stage and versions; the remote archive; the node's guard and flags.
*Operations*: prepare (look, version, download, check, key, stage, promote, sync),
unlock and shutdown around it.
*Hard*: death and power loss between any two renames; two processes on one
directory; a remote that changes under the download; shutdown meanwhile.
*Correct when*: a restored wallet is whole and validly receipted or absent, its
receipt is true, and no wallet is ever replaced.

### JavaScript facade and NAPI handle ownership (`src/index.js`, `src/src/lib.rs`)
*State*: the facades' closed, destroyed and shutdown flags; a native handle per
addon object, replaced by null when it is freed; the native allocations.
*Operations*: create, call, attach, shut down, destroy, finalise.
*Hard*: any order of calls and finalisers, a failed terminal teardown, the end of
a worker's environment.
*Correct when*: no handle dangles, no state is freed under tasks, flags agree with
native memory, nothing outlives the host but what failed.

### Worker threads and their parent (`src/test-worker-teardown.js`)
*State*: a worker's environment (running, throwing, ended, exited), where its
script is, the events its parent has not seen, the parent's wait, its timer.
*Operations*: each statement of four scripts; post, throw, exit; settle on the
first event, time out, terminate, open the signer's store again.
*Hard*: the worker ends in any state of nodes and signers, its finalisers run in
an order nobody chose, the timer fires beside its answer, and the parent opens
the store at once and without a retry.
*Correct when*: the parent always gets on, and a store that a failed teardown
does not keep is open to it at the first attempt.

### JSON boundary (`src/json-boundary.js`)
No state. Validates numbers, requests and texts on the way between JavaScript and
native JSON. *Hard*: a double has fewer bits than a native integer; a burn is
rebuilt field by field; a text is UTF-16 on one side and bytes on the other.
*Correct when*: what arrives is what was given, with all of its fields, or an
error.

### Native artifact admission (`src/scripts/install-overlay-addon.js`, `release-contract.js`, `src/index.js` 17-69)
*State*: the overlay's checkout (revision, patch), the wrapper's sources, the
configuration and the patch file, the compiler's output, the addon and its
sidecar (identity, digests).
*Operations*: install (reuse, clone, validate the adapter, patch, check the Git
sources, compile, verify, copy, record), admit and load an addon.
*Hard*: sources or checkout change, and change back, while the compiler reads them; death between
any two writes; a stale sidecar beside a new addon; two installers; a rebuild
between verification and load.
*Correct when*: an admissible addon is whole and compiled from what its sidecar
says, and what is loaded is what was verified. Neither holds throughout: see
`NativeAdmission` in section 2, and section 6.

### Release verification (`src/scripts/verify-release-artifacts.js`, `macho-linkedit.js`, `check-linux-runtime.js`)
*State*: the addon and the sidecar of each target, this machine's beside those
copied here from others; for an image its header, commands and tables.
*Operations*: copy another machine's files, verify one target after another,
publish; inspect an image's link-edit data or its glibc versions.
*Hard*: the package changes while it is verified; a sidecar names another target
or profile; unsigned fields whose sums leave their width; versions that sort
differently as texts and as numbers.
*Correct when*: what npm packs is, for each target, whole, in release profile and
made from the sources packed beside it, and what is accepted can be loaded.

### Parts without a model
Chain backends, the C-FFI's argument conversion, BIP-322 cryptography, build and
qualification scripts, the superseded overlay and the upstream node: see
section 8 and the notes in `PROJECT.json`.

### How the parts interact
JavaScript calls the addon, the addon calls the C-FFI of the overlay. A signer
is created first and attached to a node; unlock starts a session that calls the
signer through its clone; terminal shutdown of the node has to be complete
before the host revokes the signer (this is what `ShutdownIsFinal` and
`RevokedIsQuiet` say from either side). Wallet operations of a session run under
the wallet guard; the snapshot policy is loaded at unlock and uploads through
the VSS client whose writer fence the session holds.

## 2. Modules

| Module | Models | Rests on |
| --- | --- | --- |
| `RevocableSession` | what a signer promises: sessions unborn, open or closed, operations only in open ones | - |
| `NativeSigner` | the signer object; `Session!Spec` is checked and proved | `RevocableSession` |
| `NativeSignerProofs` | theorems about `NativeSigner` | `NativeSigner`, TLAPS |
| `SnapshotPolicy` | policy files, guard, backup, status, startup | - |
| `SnapshotPolicyProofs` | theorems about `SnapshotPolicy` | `SnapshotPolicy`, TLAPS |
| `NodeSession` | registries, startup, rollback, teardown | - |
| `NodeSessionProofs` | theorems about `NodeSession` | `NodeSession`, TLAPS |
| `SignerAttachment` | attaching, binding and signing against replacement and shutdown | - |
| `SignerAttachmentProofs` | theorems about `SignerAttachment` | `SignerAttachment`, TLAPS |
| `AtomicRestore` | what a restore promises: a whole wallet appears in one step and is kept once reported | - |
| `VssRestore` | preparation of a restore over a crashing storage directory; `Atomic!Spec` is checked and proved | `AtomicRestore` |
| `VssRestoreProofs` | theorems about `VssRestore` | `VssRestore`, TLAPS |
| `HostLifecycle` | facades, addon objects, handles and allocations | - |
| `WorkerTeardown` | a worker whose environment is `HostLifecycle`'s, and the parent that terminates it | `HostLifecycle` |
| `HostLifecycleProofs` | theorems about `HostLifecycle` | `HostLifecycle`, TLAPS |
| `NativeAdmission` | building, recording, admitting and loading an addon | - |
| `ReleaseArtifacts` | assembling, verifying and publishing a release beside the installer | `NativeAdmission` |
| `NativeAdmissionProofs` | theorems about `NativeAdmission` and `ReleaseArtifacts` | `ReleaseArtifacts`, TLAPS |
| `JsonBoundary` | numbers, requests and texts between JavaScript and native JSON | - |
| `ArtifactFormats` | what is looked at inside a Darwin or a Linux image | - |
| `FormatsProofs` | theorems about `JsonBoundary` and `ArtifactFormats` | both, TLAPS |
| `MC*` | the instances TLC checks; `MCPackage` takes `ReleaseArtifacts`, `JsonBoundary` and `ArtifactFormats` together | the module named |

Operators whose comment starts with "Mutation:" are the definitions with one
plausible bug; `PROJECT.json` says which property catches each. They are not
part of any specification.

### NativeSigner
One thread is at one place `pc[t]` of one call. The lock is not a variable of
its own: its readers are the threads at `recheck` and `op`, its writers those at
`exclusive` and `emptied`. `LoadGate`, `AcquireRead`, `Recheck` and `FinishOp`
are `with_state`; `BeginShutdown`, `AcquireWrite`, `TakeState` (or
`TakeStatePanics`) and `FinishShutdown` are `shutdown`; `OpenStore`, `BootOk`
and `BootFail` are the constructors; `Clone` and `Release` stand for every way
an `Arc` is cloned or dropped, the host's `destroy` and the garbage collector
included. Assumed: a call borrows the clone it was made through (Rust's borrow;
for the C-FFI the header's contract), a panicking destructor unwinds after
`take()` emptied the slot and still unlocks the store.

### SnapshotPolicy
The wallet mutex serialises everything but the status query, so one program
counter `at` suffices. For each file `seen` is its content for a reader and
`maybe` the contents a power loss may leave; a successful `write_atomic` or
directory sync makes the two agree, and `Write` and `Remove` enumerate every
outcome of the code's sequence of temp file, sync, rename, directory sync and
rollback. Of a status query the two halves are apart, rgb-lib's flag and `pending()`;
that the latter loads the unsaved flag before it looks for the marker is one look
(`EndStatus`), which is where it takes effect. `uncovered`, `own`, `refused`, `excused`, `panicked` and `legit` are
history: what an upload still has to cover, which archive versions are ours,
and which choices a later start may find. Simplifications: the three files' torn
states are independent of each other; locking and stopping the node is covered
by `ProcessDeath`; `refused` and `excused` are the exception VSS-SAFETY.md:132-136
makes for a disk that refuses the marker. A preference reported after a failed
write and a failed rollback is the one readers see; it is durable against the
death of the process only, and `ChoiceIsKept` allows for both.

### NodeSession
`reg` holds the two registries with admission, owned handles and recorded
failures; `Spawned`, `JoinTakes` and `JoinEnds` are `spawn` and the two halves of
`join` around its awaits. A connection goes through `Accept`, `SetUp` and
`HandOver`; a refused future is awaited inline by its opener. A caller walks
through the places of unlock and of `stop_node`; a rollback of startup uses the
same places with `call = "unlock"`. `link` is the peer manager's view of
sockets, `retained` the upstream event worker that may keep the managers alive.
Merged or assumed:
- closing a registry and cancelling its token are one step;
- unlock and lock look first (`Ask`, which is `check_changing_state`) and set the
  flag later, once the API mutex is theirs (`BeginChange`, upstream). What comes
  between is not noticed by the code: an unlock that passed its look before a
  terminal shutdown begins after it, and two unlocks may overlap. `slipped` is the
  history of this, forgotten once all such calls are over before any shutdown
  begins. `FenceOutlivesWriters`, `FailuresKeepTheFence` and `CallsReturn` hold all
  the same; `ShutdownIsFinal`, `DatabaseOutlivesUsers` and the first two claims of section 6 are stated for behaviours without
  it, as upstream code decides whether it can happen;
- the state-change guard is released on every path out of lock and unlock;
- sessions without Lightning have a wallet and no workers (`PublishWallet`);
- a wallet operation, dialing a peer for the API included, ends by itself: it
  holds the API mutex, and its termination is the upstream handshake timeout. The
  fairness of `UseEnds` assumes it, so `CallsReturn` does not cover the case that a
  peer never completes its handshake;
- an owner that unwinds without joining (the `Drop` aborts) is left out, and so
  is the operator's forced clearing of a stale fence.

### SignerAttachment
`Attach`, `Bootstrapped`, `Publish` and `Bind` are the four critical sections of
attaching; between them a caller holds nothing. `BeginSign`, `Lookup` and `Sign`
are one BIP-322 call: the unlocked state's mutex is `guard`, the attachment's is
`mutex`, both held until the call returns; `get_message_signing_address` takes the
same way and is not repeated. `Shutdown` marks the node under `mutex`; `Stopped`
is `stop_node` taking the session out under `guard`. Upstream, and modelled from
how the patch uses them: `Unlock`, `Lock`, and what `Detach` clears. A wallet
opened with the attached signer keeps to `key_source.json`; a wallet opened by
password is not tied to that file in this model, which allows more than the code.

### VssRestore
One action per step of `prepare` that another process can see, or at which the
code looks at the node. `past` holds every directory a power loss may leave:
renames reach the disk in their order (the ordering of a journalling file
system, which the code relies on) and `sync_all` of the base forgets the earlier
ones. The receipt's signature is the identity of its key; the archive's path,
size and manifest checks are the one predicate `Admitted`. `vssRestoreInfo` reads
and changes nothing. The check that the base directory is still the same inode is
left out: nothing here replaces it. A preparation that finds its restore finished
answers "resumed", which promises nothing new about the disk: only fresh answers
are in `answered`. An unlock sets its flag while it has the guard and keeps the
flag afterwards (upstream).

`AtomicRestore` knows no stage, receipt, key, guard or synchronisation. Its
`wallet` is what `base.wallet` shows (a version, a wallet of another origin, or
none), its `kept` the same of each directory in `past`, its `using` the processes
that open the wallet, have it open or are shut down, its `promised` the fresh
answers. That a preparation holds the guard of a locked node, that a promotion
replaces nothing and that a reported version survives are all steps this
specification does not have.

### HostLifecycle
`object` is whether the addon object is referred to; `closed`, `destroyed` and
`shut` are the facades' flags; `handle` is what the addon object's
`COpaqueStruct` points to. Calls of one environment are synchronous and do not
overlap, and objects are not shared between environments, so each call is one
step; forwarding methods are the one action `CallNode`. A closed node facade
drops its addon object, hence the second case of `FinaliseNode`'s guard. The
outcome of a failed terminal teardown is kept (finding 3), hence `failed`. Null
handles are refused by `from_opaque_shared`, and freeing null does nothing. What
a teardown does is `NodeSession`'s matter; here it completes or fails.

### WorkerTeardown
One cycle of the test, with the worker's statements in order (`Script`), or with
any calls at all (`mode = "any"`, which no cycle of the test covers). Each statement
may throw, and an attach or a shutdown may have done its work in part; nothing
catches it. `EndEnvironment` leaves all objects to their finalisers, which run in
any order before the exit event (Node.js, external). An event counts only while
the parent listens, since settling removes the listeners; its timer may fire at
any time before. The new process-wide state is the signer's store: `Alive` says
whether anything still holds it, and `Reopen` is refused then.

### NativeAdmission
The identity of a build is one version number for the package's sources, which
`Edit` changes to any other, one it had before included; an edit is taken to change
wrapper or lock, as the identity compared after loading has these and not the recipe
or the profile. `ChangeCheckout` changes the checkout at any time, and may leave it
patched again: by hand, or by `scripts/test-native-adapter.js:6`, which prepares it.
What was changed and put back while the compiler ran, the installer does not notice:
recordAddonProvenance compares the descriptor of the beginning with the identity at
the end (install-overlay-addon.js:106), and verifyPreparedSource looks at the checkout
when cargo is done (release-contract.js:108), although the comment above it says that
"a source reverted during compilation must be rejected". Such an addon is recorded as
compiled from what it was not. The model does all this; `undone` is the history of
it, in no file of the program, and `AdmissibleIsTrue` and `PublishedIsSound` are
claimed of addons without it. An installer's steps are those between which
it may die or the sources may change; cargo itself (external) reads the sources
at any time of a compilation and rebuilds whatever has changed since. A clone
that is interrupted leaves half a checkout, which every later installer refuses
until somebody removes it. Copying the addon in place is not atomic, and what is
half copied cannot be loaded. Overlapping installers are given an output each;
the code lets them share `target/<profile>`, where more may go wrong than the
model shows. `adapter` says in which ways configuration and patch file differ
from the release; a patch that touches other files can still be applied, which is
what `validateAdapter` is there to prevent. `Approved` are the versions whose lock
has just the approved Git sources; the graph is looked at one step before the
descriptor is taken, and nothing is claimed about an edit in between. A facade
verifies the file (`Admit`), opens it again by its name, which runs its
initialisation (`Load`), and compares the identity built into it (`Identify`).

### ReleaseArtifacts
Adds the shelf of the other targets' files to `NativeAdmission`. What other
machines make is a product of their installers, whole or cut short, of any
version, in either profile, perhaps under the name of another target, perhaps with
its sources put back under the compiler (`Misled`); what `AdmissibleIsTrue` says of
this machine's sidecar is assumed of theirs.
`VerifyTarget` looks at one target; it computes the identity of the sources anew,
once for each target, as the code does. `still` is history: whether anything
it reads has changed since it began. Bounds: a verification begins with a patched
checkout, which it does not read, with a release library in this machine's place,
and with no installer beyond the beginning of its copy (`Worthwhile`); of another
target's two files at most one is not what it should be, or both belong together
(`Lying`); while it runs only steps that change what it reads are taken, and one file
is copied at most; and a facade loads while nothing else happens. The last is a bound
of the release only: `NativeAdmission` lets facades and installers run together.

### ArtifactFormats
Pure: `AcceptedDarwin` is the walk of `validateMachOLinkedit` over the load
commands with sums that do not wrap, `AcceptedLinux` the choice of the highest
version and its comparison with the baseline. Of what an image needs the code, and
so the model, sees what its pattern finds: versions in numbers. A need without them
(`GLIBC_ABI_DT_RELR`, which 2.35 does not have) goes unnoticed, and
`AcceptedImagesLoad` says nothing of it. `Loadable` and `Supported` are the
references: sets of offsets rather than sums of offset and size, and what may be
required of 2.35 rather than an order of versions. `LinkedImages` are what a linker makes:
commands before and after the symbol table, symbols, padding and the pool; all
others are tried too.

### JsonBoundary
Nothing is kept but the last crossing. Numbers are counted in halves, so that
some are no integers; `Double` is IEEE rounding (external) with `Precision` bits
of mantissa, in powers of two that are a recursive function of the module, so
that they can be reasoned about; a code unit is one of five classes, and `Accepted`
walks them as the code does, keeping for each unit the numbers of bytes with
which the rest would still pass. A request is a function from its
keys to values of a few kinds (absent, null, numbers, digits, words, hexadecimal
words); each field takes every value while the others have a usual one. Deeper
objects are walked by the JSON library and appear as their leaves.

## 3. Runs

| Run | Question |
| --- | --- |
| `signer` | two persistent sessions compete for a store, three threads, two holders: safety, refinement of `RevocableSession`, and whether a closed gate leads to destroyed state while calls keep coming |
| `policy_safety` | all interleavings, failures, crashes, foreign uploads over two archive versions |
| `session_safety` | two callers who ask first and change later, listener, dialer, poller, peer, completion, background processor |
| `session_liveness` | do all calls return when remote storage may never answer |
| `attachment_safety` | three callers attach, bind, sign and shut down, with signers of two identities that may be revoked |
| `restore_safety` | two processes restore and open wallets in one directory, with uploads, deaths and power losses: safety, and refinement of `AtomicRestore` |
| `host_lifecycle` | every script of the teardown test, and every order of creating, calling, attaching, shutting down, losing and finalising, in a worker that ends anywhere: memory, and whether its parent gets on and can open the store |
| `package` | one installer after another, dying anywhere, with sources and checkout changed and put back and releases verified beside it; and, as behaviours of their own, every number around the limits in every direction, requests with every value in every field, every short text, images and version lists around every bound |
| `terminal_*`, `unverified_load` | four disagreements between code and documentation, section 6 |

### Bounds and why they are enough
- *Signer*: three threads are a caller and two shutdowns, or two callers and one
  shutdown: the hazards need one thread between its two looks at the gate, one
  writer, and one that comes after it. Two sessions compete for the one store;
  two holders make "not the last clone" happen. `CHECK_DEADLOCK FALSE`: each
  object is constructed once, and when all have been released the program may
  stop.
- *Policy*: `MaxVersion = 2` lets a foreign upload fall before, between and after
  the two reads of our upload, and our own follow a foreign one. There is no
  other bound; crashes are unlimited.
- *Session*: two callers are two teardowns, or an unlock or a wallet operation
  with a teardown. Every worker class has one member: its hazards are about one
  future racing the closing of its registry, and the classes race each other.
  Remote storage that does not answer only delays the final flush and the
  completions: every state of such a run, the outage itself apart, is one of a run
  in which they are slow. `Outages` leaves it out of the safety run, where it
  would double the states, and in all others it may happen.
  A future is spawned again only in a later session (registries are fresh). The
  liveness run leaves the dialer and the poller out to keep the graph small; the
  listener keeps the hand-over hazard, the completion the outage.
- *Attachment*: three callers are two that attach against each other and one that
  signs or shuts down between their steps; a fourth would repeat one of these
  roles. Two identities, each with its signer, make every mismatch possible.
- *Restore*: two processes compete for key, destination and base; two versions
  put an upload between the two reads of one preparation; two keys let one be
  lost with the power and drawn anew.
- *Host*: two nodes may share a signer, two signers may follow each other in one
  node. One cycle of the test: the next one begins with a new directory.
  `CHECK_DEADLOCK FALSE`: a cycle ends.
- *Package*: two contents of the sources, changed into each other at any time and
  without end: what a file claims is the present content or the other, which may
  become the present one again. The second is not approved; it is built when an edit
  comes after the graph was looked at. One installer at a time, again and again;
  overlapping ones are in section 8. The configuration or the patch file differ in
  nothing, in a file that is not allowed, or in identity and checksum. A release
  has two targets, this machine's last, so that what was verified first can change
  while the other is looked at; the bounds on it are in section 2. An addon in
  debug profile, or none, is met among the other target's files, and here by facade
  and installer.
- *Package, formats*: a mantissa of three bits, native integers of five, doubles below 2^6.
  Every number to 70 is tried in steps of a half: both sides of each limit, and
  several roundings beyond the first. Texts of five units hold two pairs and one
  unit out of place, and the three limits (6, 5 and 3 bytes) are each within
  reach. Header fields have five bits, so that sums leave their width. A crossing or
  an inspection shares nothing with the rest of the package, and a behaviour that
  begins with one has no other step: `CHECK_DEADLOCK FALSE`.

## 4. Fairness

`NativeSigner`: a thread inside a call keeps running (weak fairness of its calls
and of its shutdown). Nobody has to call. Weak fairness of the write lock is
enough since callers turned away at the gate no longer take the read lock, so
readers run out.
`NodeSession`: callers inside a call keep running; the teardown mutex is tokio's,
which is granted in order of request, and so is the API mutex, hence strong
fairness of `EnterTeardown`, `BeginChange` and `TakeSession`; every future that
can move is polled again. Nothing is assumed
of peers, the hidden event worker, panics, or of remote storage answering.
`WorkerTeardown`: the parent's loop runs and its timer fires (weak fairness of its
steps), and an environment that has ended is finalised and exits. Nothing is
assumed of the worker's script: it may stop at any statement for ever, and the
timer is there for that.
`SnapshotPolicy` states no liveness: its calls are sequences that end by
themselves.

## 5. Proofs

`NativeSignerProofs` (for all sets of threads, sessions and holders): type
correctness, `OperationOwnsState`, `RevokedIsQuiet`, `HeldSignerStaysOpen`,
`NoStartBehindGate`, and that every behaviour is one of `RevocableSession`. The properties are not inductive: that an operation finds
its state needs that no writer is inside at the same time, and that nobody drops
the last clone under it. `IInv` adds these: `CallOK` (who is inside a call holds a
clone the release cannot take), `LockOK` (a writer excludes readers and other
writers of the same session), `SlotOK` (what slot, gate, poison, store and
history may be together). Assumption: `SignerAssumption`, that the two
placeholder values are no session and no holder.

`SnapshotPolicyProofs` (for every `MaxVersion`): type correctness and all
other properties of the policy run. The argument: the marker covers what is pending
*at each place of the mutex's holder*. `IInv` = `TypeOK` with `ChoiceOK` (what the
policy file may read after a loss, related to the choice in memory), `ReceiptOK`
(during an upload the version read before bounds ours), `CoverOK` (which kinds of
change the flag, marker file and dirty flag cover at each place) and `ReportOK`
(what a failed automatic backup left in the flags). `Write` and `Remove` are
opened once, in lemmas that say what their outcomes have in common.

`NodeSessionProofs` (any callers, openers, peers, pollers and completions, any
fault): type correctness and the four safety properties of `session_safety`. The
argument: whoever holds the fence owns the session. Either the session is
published, or one caller is starting or ending it (`OwnerOK`, on top of `PlaceOK`,
which calls may be where), and `SessionOK` says what is left at each of that
caller's places: the background processor, the registries' entries and failures,
and, for every worker that runs, an entry in a registry or in the hands of a join.
`FailureOK` keeps whatever has failed where the owner will look, until it has
collected it: hence `FailuresKeepTheFence`. `Quiet` draws the conclusion, that
without an owner nothing writes. What shutdown promises needs `ShutdownOK` besides:
the teardown mutex, one change of the state at a time, and no session again once
it is being stopped for good, each under `~slipped`, as the properties are.
Each part has one lemma for a caller's steps, one step per action, and one for the
workers'. TLC checked `IInv` on the instance of `session_safety` first.
Assumption: `WorkersAreDistinct` (the kinds of workers are disjoint).

`SignerAttachmentProofs` (any callers, signers and identities): type correctness,
`ProofsSpeakForWallet`, `TerminalIsFinal`, and `MessageSignerMatches` (a bound
message signer is of the identity the attachment was checked for). The
invariant says who may hold which mutex at which place, and that whoever signs
has an attachment of the wallet's own identity; the action property needs only
that the marks imply a cancelled token and an empty wallet. Assumption: `AttachmentAssumption` (each signer has one identity;
`None` is no value of any kind).

`VssRestoreProofs` (any processes, keys and versions): type correctness,
`AllOrNothing`, three properties on the way to the refinement
(`FreshAnswerIsDurable`, `PreparesLocked`, `NeverOverwrites`), and `RestoreSpec`:
every behaviour is one of `AtomicRestore`. `IInv` says that each directory in `past` holds a
restored wallet only whole and receipted with the key beside it (`PastOK`), that a
key in a preparation's hand is the one in the storage directory (`KeyOK`), and
that what was downloaded is between the version read before it and the archive's
present one, and of just that version once the second read agreed
(`VersionOK`). For the refinement `RemoteOK` adds that the version a preparation goes
by is on the server and not newer than the newest there; each step then shows as a step
of `AtomicRestore` or as none (`PreparationShows`, `NodeShows`, `WorldShows`).
Assumption: `RestoreAssumption` (placeholders are no values).

`HostLifecycleProofs` (any nodes and signers): type correctness and the three
other invariants of the run, for a host (`Spec`) and for a worker and its parent
(`WorkersAreTakenDown`). The invariant's heart is `HandlesOK`: a handle points to
its own allocation exactly while that exists. Each statement of a script is a step
of the host (`Statements`); the end of an environment is none, as it loses all
objects at once, and keeps the invariant by itself (`Endings`). Assumptions:
`HostAssumption`, `WorkerAssumption`.

`NativeAdmissionProofs` (any installers and loaders, versions, profiles and
targets): type correctness, `AdmissibleIsTrue` and `PublishedIsSound`, under `Alone`,
one installer at a time, with edits and resets that may be taken back. The heart of
the argument is `OutputOK`: wherever an installer is, if the sources are (again) what
its output claims, then the compiler has read nothing else or `undone` has it, and
likewise for the checkout; the two looks of the code are enough for just that, and not
for more. `CopyOK` says that what it hashes is its own output, `SidecarOK` that a
sidecar whose digest the addon has tells its sources. For a release, what the other targets' files say of themselves
(`ShelfOK`) is as true as what this machine's say, and while nothing has changed
the targets before `at` are `Released` (`VerifiedOK`). Assumptions:
`AdmissionAssumption`, `ReleaseAssumption`.

`FormatsProofs` (any widths of doubles and native integers, limits, offsets and
lengths): the four invariants of `package` that are about them. That a behaviour is one crossing or one
inspection is a small invariant (`Crossed`, `Inspected`); the weight is in what one
of them computes, which is proved of any number, any request, any text, any
commands of an image and any finite set of versions, not only of those the runs
enumerate.
- Numbers: an exponent with which the mantissa has `Precision` bits exists and is
  the least (`Exponents`); from it, a double is the number itself up to the mantissa,
  and up to twice that if even (`SmallDoubles`, `LargeDoubles`), and no larger number
  is rounded below that, so that what passes as a safe integer is the integer that
  was meant (`CheckedNumbers`). A byte is compared after rounding and still exact
  (`BytesAreExact`), because a byte is narrower than a mantissa: this is the part
  `Byte < Precision` of `BoundaryAssumption`.
- Texts: `Remains` says what is left to hold from a unit on; it satisfies the walk's
  equation (`RemainsStep`), and so the walk computes it (`TextsExactly`).
- Darwin: each command is where the sizes before it add up to (`CommandOffsets`), and
  as long as all is well there is no table or one, where it belongs (`Tables`). From
  that an accepted image can be loaded (`AcceptedImages`), and one whose commands
  are even and whose table fits is accepted if it can be (`LoadableImages`).
- Linux: versions are totally ordered (`VersionsTotal`, `VersionsTransitive`), a finite
  set of them has a greatest (`Floors`), and at most 2.35 means supported.

What is computed recursively is reasoned about without an induction theorem over
operators: a set of numbers has a least one (`Least`, from the library's
`WFMin`), hence `Induction` over a set, and `Recursion`, that a function with a given
first value and step exists. A recursive function is what its equation says once
one that satisfies the equation exists (`Powers`, `SumsExist`, `Walks`, `TextsExactly`).
Assumptions: `BoundaryAssumption`, `FormatsAssumption`.

Only model-checked: the liveness properties `ShutdownTakesEffect`, `CallsReturn` and
`TeardownCompletes` (fairness and `ENABLED` are beyond the prover), and the four
disagreements of section 6, which are violated. No module declares a recursive
operator.

## 6. Findings

1. `terminal_database`: `stop_node` reads the cancel token twice. A lock that
   passes the first read before a terminal shutdown begins caches `Ok` with the
   database pool open, and the shutdown is answered from that cache. 
   SIGNER-LIFECYCLE.md:36-37 promises that the pool is closed.
2. `terminal_managers`: after a lock that failed because managers were retained,
   a terminal shutdown finds no session and returns `Ok` while they live (the
   comment at patch 2601-2602 promises otherwise). The fence is still held, so no
   other device can write: `ShutdownIsFinal` states exactly that.
3. `terminal_retry`: a shutdown repeated after a failed one is answered from the
   cache and attempts nothing; `src/src/lib.rs:225` says it "permits retry".
4. `unverified_load`: `src/index.js` hashes the addon (line 51) and lets `require`
   open it again by its name (line 53). An installer that copies another addon into
   place in between, a debug build of the same sources say, has it loaded and
   initialised without verification, and the comparison of identities afterwards
   finds the expected one. `src/index.js:52` says "Only verified bytes may enter the
   native loader or run addon initialization."

Not a run of its own, but what `undone` of `NativeAdmission` is about: sources or a
checkout that are changed and put back while the compiler reads them are not noticed
(section 2), where release-contract.js:106-107 says that "a source reverted during
compilation must be rejected".

## 7. Plan

In the order of what matters most to the system; 1-8 are modelled and checked, and
the safety of all of them is proved.

1. `NativeSigner` with `RevocableSession`.
2. `SnapshotPolicy`.
3. `NodeSession`.
4. `SignerAttachment`.
5. `VssRestore` with `AtomicRestore`.
6. `HostLifecycle`, and `WorkerTeardown` on top of it.
7. `NativeAdmission`, and `ReleaseArtifacts` beside it. Left: installers that share
   the compiler's output.
8. `JsonBoundary` and `ArtifactFormats`.
9. Composition of `NodeSession` with `SignerAttachment` and `NativeSigner`'s
   abstract specification: no signer call after a finished terminal shutdown.

## 8. Not modelled, and why

- What a future computes (chain sync, gossip, fee estimates): no shared state of
  its own; its life is a poller or a completion of `NodeSession`.
- The signing protocol, BIP-322 and all cryptography: pure computation over
  library types.
- C-FFI argument conversion and the methods that forward one JSON call: stateless.
- Installers that overlap: one may repair a checkout that was reverted while the
  other compiled, or copy between the other's copy and hash, and the addon is
  recorded as what it is not. Nothing in the code keeps two apart, nothing says
  they may overlap.
- Build, release and qualification scripts other than the admission of an addon,
  the verification of a release and the format checks: linear scripts over
  processes, files and the network.
- The superseded overlay, kept for history; the upstream node, which is not in
  the repository: it appears through how the overlay uses it.

## 9. Running

    tlc -workers 2 -config MCNodeSession.cfg MCNodeSession
    tlapm NativeSignerProofs.tla

Each run's module and configuration are in `PROJECT.json`.
