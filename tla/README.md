# TLA+ models of the TLSNotary notary server

This directory holds TLA+ models of the notary server in `src/`, together with:
- TLC configurations that check the models on small instances;
- TLAPS proofs of some properties, valid for every instance.

`PROJECT.json` lists three things. Its components say what is modelled. Its runs and mutants say what is checked. Its `map` links every definition to the source lines it models.

## The system

The server runs one HTTP handler goroutine per request (`httpHandler`, `getBlob` and `setBlob` in `src/unnamed/part_001`, which is main.go).

- **Session** (`src/src/session/session.go`). One object per client run of the TLSNotary protocol. It has 36 numbered steps.
  - Every step handler first calls `sequenceCheck(seqNo)`. This checks the number against the slice `msgsSeen` and then appends it.
  - Steps that need Oblivious Transfer (OT) start a goroutine: `c_step1`, `c4_step1A`, the MAC and GHASH steps. Each goroutine answers the client over the shared OT connection. The `c*_step1` goroutines then store `lastOtResponse` and the stamp `lastResponseFrom`.
  - The matching step-2 handler waits for that stamp in `parse_step2`, polling every 5 ms.
- **Session manager** (`src/src/session_manager/session_manager.go`). It owns the session map and the single OT connection (`ote.Manager`, at the end of session.go).
  - `AddSession` refuses an `init` with 409 while `otOwner` is set.
  - Otherwise it stores a new Session and starts a goroutine. That goroutine calls `Listen`, blocks until a client connects, and then sets `otOwner`.
  - Sessions end through `removeSession`. It is called by the stale-session monitor (1200 s idle, 2400 s old) and by the monitor of `DestroyChan`. A third monitor clears `otOwner` on `OtReleaseChan`.
  - Destroy and release signals come from four places:
    - `destroyOnPanic`, after a panicking step;
    - `httpHandler`, after `tagVerification`;
    - `CommitHash`, which also disconnects the OT;
    - OT goroutines that fail, which send release first, then destroy.
- **Tag verification manager** (`src/src/aes_tag/tag_verification_manager.go` and `src/unnamed/part_005`). A single instance shared by all sessions.
  - `prepTagVerification` checks `busy` and the eight MPC ports. It then starts two MPC servers, whose results arrive through two channels of capacity 1.
  - `pollTagVerification` by the owner takes both results under the write lock and clears `busy` and `owner`. The Session stores them as `tagMask` and `pohMask` for `tagVerification`.

## Modules

| Module | Models | State | Actions |
|---|---|---|---|
| `Session` | one Session, its handlers and OT goroutines | request slots (handler, pc, the msgsSeen a check read), `seen` (msgsSeen), `defined` (fields written), running OT goroutines, `stamp` (lastResponseFrom), `removed` | `Request`, `Check`, `Record`, `Body`, `BodyPanic`, `Spin`, `Copy`, `JobDone`, `JobFail`, `Remove` |
| `SessionManager` | session map, OT ownership, Listen goroutines, the two channels, three monitors and the two monitors' removeSession calls | `smap`, `stage` of each Session object, `dirs`, `otOwner`, `connected`, Listen goroutines, OT goroutines, blocked senders, `crashed`, `rm` (each monitor's removeSession call), `inited` (sids used so far) | `AddSession`, `InitLookup`, `InitBody`, `ListenStart`, `Accept`, `OtStep`, `JobDone`, `JobFail`, `CommitHash`, `TagVerification`, `StepPanic`, `MonitorSessions`, `MonitorDestroyChan`, `RmOwner`, `RmClear`, `RmFiles`, `RmDelete`, `MonitorOtReleaseChan`, `Forget` |
| `TagVerificationManager` | the tag verification manager, its MPC goroutines and the Session handlers around it | `busy`, `owner`, the write `lock`, `ivChan`, `pohChan`, a bag of MPC goroutines, outside use of the ports, request pcs, each Session's masks | `PrepTagVerification`, `MpcAsyncStart`, `MpcServe`, `MpcSend`, `PollTagVerification`, `PollLock`, `PollRecvIv`, `PollRecvPoh`, `SystemPortsChange` |
| `SessionProofs` | TLAPS proofs about `Session` | | |
| `SessionManagerProofs` | TLAPS proofs about `SessionManager` | | |
| `TagVerificationManagerProofs` | TLAPS proofs about `TagVerificationManager` | | |

### Session

Data is abstracted to definedness. Each handler is a record with these fields:
- its `sequenceCheck` number;
- the Session fields it reads and writes, taken from its body;
- the OT goroutine it may spawn;
- the stamp it waits for (`common_step2` / `parse_step2`).

`Handlers` lists the 37 handlers.

A request runs as a short sequence of steps, which lets concurrent requests interleave where the code allows:
- `Check` reads `msgsSeen` and may panic.
- `Record` stores the number into the slice it read. Two concurrent `Record`s can therefore lose an append, exactly as the racy `append` can.
- `Body` runs the handler.
- `BodyPanic` is a handler body that panics after its sequence number was appended. `destroyOnPanic` then ends the request, and a later request finds the number in `msgsSeen`. Only the handlers named in the constant `PanicAt` may panic. `PanicWrites(h)` gives the fields already written when the panic comes. `Session.Init` can panic before it sets the keys (line 138), at its `u.Assert` checks after them (143), or after `ghash.Init` (145) in `Abs` or `Mkdir` (147-155). A decrypting handler panics in `decryptFromClient`, before it writes anything. `setBlob` may also panic in `io.Copy`.
- `Spin` waits for the stamp.
- `Copy` finishes `io.Copy` of `setBlob`.

`prepTagVerification` has no sequence check. Its length check compares the client's IV share with `len(s.sivShare)`, which is 0 until `c3_step1` runs.

The constant `Client` selects the client:
- `"sequential"`: one request at a time, in any order.
- `"honest"`: the protocol order. `getBlob` and `setBlob` may overlap, and `getUploadProgress` runs beside the upload, as the comments of `sequenceCheck` describe.
- `"adversarial"`: any requests, up to `MaxInFlight` at once.

### SessionManager

A Session object is a pair `<<sid, n>>`. A repeated init under a sid yields a second object, so a leaked object stays visible. An object that nothing refers to any more is recycled by `Forget`. This keeps the state space finite while allowing any number of sessions over time.

Its protocol steps are reduced to the four that touch the manager:
- an OT step;
- `commitHash`;
- `tagVerification`;
- a panic.

An init request goes through three steps, as `httpHandler` runs it:
- `AddSession` checks `otOwner`, stores the object in the map and starts its Listen goroutine. The object's stage becomes `"added"`.
- `InitLookup` is `GetSession` and `GetMethod` (part_001:136-143). If the map still holds the object, the stage becomes `"initing"`. Otherwise the request ends: with no entry it answers an error, and with another object under the sid that object's `Init` panics in `sequenceCheck(1)` and signals a destroy.
- `InitBody` is `Session.Init` after `readBody`. It either creates the StorageDir and makes the object `"active"`, or panics before `Mkdir` (`u.Assert`) and signals a destroy.

The client sends the init body at its own pace, so a monitor may remove the Session between `AddSession` and `InitBody`. A blocked sender is a record with the session object and the signals still to send, in the order the code sends them.

`removeSession` is not atomic, and two goroutines call it: the stale-session monitor and the `DestroyChan` monitor. Each monitor has its own call in `rm[g]`, which goes through four steps, one per access to shared state:
- `RmOwner`: if `otOwner` is the sid, disconnect the OT (lines 218-219);
- `RmClear`: clear `otOwner` (line 220);
- `RmFiles`: read the map without the lock, return if the sid is absent, else remove the StorageDir and truth tables of the Session it found (222-240);
- `RmDelete`: take the lock and delete whatever entry the map now holds under the sid (241-243).

A monitor in a call takes no new sid: `monitorDestroyChan` receives again only after its call returns, and a sender waits on the unbuffered channel meanwhile.

Constants:
- `Retry` lets a client repeat init for a sid still in the map.
- `Reuse` lets a client send init again for a sid that was removed. `inited`, a history variable, records the sids used so far.
- `OtFaults` lets an OT call fail while the OT is connected.

### TagVerificationManager

An MPC run is named by the session whose prep launched it, so a mask names the run it came from. A server holds its ports while it serves. A finished server blocks until its channel's single slot is free.

A poll is split at the points where the code can block:
- the `RLock` snapshot;
- acquiring the write lock;
- the two channel receives.

Constants:
- `Slots`: the concurrent requests per session.
- `SystemPorts`: lets another program take and free the ports.
- `MaxMpc`: bounds the MPC goroutines alive at once.

## Runs

| Run | Expect | Checks | Shows |
|---|---|---|---|
| `session_seq` | pass | TypeOK | A client that sends one request at a time, in any order, keeps every part of the Session within its type. This holds even when init and setBlob panic after their sequence number was appended. |
| `session_progress` | violation | ReadsDefined | `getUploadProgress` during `setBlob` reads a nil `streamCounter` (session.go:221). |
| `session_spin` | violation | SpinTerminates | A failed OT goroutine leaves `parse_step2` spinning for ever (session.go:1091). |
| `sm_types` | pass | TypeOK | With a sid reused after removal and OT calls that fail while connected, the manager's state keeps its type. This includes the blocked senders and both removeSession calls. |
| `sm_cleanup` | violation | StorageCleanup | One client and one init are enough. The stale-session monitor removes the Session while the init body is still being read; `Session.Init` then creates a StorageDir that nothing removes (session.go:152). |
| `sm_retry` | violation | StorageCleanup | A repeated init leaks the first Session's files (session_manager.go:93). |
| `sm_exclusive` | violation | OtExclusive | Two inits before the first OT connect both drive the OT (session_manager.go:97). |
| `sm_crash` | violation | NoCrash | Two inits pass the 409 check before the first client connects. The second session's Listen goroutine then finds the OT connected and panics (session_manager.go:178). |
| `sm_wedged` | violation | OtEventuallyFree | A late Listen goroutine sets `otOwner` for a removed session; init answers 409 for ever (session_manager.go:181). |
| `tv_lock` | pass | TypeOK, LockReleased | With one request per session at a time, the write lock is always released, even with the port race. |
| `tv_stale` | violation | MaskFromOwnRun | The launcher's missing `return` (part_005:51) leaves results that the next owner takes. |
| `tv_dblpoll` | violation | LockReleased | A second concurrent poll blocks on `ivChan` holding the write lock (tag_verification_manager.go:119). |

Every property of a passing run has a mutant in `PROJECT.json`: a plausible bug in the mapped code that TLC finds violating the property. The mutants are:
- a `JobDone` that stamps every circuit, the MAC and GHASH ones too;
- an `InitLookup` that looks the sid up again and signals the object it finds there;
- an MPC send that ignores the channel's capacity;
- a poll that goes for the results without checking that both have arrived.

### Bounds

**Session.** One `Session` object has all 37 handlers and the full sequence.
- `MaxInFlight = 1` suffices for the sequential client.
- 3 slots give the honest client its overlapping blob requests and a progress poll.
- `PanicAt = {"init", "setBlob"}` in `session_seq`. These are the two panics that leave fields written or a blob half-copied. With every handler allowed to panic, the run outgrows its time.

**SessionManager.**
- One sid with two objects covers repeated init (`sm_retry`).
- One sid with one object covers removal during init, every interleaving of the two removeSession calls, and a late Listen goroutine (`sm_cleanup`, `sm_wedged`). `sm_types` adds sid reuse and failing OT calls, with 42,687 distinct states.
- Two sids with one object each cover the race between two clients (`sm_exclusive`, `sm_crash`).

**TagVerificationManager.**
- Two sessions give an owner and a competitor.
- `MaxMpc = 2` (one run) is used with the port race, and 4 (two runs) without it.

### Fairness

Fairness is given only to goroutines of the server that the Go runtime keeps runnable:
- the monitors, which loop on their channels and the timer, and each step of a removeSession call in progress;
- the spawned Listen and OT goroutines;
- the handler steps that do not wait for the client;
- the lock-holding poll steps.

An OT call is assumed to return eventually, with a response or an error.

No fairness goes to:
- clients, the OT and MPC peers, and other programs;
- a panic;
- the init steps `InitLookup` and `InitBody`, which run in the client's request and read its body.

A client may stop at any point.

## Proofs

Each proof module proves the type invariant of its component for every value of the constants.

`SessionProofs.tla` proves `TypeCorrect: Spec => []TypeOK`. TypeOK alone is not inductive: `Record` stores the seqNo of the handler in its slot, and TypeOK does not say that number belongs in `msgsSeen`.
- The inductive invariant is `IInv == TypeOK /\ RecordSeq`. `RecordSeq` says a slot at `"record"` holds a handler whose number is not 0 or 100.
- `HandlerTyping` establishes the sets each of the 37 handler records falls in.
- `InitIInv` and `NextIInv` prove the invariant, with one step per action. The `BodyPanic` step uses the fact that `PanicWrites` only names Session fields.
- The theorem combines them with PTL.

`SessionManagerProofs.tla` proves `ManagerTypeCorrect: Spec => []TypeOK` for every set of sids and every `MaxObj`. TypeOK is not inductive on its own: `MonitorDestroyChan` and `MonitorOtReleaseChan` take `Tail` of a sender's messages.
- The type `Sender` requires a non-empty message sequence, so the tail's type follows only from the invariant.
- `Delivered` drops a sender along with its last message, and every `Signal` sends a non-empty sequence.
- `DeliveredType` proves the tail case from `HeadTailProperties` of SequenceTheorems.
- `GotoType` and `CallType` type the remover steps.
- `InitLookup` and `InitBody` each have a step of their own.

`TagVerificationManagerProofs.tla` proves `TvTypeCorrect: Spec => []TypeOK`. The bag of MPC goroutines is a function into the positive integers (module Bags). The lemmas `BagAddSet`, `BagRemoveSub`, `BagRemoveOne` and `BagAddOne` state what `(+)` and `(-)` of a one-element bag return.

What stays with TLC:
- Liveness (SpinTerminates, LockReleased, OtEventuallyFree). It needs fairness and ENABLED, which TLAPS does not handle here.
- ReadsDefined, StorageCleanup, OtExclusive, NoCrash and MaskFromOwnRun. The code violates each of them in the runs above, so none holds for every instance.

The code gives no safety property of these components, beyond their types, that holds in general:
- A concurrent client loses appends and repeats sequence numbers in `sequenceCheck` (H1, H2).
- An init panic leaves 1 in `msgsSeen` with the keys set (H21).
- Removal during init leaks a StorageDir (`sm_cleanup`).
- Outside use of the ports or a second poll mixes MPC runs (`tv_stale`, H20).

A property that holds only under a hypothesis ruling these out would say nothing about the code, so none is proved.

`PROJECT.json` records the races that no run isolates as hazards, with the reason. `TvEventuallyFree` states that tag verification is freed eventually. It fails whenever a client stops after prep: only the client's poll frees the manager, and the code has no timeout. That is a hazard, not a run.

## Not modelled

- The cryptography (garbling, OT contents, Paillier, GHASH arithmetic, AES/ECDSA): the models see only whether a field is set.
- The garbler, evaluator, GHASH engine, Paillier driver, garbled pool and key manager, whose sources are not in `src/`.
- Tag signing, the ZK-key handler, the URL-fetcher document, VerifyTag's Python process, process start and `Cleanup`. They are I/O without shared protocol state.
- Memory-model effects below the level of atomic steps. Two are listed as hazards:
  - the unsynchronised `lastOtResponse`/`lastResponseFrom` pair;
  - the unlocked map iteration in `monitorSessions`.

## Plan

Done:
- `Session`, `SessionManager` and `TagVerificationManager`, with the runs above;
- the type proofs of all three.

Next:
- violation runs of their own for the concurrent `sequenceCheck` races (H1, H2), the init panic (H21) and the reused-sid orphan (H19), if run slots free up;
- properties for the remaining hazards: stale destroy signals, and a poll after completion overwriting the masks.
