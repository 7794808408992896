------------------------------ MODULE Session ------------------------------
(***************************************************************************)
(* One TLSNotary session (src/src/session/session.go) as seen by the       *)
(* notary: the HTTP handlers of the session, each guarded by               *)
(* sequenceCheck, the background OT goroutines they spawn, and the         *)
(* producer/consumer hand-off lastOtResponse/lastResponseFrom.             *)
(*                                                                         *)
(* Data is abstracted to definedness: `defined` is the set of Session      *)
(* fields that some handler has already written.  Every handler is         *)
(* described by the fields it reads and writes, the OT goroutine it may    *)
(* spawn and the circuit whose OT response it waits for.                   *)
(*                                                                         *)
(* Every HTTP request runs on its own goroutine (net/http), so handlers of *)
(* the same session may run concurrently; the client decides how many.     *)
(* sequenceCheck is not atomic: it reads msgsSeen, and later stores        *)
(* append(msgsSeen, seqNo), so a concurrent append can be lost.            *)
(***************************************************************************)
EXTENDS Naturals, FiniteSets

CONSTANTS
  Client,       \* "sequential": any order, one request at a time
                \* "honest": the protocol order, with getBlob, setBlob and
                \*           getUploadProgress sent asynchronously as the
                \*           comments of sequenceCheck describe
                \* "adversarial": any order, up to MaxInFlight at a time
  MaxInFlight,  \* bound on the requests of this session in flight at once
  IvShareLens,  \* lengths of clientIvShare a prepTagVerification may carry
  PanicAt       \* names of the handlers whose body may panic once
                \* sequenceCheck has appended (malformed body, failed
                \* decryption or Mkdir)

None == "none"

(***************************************************************************)
(* Handlers.  seq is the number passed to sequenceCheck (0: no check),     *)
(* reads/writes are Session fields, spawn the OT goroutines the handler    *)
(* may start (None: it starts none), wait the stamp lastResponseFrom that  *)
(* parse_step2 spins on before the writes happen.                          *)
(***************************************************************************)
H(name, seq, reads, writes, spawn, wait) ==
  [name |-> name, seq |-> seq, reads |-> reads, writes |-> writes,
   spawn |-> spawn, wait |-> wait]

\* common_step2(c): reads the client's blob, waits for the OT response of
\* circuit c, then stores encodedOutput[c] and hisCommitment[c].
CommonStep2(name, seq, job, eo, extra) ==
  H(name, seq, {"keys", "g", "blob"}, {eo} \cup extra, {None}, job)

SessionInit == H("init", 1, {}, {"keys", "g", "p2pc", "ghash", "dir"}, {None}, None)
GetBlob == H("getBlob", 3, {"g"}, {}, {None}, None)
\* SetBlob writes streamCounter first, the blob when io.Copy has finished
SetBlob == H("setBlob", 4, {"dir"}, {"counter"}, {None}, None)
GetUploadProgress == H("getUploadProgress", 100, {"keys", "counter"}, {}, {None}, None)
Step1 == H("step1", 5, {"keys", "p2pc"}, {"serverPubkey"}, {None}, None)
Step2 == H("step2", 6, {"keys", "p2pc"}, {}, {None}, None)
Step3 == H("step3", 7, {"keys", "p2pc"}, {}, {None}, None)
Step4 == H("step4", 8, {"keys", "p2pc"}, {"pms"}, {None}, None)
C1_step1 == H("c1_step1", 9, {"keys", "g", "pms"}, {}, {"c1"}, None)
C1_step2 == CommonStep2("c1_step2", 10, "c1", "eo1", {})
C1_step3 == H("c1_step3", 11, {"keys", "eo1"}, {"pmsOuter"}, {None}, None)
C1_step4 == H("c1_step4", 12, {"keys", "pmsOuter"}, {}, {None}, None)
C1_step5 == H("c1_step5", 13, {"keys", "pmsOuter"}, {}, {None}, None)
C2_step1 == H("c2_step1", 14, {"keys", "g", "pmsOuter"}, {}, {"c2"}, None)
C2_step2 == CommonStep2("c2_step2", 15, "c2", "eo2", {})
C2_step3 == H("c2_step3", 16, {"keys", "eo2"}, {"msOuter"}, {None}, None)
C2_step4 == H("c2_step4", 17, {"keys", "msOuter"}, {}, {None}, None)
C3_step1 == H("c3_step1", 18, {"keys", "g", "msOuter"}, {"shares"}, {"c3"}, None)
C3_step2 == CommonStep2("c3_step2", 19, "c3", "eo3", {})
\* C4_step1 and c4_step1A
C4_step1 == H("c4_step1", 20, {"keys", "g", "eo3", "shares"}, {}, {"c4"}, None)
C4_step2 == CommonStep2("c4_step2", 21, "c4", "eo4", {})
C4_step3 == H("c4_step3", 22, {"keys", "g", "ghash", "eo4"}, {"H"}, {"c4mac"}, None)
C5_pre1 == H("c5_pre1", 23, {"keys", "msOuter"}, {}, {None}, None)
C5_step1 == H("c5_step1", 24, {"keys", "g", "msOuter", "shares"}, {}, {"c5"}, None)
C5_step2 == CommonStep2("c5_step2", 25, "c5", "eo5", {})
C5_step3 == H("c5_step3", 26, {"keys", "g", "eo5"}, {}, {"c5mac"}, None)
C6_step1 == H("c6_step1", 27, {"keys", "g", "shares"}, {}, {"c6"}, None)
C6_pre2 == CommonStep2("c6_pre2", 28, "c6", "eo6", {"c6Check"})
C6_step2 == H("c6_step2", 29, {"keys", "c6Check"}, {"commit6"}, {None}, None)
C7_step1 == H("c7_step1", 30, {"keys", "g", "eo6", "commit6", "shares"}, {"gctr"}, {"c7"}, None)
C7_step2 == CommonStep2("c7_step2", 31, "c7", "eo7", {})
\* with GetMaxOddPowerNeeded() = 3 it only squares P[1..3] and spawns nothing
Ghash_step1 == H("ghash_step1", 32, {"keys", "eo7", "ghash", "H"}, {"maxPower"}, {None, "ghash1"}, None)
Ghash_step2 == H("ghash_step2", 33, {"ghash", "H", "maxPower"}, {}, {"ghash2"}, None)
\* spawns a responder only when the client asked for block aggregation
Ghash_step3 == H("ghash_step3", 34, {"keys", "H", "maxPower", "gctr"}, {"ghashBlob"}, {None, "ghash3"}, None)
CommitHash == H("commitHash", 35, {"keys", "ghashBlob", "serverPubkey", "pms", "shares"}, {}, {None}, None)
\* no sequenceCheck; reads sivShare and swkShare once the body is accepted
PrepTagVerification == H("prepTagVerification", 0, {"shares"}, {}, {None}, None)
\* checks tagMask itself and answers "not ready" when it is empty
TagVerification == H("tagVerification", 36, {}, {}, {None}, None)

Handlers ==
  { SessionInit, GetBlob, SetBlob, GetUploadProgress, Step1, Step2, Step3,
    Step4, C1_step1, C1_step2, C1_step3, C1_step4, C1_step5, C2_step1,
    C2_step2, C2_step3, C2_step4, C3_step1, C3_step2, C4_step1, C4_step2,
    C4_step3, C5_pre1, C5_step1, C5_step2, C5_step3, C6_step1, C6_pre2,
    C6_step2, C7_step1, C7_step2, Ghash_step1, Ghash_step2, Ghash_step3,
    CommitHash, PrepTagVerification, TagVerification }

Seqs == {h.seq : h \in Handlers} \ {0, 100}
\* goroutines that end by stamping lastResponseFrom = "c<cNo>_step1"
StampJobs == {"c1", "c2", "c3", "c4", "c5", "c6", "c7"}
Jobs == StampJobs \cup {"c4mac", "c5mac", "ghash1", "ghash2", "ghash3"}
Fields == (UNION {h.reads \cup h.writes : h \in Handlers}) \cup {"blob"}

\* the handlers that decrypt the client's body (AESGCMdecrypt) first
Decrypting ==
  { Step1, Step2, Step3, Step4, C1_step2, C1_step3, C1_step4, C1_step5,
    C2_step2, C2_step3, C2_step4, C3_step2, C4_step1, C4_step2, C4_step3,
    C5_pre1, C5_step2, C5_step3, C6_pre2, C6_step2, C7_step1, C7_step2,
    Ghash_step1, Ghash_step3, CommitHash }

ASSUME SessionAssumption ==
  /\ Client \in {"sequential", "honest", "adversarial"}
  /\ MaxInFlight \in Nat \ {0}
  /\ IvShareLens \subseteq {0, 4} /\ IvShareLens # {}
  /\ PanicAt \subseteq {"init", "setBlob", "c5_step1"} \cup {h.name : h \in Decrypting}

(***************************************************************************)
(* sequenceCheck (session.go 955-987): whether seqNo is accepted given the *)
(* numbers in msgsSeen.  100 is accepted between 4 and 9 and never stored. *)
(***************************************************************************)
SequenceCheck(seqNo, seen) ==
  IF seqNo = 100
  THEN 4 \in seen /\ 9 \notin seen
  ELSE /\ seqNo \notin seen
       /\ \/ seqNo - 1 \in seen
          \/ seqNo \in {1, 3, 4}
          \/ seqNo = 34 /\ 32 \in seen

VARIABLES
  slot,     \* slot[i]: the handler goroutine in slot i, its pc and the
            \* msgsSeen it read
  seen,     \* msgsSeen, as a set
  defined,  \* the Session fields written so far
  jobs,     \* OT goroutines still running
  stamp,    \* lastResponseFrom
  removed,  \* the session manager has removed the session
  sent      \* the seqNos the honest client has sent (client's own state)

vars == <<slot, seen, defined, jobs, stamp, removed, sent>>

Slots == 1..MaxInFlight
NoHandler == H(None, 0, {}, {}, {None}, None)
Idle == [h |-> NoHandler, pc |-> "idle", snap |-> {}]
PCs == {"idle", "check", "record", "body", "spin", "copy"}

TypeOK ==
  /\ slot \in [Slots -> [h : Handlers \cup {NoHandler}, pc : PCs, snap : SUBSET Seqs]]
  /\ seen \subseteq Seqs
  /\ defined \subseteq Fields
  /\ jobs \subseteq Jobs
  /\ stamp \in StampJobs \cup {None}
  /\ removed \in BOOLEAN
  /\ sent \subseteq Seqs \cup {0, 100}

Busy == {i \in Slots : slot[i].pc # "idle"}
InFlight == {slot[i].h.seq : i \in Busy}

(***************************************************************************)
(* Which requests the client may send next.                                *)
(***************************************************************************)
HonestMay(h) ==
  LET n == h.seq IN
  \/ n \in {3, 4} /\ 1 \in sent /\ n \notin sent /\ InFlight \subseteq {3, 4, 100}
  \/ n = 100 /\ 4 \in sent /\ 9 \notin sent
  \/ n = 5 /\ {3, 4} \subseteq sent /\ n \notin sent /\ InFlight \subseteq {100}
  \/ n \in 6..35 \ {34} /\ n - 1 \in sent /\ n \notin sent /\ 34 \notin sent
     /\ InFlight \subseteq {100}
  \/ n = 34 /\ 32 \in sent /\ n \notin sent /\ InFlight = {}
  \/ n = 0 /\ 35 \in sent /\ n \notin sent /\ InFlight = {}
  \/ n = 36 /\ 0 \in sent /\ n \notin sent /\ InFlight = {}

ClientMay(h) ==
  CASE Client = "sequential" -> Busy = {}
    [] Client = "honest"     -> HonestMay(h)
    [] OTHER                 -> TRUE

(***************************************************************************)
(* httpHandler (main.go): a request for a session that is still in the     *)
(* session map starts a handler goroutine.  An "init" request never       *)
(* reaches this session: AddSession puts a new Session under the sid.      *)
(***************************************************************************)
Request(h, i) ==
  /\ ~removed
  /\ slot[i].pc = "idle"
  /\ ClientMay(h)
  /\ slot' = [slot EXCEPT ![i] = [h |-> h, pc |-> "check", snap |-> {}]]
  /\ sent' = IF Client = "honest" THEN sent \cup {h.seq} ELSE sent
  /\ UNCHANGED <<seen, defined, jobs, stamp, removed>>

\* sequenceCheck reads msgsSeen: it panics (destroyOnPanic; the session is
\* removed later by the manager), returns for 100, or goes on to append.
\* PrepTagVerification has no sequenceCheck: it validates the length of the
\* client's IV share against len(s.sivShare), which is 0 while sivShare is nil.
Check(i) ==
  LET h == slot[i].h IN
  /\ slot[i].pc = "check"
  /\ IF h.seq = 0
     THEN \E len \in IvShareLens :
            IF len = (IF "shares" \in defined THEN 4 ELSE 0)
            THEN slot' = [slot EXCEPT ![i].pc = "body"]
            ELSE slot' = [slot EXCEPT ![i] = Idle]
     ELSE IF ~SequenceCheck(h.seq, seen)
     THEN slot' = [slot EXCEPT ![i] = Idle]
     ELSE IF h.seq = 100
     THEN slot' = [slot EXCEPT ![i].pc = "body"]
     ELSE slot' = [slot EXCEPT ![i].pc = "record", ![i].snap = seen]
  /\ UNCHANGED <<seen, defined, jobs, stamp, removed, sent>>

\* s.msgsSeen = append(s.msgsSeen, seqNo), from the slice read earlier
Record(i) ==
  /\ slot[i].pc = "record"
  /\ seen' = slot[i].snap \cup {slot[i].h.seq}
  /\ slot' = [slot EXCEPT ![i].pc = "body"]
  /\ UNCHANGED <<defined, jobs, stamp, removed, sent>>

\* The handler body: reads h.reads, spawns its OT goroutine, and either
\* writes h.writes and returns, or (common_step2) spins on lastResponseFrom,
\* or (SetBlob) streams the body into blobForNotary.
Body(i) ==
  LET h == slot[i].h IN
  /\ slot[i].pc = "body"
  /\ \E j \in h.spawn : jobs' = IF j = None THEN jobs ELSE jobs \cup {j}
  /\ IF h.wait # None
     THEN /\ slot' = [slot EXCEPT ![i].pc = "spin"]
          /\ UNCHANGED defined
     ELSE /\ slot' = [slot EXCEPT ![i] = IF h = SetBlob THEN [@ EXCEPT !.pc = "copy"] ELSE Idle]
          /\ defined' = defined \cup h.writes
  \* the final message of the session: httpHandler signals its destruction
  /\ removed' = (removed \/ h = TagVerification)
  /\ UNCHANGED <<seen, stamp, sent>>

(***************************************************************************)
(* A handler body panics after sequenceCheck has appended its number:      *)
(* destroyOnPanic signals DestroyChan, and the session stays in the map    *)
(* (requests go on) until the manager removes it (Remove).  Init writes    *)
(* its fields in order and may stop before any of them (body[o:o+64],      *)
(* 137-141), after the keys (u.Assert, 143), or after ghash.Init and       *)
(* before StorageDir exists (Abs, Mkdir, 147-155).  The other handlers     *)
(* panic before they write or spawn: decryptFromClient's AESGCMdecrypt,    *)
(* C5_step1's u.Assert, SetBlob's OpenFile.                                *)
(***************************************************************************)
PanicWrites(h) ==
  IF h = SessionInit THEN {{}, {"keys"}, {"keys", "ghash"}}
  ELSE IF h \in Decrypting \cup {C5_step1, SetBlob} THEN {{}}
  ELSE {}

BodyPanic(i) ==
  /\ slot[i].pc = "body"
  /\ slot[i].h.name \in PanicAt
  /\ \E w \in PanicWrites(slot[i].h) : defined' = defined \cup w
  /\ slot' = [slot EXCEPT ![i] = Idle]
  /\ UNCHANGED <<seen, jobs, stamp, removed, sent>>

\* parse_step2: for s.lastResponseFrom != expected { time.Sleep(5ms) }
Spin(i) ==
  LET h == slot[i].h IN
  /\ slot[i].pc = "spin"
  /\ stamp = h.wait
  /\ defined' = defined \cup h.writes
  /\ slot' = [slot EXCEPT ![i] = Idle]
  /\ UNCHANGED <<seen, jobs, stamp, removed, sent>>

\* io.Copy(file, body) returns: the whole blob is on disk, or it fails and
\* SetBlob panics (212) with streamCounter set and the blob incomplete.
Copy(i) ==
  /\ slot[i].pc = "copy"
  /\ \/ defined' = defined \cup {"blob"}
     \/ "setBlob" \in PanicAt /\ UNCHANGED defined
  /\ slot' = [slot EXCEPT ![i] = Idle]
  /\ UNCHANGED <<seen, jobs, stamp, removed, sent>>

\* Mutant: every OT goroutine, the MAC and GHASH ones too, stamps
\* lastResponseFrom.
JobDoneStampAll(j) ==
  /\ j \in jobs
  /\ jobs' = jobs \ {j}
  /\ stamp' = j
  /\ UNCHANGED <<slot, seen, defined, removed, sent>>

\* An OT goroutine finishes: RespondWithData (then RequestData, storing
\* lastOtResponse and lastResponseFrom for the circuit goroutines).
JobDone(j) ==
  /\ j \in jobs
  /\ jobs' = jobs \ {j}
  /\ stamp' = IF j \in StampJobs THEN j ELSE stamp
  /\ UNCHANGED <<slot, seen, defined, removed, sent>>

\* An OT call fails: the goroutine signals OtReleaseChan and DestroyChan and
\* returns without stamping.
JobFail(j) ==
  /\ j \in jobs
  /\ jobs' = jobs \ {j}
  /\ removed' = TRUE
  /\ UNCHANGED <<slot, seen, defined, stamp, sent>>

\* The session manager removes the session: a destroy signal (panic, OT
\* failure) or the stale-session monitor.  Running goroutines go on.
Remove ==
  /\ ~removed
  /\ removed' = TRUE
  /\ UNCHANGED <<slot, seen, defined, jobs, stamp, sent>>

(***************************************************************************)
(* AddSession has put the session in the map and its init request is in    *)
(* slot 1, about to run Session.Init.                                      *)
(***************************************************************************)
Init ==
  /\ slot = [i \in Slots |-> IF i = 1 THEN [h |-> SessionInit, pc |-> "check", snap |-> {}]
                                      ELSE Idle]
  /\ seen = {}
  /\ defined = {}
  /\ jobs = {}
  /\ stamp = None
  /\ removed = FALSE
  /\ sent = IF Client = "honest" THEN {1} ELSE {}

Next ==
  \/ \E h \in Handlers \ {SessionInit}, i \in Slots : Request(h, i)
  \/ \E i \in Slots : Check(i) \/ Record(i) \/ Body(i) \/ BodyPanic(i) \/ Spin(i)
                     \/ Copy(i)
  \/ \E j \in Jobs : JobDone(j) \/ JobFail(j)
  \/ Remove

Spec == Init /\ [][Next]_vars

\* The notary's goroutines run when they can and an OT call eventually
\* returns, with a response or an error; the client gets no fairness.
Fairness ==
  /\ \A i \in Slots : /\ WF_vars(Check(i)) /\ WF_vars(Record(i))
                    /\ WF_vars(Body(i)) /\ WF_vars(Spin(i)) /\ WF_vars(Copy(i))
  /\ \A j \in Jobs : WF_vars(JobDone(j) \/ JobFail(j))

FairSpec == Spec /\ Fairness

-----------------------------------------------------------------------------
(***************************************************************************)
(* Properties                                                              *)
(***************************************************************************)

\* Every handler body reads only Session fields that an earlier handler has
\* written: sequenceCheck's order, its exceptions (1, 3, 4, 34 without 33,
\* 100 between 4 and 9) and the prepTagVerification length check together
\* keep each handler from running on nil keys, shares, blob or counters.
ReadsDefined ==
  \A i \in Slots : slot[i].pc = "body" => slot[i].h.reads \subseteq defined

\* A step-2 handler spinning in parse_step2 on lastResponseFrom eventually
\* gets its OT response and returns.
SpinTerminates == \A i \in Slots : slot[i].pc = "spin" ~> slot[i].pc # "spin"

=============================================================================
