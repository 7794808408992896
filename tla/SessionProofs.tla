---------------------------- MODULE SessionProofs ----------------------------
(***************************************************************************)
(* Proofs about the Session model, for every number of request slots and   *)
(* every client.                                                           *)
(***************************************************************************)
EXTENDS Session, TLAPS

\* Each handler's seqNo, writes, spawned goroutines and awaited stamp lie
\* in the sets the state is typed with.
LEMMA HandlerTyping ==
  \A h \in Handlers \cup {NoHandler} :
     /\ h.seq \in Seqs \cup {0, 100}
     /\ h.writes \subseteq Fields
     /\ h.spawn \subseteq Jobs \cup {None}
     /\ h.wait \in StampJobs \cup {None}
<1>1. \A h \in Handlers : h.seq \in Seqs \cup {0, 100}
  BY DEF Seqs
<1>2. \A h \in Handlers : h.writes \subseteq Fields
  BY DEF Fields
<1>3. \A h \in Handlers : h.spawn \subseteq Jobs \cup {None} /\ h.wait \in StampJobs \cup {None}
  BY DEF Handlers, H, CommonStep2, Jobs, StampJobs,
     SessionInit, GetBlob, SetBlob, GetUploadProgress, Step1, Step2, Step3,
     Step4, C1_step1, C1_step2, C1_step3, C1_step4, C1_step5, C2_step1,
     C2_step2, C2_step3, C2_step4, C3_step1, C3_step2, C4_step1, C4_step2,
     C4_step3, C5_pre1, C5_step1, C5_step2, C5_step3, C6_step1, C6_pre2,
     C6_step2, C7_step1, C7_step2, Ghash_step1, Ghash_step2, Ghash_step3,
     CommitHash, PrepTagVerification, TagVerification
<1>4. NoHandler.seq = 0 /\ NoHandler.writes = {} /\ NoHandler.spawn = {None}
      /\ NoHandler.wait = None
  BY DEF NoHandler, H
<1>. QED  BY <1>1, <1>2, <1>3, <1>4

\* A slot about to append to msgsSeen holds a handler whose number is
\* stored there (not prepTagVerification's 0, not getUploadProgress's 100).
RecordSeq == \A i \in Slots : slot[i].pc = "record" => slot[i].h.seq \in Seqs

\* The inductive invariant behind TypeOK.
IInv == TypeOK /\ RecordSeq

LEMMA InitIInv == Init => IInv
<1>. SUFFICES ASSUME Init PROVE IInv
  OBVIOUS
<1>1. SessionInit \in Handlers /\ 1 \in Seqs
  BY DEF Handlers, Seqs, SessionInit, H
<1>2. slot \in [Slots -> [h : Handlers \cup {NoHandler}, pc : PCs, snap : SUBSET Seqs]]
  <2>1. [h |-> SessionInit, pc |-> "check", snap |-> {}]
          \in [h : Handlers \cup {NoHandler}, pc : PCs, snap : SUBSET Seqs]
    BY <1>1 DEF PCs
  <2>2. Idle \in [h : Handlers \cup {NoHandler}, pc : PCs, snap : SUBSET Seqs]
    BY DEF Idle, PCs
  <2>. QED  BY <2>1, <2>2 DEF Init
<1>4. sent \subseteq Seqs \cup {0, 100}
  BY <1>1 DEF Init
<1>5. RecordSeq
  BY DEF Init, RecordSeq, Idle
<1>. QED  BY <1>2, <1>4, <1>5 DEF Init, IInv, TypeOK

SlotRec == [h : Handlers \cup {NoHandler}, pc : PCs, snap : SUBSET Seqs]

LEMMA NextIInv == IInv /\ [Next]_vars => IInv'
<1>. SUFFICES ASSUME IInv, [Next]_vars PROVE IInv'
  OBVIOUS
<1>. USE DEF IInv, TypeOK, RecordSeq
<1>0. /\ \A h \in Handlers \cup {NoHandler} : h.seq \in Seqs \cup {0, 100}
      /\ \A h \in Handlers \cup {NoHandler} : h.writes \subseteq Fields
      /\ \A h \in Handlers \cup {NoHandler} : h.spawn \subseteq Jobs \cup {None}
      /\ Idle \in SlotRec
      /\ "blob" \in Fields
  BY HandlerTyping DEF Idle, SlotRec, PCs, Fields
<1>1. ASSUME NEW h \in Handlers \ {SessionInit}, NEW i \in Slots, Request(h, i)
      PROVE IInv'
  BY <1>0, <1>1 DEF Request, SlotRec, PCs
<1>2. ASSUME NEW i \in Slots, Check(i) PROVE IInv'
  <2>. DEFINE h == slot[i].h
  <2>1. h \in Handlers \cup {NoHandler}
    BY DEF SlotRec
  <2>2. slot' \in [Slots -> SlotRec]
    BY <1>0, <1>2, <2>1 DEF Check, SlotRec, PCs
  <2>3. RecordSeq'
    BY <1>0, <1>2, <2>1 DEF Check, Idle
  <2>. QED  BY <1>2, <2>2, <2>3 DEF Check, SlotRec
<1>3. ASSUME NEW i \in Slots, Record(i) PROVE IInv'
  BY <1>3 DEF Record, SlotRec, PCs
<1>4. ASSUME NEW i \in Slots, Body(i) PROVE IInv'
  <2>. DEFINE h == slot[i].h
  <2>1. h \in Handlers \cup {NoHandler}
    BY DEF SlotRec
  <2>2. jobs' \subseteq Jobs
    BY <1>0, <1>4, <2>1 DEF Body
  <2>3. defined' \subseteq Fields
    BY <1>0, <1>4, <2>1 DEF Body
  <2>4. slot' \in [Slots -> SlotRec] /\ RecordSeq'
    BY <1>0, <1>4 DEF Body, SlotRec, PCs, Idle
  <2>. QED  BY <1>4, <2>2, <2>3, <2>4 DEF Body, SlotRec
<1>11. ASSUME NEW i \in Slots, BodyPanic(i) PROVE IInv'
  <2>1. \A w \in PanicWrites(slot[i].h) : w \subseteq Fields
    BY DEF PanicWrites, Fields, Handlers, SessionInit, H
  <2>. QED  BY <1>0, <1>11, <2>1 DEF BodyPanic, SlotRec, Idle
<1>5. ASSUME NEW i \in Slots, Spin(i) PROVE IInv'
  BY <1>0, <1>5 DEF Spin, SlotRec, Idle
<1>6. ASSUME NEW i \in Slots, Copy(i) PROVE IInv'
  BY <1>0, <1>6 DEF Copy, SlotRec, Idle
<1>7. ASSUME NEW j \in Jobs, JobDone(j) PROVE IInv'
  BY <1>7 DEF JobDone
<1>8. ASSUME NEW j \in Jobs, JobFail(j) PROVE IInv'
  BY <1>8 DEF JobFail
<1>9. CASE Remove
  BY <1>9 DEF Remove
<1>10. CASE UNCHANGED vars
  BY <1>10 DEF vars
<1>. QED  BY <1>1, <1>2, <1>3, <1>4, <1>11, <1>5, <1>6, <1>7, <1>8, <1>9, <1>10 DEF Next

\* The state keeps its types: slots hold handlers of the session, msgsSeen
\* and the written fields stay within the protocol's numbers and fields,
\* the OT goroutines and lastResponseFrom within the circuits' names.
THEOREM TypeCorrect == Spec => []TypeOK
<1>1. Init => IInv  BY InitIInv
<1>2. IInv /\ [Next]_vars => IInv'  BY NextIInv
<1>3. IInv => TypeOK  BY DEF IInv
<1>. QED  BY <1>1, <1>2, <1>3, PTL DEF Spec

=============================================================================
