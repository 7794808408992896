------------------------- MODULE SessionManagerProofs -------------------------
(***************************************************************************)
(* Proofs about the SessionManager model, for every set of session ids and *)
(* every number of Session objects per id.                                 *)
(***************************************************************************)
EXTENDS SessionManager, SequenceTheorems, TLAPS

\* The object the map holds under a stored sid is a Session object.
LEMMA CurrentObj ==
  ASSUME TypeOK, NEW k \in Sid, InMap(k)
  PROVE  Current(k) \in Obj
  BY DEF TypeOK, InMap, Current, Obj

\* Every blocked goroutine still has a message to send: a sender leaves
\* the set with its last message.
NonEmpty == \A s \in senders : s.msgs # << >>

\* The manager's type invariant, strengthened by NonEmpty.
IInv == TypeOK /\ NonEmpty

\* A signal adds a blocked sender of a Session object with a non-empty
\* sequence of channel messages.
LEMMA SignalType ==
  ASSUME IInv, NEW o \in Obj, NEW msgs \in Seq(Msgs), msgs # << >>,
         Signal(o, msgs)
  PROVE  senders' \subseteq Sender /\ NonEmpty'
  BY DEF IInv, TypeOK, NonEmpty, Signal, Sender

\* Taking the first message of a sender leaves a sender with a message.
LEMMA DeliveredType ==
  ASSUME IInv, NEW s \in senders, Delivered(s)
  PROVE  senders' \subseteq Sender /\ NonEmpty'
<1>1. s \in Sender /\ s.msgs # << >>
  BY DEF IInv, TypeOK, NonEmpty
<1>2. s.o \in Obj /\ s.msgs \in Seq(Msgs)
  BY <1>1 DEF Sender
<1>3. Tail(s.msgs) \in Seq(Msgs) /\ Len(Tail(s.msgs)) = Len(s.msgs) - 1
  BY <1>1, <1>2, HeadTailProperties
<1>4. Len(s.msgs) # 1 => Tail(s.msgs) # << >>
  <2>1. Len(s.msgs) \in Nat \ {0}
    BY <1>1, <1>2, EmptySeq
  <2>2. Len(<< >>) = 0
    BY EmptySeq
  <2>3. Tail(s.msgs) = << >> => Len(Tail(s.msgs)) = Len(<< >>)
    BY Zenon
  <2>. QED  BY <1>3, <2>1, <2>2, <2>3
<1>6. CASE Len(s.msgs) = 1
  <2>1. senders' = senders \ {s}
    BY <1>6 DEF Delivered
  <2>. QED  BY <2>1 DEF IInv, TypeOK, NonEmpty
<1>7. CASE Len(s.msgs) # 1
  <2>1. senders' = (senders \ {s}) \cup {[o |-> s.o, msgs |-> Tail(s.msgs)]}
    BY <1>7 DEF Delivered
  <2>2. Tail(s.msgs) # << >>
    BY <1>4, <1>7
  <2>3. [o |-> s.o, msgs |-> Tail(s.msgs)] \in Sender
    BY <1>2, <1>3, <2>2 DEF Sender
  <2>4. [o |-> s.o, msgs |-> Tail(s.msgs)].msgs # << >>
    BY <2>2
  <2>. QED  BY <2>1, <2>3, <2>4 DEF IInv, TypeOK, NonEmpty
<1>. QED  BY <1>6, <1>7

\* A step of a monitor's removeSession call keeps the remover typed.
LEMMA GotoType ==
  ASSUME TypeOK, NEW g \in Monitors, NEW pc \in RmPCs, Goto(g, pc)
  PROVE  rm' \in [Monitors -> Remover]
<1>1. Idle \in Remover
  BY DEF Idle, Remover, RmPCs
<1>2. [key |-> rm[g].key, pc |-> pc] \in Remover
  BY DEF TypeOK, Remover
<1>. QED  BY <1>1, <1>2 DEF Goto, TypeOK

\* A monitor that takes a sid starts a removeSession call for it.
LEMMA CallType ==
  ASSUME TypeOK, NEW g \in Monitors, NEW k \in Sid, Call(g, k)
  PROVE  rm' \in [Monitors -> Remover]
  BY DEF Call, TypeOK, Remover, RmPCs

LEMMA TypeInit == Init => IInv
<1>. SUFFICES ASSUME Init PROVE IInv
  OBVIOUS
<1>1. smap \in [Sid -> 0 .. MaxObj]
  BY ManagerAssumption DEF Init
<1>2. stage \in [Obj -> Stages]
  BY DEF Init, Stages
<1>3. rm \in [Monitors -> Remover]
  BY DEF Init, Idle, Remover, RmPCs
<1>4. TypeOK
  BY <1>1, <1>2, <1>3 DEF Init, TypeOK
<1>. QED  BY <1>4 DEF Init, IInv, NonEmpty

LEMMA TypeNext == IInv /\ [Next]_vars => IInv'
<1>. SUFFICES ASSUME IInv, [Next]_vars PROVE IInv'
  OBVIOUS
<1>. USE DEF IInv
<1>0. /\ <<"destroy", "release">> \in Seq(Msgs) /\ <<"destroy", "release">> # << >>
      /\ <<"release", "destroy">> \in Seq(Msgs) /\ <<"release", "destroy">> # << >>
      /\ <<"release">> \in Seq(Msgs) /\ <<"release">> # << >>
  BY DEF Msgs
<1>1. ASSUME NEW k \in Sid, NEW o \in Obj, AddSession(k, o) PROVE IInv'
  <2>1. o[2] \in 0 .. MaxObj
    BY DEF Obj
  <2>. QED  BY <1>1, <2>1 DEF AddSession, TypeOK, NonEmpty, Stages
<1>19. ASSUME NEW o \in Obj, InitLookup(o) PROVE IInv'
  <2>1. senders' \subseteq Sender /\ NonEmpty'
    <3>1. CASE UNCHANGED senders
      BY <3>1 DEF TypeOK, NonEmpty
    <3>2. CASE Signal(o, <<"destroy", "release">>)
      BY <3>2, <1>0, SignalType
    <3>. QED  BY <1>19, <3>1, <3>2 DEF InitLookup
  <2>. QED  BY <1>19, <2>1 DEF InitLookup, TypeOK, Stages
<1>20. ASSUME NEW o \in Obj, InitBody(o) PROVE IInv'
  <2>1. senders' \subseteq Sender /\ NonEmpty'
    <3>1. CASE UNCHANGED senders
      BY <3>1 DEF TypeOK, NonEmpty
    <3>2. CASE Signal(o, <<"destroy", "release">>)
      BY <3>2, <1>0, SignalType
    <3>. QED  BY <1>20, <3>1, <3>2 DEF InitBody
  <2>. QED  BY <1>20, <2>1 DEF InitBody, TypeOK, Stages
<1>2. ASSUME NEW o \in Obj, ListenStart(o) PROVE IInv'
  BY <1>2 DEF ListenStart, TypeOK, NonEmpty
<1>3. ASSUME NEW o \in Obj, Accept(o) PROVE IInv'
  BY <1>3 DEF Accept, TypeOK, NonEmpty, SidOf, Obj
<1>4. ASSUME NEW o \in Obj, JobDone(o) PROVE IInv'
  BY <1>4 DEF JobDone, TypeOK, NonEmpty
<1>5. ASSUME NEW o \in Obj, JobFail(o) PROVE IInv'
  <2>1. senders' \subseteq Sender /\ NonEmpty'
    BY <1>0, <1>5, SignalType DEF JobFail
  <2>. QED  BY <1>5, <2>1 DEF JobFail, TypeOK
<1>6. ASSUME NEW o \in Obj, Forget(o) PROVE IInv'
  BY <1>6 DEF Forget, TypeOK, NonEmpty, Stages
<1>7. ASSUME NEW k \in Sid, OtStep(k) PROVE IInv'
  BY <1>7, CurrentObj DEF OtStep, TypeOK, NonEmpty
<1>8. ASSUME NEW k \in Sid, CommitHash(k) PROVE IInv'
  <2>1. Current(k) \in Obj
    BY <1>8, CurrentObj DEF CommitHash
  <2>2. senders' \subseteq Sender /\ NonEmpty'
    BY <1>0, <1>8, <2>1, SignalType DEF CommitHash
  <2>. QED  BY <1>8, <2>1, <2>2 DEF CommitHash, TypeOK, Stages
<1>9. ASSUME NEW k \in Sid, TagVerification(k) PROVE IInv'
  <2>1. Current(k) \in Obj
    BY <1>9, CurrentObj DEF TagVerification
  <2>2. senders' \subseteq Sender /\ NonEmpty'
    BY <1>0, <1>9, <2>1, SignalType DEF TagVerification
  <2>. QED  BY <1>9, <2>1, <2>2 DEF TagVerification, TypeOK, Stages
<1>10. ASSUME NEW k \in Sid, StepPanic(k) PROVE IInv'
  <2>1. Current(k) \in Obj
    BY <1>10, CurrentObj DEF StepPanic
  <2>2. senders' \subseteq Sender /\ NonEmpty'
    BY <1>0, <1>10, <2>1, SignalType DEF StepPanic
  <2>. QED  BY <1>10, <2>1, <2>2 DEF StepPanic, TypeOK, Stages
<1>11. ASSUME NEW k \in Sid, MonitorSessions(k) PROVE IInv'
  <2>1. rm' \in [Monitors -> Remover]
    BY <1>11, CallType DEF MonitorSessions, Monitors
  <2>. QED  BY <1>11, <2>1 DEF MonitorSessions, TypeOK, NonEmpty
<1>12. ASSUME NEW s \in senders, MonitorDestroyChan(s) PROVE IInv'
  <2>1. SidOf(s.o) \in Sid
    BY DEF TypeOK, Sender, SidOf, Obj
  <2>2. rm' \in [Monitors -> Remover]
    BY <1>12, <2>1, CallType DEF MonitorDestroyChan, Monitors
  <2>3. senders' \subseteq Sender /\ NonEmpty'
    BY <1>12, DeliveredType DEF MonitorDestroyChan
  <2>. QED  BY <1>12, <2>2, <2>3 DEF MonitorDestroyChan, TypeOK
<1>13. ASSUME NEW s \in senders, MonitorOtReleaseChan(s) PROVE IInv'
  BY <1>13, DeliveredType DEF MonitorOtReleaseChan, TypeOK, SidOf, Obj
<1>14. ASSUME NEW g \in Monitors, RmOwner(g) PROVE IInv'
  <2>1. rm' \in [Monitors -> Remover]
    BY <1>14, GotoType DEF RmOwner, RmPCs
  <2>. QED  BY <1>14, <2>1 DEF RmOwner, TypeOK, NonEmpty
<1>15. ASSUME NEW g \in Monitors, RmClear(g) PROVE IInv'
  <2>1. rm' \in [Monitors -> Remover]
    BY <1>15, GotoType DEF RmClear, RmPCs
  <2>. QED  BY <1>15, <2>1 DEF RmClear, TypeOK, NonEmpty
<1>16. ASSUME NEW g \in Monitors, RmFiles(g) PROVE IInv'
  <2>1. rm' \in [Monitors -> Remover]
    BY <1>16, GotoType DEF RmFiles, RmPCs
  <2>. QED  BY <1>16, <2>1 DEF RmFiles, TypeOK, NonEmpty
<1>17. ASSUME NEW g \in Monitors, RmDelete(g) PROVE IInv'
  <2>1. rm' \in [Monitors -> Remover]
    BY <1>17, GotoType DEF RmDelete, RmPCs
  <2>2. smap' \in [Sid -> 0 .. MaxObj]
    <3>1. 0 \in 0 .. MaxObj
      BY ManagerAssumption
    <3>2. smap \in [Sid -> 0 .. MaxObj]
      BY DEF TypeOK
    <3>. QED  BY <1>17, <3>1, <3>2 DEF RmDelete
  <2>. QED  BY <1>17, <2>1, <2>2 DEF RmDelete, TypeOK, NonEmpty
<1>18. CASE UNCHANGED vars
  BY <1>18 DEF vars, TypeOK, NonEmpty
<1>. QED  BY <1>1, <1>2, <1>3, <1>4, <1>5, <1>6, <1>7, <1>8, <1>9, <1>10,
             <1>11, <1>12, <1>13, <1>14, <1>15, <1>16, <1>17, <1>18, <1>19,
             <1>20
          DEF Next, RmStep

\* The manager's state keeps its types: the map holds object numbers,
\* otOwner a sid or "", every goroutine set Session objects and every
\* blocked sender an object and the channel messages it still has to send.
THEOREM ManagerTypeCorrect == Spec => []TypeOK
<1>1. Init => IInv  BY TypeInit
<1>2. IInv /\ [Next]_vars => IInv'  BY TypeNext
<1>3. IInv => TypeOK  BY DEF IInv
<1>. QED  BY <1>1, <1>2, <1>3, PTL DEF Spec

=============================================================================
