----------------------- MODULE TagVerificationManager -----------------------
(***************************************************************************)
(* The tag verification manager (src/src/aes_tag/tag_verification_manager *)
(* .go, the MPC launcher in aes_tag, and the Session handlers              *)
(* PrepTagVerification / PollTagVerification that call it).               *)
(*                                                                         *)
(* One manager is shared by all sessions.  A run of the two MPC servers    *)
(* (encrypted IV and powers of H) is identified by the session whose prep  *)
(* launched it: its results are that session's masks.  Each server        *)
(* occupies its four ports while it serves and then sends its result into  *)
(* a buffered channel of capacity 1 (ivChan, pohChan).                     *)
(***************************************************************************)
EXTENDS Naturals, Sequences, Bags

CONSTANTS
  Sid,          \* sessions
  NoOwner,      \* "" : no owner / empty mask
  System,       \* SYSTEM_OWNER "_SYSTEM"
  Slots,        \* requests of one session the HTTP server may run at once
  SystemPorts,  \* TRUE: another program may take the MPC ports at any time
  MaxMpc        \* bound on MPC server goroutines alive at once

ASSUME TvAssumption ==
  /\ NoOwner \notin Sid /\ System \notin Sid /\ NoOwner # System
  /\ NoOwner \notin Sid \X (1..Slots)   \* lock = NoOwner: no request holds it
  /\ Slots \in Nat \ {0}
  /\ SystemPorts \in BOOLEAN
  /\ MaxMpc \in Nat /\ MaxMpc >= 2

Req == Sid \X (1..Slots)
Kinds == {"iv", "poh"}
Mask == Sid \cup {NoOwner}      \* a run's result, or "" on an MPC error
PCs == {"idle", "start", "lock", "recvIv", "recvPoh"}
Serving == "serving"

VARIABLES
  busy, owner,      \* t.busy, t.owner
  lock,             \* the request holding t.mutex for writing, or NoOwner
  ivChan, pohChan,  \* t.ivChan, t.pohChan
  mpc,              \* bag of MPC goroutines [kind, run, res]
  sysPorts,         \* another program holds one of the MPC ports
  pc,               \* pc[r]: where request r is
  got,              \* got[r]: the tag mask r received from ivChan
  tagMask, pohMask  \* s.tagMask, s.pohMask of each session

vars == <<busy, owner, lock, ivChan, pohChan, mpc, sysPorts, pc, got,
          tagMask, pohMask>>

Mpc == [kind : Kinds, run : Sid, res : Mask \cup {Serving}]
Chan == {<<>>} \cup {<<m>> : m \in Mask}

TypeOK ==
  /\ busy \in BOOLEAN
  /\ owner \in Sid \cup {NoOwner, System}
  /\ lock \in Req \cup {NoOwner}
  /\ ivChan \in Chan /\ pohChan \in Chan
  /\ IsABag(mpc) /\ BagToSet(mpc) \subseteq Mpc
  /\ sysPorts \in BOOLEAN
  /\ pc \in [Req -> PCs]
  /\ got \in [Req -> Mask]
  /\ tagMask \in [Sid -> Mask] /\ pohMask \in [Sid -> Mask]

\* checkPortMpcRange(portIv) && checkPortMpcRange(portPoH): a port answers
\* while a server of a run is still serving or another program holds it.
PortsFree == ~sysPorts /\ \A m \in BagToSet(mpc) : m.res # Serving

Launch(s) ==
  mpc' = mpc (+) SetToBag({[kind |-> k, run |-> s, res |-> Serving] : k \in Kinds})

Done(r) == pc' = [pc EXCEPT ![r] = "idle"]

(***************************************************************************)
(* HandlePrepTagVerification (38-92): while busy (checked under RLock and  *)
(* again under Lock) it returns errBusy and changes nothing.  Otherwise    *)
(* the port check, then the launcher goroutine while the handler keeps the *)
(* Lock and waits on startNotifyCh.                                        *)
(***************************************************************************)
PrepTagVerification(r) ==
  /\ pc[r] = "idle"
  /\ lock = NoOwner
  /\ ~busy
  /\ \/ /\ ~PortsFree
        /\ busy' = TRUE
        /\ owner' = IF owner = NoOwner THEN System ELSE owner
        /\ UNCHANGED <<pc, lock>>
     \/ /\ PortsFree
        /\ BagCardinality(mpc) + 2 <= MaxMpc
        /\ lock' = r
        /\ pc' = [pc EXCEPT ![r] = "start"]
        /\ UNCHANGED <<busy, owner>>
  /\ UNCHANGED <<ivChan, pohChan, mpc, sysPorts, got, tagMask, pohMask>>

\* runTagVerificationMpcAsync checks the ports again.  When they are taken
\* it reports false and errBusy, but does not return: it launches both MPC
\* servers anyway and blocks for ever on startNotifyCh.
MpcAsyncStart(r) ==
  /\ pc[r] = "start"
  /\ Launch(r[1])
  /\ lock' = NoOwner
  /\ Done(r)
  /\ IF PortsFree
     THEN busy' = TRUE /\ owner' = r[1]
     ELSE UNCHANGED <<busy, owner>>
  /\ UNCHANGED <<ivChan, pohChan, sysPorts, got, tagMask, pohMask>>

\* aesmpc.RunGcm...Server returns when the client side of the MPC is done:
\* the run's mask, or "" on an error; the server's ports are free again.
MpcServe(m) ==
  /\ m.res = Serving
  /\ \E res \in {m.run, NoOwner} :
       mpc' = (mpc (-) SetToBag({m}))
                (+) SetToBag({[kind |-> m.kind, run |-> m.run, res |-> res]})
  /\ UNCHANGED <<busy, owner, lock, ivChan, pohChan, sysPorts, pc, got,
                 tagMask, pohMask>>

\* Mutant: result channels without the capacity bound.
MpcSendNoCap(m) ==
  /\ m.res # Serving
  /\ mpc' = mpc (-) SetToBag({m})
  /\ IF m.kind = "iv"
     THEN ivChan' = Append(ivChan, m.res) /\ UNCHANGED pohChan
     ELSE pohChan' = Append(pohChan, m.res) /\ UNCHANGED ivChan
  /\ UNCHANGED <<busy, owner, lock, sysPorts, pc, got, tagMask, pohMask>>

\* doneCh <- mask, blocking while the channel's one slot is full.
MpcSend(m) ==
  /\ m.res # Serving
  /\ mpc' = mpc (-) SetToBag({m})
  /\ IF m.kind = "iv"
     THEN ivChan = <<>> /\ ivChan' = <<m.res>> /\ UNCHANGED pohChan
     ELSE pohChan = <<>> /\ pohChan' = <<m.res>> /\ UNCHANGED ivChan
  /\ UNCHANGED <<busy, owner, lock, sysPorts, pc, got, tagMask, pohMask>>

(***************************************************************************)
(* HandlePollTagVerificationStatus (94-127) and PollTagVerification, which *)
(* stores whatever masks it gets in s.tagMask and s.pohMask.  The snapshot *)
(* is taken under RLock; a reader waits while a writer holds the Lock.     *)
(***************************************************************************)
SetMasks(s, t, p) ==
  /\ tagMask' = [tagMask EXCEPT ![s] = t]
  /\ pohMask' = [pohMask EXCEPT ![s] = p]

\* Mutant: the owner's poll goes for the results before both have arrived.
PollNotReady(r) ==
  /\ pc[r] = "idle"
  /\ lock = NoOwner
  /\ IF owner = r[1]
     THEN pc' = [pc EXCEPT ![r] = "lock"] /\ UNCHANGED <<tagMask, pohMask>>
     ELSE SetMasks(r[1], NoOwner, NoOwner) /\ UNCHANGED pc
  /\ UNCHANGED <<busy, owner, lock, ivChan, pohChan, mpc, sysPorts, got>>

PollTagVerification(r) ==
  /\ pc[r] = "idle"
  /\ lock = NoOwner
  /\ IF owner = r[1] /\ ivChan # <<>> /\ pohChan # <<>>
     THEN pc' = [pc EXCEPT ![r] = "lock"] /\ UNCHANGED <<tagMask, pohMask>>
     ELSE SetMasks(r[1], NoOwner, NoOwner) /\ UNCHANGED pc
  /\ UNCHANGED <<busy, owner, lock, ivChan, pohChan, mpc, sysPorts, got>>

PollLock(r) ==
  /\ pc[r] = "lock"
  /\ lock = NoOwner
  /\ lock' = r
  /\ pc' = [pc EXCEPT ![r] = "recvIv"]
  /\ UNCHANGED <<busy, owner, ivChan, pohChan, mpc, sysPorts, got, tagMask,
                 pohMask>>

\* tagMask := <-t.ivChan, holding the Lock (blocks while it is empty)
PollRecvIv(r) ==
  /\ pc[r] = "recvIv"
  /\ ivChan # <<>>
  /\ got' = [got EXCEPT ![r] = Head(ivChan)]
  /\ ivChan' = <<>>
  /\ pc' = [pc EXCEPT ![r] = "recvPoh"]
  /\ UNCHANGED <<busy, owner, lock, pohChan, mpc, sysPorts, tagMask, pohMask>>

\* pohMask := <-t.pohChan; busy = false; owner = ""; Unlock
PollRecvPoh(r) ==
  /\ pc[r] = "recvPoh"
  /\ pohChan # <<>>
  /\ pohChan' = <<>>
  /\ busy' = FALSE
  /\ owner' = NoOwner
  /\ lock' = NoOwner
  /\ SetMasks(r[1], got[r], Head(pohChan))
  /\ Done(r)
  /\ UNCHANGED <<ivChan, mpc, sysPorts, got>>

\* Another program binds or frees one of the MPC ports.
SystemPortsChange ==
  /\ SystemPorts
  /\ sysPorts' = ~sysPorts
  /\ UNCHANGED <<busy, owner, lock, ivChan, pohChan, mpc, pc, got, tagMask,
                 pohMask>>

Init ==
  /\ busy = FALSE
  /\ owner = NoOwner
  /\ lock = NoOwner
  /\ ivChan = <<>> /\ pohChan = <<>>
  /\ mpc = EmptyBag
  /\ sysPorts = FALSE
  /\ pc = [r \in Req |-> "idle"]
  /\ got = [r \in Req |-> NoOwner]
  /\ tagMask = [s \in Sid |-> NoOwner] /\ pohMask = [s \in Sid |-> NoOwner]

Next ==
  \/ \E r \in Req : \/ PrepTagVerification(r) \/ MpcAsyncStart(r)
                    \/ PollTagVerification(r) \/ PollLock(r)
                    \/ PollRecvIv(r) \/ PollRecvPoh(r)
  \/ \E m \in BagToSet(mpc) : MpcServe(m) \/ MpcSend(m)
  \/ SystemPortsChange

Spec == Init /\ [][Next]_vars

\* The server's goroutines progress when they can; clients, the MPC peers
\* and other programs get no fairness.
Fairness ==
  /\ \A r \in Req : /\ WF_vars(MpcAsyncStart(r)) /\ WF_vars(PollLock(r))
                    /\ WF_vars(PollRecvIv(r)) /\ WF_vars(PollRecvPoh(r))
  /\ WF_vars(\E m \in BagToSet(mpc) : MpcSend(m))

FairSpec == Spec /\ Fairness

-----------------------------------------------------------------------------
\* A session only ever stores masks of the MPC run its own prep started:
\* the manager is single-owner and hands results to that owner only.
MaskFromOwnRun ==
  \A s \in Sid : tagMask[s] \in {s, NoOwner} /\ pohMask[s] \in {s, NoOwner}

\* A poll that takes the manager's Lock releases it again: the blocking
\* receives under the Lock never wait for ever.
LockReleased == (lock # NoOwner) ~> (lock = NoOwner)

\* The manager does not stay busy for ever: prepTagVerification is
\* eventually accepted again.
TvEventuallyFree == busy ~> ~busy

=============================================================================
