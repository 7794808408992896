--------------------- MODULE TagVerificationManagerProofs ---------------------
(***************************************************************************)
(* Proofs about the TagVerificationManager model, for every set of         *)
(* sessions, every number of request slots and every bound on the MPC      *)
(* goroutines.                                                             *)
(***************************************************************************)
EXTENDS TagVerificationManager, SequenceTheorems, TLAPS

(***************************************************************************)
(* The bag of MPC goroutines: what adding and removing goroutines does.    *)
(***************************************************************************)
\* Launching goroutines keeps a bag and adds their records to its support.
LEMMA BagAddSet ==
  ASSUME NEW B, IsABag(B), NEW S
  PROVE  /\ IsABag(B (+) SetToBag(S))
         /\ BagToSet(B (+) SetToBag(S)) = BagToSet(B) \cup S
  BY DEF IsABag, BagToSet, SetToBag, (+)

\* A goroutine that ends leaves a bag whose support is no larger.
LEMMA BagRemoveSub ==
  ASSUME NEW B, IsABag(B), NEW x
  PROVE  /\ IsABag(B (-) SetToBag({x}))
         /\ BagToSet(B (-) SetToBag({x})) \subseteq BagToSet(B)
  BY DEF IsABag, BagToSet, SetToBag, (-)

\* Removing the only copy of x.
LEMMA BagRemoveOne ==
  ASSUME NEW B, IsABag(B), NEW x \in BagToSet(B), B[x] = 1
  PROVE  B (-) SetToBag({x}) = [y \in BagToSet(B) \ {x} |-> B[y]]
  BY DEF IsABag, BagToSet, SetToBag, (-)

\* Adding one copy of an element the bag does not hold.
LEMMA BagAddOne ==
  ASSUME NEW B, IsABag(B), NEW x, x \notin BagToSet(B)
  PROVE  B (+) SetToBag({x}) = [y \in BagToSet(B) \cup {x} |-> IF y = x THEN 1 ELSE B[y]]
  BY DEF IsABag, BagToSet, SetToBag, (+)

LEMMA TvTypeInit == Init => TypeOK
<1>. SUFFICES ASSUME Init PROVE TypeOK
  OBVIOUS
<1>1. IsABag(mpc) /\ BagToSet(mpc) = {}
  BY DEF Init, EmptyBag, SetToBag, IsABag, BagToSet
<1>2. <<>> \in Chan
  BY DEF Chan
<1>. QED  BY <1>1, <1>2, TvAssumption DEF Init, TypeOK, Mask, PCs

LEMMA TvTypeNext == TypeOK /\ [Next]_vars => TypeOK'
<1>. SUFFICES ASSUME TypeOK, [Next]_vars PROVE TypeOK'
  OBVIOUS
<1>0. /\ IsABag(mpc) /\ BagToSet(mpc) \subseteq Mpc
      /\ \A c \in Chan : c # <<>> => Head(c) \in Mask
      /\ \A x \in Mask : <<x>> \in Chan
  BY DEF TypeOK, Chan
<1>1. ASSUME NEW r \in Req, PrepTagVerification(r) PROVE TypeOK'
  BY <1>1, TvAssumption DEF PrepTagVerification, TypeOK, PCs, Req
<1>2. ASSUME NEW r \in Req, MpcAsyncStart(r) PROVE TypeOK'
  <2>1. LET S == {[kind |-> k, run |-> r[1], res |-> Serving] : k \in Kinds}
        IN  /\ IsABag(mpc') /\ BagToSet(mpc') = BagToSet(mpc) \cup S
            /\ S \subseteq Mpc
    <3>1. r[1] \in Sid
      BY DEF Req
    <3>. QED  BY <1>0, <1>2, <3>1, BagAddSet DEF MpcAsyncStart, Launch, Mpc
  <2>. QED  BY <1>2, <2>1 DEF MpcAsyncStart, Done, TypeOK, PCs, Req
<1>3. ASSUME NEW m \in BagToSet(mpc), MpcServe(m) PROVE TypeOK'
  <2>1. PICK res \in {m.run, NoOwner} :
          mpc' = (mpc (-) SetToBag({m}))
                   (+) SetToBag({[kind |-> m.kind, run |-> m.run, res |-> res]})
    BY <1>3 DEF MpcServe
  <2>. DEFINE rest == mpc (-) SetToBag({m})
              new == [kind |-> m.kind, run |-> m.run, res |-> res]
  <2>2. m \in Mpc
    BY <1>0
  <2>3. new \in Mpc
    BY <2>2 DEF Mpc, Mask
  <2>4. IsABag(rest) /\ BagToSet(rest) \subseteq Mpc
    BY <1>0, BagRemoveSub
  <2>5. IsABag(rest (+) SetToBag({new}))
        /\ BagToSet(rest (+) SetToBag({new})) = BagToSet(rest) \cup {new}
    BY <2>4, BagAddSet
  <2>6. IsABag(mpc') /\ BagToSet(mpc') \subseteq Mpc
    BY <2>1, <2>3, <2>4, <2>5
  <2>. QED  BY <1>3, <2>6 DEF MpcServe, TypeOK
<1>4. ASSUME NEW m \in BagToSet(mpc), MpcSend(m) PROVE TypeOK'
  <2>1. m \in Mpc /\ m.res # Serving
    BY <1>0, <1>4 DEF MpcSend
  <2>2. m.res \in Mask
    BY <2>1 DEF Mpc
  <2>3. IsABag(mpc') /\ BagToSet(mpc') \subseteq Mpc
    BY <1>0, <1>4, BagRemoveSub DEF MpcSend
  <2>. QED  BY <1>0, <1>4, <2>2, <2>3 DEF MpcSend, TypeOK
<1>5. ASSUME NEW r \in Req, PollTagVerification(r) PROVE TypeOK'
  BY <1>5, TvAssumption DEF PollTagVerification, SetMasks, TypeOK, PCs, Req, Mask
<1>6. ASSUME NEW r \in Req, PollLock(r) PROVE TypeOK'
  BY <1>6 DEF PollLock, TypeOK, PCs
<1>7. ASSUME NEW r \in Req, PollRecvIv(r) PROVE TypeOK'
  <2>1. Head(ivChan) \in Mask /\ <<>> \in Chan
    BY <1>0, <1>7 DEF PollRecvIv, TypeOK, Chan
  <2>. QED  BY <1>7, <2>1 DEF PollRecvIv, TypeOK, PCs
<1>8. ASSUME NEW r \in Req, PollRecvPoh(r) PROVE TypeOK'
  <2>1. Head(pohChan) \in Mask /\ <<>> \in Chan /\ got[r] \in Mask /\ r[1] \in Sid
    BY <1>0, <1>8 DEF PollRecvPoh, TypeOK, Chan, Req
  <2>. QED  BY <1>8, <2>1 DEF PollRecvPoh, SetMasks, Done, TypeOK, PCs
<1>9. CASE SystemPortsChange
  BY <1>9 DEF SystemPortsChange, TypeOK
<1>10. CASE UNCHANGED vars
  BY <1>10 DEF vars, TypeOK
<1>. QED  BY <1>1, <1>2, <1>3, <1>4, <1>5, <1>6, <1>7, <1>8, <1>9, <1>10 DEF Next

\* The manager's state keeps its types: owner is a session, "" or
\* "_SYSTEM", each channel holds at most one mask, every MPC goroutine is
\* a server of a session's run, and the masks a session stores are a
\* session's or "".
THEOREM TvTypeCorrect == Spec => []TypeOK
<1>1. Init => TypeOK  BY TvTypeInit
<1>2. TypeOK /\ [Next]_vars => TypeOK'  BY TvTypeNext
<1>. QED  BY <1>1, <1>2, PTL DEF Spec

=============================================================================
