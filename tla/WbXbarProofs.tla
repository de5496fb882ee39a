---------------------------- MODULE WbXbarProofs ----------------------------
(* Theorems about wbxbar.v.  Its arbitration is consistent for every number of
   masters and slaves, every burst length and every timeout; and while no master
   has more requests unanswered than the pending counter can count, it loses,
   repeats, reorders and misdelivers none.                                   *)
EXTENDS WbXbar, WellFoundedInduction, SequenceTheorems, TLAPS

(* Every non-empty set of natural numbers has a least member: among the masters
   that could take a slave there is a first one.                            *)
LEMMA LeastNat ==
    ASSUME NEW T \in SUBSET Nat, T # {}
    PROVE  \E x \in T : \A y \in T : x <= y
  <1> DEFINE R == OpToRel(<, Nat)
  <1>1. \E x \in T : \A y \in T : ~(<<y, x>> \in R)
    <2>1. IsWellFoundedOn(R, Nat)
      BY NatLessThanWellFounded
    <2> HIDE DEF R
    <2> QED BY <2>1, WFMin
  <1>2. PICK x \in T : \A y \in T : ~(<<y, x>> \in R)
    BY <1>1
  <1>3. \A y \in T : x <= y
    <2> TAKE y \in T
    <2>1. ~(<<y, x>> \in {ss \in Nat \X Nat : ss[1] < ss[2]})
      BY <1>2 DEF OpToRel
    <2> QED BY <2>1
  <1> QED BY <1>3

LEMMA InitArbiter == Init => ArbiterInv
  <1> SUFFICES ASSUME Init PROVE ArbiterInv
    OBVIOUS
  <1> USE SizeAssumption
  <1>1. \A n \in Masters : NoRequest(n) \in Request
    BY DEF NoRequest, Request, Channels, Bits
  <1>2. ArbiterTypeOK
    BY <1>1 DEF Init, ArbiterTypeOK, Bits, Channels
  <1>3. FullIsGranted
    BY DEF Init, FullIsGranted
  <1>4. GrantsAgree
    BY DEF Init, GrantsAgree
  <1> QED BY <1>2, <1>3, <1>4 DEF ArbiterInv

-----------------------------------------------------------------------------
(* A request asks for one channel.                                          *)
LEMMA RequestType ==
    ASSUME ArbiterTypeOK, NEW n \in Masters
    PROVE  /\ request(n) \subseteq Channels
           /\ \A c, d \in request(n) : c = d
           /\ request(n) # {} <=> i_mcyc[n] = 1 /\ dcd_stb[n] = 1
  BY DEF ArbiterTypeOK, request, Request

(* Types after one clock of the crossbar and its masters.                   *)
LEMMA StepTypes ==
    ASSUME ArbiterTypeOK, GrantsAgree,
           NEW in \in SlaveInput, XbarTick(in),
           NEW mv \in [Masters -> Moves], MasterOutputs(mv)
    PROVE  ArbiterTypeOK'
  <1> USE SizeAssumption
  <1>1. i_mreq' \in [Masters -> Request] /\ tag' \in [Masters -> Bits]
    <2>1. \A n \in Masters : mv[n].kind = "ask" => mv[n].a \in Channels
      BY DEF Moves, Channels
    <2>2. \A n \in Masters : NoRequest(n) \in Request
      BY DEF NoRequest, Request, Channels, Bits
    <2>3. \A n \in Masters : NewRequest(mv, n) =>
             [m |-> n, addr |-> mv[n].a, tag |-> tag[n]] \in Request
      BY <2>1 DEF ArbiterTypeOK, Request, NewRequest
    <2> QED BY <2>2, <2>3 DEF ArbiterTypeOK, MasterOutputs, Bits
  <1>2. i_mcyc' \in [Masters -> Bits]
    BY DEF MasterOutputs, Bit, Bits
  <1>3. /\ r_data' \in [Masters -> Request]
        /\ dcd_stb' \in [Masters -> Bits] /\ dcd_req' \in [Masters -> Request]
    BY DEF ArbiterTypeOK, XbarTick, SkidBuffer, AddrDecode, skd_req, Bit, Bits
  <1>4. grant' \in [Masters -> SUBSET Channels] /\ mgrant' \in [Masters -> Bits]
    BY RequestType DEF ArbiterTypeOK, XbarTick, Arbitrate, NextGrant, NextMgrant, Bits
  <1>5. mindex' \in [Masters -> Channels]
    <2>1. \A n \in Masters : regrantM(n) \subseteq Channels
      BY RequestType DEF regrantM
    <2>2. \A n \in Masters : NextMindex(n) \in Channels
      BY <2>1 DEF ArbiterTypeOK, NextMindex, Channels
    <2> QED BY <2>2 DEF XbarTick, Arbitrate
  <1>6. sindex' \in [Slaves -> Masters]
    <2>1. \A s \in Slaves : NextSindex(s) \in Masters
      BY DEF ArbiterTypeOK, NextSindex, regrantS, Masters
    <2> QED BY <2>1 DEF XbarTick, Arbitrate
  <1>7. sgrant' \in [Slaves -> Bits]
    BY DEF ArbiterTypeOK, XbarTick, Arbitrate, NextSgrant, Bits
  <1>8. /\ mempty' \in [Masters -> Bits] /\ mnearfull' \in [Masters -> Bits]
        /\ mfull' \in [Masters -> Bits] /\ o_merr' \in [Masters -> Bits]
    BY DEF ArbiterTypeOK, XbarTick, CountPending, Returns, NextMerr, Bit, Bits
  <1> QED BY <1>1, <1>2, <1>3, <1>4, <1>5, <1>6, <1>7, <1>8 DEF ArbiterTypeOK

(* A master that is full stays on its channel.                              *)
LEMMA StepFullIsGranted ==
    ASSUME ArbiterInv, NEW in \in SlaveInput, XbarTick(in)
    PROVE  FullIsGranted'
  <1> USE DEF ArbiterInv
  <1> SUFFICES ASSUME NEW n \in Masters, mfull'[n] = 1
               PROVE  mempty'[n] = 0 /\ mgrant'[n] = 1
    BY DEF FullIsGranted
  <1>1. ~Quiet(n) /\ i_mcyc[n] = 1 /\ o_merr[n] = 0
    BY DEF XbarTick, CountPending, Quiet, ArbiterTypeOK, Bits
  <1>2. mgrant'[n] = NextMgrant(n)
    BY DEF XbarTick, Arbitrate
  <1>3. CASE CountsUp(in, n)
    <2>1. mempty'[n] = 0
      BY <1>1, <1>3 DEF XbarTick, CountPending
    <2>2. mgrant[n] = 1 /\ mindex[n] \in request(n) /\ NS \notin grant[n]
      BY <1>1, <1>3 DEF CountsUp, Issued, m_stall
    <2>3. PICK c \in grant[n] : c \in Channels /\ c # NS
      BY <2>2 DEF GrantsAgree, ArbiterTypeOK
    <2>4. mindex[n] = c
      BY <2>3, SizeAssumption DEF GrantsAgree, Channels
    <2> QED BY <1>1, <1>2, <2>1, <2>2, <2>3, <2>4 DEF NextMgrant, stay_on_channel
  <1>4. CASE ~CountsUp(in, n)
    <2>1. mfull[n] = 1 /\ mempty'[n] = mempty[n]
      BY <1>1, <1>4 DEF XbarTick, CountPending
    <2> QED BY <1>1, <1>2, <2>1 DEF NextMgrant, stay_on_channel, FullIsGranted
  <1> QED BY <1>3, <1>4

-----------------------------------------------------------------------------
(* Each master keeps at most one channel, and mgrant says whether it has one. *)
LEMMA StepOneChannel ==
    ASSUME ArbiterInv, NEW in \in SlaveInput, XbarTick(in), NEW n \in Masters
    PROVE  /\ \A c, d \in grant'[n] : c = d
           /\ mgrant'[n] = 1 <=> grant'[n] # {}
  <1> USE DEF ArbiterInv
  <1>1. grant'[n] = NextGrant(n) /\ mgrant'[n] = NextMgrant(n)
    BY DEF XbarTick, Arbitrate
  <1>2. requested_channel_is_available(n) => request(n) # {}
    BY RequestType DEF requested_channel_is_available, m_stb
  <1> QED BY <1>1, <1>2, RequestType DEF NextGrant, NextMgrant, GrantsAgree

(* A master that gives up or changes its channel has no answer outstanding, and
   its slave sees it go in the same clock.                                  *)
LEMMA LeavingDropsSlave ==
    ASSUME ArbiterInv, NEW s \in Slaves, sgrant[s] = 1,
           s \notin NextGrant(sindex[s])
    PROVE  drop_sgrant(s)
  <1> USE DEF ArbiterInv
  <1> DEFINE n == sindex[s]
  <1>1. n \in Masters /\ s \in grant[n] /\ mgrant[n] = 1
    BY DEF ArbiterTypeOK, GrantsAgree
  <1>2. CASE i_mcyc[n] = 0
    BY <1>2 DEF drop_sgrant
  <1>3. CASE i_mcyc[n] # 0
    <2>1. ~stay_on_channel(n)
      BY <1>1, <1>3 DEF NextGrant
    <2>2. mempty[n] = 1 /\ s \notin request(n) /\ mfull[n] = 0
      BY <1>1, <2>1 DEF stay_on_channel, ArbiterTypeOK, Bits, FullIsGranted
    <2>3. requested_channel_is_available(n) \/ m_stb(n)
      BY <1>1, <1>3 DEF NextGrant
    <2>4. m_stb(n)
      <3>1. requested_channel_is_available(n) => request(n) # {}
        BY <1>1, RequestType DEF requested_channel_is_available, m_stb
      <3> QED BY <1>1, <2>2, <2>3, <3>1, RequestType DEF m_stb
    <2> QED BY <2>2, <2>4 DEF drop_sgrant
  <1> QED BY <1>2, <1>3

(* A slave that is held keeps pointing at its holder.                       *)
LEMMA HolderKeepsIndex ==
    ASSUME ArbiterInv, NEW s \in Slaves, sgrant[s] = 1
    PROVE  NextSindex(s) = sindex[s]
  <1> USE DEF ArbiterInv
  <1>1. sindex[s] \in Masters
    BY DEF ArbiterTypeOK
  <1>2. regrantS(s) \subseteq {sindex[s]}
    <2> SUFFICES ASSUME NEW k \in regrantS(s) PROVE k = sindex[s]
      OBVIOUS
    <2>1. k \in Masters /\ s \in grant[k] /\ s < NS
      BY SizeAssumption DEF regrantS, Slaves
    <2> QED BY <2>1 DEF GrantsAgree
  <1>3. NM = 1 => sindex[s] = 0
    BY <1>1 DEF Masters
  <1> QED BY <1>2, <1>3 DEF NextSindex

(* A free slave is given to one master, and both views name the same one.   *)
LEMMA FreeSlaveTaken ==
    ASSUME ArbiterInv, NEW s \in Slaves, sgrant[s] = 0, NEW n \in Masters,
           n \in regrantS(s)
    PROVE  /\ regrantS(s) = {n}
           /\ NextSindex(s) = n
           /\ NextSgrant(s) = 1
           /\ NextGrant(n) = {s}
           /\ NextMindex(n) = s
  <1> USE SizeAssumption DEF ArbiterInv
  <1>1. \A k \in Masters : s \notin grant[k]
    BY DEF GrantsAgree, Slaves
  <1>2. /\ s \in request(n) /\ ~requested(n, s)
        /\ mgrant[n] = 0 \/ mempty[n] = 1
    BY <1>1 DEF regrantS
  <1>3. request(n) = {s} /\ i_mcyc[n] = 1 /\ dcd_stb[n] = 1
    BY <1>2, RequestType
  <1>4. regrantS(s) = {n}
    <2> SUFFICES ASSUME NEW k \in regrantS(s) PROVE k = n
      OBVIOUS
    <2>1. /\ k \in Masters /\ s \in request(k) /\ ~requested(k, s)
          /\ mgrant[k] = 0 \/ mempty[k] = 1
      BY <1>1 DEF regrantS
    <2>2. ~(k < n) /\ ~(n < k)
      BY <1>2, <2>1 DEF requested
    <2> QED BY <2>1, <2>2 DEF Masters
  <1>5. NextSindex(s) = n
    BY <1>4 DEF NextSindex, Masters
  <1>6. NextSgrant(s) = 1
    BY <1>2 DEF NextSgrant, drop_sgrant
  <1>7. ~stay_on_channel(n)
    BY <1>1, <1>2, <1>3 DEF stay_on_channel
  <1>8. requested_channel_is_available(n)
    <2>1. CASE NM < 2
      <3>1. mfull[n] = 0
        BY <1>2 DEF FullIsGranted, ArbiterTypeOK, Bits
      <3> QED BY <3>1, <1>3, <2>1 DEF requested_channel_is_available, m_stb
    <2>2. CASE ~(NM < 2)
      BY <2>2, <1>2 DEF requested_channel_is_available
    <2> QED BY <2>1, <2>2
  <1>9. NextGrant(n) = {s}
    BY <1>3, <1>7, <1>8 DEF NextGrant
  <1>10. NextMindex(n) = s
    <2>1. regrantM(n) = {s}
      BY <1>2, <1>3 DEF regrantM, Slaves, ArbiterTypeOK, Bits
    <2>2. NS = 1 => s = 0
      BY DEF Slaves
    <2> QED BY <2>1, <2>2 DEF NextMindex
  <1> QED BY <1>4, <1>5, <1>6, <1>9, <1>10

(* If anyone who could take a free slave asks for it, someone takes it.     *)
LEMMA FreeSlaveHasTaker ==
    ASSUME ArbiterInv, NEW s \in Slaves, sgrant[s] = 0, NextSgrant(s) = 1
    PROVE  \E n \in Masters : n \in regrantS(s)
  <1> USE SizeAssumption DEF ArbiterInv
  <1> DEFINE T == {n \in Masters : /\ s \in request(n)
                                   /\ mgrant[n] = 0 \/ mempty[n] = 1}
  <1>1. T # {} /\ T \in SUBSET Nat
    BY DEF NextSgrant, drop_sgrant, Masters
  <1>2. PICK f \in T : \A k \in T : f <= k
    BY <1>1, LeastNat
  <1>3. \A k \in Masters : s \notin grant[k]
    BY DEF GrantsAgree, Slaves
  <1>4. ~requested(f, s)
    <2> SUFFICES ASSUME requested(f, s) PROVE FALSE
      OBVIOUS
    <2>1. PICK k \in Masters : /\ k < f /\ s \in request(k)
                               /\ s \in grant[k] \/ mgrant[k] = 0 \/ mempty[k] = 1
      BY DEF requested
    <2>2. k \in T
      BY <2>1, <1>3
    <2> QED BY <1>2, <2>1, <2>2 DEF Masters
  <1>5. f \in Masters /\ s \in request(f) /\ (mgrant[f] = 0 \/ mempty[f] = 1)
    BY <1>2
  <1>6. f \in regrantS(s)
    BY <1>4, <1>5 DEF regrantS
  <1> QED BY <1>5, <1>6

LEMMA StepGrantsAgree ==
    ASSUME ArbiterInv, ArbiterTypeOK', NEW in \in SlaveInput, XbarTick(in)
    PROVE  GrantsAgree'
  <1> USE SizeAssumption DEF ArbiterInv
  <1>0. /\ \A n \in Masters : /\ grant'[n] = NextGrant(n)
                              /\ mindex'[n] = NextMindex(n)
        /\ \A s \in Slaves : /\ sgrant'[s] = NextSgrant(s)
                             /\ sindex'[s] = NextSindex(s)
    BY DEF XbarTick, Arbitrate
  <1>1. ASSUME NEW n \in Masters, NEW s \in grant'[n], s < NS
        PROVE  mindex'[n] = s /\ sgrant'[s] = 1 /\ sindex'[s] = n
    <2>0. s \in Slaves
      BY <1>1 DEF ArbiterTypeOK, Channels, Slaves
    <2>1. CASE s \in grant[n]
      <3>1. mindex[n] = s /\ sgrant[s] = 1 /\ sindex[s] = n
        BY <1>1, <2>1 DEF GrantsAgree
      <3>2. sindex'[s] = n
        BY <3>1, <2>0, <1>0, HolderKeepsIndex
      <3>3. ~drop_sgrant(s)
        <4> SUFFICES ASSUME drop_sgrant(s) PROVE FALSE
          OBVIOUS
        <4>1. i_mcyc[n] # 0
          BY <1>0, <1>1 DEF NextGrant
        <4>2. s \notin request(n) /\ m_stb(n) /\ mempty[n] = 1
          BY <4>1, <3>1 DEF drop_sgrant
        <4>3. ~stay_on_channel(n)
          BY <4>2, <2>1, RequestType DEF stay_on_channel, GrantsAgree
        <4>4. grant'[n] = request(n) \/ grant'[n] = {}
          BY <1>0, <4>1, <4>2, <4>3 DEF NextGrant
        <4> QED BY <4>2, <4>4, <1>1
      <3>4. sgrant'[s] = 1
        BY <3>1, <3>3, <2>0, <1>0 DEF NextSgrant
      <3>5. mindex'[n] = s
        <4>1. regrantM(n) \subseteq {s}
          <5> SUFFICES ASSUME NEW c \in regrantM(n), c # s PROVE FALSE
            OBVIOUS
          <5>1. /\ c \in request(n) /\ c < NS /\ sgrant[c] = 0 /\ ~requested(n, c)
                /\ mempty[n] = 1 /\ mgrant[n] = 1 /\ c \notin grant[n]
            BY <2>1, RequestType DEF regrantM, GrantsAgree, ArbiterTypeOK, Bits
          <5>2. request(n) = {c} /\ m_stb(n)
            BY <5>1, RequestType DEF m_stb, FullIsGranted, ArbiterTypeOK, Bits
          <5>3. ~stay_on_channel(n)
            BY <5>1, <5>2 DEF stay_on_channel
          <5>4. grant'[n] = {c} \/ grant'[n] = {}
            BY <1>0, <5>2, <5>3 DEF NextGrant
          <5> QED BY <5>4, <1>1
        <4>2. NS = 1 => s = 0
          BY <2>0 DEF Slaves
        <4> QED BY <4>1, <4>2, <3>1, <1>0 DEF NextMindex
      <3> QED BY <3>2, <3>4, <3>5
    <2>2. CASE s \notin grant[n]
      <3>1. /\ i_mcyc[n] # 0 /\ ~stay_on_channel(n)
            /\ requested_channel_is_available(n) /\ request(n) = {s}
        BY <2>2, <1>0, <1>1, RequestType DEF NextGrant
      <3>2. sgrant[s] = 0 /\ ~requested(n, s)
        <4>1. CASE NM < 2
          <5>1. n = 0 /\ sindex[s] = n
            BY <4>1, <2>0 DEF Masters, ArbiterTypeOK
          <5>2. sgrant[s] # 1
            BY <5>1, <2>2, <2>0 DEF GrantsAgree
          <5> QED BY <5>1, <5>2, <2>0 DEF requested, Masters, ArbiterTypeOK, Bits
        <4>2. CASE ~(NM < 2)
          BY <4>2, <3>1, <1>1 DEF requested_channel_is_available
        <4> QED BY <4>1, <4>2
      <3>3. n \in regrantS(s)
        BY <3>1, <3>2 DEF regrantS, stay_on_channel, ArbiterTypeOK, Bits
      <3> QED BY <3>2, <3>3, <2>0, <1>0, FreeSlaveTaken
    <2> QED BY <2>1, <2>2
  <1>2. ASSUME NEW s \in Slaves, sgrant'[s] = 1
        PROVE  s \in grant'[sindex'[s]]
    <2>1. CASE sgrant[s] = 1
      <3>1. sindex'[s] = sindex[s] /\ sindex[s] \in Masters
        BY <2>1, <1>0, HolderKeepsIndex DEF ArbiterTypeOK
      <3>2. ~drop_sgrant(s)
        BY <1>0, <1>2 DEF NextSgrant
      <3> QED BY <2>1, <3>1, <3>2, <1>0, LeavingDropsSlave
    <2>2. CASE sgrant[s] = 0
      <3>1. PICK n \in Masters : n \in regrantS(s)
        BY <2>2, <1>0, <1>2, FreeSlaveHasTaker
      <3>2. NextSindex(s) = n /\ NextGrant(n) = {s}
        BY <2>2, <3>1, FreeSlaveTaken
      <3> QED BY <3>2, <1>0
    <2> QED BY <2>1, <2>2 DEF ArbiterTypeOK, Bits
  <1> QED BY <1>1, <1>2, StepOneChannel DEF GrantsAgree

LEMMA NextArbiter == ArbiterInv /\ [Next]_vars => ArbiterInv'
  <1> SUFFICES ASSUME ArbiterInv, [Next]_vars PROVE ArbiterInv'
    OBVIOUS
  <1>1. CASE Next
    <2>1. PICK in \in SlaveInput : /\ XbarTick(in)
                                   /\ \E mv \in [Masters -> Moves] : MasterOutputs(mv)
      BY <1>1 DEF Next
    <2>2. ArbiterTypeOK'
      BY <2>1, StepTypes DEF ArbiterInv
    <2>3. FullIsGranted' /\ GrantsAgree'
      BY <2>1, <2>2, StepFullIsGranted, StepGrantsAgree
    <2> QED BY <2>2, <2>3 DEF ArbiterInv
  <1>2. CASE UNCHANGED vars
    BY <1>2 DEF vars, mvars, dvars, avars, svars, rvars, cvars,
       ArbiterInv, ArbiterTypeOK, FullIsGranted, GrantsAgree
  <1> QED BY <1>1, <1>2

(* The inductive invariant of the arbiter, for all NM and NS.               *)
THEOREM XbarArbiterInv == Spec => []ArbiterInv
  <1> QED BY InitArbiter, NextArbiter, PTL DEF Spec

(* GrantsAgree of every behaviour of the crossbar, for all NM and NS: no slave
   has two masters, and the master's view and the slave's view of who talks to
   whom, kept by separate always blocks of wbxbar.v, are the same.          *)
THEOREM XbarGrantsAgree == Spec => []GrantsAgree
  <1> QED BY XbarArbiterInv, PTL DEF ArbiterInv

-----------------------------------------------------------------------------
(* The requests, above the arbiter: what a request or its answer may be, and a
   master that has not been told of an error.                                *)
Msg == Request \cup {Idle}
Alive(n) == i_mcyc[n] = 1 /\ o_merr[n] = 0

-----------------------------------------------------------------------------
(* The inductive invariant, above the arbiter's.  The types that it needs.   *)
RequestTypeOK ==
    /\ i_mstb \in [Masters -> Bits] /\ out \in [Masters -> Seq(Msg)]
    /\ r_valid \in [Masters -> Bits]
    /\ o_scyc \in [Slaves -> Bits] /\ o_sstb \in [Slaves -> Bits]
    /\ o_sreq \in [Slaves -> Msg]
    /\ o_mack \in [Masters -> Bits] /\ o_mdata \in [Masters -> Msg]
    /\ lclpending \in [Masters -> 0 .. Full]
    /\ timed_out \in [Masters -> Bits] /\ sq \in [Slaves -> Seq(Msg)]

(* A master is told its requests by its own index, in every register.        *)
OwnRequests ==
    \A n \in Masters : i_mreq[n].m = n /\ r_data[n].m = n /\ dcd_req[n].m = n

(* A bus cycle belongs to the master that holds the slave.                   *)
HolderInv ==
    \A s \in Slaves : o_scyc[s] = 1 /\ sgrant[s] = 1 =>
        /\ \A i \in 1 .. Len(sq[s]) : sq[s][i].m = sindex[s]
        /\ o_sstb[s] = 1 => o_sreq[s].m = sindex[s]

(* The skid buffer fills behind a full decoder; an answer on its way back keeps
   the grant; the masters keep below the counter's limit; and what will be an
   error has a request to answer.                                            *)
MasterInv ==
    /\ OPT_TIMEOUT = 0 => \A n \in Masters : timed_out[n] = 0
    /\ \A n \in Masters : Alive(n) =>
          /\ r_valid[n] = 1 => dcd_stb[n] = 1
          /\ o_mack[n] = 1 => mgrant[n] = 1
          /\ Len(out[n]) + i_mstb[n] <= Full
          /\ NS \in grant[n] \/ timed_out[n] = 1 => out[n] # <<>>
          /\ NS \in grant[n] => o_mack[n] = 0

XbarInv == /\ ArbiterInv /\ RequestTypeOK /\ OwnRequests /\ HolderInv /\ MasterInv
           /\ CountersAgree /\ RequestInv

-----------------------------------------------------------------------------
(* The counter's limits.                                                     *)
LEMMA FullFacts == Full \in Nat /\ Full >= 7 /\ 2 ^ LGMAXBURST = Full + 1 /\ Full % 4 = 3
  BY BurstAssumption DEF Full

LEMMA NearFull ==
    ASSUME NEW n \in Masters, lclpending[n] \in 0 .. Full
    PROVE  AlmostNearFull(n) <=> lclpending[n] >= Full - 2
  <1> DEFINE k == lclpending[n]
  <1>1. k \in 0 .. Full /\ Full \in Nat /\ Full % 4 = 3
    BY FullFacts
  <1> HIDE DEF k
  <1>2. (k \div 4 = Full \div 4 /\ k % 4 # 0) <=> k >= Full - 2
    BY <1>1
  <1> QED
    BY <1>2 DEF AlmostNearFull, k

(* AtSlave, of the values it reads.                                          *)
Held(g, cyc, q, stb, req) ==
    IF \E s \in g : s < NS /\ cyc[s] = 1
    THEN LET s == CHOOSE s \in g : TRUE IN q[s] \o One(stb[s], req[s])
    ELSE <<>>

LEMMA HeldOne ==
    ASSUME NEW g, NEW cyc, NEW q, NEW stb, NEW req,
           NEW s \in Slaves, s \in g, \A c, d \in g : c = d
    PROVE  Held(g, cyc, q, stb, req) = IF cyc[s] = 1 THEN q[s] \o One(stb[s], req[s]) ELSE <<>>
  <1>0. s < NS
    BY SizeAssumption DEF Slaves
  <1>1. s < NS /\ g = {s}
    BY <1>0
  <1>2. (CHOOSE t \in g : TRUE) = s
    BY <1>1
  <1> QED
    BY <1>1, <1>2 DEF Held

LEMMA AtSlaveHeld ==
    /\ \A n : AtSlave(n) = Held(grant[n], o_scyc, sq, o_sstb, o_sreq)
    /\ \A n : AtSlave(n)' = Held(grant'[n], o_scyc', sq', o_sstb', o_sreq')
  BY DEF AtSlave, Held

LEMMA AtSlaveOne ==
    ASSUME NEW n, NEW s \in Slaves, s \in grant[n], \A c, d \in grant[n] : c = d
    PROVE  AtSlave(n) = IF o_scyc[s] = 1 THEN sq[s] \o One(o_sstb[s], o_sreq[s]) ELSE <<>>
  <1>1. PICK g, cyc, q, stb, req :
           g = grant[n] /\ cyc = o_scyc /\ q = sq /\ stb = o_sstb /\ req = o_sreq
    OBVIOUS
  <1>2. Held(g, cyc, q, stb, req) = IF cyc[s] = 1 THEN q[s] \o One(stb[s], req[s]) ELSE <<>>
    BY <1>1, HeldOne, ZenonT(60)
  <1> QED
    BY <1>1, <1>2, AtSlaveHeld

LEMMA AtSlaveOneNext ==
    ASSUME NEW n, NEW s \in Slaves, s \in grant'[n], \A c, d \in grant'[n] : c = d
    PROVE  AtSlave(n)' = IF o_scyc'[s] = 1 THEN sq'[s] \o One(o_sstb'[s], o_sreq'[s]) ELSE <<>>
  <1>1. PICK g, cyc, q, stb, req :
           g = grant'[n] /\ cyc = o_scyc' /\ q = sq' /\ stb = o_sstb' /\ req = o_sreq'
    OBVIOUS
  <1>2. Held(g, cyc, q, stb, req) = IF cyc[s] = 1 THEN q[s] \o One(stb[s], req[s]) ELSE <<>>
    BY <1>1, HeldOne, ZenonT(60)
  <1> QED
    BY <1>1, <1>2, AtSlaveHeld

LEMMA OneType == ASSUME NEW v, NEW r \in Msg
                 PROVE  /\ One(v, r) \in Seq(Msg)
                        /\ Len(One(v, r)) = IF v = 1 THEN 1 ELSE 0
  BY DEF One

-----------------------------------------------------------------------------
(* One clock of the crossbar, its masters and its slaves.                    *)
Step(in, mv) == /\ in \in SlaveInput /\ SlaveRules(in) /\ XbarTick(in) /\ SlaveQueues(in)
                /\ mv \in [Masters -> Moves] /\ MasterRules(mv) /\ MasterOutputs(mv)

(* A cycle that is alive after the clock was alive before it and met no error, or
   has just begun.                                                           *)
LEMMA AliveBefore ==
    ASSUME XbarInv, NEW in, NEW mv, Step(in, mv), NEW n \in Masters,
           i_mcyc'[n] = 1
    PROVE  /\ i_mcyc[n] = 0 \/ Alive(n)
           /\ Alive(n) /\ o_merr'[n] = 0 =>
                 /\ NS \notin grant[n] /\ ~Expired(n)
                 /\ mgrant[n] = 1 => ~s_err(in, mindex[n])
  <1>1. mv[n].kind \in {"wait", "ask"}
    <2>1. i_mcyc'[n] = Bit(mv[n].kind # "drop") /\ mv[n] \in Moves
      BY DEF Step, MasterOutputs
    <2> QED
      BY <2>1 DEF Moves, Bit
  <1>2. i_mcyc[n] = 0 \/ Alive(n)
    BY <1>1 DEF Step, MasterRules, Alive, XbarInv, ArbiterInv, ArbiterTypeOK, Bits
  <1>3. o_merr'[n] = NextMerr(in, n)
    BY DEF Step, XbarTick, Returns
  <1>4. ASSUME Alive(n), o_merr'[n] = 0
        PROVE  /\ ~Expired(n) /\ (mgrant[n] = 1 => ~s_err(in, mindex[n]))
    BY <1>3, <1>4 DEF NextMerr, Alive, Bit
  <1> QED
    BY <1>2, <1>4 DEF Expired

(* The slave's side of a master's grant.                                     *)
LEMMA GrantOf ==
    ASSUME XbarInv, NEW n \in Masters
    PROVE  /\ grant[n] \subseteq Channels
           /\ \A c, d \in grant[n] : c = d
           /\ mgrant[n] = 1 <=> grant[n] # {}
           /\ \A s \in grant[n] : s # NS =>
                 /\ s \in Slaves /\ mindex[n] = s /\ sgrant[s] = 1 /\ sindex[s] = n
  <1>1. /\ grant[n] \subseteq Channels /\ \A c, d \in grant[n] : c = d
        /\ mgrant[n] = 1 <=> grant[n] # {}
    BY DEF XbarInv, ArbiterInv, ArbiterTypeOK, GrantsAgree
  <1>2. \A s \in Channels : s # NS => s \in Slaves /\ s < NS
    BY SizeAssumption DEF Channels, Slaves
  <1> QED
    BY <1>1, <1>2 DEF XbarInv, ArbiterInv, GrantsAgree

(* A slave that changes hands is free at that clock, and its bus cycle is over. *)
LEMMA NewGrant ==
    ASSUME XbarInv, NEW in, NEW mv, Step(in, mv), NEW n \in Masters,
           NEW s \in Slaves, s \in grant'[n], s \notin grant[n]
    PROVE  sgrant[s] = 0 /\ o_scyc'[s] = 0
  <1> USE DEF XbarInv, ArbiterInv
  <1>1. /\ i_mcyc[n] # 0 /\ ~stay_on_channel(n)
        /\ requested_channel_is_available(n) /\ s \in request(n)
    BY DEF Step, XbarTick, Arbitrate, NextGrant
  <1>2. request(n) = {s} /\ s # NS
    BY <1>1, RequestType, SizeAssumption DEF Slaves
  <1>3. sgrant[s] = 0
    <2>1. CASE NM < 2
      <3>1. sindex[s] = n
        BY <2>1, SizeAssumption DEF Masters, ArbiterTypeOK
      <3> QED
        BY <3>1 DEF GrantsAgree, ArbiterTypeOK, Bits
    <2>2. CASE ~(NM < 2)
      BY <1>1, <1>2, <2>2 DEF requested_channel_is_available
    <2> QED
      BY <2>1, <2>2
  <1>4. o_scyc'[s] = NextScyc(in, s)
    BY DEF Step, XbarTick, SlaveOutputs
  <1> QED
    BY <1>3, <1>4 DEF NextScyc, Bit

-----------------------------------------------------------------------------
(* What a slave has accepted, one clock on.                                  *)
LEMMA SlaveNext ==
    ASSUME XbarInv, NEW in, NEW mv, Step(in, mv), NEW s \in Slaves
    PROVE  /\ Accepted(in, s) \in Seq(Msg)
           /\ o_scyc[s] = 0 => sq'[s] = <<>> /\ in.resp[s] = "none" /\ o_sstb[s] = 0
           /\ o_scyc[s] = 1 =>
                 Accepted(in, s) = sq[s] \o (IF s_stall(in, s) THEN <<>> ELSE One(o_sstb[s], o_sreq[s]))
           /\ in.resp[s] # "none" => o_scyc[s] = 1 /\ Accepted(in, s) # <<>>
           /\ sq'[s] = IF o_scyc[s] = 0 \/ in.resp[s] = "err" THEN <<>>
                       ELSE IF in.resp[s] = "ack" THEN Tail(Accepted(in, s))
                       ELSE Accepted(in, s)
           /\ in.resp[s] \in Answers /\ in.stall[s] \in Bits
  <1>1. /\ sq[s] \in Seq(Msg) /\ o_sreq[s] \in Msg /\ o_scyc[s] \in Bits /\ o_sstb[s] \in Bits
        /\ in.resp[s] \in Answers /\ in.stall[s] \in Bits
        /\ o_sstb[s] = 1 => o_scyc[s] = 1
    BY DEF XbarInv, RequestTypeOK, Step, SlaveInput, RequestInv, NoForeignRequest
  <1>2. sq'[s] = IF o_scyc[s] = 0 \/ in.resp[s] = "err" THEN <<>>
                 ELSE IF in.resp[s] = "ack" THEN Tail(Accepted(in, s))
                 ELSE Accepted(in, s)
    BY DEF Step, SlaveQueues
  <1>3. in.resp[s] # "none" => o_scyc[s] = 1 /\ Accepted(in, s) # <<>>
    BY DEF Step, SlaveRules
  <1>4. Accepted(in, s) \in Seq(Msg)
    BY <1>1 DEF Accepted
  <1>5. o_scyc[s] = 1 =>
           Accepted(in, s) = sq[s] \o (IF s_stall(in, s) THEN <<>> ELSE One(o_sstb[s], o_sreq[s]))
    <2>1. sq[s] \o <<>> = sq[s] /\ Append(sq[s], o_sreq[s]) = sq[s] \o <<o_sreq[s]>>
      BY <1>1
    <2>2. CASE o_sstb[s] = 1 /\ in.stall[s] = 0
      BY <1>1, <2>1, <2>2 DEF Accepted, s_stall, One
    <2>3. CASE o_sstb[s] = 1 /\ in.stall[s] = 1
      BY <1>1, <2>1, <2>3 DEF Accepted, s_stall, One
    <2>4. CASE o_sstb[s] = 0
      BY <1>1, <2>1, <2>4 DEF Accepted, s_stall, One
    <2> QED
      BY <1>1, <2>2, <2>3, <2>4 DEF Bits
  <1>6. o_scyc[s] = 0 => sq'[s] = <<>> /\ in.resp[s] = "none" /\ o_sstb[s] = 0
    BY <1>1, <1>2, <1>3 DEF Bits
  <1> QED
    BY <1>1, <1>2, <1>3, <1>4, <1>5, <1>6

(* A request leaves the decoder for a slave only when the master holds that slave,
   and the slave does not stall.                                             *)
LEMMA IssuedTo ==
    ASSUME XbarInv, NEW in \in SlaveInput, NEW n \in Masters, Alive(n), NS \notin grant[n],
           Issued(in, n)
    PROVE  \E s \in Slaves : /\ s \in grant[n] /\ request(n) = {s} /\ mfull[n] = 0
                             /\ ~s_stall(in, s) /\ i_mcyc[n] = 1 /\ dcd_stb[n] = 1
                             /\ dcd_req[n].addr = s
  <1> USE DEF XbarInv, ArbiterInv
  <1>1. /\ mfull[n] = 0 /\ i_mcyc[n] = 1 /\ dcd_stb[n] = 1 /\ mgrant[n] = 1
        /\ mindex[n] \in request(n) /\ (mindex[n] < NS => ~s_stall(in, mindex[n]))
    BY DEF Issued, m_stb, m_stall, Alive
  <1>2. PICK s \in grant[n] : s \in Slaves /\ mindex[n] = s
    BY <1>1, GrantOf
  <1>3. s < NS /\ request(n) = {s}
    <2>1. s < NS
      BY <1>2, SizeAssumption DEF Slaves
    <2>2. request(n) = {s}
      BY <1>1, <1>2, RequestType
    <2> QED
      BY <2>1, <2>2
  <1>4. dcd_req[n].addr = s
    BY <1>1, <1>2 DEF request
  <1> QED
    BY <1>1, <1>2, <1>3, <1>4

(* The pending counter of a live cycle.                                      *)
LEMMA Pending ==
    ASSUME XbarInv, NEW n \in Masters, Alive(n)
    PROVE  /\ InFlight(n) = out[n]
           /\ lclpending[n] = o_mack[n] + Len(AtSlave(n))
           /\ mempty[n] = 1 <=> lclpending[n] = 0
           /\ mfull[n] = 1 <=> lclpending[n] = Full
           /\ o_mack[n] \in Bits /\ mempty[n] \in Bits /\ mfull[n] \in Bits
           /\ AtSlave(n) \in Seq(Msg)
           /\ mempty[n] = 1 => o_mack[n] = 0 /\ AtSlave(n) = <<>>
  <1> USE DEF XbarInv, ArbiterInv
  <1>1. /\ InFlight(n) = out[n] /\ lclpending[n] = o_mack[n] + Len(AtSlave(n))
        /\ mempty[n] = 1 <=> lclpending[n] = 0
        /\ mfull[n] = 1 <=> lclpending[n] = Full
        /\ o_mack[n] \in Bits /\ mempty[n] \in Bits /\ mfull[n] \in Bits
    BY DEF Alive, RequestInv, EveryRequestInItsPlace, CountersAgree, ArbiterTypeOK, RequestTypeOK
  <1>2. AtSlave(n) \in Seq(Msg)
    <2>1. CASE \E s \in grant[n] : s # NS
      <3>1. PICK s \in Slaves : s \in grant[n] /\ \A c, d \in grant[n] : c = d
        BY <2>1, GrantOf
      <3>2. sq[s] \in Seq(Msg) /\ One(o_sstb[s], o_sreq[s]) \in Seq(Msg)
        BY OneType DEF RequestTypeOK
      <3>3. sq[s] \o One(o_sstb[s], o_sreq[s]) \in Seq(Msg)
        BY <3>2, ConcatProperties
      <3>4. AtSlave(n) = IF o_scyc[s] = 1 THEN sq[s] \o One(o_sstb[s], o_sreq[s]) ELSE <<>>
        BY <3>1, AtSlaveHeld, HeldOne
      <3> QED
        BY <3>3, <3>4, EmptySeq
    <2>2. CASE ~ \E s \in grant[n] : s # NS
      <3>1. AtSlave(n) = <<>>
        BY <2>2, SizeAssumption DEF AtSlave
      <3> QED
        BY <3>1, EmptySeq
    <2> QED
      BY <2>1, <2>2
  <1>3. mempty[n] = 1 => o_mack[n] = 0 /\ AtSlave(n) = <<>>
    <2>1. Len(AtSlave(n)) \in Nat /\ (Len(AtSlave(n)) = 0 => AtSlave(n) = <<>>)
      BY <1>2, EmptySeq, LenProperties
    <2> QED
      BY <1>1, <2>1 DEF Bits
  <1> QED
    BY <1>1, <1>2, <1>3

-----------------------------------------------------------------------------
(* Behind the decoder: what comes back and what stays with the slave is what was
   there, and the request that the decoder has just issued.                  *)
Sent(in, n) == IF Issued(in, n) THEN <<dcd_req[n]>> ELSE <<>>

LEMMA NoGrantNoSlave ==
    ASSUME XbarInv, NEW in, NEW mv, Step(in, mv), NEW n \in Masters,
           \A s \in Slaves : s \in grant'[n] => s \notin grant[n]
    PROVE  AtSlave(n)' = <<>>
  <1> DEFINE g == grant'[n]
             c == o_scyc'
  <1>1. ~ \E s \in g : s < NS /\ c[s] = 1
    <2> SUFFICES ASSUME NEW s \in g, s < NS, c[s] = 1 PROVE FALSE
      OBVIOUS
    <2>1. s \in Slaves
      <3>1. g \subseteq Channels
        BY StepTypes DEF XbarInv, ArbiterInv, ArbiterTypeOK, Step
      <3> QED
        BY <3>1, SizeAssumption DEF Channels, Slaves
    <2> QED
      BY <2>1, NewGrant
  <1>2. Held(g, c, sq', o_sstb', o_sreq') = <<>>
    BY <1>1 DEF Held
  <1> QED
    BY <1>2, AtSlaveHeld

(* Concatenation, without what the provers know of it but its associativity. *)
Cat(a, b) == a \o b

LEMMA Assoc ==
    ASSUME NEW a \in Seq(Msg), NEW b \in Seq(Msg), NEW c \in Seq(Msg)
    PROVE  Cat(Cat(a, b), c) = Cat(a, Cat(b, c)) /\ Cat(a, b) \in Seq(Msg)
  BY DEF Cat

LEMMA Regroup ==
    ASSUME NEW Q \in Seq(Msg), NEW L \in Seq(Msg), NEW K \in Seq(Msg), NEW X \in Seq(Msg),
           NEW B \in Seq(Msg), NEW T \in Seq(Msg), Cat(B, T) = Cat(Q, L)
    PROVE  Cat(B, Cat(T, Cat(K, X))) = Cat(Cat(Q, Cat(L, K)), X)
  BY Assoc

LEMMA BackHeld ==
    ASSUME XbarInv, NEW in, NEW mv, Step(in, mv), NEW n \in Masters,
           Alive(n), i_mcyc'[n] = 1, o_merr'[n] = 0,
           NEW s \in Slaves, s \in grant[n], s \in grant'[n]
    PROVE  /\ One(o_mack'[n], o_mdata'[n]) \o AtSlave(n)' = AtSlave(n) \o Sent(in, n)
           /\ o_mdata'[n] \in Msg
  <1> USE DEF XbarInv, ArbiterInv
  <1>0. in \in SlaveInput /\ i_mcyc[n] = 1 /\ o_merr[n] = 0 /\ s < NS
    BY SizeAssumption DEF Step, Alive, Slaves
  <1>1. /\ mindex[n] = s /\ sgrant[s] = 1 /\ sindex[s] = n /\ mgrant[n] = 1
        /\ \A c, d \in grant[n] : c = d
        /\ NS \notin grant[n] /\ ~Expired(n) /\ ~s_err(in, s)
    <2>1. s # NS
      BY <1>0, SizeAssumption
    <2> QED
      BY <2>1, GrantOf, AliveBefore
  <1>2. AtSlave(n) = IF o_scyc[s] = 1 THEN sq[s] \o One(o_sstb[s], o_sreq[s]) ELSE <<>>
    BY <1>1, AtSlaveOne
  <1>3. /\ o_scyc'[s] = 1
        /\ o_sstb'[s] = IF s_stall(in, s) THEN o_sstb[s]
                        ELSE Bit(s \in request(n) /\ mfull[n] = 0)
        /\ o_sreq'[s] = IF s_stall(in, s) THEN o_sreq[s] ELSE dcd_req[n]
    <2>1. NextScyc(in, s) = 1
      BY <1>0, <1>1 DEF NextScyc, Bit
    <2> QED
      BY <1>1, <2>1 DEF Step, XbarTick, SlaveOutputs, NextSstb, NextSreq
  <1>4. AtSlave(n)' = sq'[s] \o One(o_sstb'[s], o_sreq'[s])
    <2>1. \A c, d \in grant'[n] : c = d
      BY StepOneChannel DEF Step
    <2> QED
      BY <1>3, <2>1, AtSlaveOneNext
  <1>5. /\ o_mack'[n] = Bit(s_ack(in, s))
        /\ o_mdata'[n] = s_data(in, s)
    <2>1. o_mack'[n] = NextMack(in, n)
      BY DEF Step, XbarTick, Returns
    <2>2. o_mdata'[n] = IF mgrant[n] = 0 THEN Idle ELSE s_data(in, mindex[n])
      BY DEF Step, XbarTick, Returns
    <2>3. NextMack(in, n) = Bit(s_ack(in, s))
      BY <1>0, <1>1 DEF NextMack, Bit
    <2> QED
      BY <1>1, <2>1, <2>2, <2>3
  <1>6. in.resp[s] # "err"
    BY <1>0, <1>1, SlaveNext DEF s_err
  <1>7. Issued(in, n) <=> ~s_stall(in, s) /\ s \in request(n) /\ mfull[n] = 0
    <2>1. Issued(in, n) => ~s_stall(in, s) /\ s \in request(n) /\ mfull[n] = 0
      <3> SUFFICES ASSUME Issued(in, n)
                   PROVE  ~s_stall(in, s) /\ s \in request(n) /\ mfull[n] = 0
        OBVIOUS
      <3>1. PICK t \in Slaves : /\ t \in grant[n] /\ request(n) = {t} /\ mfull[n] = 0
                                /\ ~s_stall(in, t)
        BY <1>0, <1>1, IssuedTo
      <3> QED
        BY <1>1, <3>1
    <2>2. ~s_stall(in, s) /\ s \in request(n) /\ mfull[n] = 0 => Issued(in, n)
      BY <1>0, <1>1, RequestType DEF Issued, m_stb, m_stall
    <2> QED
      BY <2>1, <2>2
  <1>8. /\ dcd_req[n] \in Msg /\ Sent(in, n) \in Seq(Msg)
        /\ sq[s] \in Seq(Msg) /\ One(o_sstb[s], o_sreq[s]) \in Seq(Msg)
    <2>1. dcd_req[n] \in Msg
      BY DEF ArbiterTypeOK, Msg
    <2>2. Sent(in, n) \in Seq(Msg)
      BY <2>1 DEF Sent
    <2>3. sq[s] \in Seq(Msg) /\ o_sreq[s] \in Msg
      BY DEF RequestTypeOK
    <2> QED
      BY <2>1, <2>2, <2>3, OneType
  <1>9. One(o_sstb'[s], o_sreq'[s])
           = (IF s_stall(in, s) THEN One(o_sstb[s], o_sreq[s]) ELSE <<>>) \o Sent(in, n)
    <2>1. CASE s_stall(in, s)
      <3>1. Sent(in, n) = <<>> /\ One(o_sstb'[s], o_sreq'[s]) = One(o_sstb[s], o_sreq[s])
        BY <1>3, <1>7, <2>1 DEF Sent
      <3> QED
        BY <1>8, <2>1, <3>1, ConcatEmptySeq
    <2>2. CASE ~s_stall(in, s)
      <3>1. One(o_sstb'[s], o_sreq'[s]) = Sent(in, n)
        BY <1>3, <1>7, <2>2 DEF Sent, One, Bit
      <3> QED
        BY <1>8, <2>2, <3>1, ConcatEmptySeq
    <2> QED
      BY <2>1, <2>2
  <1>10. CASE o_scyc[s] = 0
    <2>1. sq'[s] = <<>> /\ o_sstb[s] = 0 /\ in.resp[s] = "none"
      BY <1>10, SlaveNext
    <2>2. ~s_stall(in, s) /\ o_mack'[n] = 0 /\ o_mdata'[n] \in Msg
      BY <1>5, <2>1 DEF s_stall, s_ack, s_data, Bit, Msg
    <2>3. One(o_mack'[n], o_mdata'[n]) = <<>> /\ One(o_sstb'[s], o_sreq'[s]) = Sent(in, n)
      BY <1>8, <1>9, <2>2, ConcatEmptySeq DEF One
    <2>4. AtSlave(n) = <<>> /\ AtSlave(n)' = Sent(in, n)
      BY <1>2, <1>4, <1>8, <1>10, <2>1, <2>3, ConcatEmptySeq
    <2> QED
      BY <1>8, <2>2, <2>3, <2>4, ConcatEmptySeq
  <1>11. CASE o_scyc[s] = 1
    <2>0. PICK L, K : /\ L = IF s_stall(in, s) THEN <<>> ELSE One(o_sstb[s], o_sreq[s])
                      /\ K = IF s_stall(in, s) THEN One(o_sstb[s], o_sreq[s]) ELSE <<>>
      OBVIOUS
    <2>1. L \in Seq(Msg) /\ K \in Seq(Msg) /\ L \o K = One(o_sstb[s], o_sreq[s])
      BY <1>8, <2>0, EmptySeq, ConcatEmptySeq
    <2>2. /\ Accepted(in, s) \in Seq(Msg) /\ Accepted(in, s) = sq[s] \o L
          /\ in.resp[s] \in {"none", "ack"}
          /\ in.resp[s] = "ack" => Accepted(in, s) # <<>>
          /\ sq'[s] = IF in.resp[s] = "ack" THEN Tail(Accepted(in, s)) ELSE Accepted(in, s)
      <3>1. Accepted(in, s) \in Seq(Msg) /\ in.resp[s] \in {"none", "ack"}
        BY <1>6, SlaveNext DEF Answers
      <3>2. Accepted(in, s) = sq[s] \o L
        BY <1>11, <2>0, SlaveNext
      <3>3. in.resp[s] = "ack" => Accepted(in, s) # <<>>
        BY SlaveNext
      <3>4. sq'[s] = IF in.resp[s] = "ack" THEN Tail(Accepted(in, s)) ELSE Accepted(in, s)
        BY <1>6, <1>11 DEF Step, SlaveQueues
      <3> QED
        BY <3>1, <3>2, <3>3, <3>4
    <2>3. /\ One(o_mack'[n], o_mdata'[n]) \o sq'[s] = Accepted(in, s)
          /\ sq'[s] \in Seq(Msg) /\ One(o_mack'[n], o_mdata'[n]) \in Seq(Msg)
          /\ o_mdata'[n] \in Msg
      <3>1. CASE in.resp[s] = "none"
        <4>1. o_mack'[n] = 0 /\ o_mdata'[n] \in Msg /\ sq'[s] = Accepted(in, s)
          BY <1>5, <2>2, <3>1 DEF s_ack, s_data, Bit, Msg
        <4>2. One(o_mack'[n], o_mdata'[n]) = <<>>
          BY <4>1 DEF One
        <4> QED
          BY <2>2, <4>1, <4>2, EmptySeq, ConcatEmptySeq
      <3>2. CASE in.resp[s] = "ack"
        <4>1. /\ o_mack'[n] = 1 /\ o_mdata'[n] = Head(Accepted(in, s))
              /\ sq'[s] = Tail(Accepted(in, s)) /\ Accepted(in, s) # <<>>
          BY <1>0, <1>5, <1>11, <2>2, <3>2 DEF s_ack, s_data, Bit
        <4>2. PICK A \in Seq(Msg) : A = Accepted(in, s)
          BY <2>2
        <4>3. /\ One(o_mack'[n], o_mdata'[n]) = <<Head(A)>> /\ sq'[s] = Tail(A)
              /\ Head(A) \in Msg /\ Tail(A) \in Seq(Msg) /\ A = <<Head(A)>> \o Tail(A)
          <5>1. Head(A) \in Msg /\ Tail(A) \in Seq(Msg) /\ A = <<Head(A)>> \o Tail(A)
            BY <4>1, <4>2, HeadTailProperties
          <5> QED
            BY <4>1, <4>2, <5>1 DEF One
        <4>4. One(o_mack'[n], o_mdata'[n]) \o sq'[s] = Accepted(in, s)
          BY <4>2, <4>3
        <4>5. sq'[s] \in Seq(Msg) /\ o_mdata'[n] \in Msg
          BY <4>1, <4>2, <4>3
        <4> QED
          BY <4>4, <4>5, OneType
      <3> QED
        BY <2>2, <3>1, <3>2
    <2>4. One(o_sstb'[s], o_sreq'[s]) = K \o Sent(in, n)
      BY <1>9, <2>0
    <2>5. AtSlave(n)' = sq'[s] \o (K \o Sent(in, n)) /\ AtSlave(n) = sq[s] \o (L \o K)
      BY <1>2, <1>4, <1>11, <2>1, <2>4
    <2>6. One(o_mack'[n], o_mdata'[n]) \o (sq'[s] \o (K \o Sent(in, n)))
             = (sq[s] \o (L \o K)) \o Sent(in, n)
      <3>1. PICK B, T, Q, X : /\ B = One(o_mack'[n], o_mdata'[n]) /\ T = sq'[s]
                              /\ Q = sq[s] /\ X = Sent(in, n)
        OBVIOUS
      <3>2. B \in Seq(Msg) /\ T \in Seq(Msg) /\ Q \in Seq(Msg) /\ X \in Seq(Msg)
        BY <1>8, <2>3, <3>1
      <3>3. Cat(B, T) = Cat(Q, L)
        BY <2>2, <2>3, <3>1 DEF Cat
      <3>4. Cat(B, Cat(T, Cat(K, X))) = Cat(Cat(Q, Cat(L, K)), X)
        BY <2>1, <3>2, <3>3, Regroup
      <3> QED
        BY <3>1, <3>4 DEF Cat
    <2> QED
      BY <2>3, <2>5, <2>6
  <1> QED
    BY <1>10, <1>11 DEF RequestTypeOK, Bits


-----------------------------------------------------------------------------
(* Types after one clock.                                                    *)
LEMMA StepRequestTypes ==
    ASSUME XbarInv, NEW in, NEW mv, Step(in, mv)
    PROVE  RequestTypeOK'
  <1> USE DEF XbarInv, ArbiterInv
  <1>1. /\ i_mstb' \in [Masters -> Bits] /\ r_valid' \in [Masters -> Bits]
        /\ o_mack' \in [Masters -> Bits] /\ timed_out' \in [Masters -> Bits]
    <2>1. i_mstb' \in [Masters -> Bits] /\ o_mack' \in [Masters -> Bits]
      BY DEF Step, MasterOutputs, XbarTick, Returns, NextMack, Bit, Bits
    <2>2. r_valid' \in [Masters -> Bits]
      BY DEF Step, XbarTick, SkidBuffer, RequestTypeOK, Bits
    <2>3. timed_out' \in [Masters -> Bits]
      BY DEF Step, XbarTick, CheckTimeout, RequestTypeOK, Bit, Bits
    <2> QED
      BY <2>1, <2>2, <2>3
  <1>2. out' \in [Masters -> Seq(Msg)]
    <2> SUFFICES ASSUME NEW n \in Masters PROVE NextOut(n) \in Seq(Msg)
      BY EmptySeq DEF Step, MasterOutputs
    <2>1. out[n] \in Seq(Msg) /\ i_mreq[n] \in Msg
      BY DEF RequestTypeOK, ArbiterTypeOK, Msg
    <2>2. PICK t : t = IF i_mstb[n] = 1 /\ o_mstall(n) = 0
                       THEN Append(out[n], i_mreq[n]) ELSE out[n]
      OBVIOUS
    <2>3. t \in Seq(Msg)
      BY <2>1, <2>2, AppendProperties
    <2>4. t # <<>> => Tail(t) \in Seq(Msg)
      BY <2>3, HeadTailProperties
    <2>5. NextOut(n) \in {<<>>, t} \/ (t # <<>> /\ NextOut(n) = Tail(t))
      BY <2>2 DEF NextOut
    <2> QED
      BY <2>3, <2>4, <2>5, EmptySeq
  <1>3. o_scyc' \in [Slaves -> Bits] /\ o_sstb' \in [Slaves -> Bits]
    BY DEF Step, XbarTick, SlaveOutputs, NextScyc, NextSstb, RequestTypeOK, Bit, Bits
  <1>4. o_sreq' \in [Slaves -> Msg]
    BY DEF Step, XbarTick, SlaveOutputs, NextSreq, RequestTypeOK, ArbiterTypeOK, Msg
  <1>5. o_mdata' \in [Masters -> Msg]
    <2> SUFFICES ASSUME NEW n \in Masters PROVE s_data(in, mindex[n]) \in Msg
      BY DEF Step, XbarTick, Returns, Msg
    <2>1. CASE mindex[n] < NS /\ in.resp[mindex[n]] # "none"
      <3>1. mindex[n] \in Slaves
        BY <2>1, SizeAssumption DEF ArbiterTypeOK, Channels, Slaves
      <3>2. PICK A : A = Accepted(in, mindex[n])
        OBVIOUS
      <3>3. A \in Seq(Msg) /\ A # <<>>
        BY <2>1, <3>1, <3>2, SlaveNext
      <3>4. Head(A) \in Msg
        BY <3>3, HeadTailProperties
      <3> QED
        BY <2>1, <3>2, <3>4 DEF s_data
    <2>2. CASE ~(mindex[n] < NS /\ in.resp[mindex[n]] # "none")
      BY <2>2 DEF s_data, Msg
    <2> QED
      BY <2>1, <2>2
  <1>6. lclpending' \in [Masters -> 0 .. Full]
    <2>1. \A k \in 0 .. Full : /\ (k + 1) % (2 ^ LGMAXBURST) \in 0 .. Full
                               /\ (k - 1) % (2 ^ LGMAXBURST) \in 0 .. Full
      BY FullFacts
    <2>2. 0 \in 0 .. Full
      BY FullFacts
    <2>3. lclpending \in [Masters -> 0 .. Full]
      BY DEF RequestTypeOK
    <2> QED
      BY <2>1, <2>2, <2>3 DEF Step, XbarTick, CountPending
  <1>7. sq' \in [Slaves -> Seq(Msg)]
    <2>1. \A s \in Slaves : sq'[s] \in Seq(Msg)
      <3> SUFFICES ASSUME NEW s \in Slaves PROVE sq'[s] \in Seq(Msg)
        OBVIOUS
      <3>1. PICK A : A = Accepted(in, s)
        OBVIOUS
      <3>2. A \in Seq(Msg) /\ (in.resp[s] # "none" => A # <<>>)
        BY <3>1, SlaveNext
      <3>3. in.resp[s] = "ack" => Tail(A) \in Seq(Msg)
        BY <3>2, HeadTailProperties
      <3>4. sq'[s] \in {<<>>, A} \/ (in.resp[s] = "ack" /\ sq'[s] = Tail(A))
        BY <3>1 DEF Step, SlaveQueues
      <3> QED
        BY <3>2, <3>3, <3>4, EmptySeq
    <2> QED
      BY <2>1 DEF Step, SlaveQueues
  <1> QED
    BY <1>1, <1>2, <1>3, <1>4, <1>5, <1>6, <1>7 DEF RequestTypeOK

LEMMA HeldType ==
    ASSUME NEW g \in SUBSET Channels, \A c, d \in g : c = d,
           NEW cyc, NEW q \in [Slaves -> Seq(Msg)], NEW stb, NEW req \in [Slaves -> Msg]
    PROVE  Held(g, cyc, q, stb, req) \in Seq(Msg)
  <1>1. CASE \E s \in g : s < NS
    <2>1. PICK s \in g : s < NS
      BY <1>1
    <2>2. s \in Slaves
      BY <2>1, SizeAssumption DEF Channels, Slaves
    <2>3. q[s] \o One(stb[s], req[s]) \in Seq(Msg)
      <3>1. q[s] \in Seq(Msg) /\ One(stb[s], req[s]) \in Seq(Msg)
        BY <2>2, OneType
      <3> QED
        BY <3>1, ConcatProperties
    <2>4. Held(g, cyc, q, stb, req) = IF cyc[s] = 1 THEN q[s] \o One(stb[s], req[s]) ELSE <<>>
      BY <2>1, <2>2, HeldOne
    <2> QED
      BY <2>3, <2>4, EmptySeq
  <1>2. CASE ~ \E s \in g : s < NS
    <2>1. Held(g, cyc, q, stb, req) = <<>>
      BY <1>2 DEF Held
    <2> QED
      BY <2>1, EmptySeq
  <1> QED
    BY <1>1, <1>2

LEMMA AtSlaveTypeNext ==
    ASSUME XbarInv, NEW in, NEW mv, Step(in, mv), NEW n \in Masters
    PROVE  AtSlave(n)' \in Seq(Msg)
  <1> USE DEF XbarInv, ArbiterInv
  <1>1. PICK g, cyc, q, stb, req :
           g = grant'[n] /\ cyc = o_scyc' /\ q = sq' /\ stb = o_sstb' /\ req = o_sreq'
    OBVIOUS
  <1>2. g \in SUBSET Channels
    BY <1>1, StepTypes DEF ArbiterTypeOK, Step
  <1>3. \A c, d \in g : c = d
    BY <1>1, StepOneChannel DEF Step
  <1>4. q \in [Slaves -> Seq(Msg)] /\ req \in [Slaves -> Msg]
    BY <1>1, StepRequestTypes DEF RequestTypeOK
  <1>5. Held(g, cyc, q, stb, req) \in Seq(Msg)
    BY <1>2, <1>3, <1>4, HeldType
  <1> QED
    BY <1>1, <1>5, AtSlaveHeld

-----------------------------------------------------------------------------
(* A slave that answers answers a request of its holder's.                   *)
LEMMA AnswersOne ==
    ASSUME XbarInv, NEW in, NEW mv, Step(in, mv), NEW n \in Masters,
           NEW s \in Slaves, s \in grant[n], \A c, d \in grant[n] : c = d,
           in.resp[s] # "none"
    PROVE  AtSlave(n) # <<>>
  <1> USE DEF XbarInv, ArbiterInv
  <1> SUFFICES ASSUME AtSlave(n) = <<>> PROVE FALSE
    OBVIOUS
  <1>1. o_scyc[s] = 1
    BY SlaveNext
  <1>2. sq[s] \o One(o_sstb[s], o_sreq[s]) = <<>>
    BY <1>1, AtSlaveOne
  <1>3. sq[s] \in Seq(Msg) /\ One(o_sstb[s], o_sreq[s]) \in Seq(Msg)
    BY OneType DEF RequestTypeOK
  <1>4. PICK Q, O : Q = sq[s] /\ O = One(o_sstb[s], o_sreq[s])
    OBVIOUS
  <1>5. Q = <<>> /\ O = <<>>
    <2>1. Q \in Seq(Msg) /\ O \in Seq(Msg) /\ Q \o O = <<>>
      BY <1>2, <1>3, <1>4
    <2>2. Len(Q \o O) = Len(Q) + Len(O) /\ Len(Q) \in Nat /\ Len(O) \in Nat
      BY <2>1, ConcatProperties, LenProperties
    <2>3. Len(Q) = 0 /\ Len(O) = 0
      BY <2>1, <2>2
    <2> QED
      BY <2>1, <2>3, EmptySeq
  <1>6. Accepted(in, s) = sq[s] \o (IF s_stall(in, s) THEN <<>> ELSE One(o_sstb[s], o_sreq[s]))
    BY <1>1, SlaveNext
  <1>7. Accepted(in, s) = <<>>
    <2>1. \A b \in BOOLEAN : <<>> \o (IF b THEN <<>> ELSE <<>>) = <<>>
      BY EmptySeq, ConcatEmptySeq
    <2> QED
      BY <1>4, <1>5, <1>6, <2>1
  <1> QED
    BY <1>7, SlaveNext

-----------------------------------------------------------------------------
(* A master whose channel does not carry on has nothing outstanding: nothing comes
   back to it, and nothing of it stays with a slave.                         *)
LEMMA BackNone ==
    ASSUME XbarInv, NEW in, NEW mv, Step(in, mv), NEW n \in Masters,
           Alive(n), i_mcyc'[n] = 1, o_merr'[n] = 0,
           \A s \in Slaves : s \in grant'[n] => s \notin grant[n]
    PROVE  o_mack'[n] = 0 /\ AtSlave(n)' = <<>> /\ AtSlave(n) = <<>> /\ ~Issued(in, n)
  <1> USE DEF XbarInv, ArbiterInv
  <1>1. /\ in \in SlaveInput /\ i_mcyc[n] = 1 /\ o_merr[n] = 0 /\ NS \notin grant[n]
        /\ o_mack'[n] = NextMack(in, n) /\ grant'[n] = NextGrant(n)
    BY AliveBefore DEF Step, Alive, XbarTick, Returns, Arbitrate
  <1>2. AtSlave(n)' = <<>>
    BY NoGrantNoSlave
  <1>3. CASE \E s \in grant[n] : s \in Slaves
    <2>1. PICK s \in Slaves : s \in grant[n] /\ s \notin grant'[n]
      BY <1>3
    <2>2. s # NS
      BY SizeAssumption DEF Slaves
    <2>3. mindex[n] = s /\ mgrant[n] = 1 /\ \A c, d \in grant[n] : c = d
      BY <2>1, <2>2, GrantOf
    <2>4. ~stay_on_channel(n)
      BY <1>1, <2>1 DEF NextGrant
    <2>5. mempty[n] = 1 /\ AtSlave(n) = <<>>
      BY <2>3, <2>4, Pending DEF stay_on_channel, Bits
    <2>6. ~Issued(in, n)
      <3> SUFFICES ASSUME Issued(in, n) PROVE FALSE
        OBVIOUS
      <3>1. \E t \in Slaves : t \in grant[n] /\ request(n) = {t}
        BY <1>1, IssuedTo
      <3> QED
        BY <2>4, <3>1 DEF stay_on_channel
    <2>7. o_mack'[n] = 0
      <3> SUFFICES ASSUME s_ack(in, s) PROVE FALSE
        BY <1>1, <2>3 DEF NextMack, Bit
      <3>1. in.resp[s] # "none"
        BY DEF s_ack
      <3> QED
        BY <2>1, <2>3, <2>5, <3>1, AnswersOne
    <2> QED
      BY <1>2, <2>5, <2>6, <2>7
  <1>4. CASE ~ \E s \in grant[n] : s \in Slaves
    <2>1. grant[n] = {} /\ mgrant[n] = 0
      <3>1. grant[n] \subseteq Channels
        BY GrantOf
      <3>2. grant[n] = {}
        BY <1>1, <1>4, <3>1, SizeAssumption DEF Channels, Slaves
      <3> QED
        BY <3>2, GrantOf DEF ArbiterTypeOK, Bits
    <2>2. AtSlave(n) = <<>>
      BY <2>1 DEF AtSlave
    <2>3. o_mack'[n] = 0
      BY <1>1, <2>1 DEF NextMack, Bit
    <2>4. ~Issued(in, n)
      BY <1>1, <2>1, IssuedTo
    <2> QED
      BY <1>2, <2>2, <2>3, <2>4
  <1> QED
    BY <1>3, <1>4

LEMMA Back ==
    ASSUME XbarInv, NEW in, NEW mv, Step(in, mv), NEW n \in Masters,
           Alive(n), i_mcyc'[n] = 1, o_merr'[n] = 0
    PROVE  /\ One(o_mack'[n], o_mdata'[n]) \o AtSlave(n)' = AtSlave(n) \o Sent(in, n)
           /\ o_mack'[n] = 1 => mgrant'[n] = 1
           /\ NS \in grant'[n] => o_mack'[n] = 0
  <1> USE DEF XbarInv, ArbiterInv
  <1>1. CASE \E s \in Slaves : s \in grant[n] /\ s \in grant'[n]
    <2>1. PICK s \in Slaves : s \in grant[n] /\ s \in grant'[n]
      BY <1>1
    <2>2. s # NS
      BY SizeAssumption DEF Slaves
    <2>3. mgrant'[n] = 1 /\ NS \notin grant'[n]
      BY <2>1, <2>2, StepOneChannel DEF Step
    <2>4. One(o_mack'[n], o_mdata'[n]) \o AtSlave(n)' = AtSlave(n) \o Sent(in, n)
      BY <2>1, BackHeld
    <2> QED
      BY <2>3, <2>4
  <1>2. CASE ~ \E s \in Slaves : s \in grant[n] /\ s \in grant'[n]
    <2>1. o_mack'[n] = 0 /\ AtSlave(n)' = <<>> /\ AtSlave(n) = <<>> /\ ~Issued(in, n)
      BY <1>2, BackNone
    <2>2. One(o_mack'[n], o_mdata'[n]) = <<>> /\ Sent(in, n) = <<>>
      BY <2>1 DEF One, Sent
    <2> QED
      BY <2>1, <2>2
  <1> QED
    BY <1>1, <1>2

-----------------------------------------------------------------------------
(* Before the slave: the decoder and the skid buffer.  The lengths first: a master
   that has every place of the counter taken has nothing in its decoder.     *)
LEMMA InFlightLength ==
    ASSUME XbarInv, NEW n \in Masters, Alive(n)
    PROVE  /\ Len(out[n]) = o_mack[n] + Len(AtSlave(n)) + dcd_stb[n] + r_valid[n]
           /\ Len(AtSlave(n)) \in Nat /\ out[n] \in Seq(Msg)
           /\ mfull[n] = 1 => dcd_stb[n] = 0
           /\ r_valid[n] = 1 => dcd_stb[n] = 1
           /\ dcd_stb[n] \in Bits /\ r_valid[n] \in Bits /\ i_mstb[n] \in Bits
           /\ dcd_req[n] \in Msg /\ r_data[n] \in Msg /\ i_mreq[n] \in Msg /\ o_mdata[n] \in Msg
           /\ lclpending[n] = o_mack[n] + Len(AtSlave(n))
  <1> USE DEF XbarInv, ArbiterInv
  <1>1. /\ dcd_stb[n] \in Bits /\ r_valid[n] \in Bits /\ i_mstb[n] \in Bits /\ o_mack[n] \in Bits
        /\ dcd_req[n] \in Msg /\ r_data[n] \in Msg /\ i_mreq[n] \in Msg /\ o_mdata[n] \in Msg
        /\ out[n] \in Seq(Msg)
    BY DEF ArbiterTypeOK, RequestTypeOK, Msg
  <1>2. PICK M, Q, D, R : /\ M = One(o_mack[n], o_mdata[n]) /\ Q = AtSlave(n)
                          /\ D = One(dcd_stb[n], dcd_req[n]) /\ R = One(r_valid[n], r_data[n])
    OBVIOUS
  <1>3. /\ M \in Seq(Msg) /\ Q \in Seq(Msg) /\ D \in Seq(Msg) /\ R \in Seq(Msg)
        /\ Len(M) = o_mack[n] /\ Len(D) = dcd_stb[n] /\ Len(R) = r_valid[n]
    BY <1>1, <1>2, OneType, Pending, ZenonT(60) DEF Bits
  <1>4. out[n] = ((M \o Q) \o D) \o R
    BY <1>2, Pending DEF InFlight
  <1>5. Len(((M \o Q) \o D) \o R) = Len(M) + Len(Q) + Len(D) + Len(R) /\ Len(Q) \in Nat
    <2>1. M \in Seq(Msg) /\ Q \in Seq(Msg) /\ D \in Seq(Msg) /\ R \in Seq(Msg)
      BY <1>3
    <2> QED
      BY <2>1
  <1>6. Len(out[n]) = o_mack[n] + Len(AtSlave(n)) + dcd_stb[n] + r_valid[n]
    BY <1>2, <1>3, <1>4, <1>5
  <1>7. (r_valid[n] = 1 => dcd_stb[n] = 1) /\ Len(out[n]) + i_mstb[n] <= Full
    BY DEF MasterInv
  <1>8. lclpending[n] = o_mack[n] + Len(AtSlave(n)) /\ (mfull[n] = 1 <=> lclpending[n] = Full)
    BY Pending
  <1>9. mfull[n] = 1 => dcd_stb[n] = 0
    BY <1>1, <1>2, <1>5, <1>6, <1>7, <1>8, FullFacts DEF Bits
  <1> QED
    BY <1>1, <1>2, <1>5, <1>6, <1>7, <1>8, <1>9

(* A decoded request that does not stall is issued: nothing leaves the decoder but
   to a slave.                                                               *)
LEMMA LeavesIssued ==
    ASSUME XbarInv, NEW in, NEW n \in Masters, Alive(n), dcd_stb[n] = 1
    PROVE  skd_stall(in, n) <=> ~Issued(in, n)
  <1>1. i_mcyc[n] = 1 /\ o_merr[n] = 0 /\ mfull[n] = 0
    BY InFlightLength, Pending DEF Alive, Bits
  <1>2. m_stb(n)
    BY <1>1 DEF m_stb
  <1> QED
    BY <1>1, <1>2 DEF Issued, skd_stall

Taken(n) == IF i_mstb[n] = 1 /\ r_valid[n] = 0 THEN <<i_mreq[n]>> ELSE <<>>

LEMMA Front ==
    ASSUME XbarInv, NEW in, NEW mv, Step(in, mv), NEW n \in Masters, Alive(n)
    PROVE  /\ Sent(in, n) \o (One(dcd_stb'[n], dcd_req'[n]) \o One(r_valid'[n], r_data'[n]))
                = (One(dcd_stb[n], dcd_req[n]) \o One(r_valid[n], r_data[n])) \o Taken(n)
           /\ r_valid'[n] = 1 => dcd_stb'[n] = 1
  <1> USE DEF XbarInv, ArbiterInv
  <1>1. /\ dcd_stb[n] \in Bits /\ r_valid[n] \in Bits /\ i_mstb[n] \in Bits
        /\ r_valid[n] = 1 => dcd_stb[n] = 1
        /\ i_mcyc[n] = 1
    BY InFlightLength DEF Alive
  <1>2. /\ r_valid'[n] = IF i_mstb[n] = 1 /\ r_valid[n] = 0 /\ skd_stall(in, n) THEN 1
                         ELSE IF ~skd_stall(in, n) THEN 0 ELSE r_valid[n]
        /\ r_data'[n] = IF r_valid[n] = 0 THEN i_mreq[n] ELSE r_data[n]
    BY <1>1 DEF Step, XbarTick, SkidBuffer, skd_stb
  <1>3. /\ dcd_stb'[n] = IF skd_stall(in, n) THEN dcd_stb[n]
                         ELSE Bit(i_mstb[n] = 1 \/ r_valid[n] = 1)
        /\ dcd_req'[n] = IF skd_stall(in, n) THEN dcd_req[n]
                         ELSE IF r_valid[n] = 1 THEN r_data[n] ELSE i_mreq[n]
    BY <1>1 DEF Step, XbarTick, AddrDecode, skd_stb, skd_req
  <1>4. CASE skd_stall(in, n)
    <2>1. dcd_stb[n] = 1 /\ Sent(in, n) = <<>>
      BY <1>4, LeavesIssued DEF skd_stall, Sent
    <2>2. CASE r_valid[n] = 1
      BY <1>2, <1>3, <1>4, <2>1, <2>2 DEF One, Taken
    <2>3. CASE r_valid[n] = 0 /\ i_mstb[n] = 1
      BY <1>2, <1>3, <1>4, <2>1, <2>3 DEF One, Taken
    <2>4. CASE r_valid[n] = 0 /\ i_mstb[n] = 0
      BY <1>2, <1>3, <1>4, <2>1, <2>4 DEF One, Taken
    <2> QED
      BY <1>1, <2>2, <2>3, <2>4 DEF Bits
  <1>5. CASE ~skd_stall(in, n) /\ dcd_stb[n] = 1
    <2>1. Sent(in, n) = <<dcd_req[n]>>
      BY <1>5, LeavesIssued DEF Sent
    <2>2. CASE r_valid[n] = 1
      BY <1>2, <1>3, <1>5, <2>1, <2>2 DEF One, Taken, Bit
    <2>3. CASE r_valid[n] = 0 /\ i_mstb[n] = 1
      BY <1>2, <1>3, <1>5, <2>1, <2>3 DEF One, Taken, Bit
    <2>4. CASE r_valid[n] = 0 /\ i_mstb[n] = 0
      BY <1>2, <1>3, <1>5, <2>1, <2>4 DEF One, Taken, Bit
    <2> QED
      BY <1>1, <2>2, <2>3, <2>4 DEF Bits
  <1>6. CASE dcd_stb[n] = 0
    <2>1. Sent(in, n) = <<>> /\ r_valid[n] = 0 /\ ~skd_stall(in, n)
      BY <1>1, <1>6 DEF Sent, Issued, m_stb, skd_stall, Bits
    <2>2. CASE i_mstb[n] = 1
      BY <1>2, <1>3, <1>6, <2>1, <2>2 DEF One, Taken, Bit
    <2>3. CASE i_mstb[n] = 0
      BY <1>2, <1>3, <1>6, <2>1, <2>3 DEF One, Taken, Bit
    <2> QED
      BY <1>1, <2>2, <2>3 DEF Bits
  <1> QED
    BY <1>1, <1>4, <1>5, <1>6 DEF Bits

-----------------------------------------------------------------------------
(* The two sides together: what the master counts as unanswered is in its place. *)
LEMMA TailOfCat ==
    ASSUME NEW m \in Msg, NEW z \in Seq(Msg)
    PROVE  Cat(<<m>>, z) # <<>> /\ Tail(Cat(<<m>>, z)) = z
  BY DEF Cat

LEMMA KeepsCycle ==
    ASSUME NEW in, NEW mv, Step(in, mv), NEW n \in Masters, i_mcyc'[n] = 1
    PROVE  out'[n] = NextOut(n) /\ mv[n].kind \in {"wait", "ask"}
  <1>1. /\ i_mcyc'[n] = Bit(mv[n].kind # "drop") /\ mv[n] \in Moves
        /\ out'[n] = IF mv[n].kind = "drop" THEN <<>> ELSE NextOut(n)
    BY DEF Step, MasterOutputs
  <1> QED
    BY <1>1 DEF Moves, Bit

LEMMA OutNext ==
    ASSUME XbarInv, NEW n \in Masters, Alive(n)
    PROVE  NextOut(n) = Cat(Cat(AtSlave(n), Cat(One(dcd_stb[n], dcd_req[n]), One(r_valid[n], r_data[n]))),
                            Taken(n))
  <1>1. /\ dcd_req[n] \in Msg /\ r_data[n] \in Msg /\ i_mreq[n] \in Msg /\ o_mdata[n] \in Msg
        /\ out[n] \in Seq(Msg) /\ AtSlave(n) \in Seq(Msg) /\ o_mack[n] \in Bits
        /\ i_mcyc[n] = 1 /\ o_merr[n] = 0
    BY InFlightLength, Pending DEF Alive
  <1>2. PICK M, Q, D, R, T : /\ M = One(o_mack[n], o_mdata[n]) /\ Q = AtSlave(n)
                             /\ D = One(dcd_stb[n], dcd_req[n]) /\ R = One(r_valid[n], r_data[n])
                             /\ T = Taken(n)
    OBVIOUS
  <1>3. Taken(n) \in Seq(Msg)
    BY <1>1 DEF Taken
  <1>4. M \in Seq(Msg) /\ Q \in Seq(Msg) /\ D \in Seq(Msg) /\ R \in Seq(Msg) /\ T \in Seq(Msg)
    BY <1>1, <1>2, <1>3, OneType
  <1>5. out[n] = Cat(Cat(Cat(M, Q), D), R)
    BY <1>2, Pending DEF InFlight, Cat
  <1>6. PICK t : t = Cat(out[n], T)
    OBVIOUS
  <1>7. NextOut(n) = IF o_mack[n] = 1 /\ t # <<>> THEN Tail(t) ELSE t
    <2>1. out[n] \o <<>> = out[n] /\ Append(out[n], i_mreq[n]) = out[n] \o <<i_mreq[n]>>
      BY <1>1
    <2>2. t = IF i_mstb[n] = 1 /\ o_mstall(n) = 0 THEN Append(out[n], i_mreq[n]) ELSE out[n]
      BY <1>2, <1>6, <2>1 DEF Taken, Cat, o_mstall
    <2> QED
      BY <1>1, <2>2 DEF NextOut
  <1>8. PICK Z \in Seq(Msg) : Z = Cat(Cat(Q, Cat(D, R)), T)
    BY <1>4, Assoc
  <1>9. t = Cat(M, Z)
    <2>1. Cat(Cat(Cat(Cat(M, Q), D), R), T) = Cat(M, Cat(Cat(Q, Cat(D, R)), T))
      BY <1>4, Assoc
    <2> QED
      BY <1>5, <1>6, <1>8, <2>1
  <1>10. CASE o_mack[n] = 1
    <2>1. M = <<o_mdata[n]>>
      BY <1>2, <1>10 DEF One
    <2>2. t # <<>> /\ Tail(t) = Z
      BY <1>1, <1>8, <1>9, <2>1, TailOfCat
    <2> QED
      BY <1>2, <1>7, <1>8, <1>10, <2>2
  <1>11. CASE o_mack[n] = 0
    <2>1. M = <<>>
      BY <1>2, <1>11 DEF One
    <2>2. t = Z
      BY <1>8, <1>9, <2>1, ConcatEmptySeq DEF Cat
    <2> QED
      BY <1>2, <1>7, <1>8, <1>11, <2>2
  <1> QED
    BY <1>1, <1>10, <1>11 DEF Bits

LEMMA InFlightNext ==
    ASSUME XbarInv, NEW in, NEW mv, Step(in, mv), NEW n \in Masters,
           Alive(n), i_mcyc'[n] = 1, o_merr'[n] = 0
    PROVE  InFlight(n)' = out'[n]
  <1>1. PICK m, q, d, r : /\ m = One(o_mack'[n], o_mdata'[n]) /\ q = AtSlave(n)'
                          /\ d = One(dcd_stb'[n], dcd_req'[n]) /\ r = One(r_valid'[n], r_data'[n])
    OBVIOUS
  <1>2. PICK Q, D, R, T, S : /\ Q = AtSlave(n) /\ D = One(dcd_stb[n], dcd_req[n])
                             /\ R = One(r_valid[n], r_data[n]) /\ T = Taken(n) /\ S = Sent(in, n)
    OBVIOUS
  <1>3. m \in Seq(Msg) /\ q \in Seq(Msg) /\ d \in Seq(Msg) /\ r \in Seq(Msg)
    <2>1. o_mdata'[n] \in Msg
      BY StepRequestTypes DEF RequestTypeOK
    <2>2. dcd_req'[n] \in Msg /\ r_data'[n] \in Msg
      BY StepTypes DEF Step, XbarInv, ArbiterInv, ArbiterTypeOK, Msg
    <2> QED
      BY <1>1, <2>1, <2>2, OneType, AtSlaveTypeNext
  <1>4. Q \in Seq(Msg) /\ D \in Seq(Msg) /\ R \in Seq(Msg) /\ T \in Seq(Msg) /\ S \in Seq(Msg)
    <2>1. dcd_req[n] \in Msg /\ r_data[n] \in Msg /\ i_mreq[n] \in Msg
      BY InFlightLength
    <2>2. Taken(n) \in Seq(Msg) /\ Sent(in, n) \in Seq(Msg)
      BY <2>1 DEF Taken, Sent
    <2> QED
      BY <1>2, <2>1, <2>2, OneType, Pending
  <1>5. Cat(m, q) = Cat(Q, S)
    BY <1>1, <1>2, Back DEF Cat
  <1>6. Cat(S, Cat(d, r)) = Cat(Cat(D, R), T)
    BY <1>1, <1>2, Front DEF Cat
  <1>7. Cat(Cat(Cat(m, q), d), r) = Cat(Cat(Q, Cat(D, R)), T)
    <2>1. Cat(Cat(Cat(m, q), d), r) = Cat(Cat(Q, S), Cat(d, r))
      BY <1>3, <1>4, <1>5, Assoc
    <2>2. Cat(Cat(Q, S), Cat(d, r)) = Cat(Q, Cat(S, Cat(d, r)))
      BY <1>3, <1>4, Assoc
    <2>3. Cat(Q, Cat(Cat(D, R), T)) = Cat(Cat(Q, Cat(D, R)), T)
      BY <1>4, Assoc
    <2> QED
      BY <1>6, <2>1, <2>2, <2>3
  <1>8. InFlight(n)' = Cat(Cat(Cat(m, q), d), r)
    BY <1>1 DEF InFlight, One, Cat
  <1>9. out'[n] = Cat(Cat(Q, Cat(D, R)), T)
    BY <1>2, KeepsCycle, OutNext
  <1> QED
    BY <1>7, <1>8, <1>9

(* A bus cycle that has just begun finds everything empty.                   *)
LEMMA FreshCycle ==
    ASSUME XbarInv, NEW in, NEW mv, Step(in, mv), NEW n \in Masters, i_mcyc[n] = 0
    PROVE  /\ dcd_stb'[n] = 0 /\ r_valid'[n] = 0 /\ o_mack'[n] = 0 /\ o_merr'[n] = 0
           /\ grant'[n] = {} /\ lclpending'[n] = 0 /\ timed_out'[n] = 0
           /\ AtSlave(n)' = <<>> /\ InFlight(n)' = <<>> /\ out'[n] = <<>>
  <1> USE DEF XbarInv, ArbiterInv
  <1>1. dcd_stb'[n] = 0 /\ r_valid'[n] = 0
    BY DEF Step, XbarTick, SkidBuffer, AddrDecode, skd_stall, skd_stb, Bit
  <1>2. o_mack'[n] = 0 /\ o_merr'[n] = 0
    BY DEF Step, XbarTick, Returns, NextMack, NextMerr, Bit
  <1>3. grant'[n] = {}
    BY DEF Step, XbarTick, Arbitrate, NextGrant
  <1>4. lclpending'[n] = 0
    BY DEF Step, XbarTick, CountPending, Quiet
  <1>5. timed_out'[n] = 0
    BY DEF Step, XbarTick, CheckTimeout, Progress, MasterInv
  <1>6. AtSlave(n)' = <<>>
    BY <1>3, NoGrantNoSlave
  <1>7. InFlight(n)' = <<>>
    <2>1. PICK q : q = AtSlave(n)'
      OBVIOUS
    <2>2. InFlight(n)' = ((<<>> \o q) \o <<>>) \o <<>>
      BY <1>1, <1>2, <2>1 DEF InFlight, One
    <2>3. <<>> \o <<>> = <<>>
      BY EmptySeq, ConcatEmptySeq
    <2> QED
      BY <1>6, <2>1, <2>2, <2>3
  <1>8. out'[n] = <<>>
    BY DEF Step, MasterOutputs, NextOut
  <1> QED
    BY <1>1, <1>2, <1>3, <1>4, <1>5, <1>6, <1>7, <1>8

-----------------------------------------------------------------------------
(* The counter.                                                              *)
LEMMA Count ==
    ASSUME XbarInv, NEW in, NEW mv, Step(in, mv), NEW n \in Masters, Alive(n)
    PROVE  /\ lclpending'[n] = IF CountsUp(in, n) THEN lclpending[n] + 1
                               ELSE IF CountsDn(in, n) THEN lclpending[n] - 1
                               ELSE lclpending[n]
           /\ CountsUp(in, n) => lclpending[n] < Full
           /\ CountsDn(in, n) => lclpending[n] > 0
           /\ lclpending[n] \in 0 .. Full
  <1> USE DEF XbarInv, ArbiterInv
  <1>1. lclpending[n] \in 0 .. Full /\ Full \in Nat /\ 2 ^ LGMAXBURST = Full + 1
    BY FullFacts DEF RequestTypeOK
  <1>2. CountsUp(in, n) => lclpending[n] < Full
    <2>1. CountsUp(in, n) => lclpending[n] # Full
      BY Pending DEF CountsUp, Issued, m_stb, Bits
    <2> QED
      BY <1>1, <2>1
  <1>3. CountsDn(in, n) => lclpending[n] > 0
    BY InFlightLength DEF CountsDn
  <1>4. ~Quiet(n)
    BY DEF Quiet, Alive
  <1>5. \A k \in 0 .. Full : /\ k < Full => (k + 1) % (2 ^ LGMAXBURST) = k + 1
                             /\ k > 0 => (k - 1) % (2 ^ LGMAXBURST) = k - 1
    BY <1>1
  <1>6. lclpending'[n] = IF CountsUp(in, n) THEN (lclpending[n] + 1) % (2 ^ LGMAXBURST)
                         ELSE IF CountsDn(in, n) THEN (lclpending[n] - 1) % (2 ^ LGMAXBURST)
                         ELSE lclpending[n]
    BY <1>4 DEF Step, XbarTick, CountPending
  <1> QED
    BY <1>1, <1>2, <1>3, <1>5, <1>6

LEMMA StepCounters ==
    ASSUME XbarInv, NEW in, NEW mv, Step(in, mv)
    PROVE  CountersAgree'
  <1> USE DEF XbarInv, ArbiterInv
  <1> SUFFICES ASSUME NEW n \in Masters
               PROVE  /\ mempty'[n] = 1 <=> lclpending'[n] = 0
                      /\ mnearfull'[n] = 1 <=> lclpending'[n] >= Full - 1
                      /\ mfull'[n] = 1 <=> lclpending'[n] = Full
    BY DEF CountersAgree, Full
  <1>0. Full \in Nat /\ Full >= 7
    BY FullFacts
  <1>1. CASE Quiet(n)
    BY <1>0, <1>1 DEF Step, XbarTick, CountPending
  <1>2. CASE ~Quiet(n)
    <2>1. Alive(n)
      BY <1>2 DEF Quiet, Alive, ArbiterTypeOK, Bits
    <2>2. /\ mempty'[n] = IF CountsUp(in, n) THEN 0
                          ELSE IF CountsDn(in, n) THEN Bit(lclpending[n] = 1) ELSE mempty[n]
          /\ mnearfull'[n] = IF CountsUp(in, n) THEN Bit(AlmostNearFull(n))
                             ELSE IF CountsDn(in, n) THEN mfull[n] ELSE mnearfull[n]
          /\ mfull'[n] = IF CountsUp(in, n) THEN mnearfull[n]
                         ELSE IF CountsDn(in, n) THEN 0 ELSE mfull[n]
      BY <1>2 DEF Step, XbarTick, CountPending
    <2>3. /\ mempty[n] = 1 <=> lclpending[n] = 0
          /\ mnearfull[n] = 1 <=> lclpending[n] >= Full - 1
          /\ mfull[n] = 1 <=> lclpending[n] = Full
      BY DEF CountersAgree
    <2>4. lclpending[n] \in 0 .. Full
      BY DEF RequestTypeOK
    <2>5. CASE CountsUp(in, n)
      <3>1. lclpending'[n] = lclpending[n] + 1 /\ lclpending[n] < Full
        BY <2>1, <2>5, Count
      <3>2. AlmostNearFull(n) <=> lclpending[n] >= Full - 2
        BY <2>4, NearFull
      <3> QED
        BY <1>0, <2>2, <2>3, <2>4, <2>5, <3>1, <3>2 DEF Bit
    <2>6. CASE ~CountsUp(in, n) /\ CountsDn(in, n)
      <3>1. lclpending'[n] = lclpending[n] - 1 /\ lclpending[n] > 0
        BY <2>1, <2>6, Count
      <3> QED
        BY <1>0, <2>2, <2>3, <2>4, <2>6, <3>1 DEF Bit
    <2>7. CASE ~CountsUp(in, n) /\ ~CountsDn(in, n)
      <3>1. lclpending'[n] = lclpending[n]
        BY <2>1, <2>7, Count
      <3> QED
        BY <2>2, <2>3, <2>7, <3>1
    <2> QED
      BY <2>5, <2>6, <2>7
  <1> QED
    BY <1>1, <1>2

LEMMA PendingNext ==
    ASSUME XbarInv, NEW in, NEW mv, Step(in, mv), NEW n \in Masters,
           Alive(n), i_mcyc'[n] = 1, o_merr'[n] = 0
    PROVE  lclpending'[n] = o_mack'[n] + Len(AtSlave(n)')
  <1> USE DEF XbarInv, ArbiterInv
  <1>1. PICK m, q, Q, S : /\ m = One(o_mack'[n], o_mdata'[n]) /\ q = AtSlave(n)'
                          /\ Q = AtSlave(n) /\ S = Sent(in, n)
    OBVIOUS
  <1>2. /\ o_mdata'[n] \in Msg /\ o_mack'[n] \in Bits /\ dcd_req[n] \in Msg
        /\ o_mack[n] \in Bits
    BY StepRequestTypes, InFlightLength DEF RequestTypeOK
  <1>3. /\ m \in Seq(Msg) /\ q \in Seq(Msg) /\ Q \in Seq(Msg) /\ S \in Seq(Msg)
        /\ Len(m) = o_mack'[n] /\ Len(S) = IF Issued(in, n) THEN 1 ELSE 0
    <2>1. m \in Seq(Msg) /\ Len(m) = o_mack'[n]
      BY <1>1, <1>2, OneType DEF Bits
    <2>2. q \in Seq(Msg) /\ Q \in Seq(Msg)
      BY <1>1, AtSlaveTypeNext, Pending
    <2>3. S \in Seq(Msg) /\ Len(S) = IF Issued(in, n) THEN 1 ELSE 0
      BY <1>1, <1>2 DEF Sent
    <2> QED
      BY <2>1, <2>2, <2>3
  <1>4. m \o q = Q \o S
    BY <1>1, Back
  <1>5. Len(m) + Len(q) = Len(Q) + Len(S) /\ Len(q) \in Nat /\ Len(Q) \in Nat
    <2>1. Len(m \o q) = Len(m) + Len(q) /\ Len(Q \o S) = Len(Q) + Len(S)
      BY <1>3, ConcatProperties
    <2> QED
      BY <1>3, <1>4, <2>1, LenProperties
  <1>6. lclpending[n] = o_mack[n] + Len(Q)
    BY <1>1, InFlightLength
  <1>7. lclpending'[n] = Len(Q) + (IF Issued(in, n) THEN 1 ELSE 0)
    <2>1. CASE Issued(in, n)
      BY <1>2, <1>5, <1>6, <2>1, Count DEF CountsUp, CountsDn, Bits
    <2>2. CASE ~Issued(in, n)
      BY <1>2, <1>5, <1>6, <2>2, Count DEF CountsUp, CountsDn, Bits
    <2> QED
      BY <2>1, <2>2
  <1>8. lclpending'[n] = Len(m) + Len(q)
    BY <1>3, <1>5, <1>7
  <1> QED
    BY <1>1, <1>3, <1>8

-----------------------------------------------------------------------------
(* The number of requests that stay unanswered.                              *)
LEMMA NextOutLength ==
    ASSUME XbarInv, NEW n \in Masters, Alive(n)
    PROVE  /\ NextOut(n) \in Seq(Msg) /\ Len(NextOut(n)) \in Nat
           /\ Len(NextOut(n)) = Len(AtSlave(n)) + dcd_stb[n] + r_valid[n] + Len(Taken(n))
           /\ Len(Taken(n)) = IF i_mstb[n] = 1 /\ r_valid[n] = 0 THEN 1 ELSE 0
  <1>1. PICK Q, D, R, T : /\ Q = AtSlave(n) /\ D = One(dcd_stb[n], dcd_req[n])
                          /\ R = One(r_valid[n], r_data[n]) /\ T = Taken(n)
    OBVIOUS
  <1>2. /\ dcd_stb[n] \in Bits /\ r_valid[n] \in Bits
        /\ dcd_req[n] \in Msg /\ r_data[n] \in Msg /\ i_mreq[n] \in Msg
    BY InFlightLength
  <1>3. T \in Seq(Msg) /\ Len(T) = IF i_mstb[n] = 1 /\ r_valid[n] = 0 THEN 1 ELSE 0
    BY <1>1, <1>2 DEF Taken
  <1>4. /\ Q \in Seq(Msg) /\ D \in Seq(Msg) /\ R \in Seq(Msg)
        /\ Len(D) = dcd_stb[n] /\ Len(R) = r_valid[n]
    BY <1>1, <1>2, OneType, Pending DEF Bits
  <1>5. NextOut(n) = (Q \o (D \o R)) \o T
    BY <1>1, OutNext DEF Cat
  <1>6. /\ (Q \o (D \o R)) \o T \in Seq(Msg)
        /\ Len((Q \o (D \o R)) \o T) = Len(Q) + Len(D) + Len(R) + Len(T)
        /\ Len((Q \o (D \o R)) \o T) \in Nat
    <2>1. T \in Seq(Msg) /\ Q \in Seq(Msg) /\ D \in Seq(Msg) /\ R \in Seq(Msg)
      BY <1>3, <1>4
    <2> QED
      BY <2>1
  <1> QED
    BY <1>1, <1>3, <1>4, <1>5, <1>6

(* Every bus error has a request to answer.                                  *)
LEMMA StepErrorAnswers ==
    ASSUME XbarInv, NEW in, NEW mv, Step(in, mv)
    PROVE  ErrorAnswersARequest'
  <1> USE DEF XbarInv, ArbiterInv
  <1> SUFFICES ASSUME NEW n \in Masters, o_merr'[n] = 1, i_mcyc'[n] = 1
               PROVE  out'[n] # <<>>
    BY DEF ErrorAnswersARequest
  <1>1. Alive(n)
    BY AliveBefore, FreshCycle
  <1>2. Expired(n) \/ (mgrant[n] = 1 /\ s_err(in, mindex[n]))
    BY DEF Step, XbarTick, Returns, NextMerr, Bit
  <1>3. out'[n] = NextOut(n)
    BY KeepsCycle
  <1>4. /\ Len(out[n]) = o_mack[n] + Len(AtSlave(n)) + dcd_stb[n] + r_valid[n]
        /\ Len(NextOut(n)) = Len(AtSlave(n)) + dcd_stb[n] + r_valid[n] + Len(Taken(n))
        /\ Len(Taken(n)) \in {0, 1} /\ Len(AtSlave(n)) \in Nat
        /\ dcd_stb[n] \in {0, 1} /\ r_valid[n] \in {0, 1} /\ o_mack[n] \in {0, 1}
        /\ out[n] \in Seq(Msg) /\ AtSlave(n) \in Seq(Msg)
    BY <1>1, InFlightLength, NextOutLength, Pending DEF Bits
  <1>5. Len(NextOut(n)) > 0
    <2>1. CASE Expired(n)
      <3>1. out[n] # <<>> /\ o_mack[n] = 0
        BY <1>1, <2>1 DEF Expired, MasterInv
      <3>2. Len(out[n]) > 0
        BY <1>4, <3>1, EmptySeq, LenProperties
      <3> QED
        BY <1>4, <3>1, <3>2
    <2>2. CASE ~Expired(n)
      <3>1. mgrant[n] = 1 /\ s_err(in, mindex[n]) /\ NS \notin grant[n]
        BY <1>2, <2>2 DEF Expired
      <3>2. PICK s \in grant[n] : s # NS
        BY <3>1, GrantOf
      <3>3. s \in Slaves /\ mindex[n] = s /\ \A c, d \in grant[n] : c = d
        BY <3>2, GrantOf
      <3>4. in.resp[s] # "none"
        BY <3>1, <3>3, SizeAssumption DEF s_err, Slaves
      <3>5. AtSlave(n) # <<>>
        BY <3>2, <3>3, <3>4, AnswersOne
      <3>6. Len(AtSlave(n)) > 0
        BY <1>4, <3>5, EmptySeq, LenProperties
      <3> QED
        BY <1>4, <3>6
    <2> QED
      BY <2>1, <2>2
  <1>6. NextOut(n) # <<>>
    BY <1>5, EmptySeq
  <1> QED
    BY <1>3, <1>6

(* The masters stay below the counter's limit, and what will be an error has a
   request to answer.                                                        *)
LEMMA StepMaster ==
    ASSUME XbarInv, MaxOut <= Full, NEW in, NEW mv, Step(in, mv)
    PROVE  MasterInv'
  <1> USE DEF XbarInv, ArbiterInv
  <1>0. Full \in Nat /\ Full >= 7 /\ MaxOut \in Nat
    BY FullFacts, SizeAssumption
  <1>1. OPT_TIMEOUT = 0 => timed_out' = timed_out
    BY DEF Step, XbarTick, CheckTimeout
  <1>2. ASSUME NEW n \in Masters, i_mcyc'[n] = 1, o_merr'[n] = 0
        PROVE  /\ r_valid'[n] = 1 => dcd_stb'[n] = 1
               /\ o_mack'[n] = 1 => mgrant'[n] = 1
               /\ Len(out'[n]) + i_mstb'[n] <= Full
               /\ NS \in grant'[n] \/ timed_out'[n] = 1 => out'[n] # <<>>
               /\ NS \in grant'[n] => o_mack'[n] = 0
    <2>1. i_mstb'[n] = Bit(mv[n].kind = "ask") /\ i_mstb'[n] \in {0, 1}
      BY DEF Step, MasterOutputs, Bit
    <2>2. CASE i_mcyc[n] = 0
      <3>1. Len(out'[n]) = 0
        BY <2>2, FreshCycle, EmptySeq
      <3> QED
        BY <1>0, <2>1, <2>2, <3>1, FreshCycle
    <2>3. CASE Alive(n)
      <3>1. /\ out'[n] = NextOut(n) /\ mv[n].kind \in {"wait", "ask"}
            /\ i_mcyc[n] = 1 /\ o_merr[n] = 0 /\ ~Expired(n) /\ NS \notin grant[n]
        BY <1>2, <2>3, KeepsCycle, AliveBefore DEF Alive
      <3>2. /\ Len(out[n]) = o_mack[n] + Len(AtSlave(n)) + dcd_stb[n] + r_valid[n]
            /\ Len(out'[n]) = Len(AtSlave(n)) + dcd_stb[n] + r_valid[n] + Len(Taken(n))
            /\ Len(Taken(n)) = IF i_mstb[n] = 1 /\ r_valid[n] = 0 THEN 1 ELSE 0
            /\ Len(AtSlave(n)) \in Nat /\ i_mstb[n] \in {0, 1}
            /\ dcd_stb[n] \in {0, 1} /\ r_valid[n] \in {0, 1} /\ o_mack[n] \in {0, 1}
            /\ lclpending[n] = o_mack[n] + Len(AtSlave(n))
        BY <2>3, <3>1, InFlightLength, NextOutLength, Pending DEF Bits
      <3>3. Len(out[n]) + i_mstb[n] <= Full
        BY <2>3 DEF MasterInv
      <3>4. Len(out'[n]) + i_mstb'[n] <= Full
        <4>1. CASE mv[n].kind = "wait"
          BY <1>0, <2>1, <3>2, <3>3, <4>1, SMTT(40) DEF Bit
        <4>2. CASE mv[n].kind = "ask" /\ Stalled(n)
          BY <1>0, <2>1, <3>2, <3>3, <4>2, SMTT(40) DEF Stalled, o_mstall, Bit
        <4>3. CASE mv[n].kind = "ask" /\ ~Stalled(n)
          <5>1. Len(NextOut(n)) < MaxOut
            BY <3>1, <4>3 DEF Step, MasterRules
          <5> QED
            BY <1>0, <2>1, <3>1, <3>2, <4>3, <5>1 DEF Bit
        <4> QED
          BY <3>1, <4>1, <4>2, <4>3
      <3>5. NS \in grant'[n] => dcd_stb[n] = 1
        <4> SUFFICES ASSUME NS \in grant'[n] PROVE dcd_stb[n] = 1
          OBVIOUS
        <4>1. NS \in request(n)
          BY <3>1 DEF Step, XbarTick, Arbitrate, NextGrant
        <4> QED
          BY <4>1 DEF request
      <3>6. timed_out'[n] = 1 => dcd_stb[n] = 1 \/ Len(AtSlave(n)) > 0
        <4> SUFFICES ASSUME timed_out'[n] = 1 PROVE dcd_stb[n] = 1 \/ Len(AtSlave(n)) > 0
          OBVIOUS
        <4>1. OPT_TIMEOUT # 0
          BY <1>1 DEF MasterInv
        <4>2. ~Progress(in, n)
          BY <4>1 DEF Step, XbarTick, CheckTimeout
        <4>3. o_mack[n] # 1 /\ (lclpending[n] # 0 \/ m_stb(n))
          BY <4>2 DEF Progress
        <4> QED
          BY <3>2, <4>3 DEF m_stb
      <3>7. NS \in grant'[n] \/ timed_out'[n] = 1 => out'[n] # <<>>
        <4>1. NS \in grant'[n] \/ timed_out'[n] = 1 => Len(out'[n]) > 0
          BY <3>2, <3>5, <3>6
        <4> QED
          BY <4>1, EmptySeq
      <3> QED
        BY <1>2, <2>3, <3>4, <3>7, Front, Back
    <2> QED
      BY <1>2, <2>2, <2>3, AliveBefore
  <1> QED
    BY <1>1, <1>2 DEF MasterInv, Alive, Full

-----------------------------------------------------------------------------
(* The slaves' side.                                                         *)
LEMMA StepHolder ==
    ASSUME XbarInv, NEW in, NEW mv, Step(in, mv), NEW s \in Slaves, o_scyc'[s] = 1
    PROVE  /\ sindex'[s] = sindex[s]
           /\ \A i \in 1 .. Len(sq'[s]) : sq'[s][i].m = sindex[s]
           /\ o_sstb'[s] = 1 => o_sreq'[s].m = sindex[s] /\ o_sreq'[s].addr = s
  <1> USE DEF XbarInv, ArbiterInv
  <1>1. /\ sgrant[s] = 1 /\ o_scyc'[s] = NextScyc(in, s) /\ o_sstb'[s] = NextSstb(in, s)
        /\ o_sreq'[s] = NextSreq(in, s) /\ sindex'[s] = NextSindex(s)
        /\ NextScyc(in, s) = 1
    BY DEF Step, XbarTick, SlaveOutputs, Arbitrate, NextScyc, Bit
  <1>2. sindex'[s] = sindex[s] /\ sindex[s] \in Masters
    BY <1>1, HolderKeepsIndex DEF ArbiterTypeOK
  <1>3. o_sstb[s] = 1 => /\ o_scyc[s] = 1 /\ o_sreq[s].addr = s /\ o_sreq[s].m = sindex[s]
    BY <1>1 DEF RequestInv, NoForeignRequest, HolderInv
  <1>4. o_sstb'[s] = 1 => o_sreq'[s].m = sindex[s] /\ o_sreq'[s].addr = s
    <2>1. CASE s_stall(in, s)
      BY <1>1, <1>3, <2>1 DEF NextSstb, NextSreq, s_stall
    <2>2. CASE ~s_stall(in, s)
      <3>1. o_sstb'[s] = 1 => s \in request(sindex[s])
        BY <1>1, <2>2 DEF NextSstb, Bit
      <3>2. s \in request(sindex[s]) => dcd_req[sindex[s]].addr = s
        BY DEF request
      <3>3. dcd_req[sindex[s]].m = sindex[s]
        BY <1>2 DEF OwnRequests
      <3> QED
        BY <1>1, <2>2, <3>1, <3>2, <3>3 DEF NextSreq
    <2> QED
      BY <2>1, <2>2
  <1>5. \A i \in 1 .. Len(sq'[s]) : sq'[s][i].m = sindex[s]
    <2>1. CASE o_scyc[s] = 0
      <3>1. sq'[s] = <<>>
        BY <2>1, SlaveNext
      <3>2. Len(sq'[s]) = 0
        BY <3>1, EmptySeq
      <3> QED
        BY <3>2
    <2>2. CASE o_scyc[s] = 1
      <3>1. PICK Q, O, A : Q = sq[s] /\ O = One(o_sstb[s], o_sreq[s]) /\ A = Accepted(in, s)
        OBVIOUS
      <3>2. /\ Q \in Seq(Msg) /\ A \in Seq(Msg) /\ o_sreq[s] \in Msg
            /\ \A i \in 1 .. Len(Q) : Q[i].m = sindex[s]
            /\ o_sstb[s] = 1 => o_sreq[s].m = sindex[s]
        BY <1>1, <1>3, <2>2, <3>1, SlaveNext DEF RequestTypeOK, HolderInv
      <3>3. (A = Append(Q, o_sreq[s]) /\ o_sstb[s] = 1) \/ A = Q
        BY <3>1 DEF Accepted
      <3>4. \A i \in 1 .. Len(A) : A[i].m = sindex[s]
        <4>1. CASE A = Append(Q, o_sreq[s]) /\ o_sstb[s] = 1
          <5>1. Len(A) = Len(Q) + 1 /\ A[Len(Q) + 1] = o_sreq[s] /\ Len(Q) \in Nat
                /\ \A i \in 1 .. Len(Q) : A[i] = Q[i]
            BY <3>2, <4>1, AppendProperties, LenProperties
          <5> TAKE i \in 1 .. Len(A)
          <5>2. i \in 1 .. Len(Q) \/ i = Len(Q) + 1
            BY <5>1
          <5> QED
            BY <3>2, <4>1, <5>1, <5>2
        <4>2. CASE A = Q
          BY <3>2, <4>2
        <4> QED
          BY <3>3, <4>1, <4>2
      <3>5. sq'[s] = <<>> \/ sq'[s] = A \/ (A # <<>> /\ sq'[s] = Tail(A))
        BY <3>1, SlaveNext
      <3>6. CASE sq'[s] = <<>>
        <4>1. Len(sq'[s]) = 0
          BY <3>6, EmptySeq
        <4> QED
          BY <4>1
      <3>7. CASE sq'[s] = A
        BY <3>4, <3>7
      <3>8. CASE A # <<>> /\ sq'[s] = Tail(A)
        <4>1. /\ Len(Tail(A)) = Len(A) - 1 /\ Len(A) \in Nat
              /\ \A i \in 1 .. Len(Tail(A)) : Tail(A)[i] = A[i + 1]
          BY <3>2, <3>8, HeadTailProperties, LenProperties
        <4>2. \A i \in 1 .. Len(Tail(A)) : i + 1 \in 1 .. Len(A)
          BY <4>1
        <4> QED
          BY <3>4, <3>8, <4>1, <4>2
      <3> QED
        BY <3>5, <3>6, <3>7, <3>8
    <2> QED
      BY <2>1, <2>2 DEF RequestTypeOK, Bits
  <1> QED
    BY <1>2, <1>4, <1>5

LEMMA StepForeign ==
    ASSUME XbarInv, NEW in, NEW mv, Step(in, mv)
    PROVE  HolderInv' /\ NoForeignRequest'
  <1>1. HolderInv'
    BY StepHolder DEF HolderInv
  <1>2. NoForeignRequest'
    <2>1. \A s \in Slaves : o_sstb'[s] = 1 => o_scyc'[s] = 1
      BY DEF Step, XbarTick, SlaveOutputs, NextSstb, NextScyc, Bit
    <2> QED
      BY <2>1, StepHolder DEF NoForeignRequest
  <1> QED
    BY <1>1, <1>2

LEMMA StepOwn ==
    ASSUME XbarInv, NEW in, NEW mv, Step(in, mv)
    PROVE  OwnRequests'
  <1> SUFFICES ASSUME NEW n \in Masters
               PROVE  i_mreq'[n].m = n /\ r_data'[n].m = n /\ dcd_req'[n].m = n
    BY DEF OwnRequests
  <1>1. i_mreq[n].m = n /\ r_data[n].m = n /\ dcd_req[n].m = n
    BY DEF XbarInv, OwnRequests
  <1>2. i_mreq'[n].m = n
    BY <1>1 DEF Step, MasterOutputs, NoRequest
  <1>3. r_data'[n].m = n /\ dcd_req'[n].m = n
    BY <1>1 DEF Step, XbarTick, SkidBuffer, AddrDecode, skd_req
  <1> QED
    BY <1>2, <1>3

-----------------------------------------------------------------------------
(* Every request is in its place after the clock, too.                       *)
LEMMA StepRequests ==
    ASSUME XbarInv, NEW in, NEW mv, Step(in, mv)
    PROVE  EveryRequestInItsPlace'
  <1>1. ASSUME NEW n \in Masters, i_mcyc'[n] = 1, o_merr'[n] = 0
        PROVE  InFlight(n)' = out'[n] /\ lclpending'[n] = o_mack'[n] + Len(AtSlave(n)')
    <2>1. CASE i_mcyc[n] = 0
      <3>1. InFlight(n)' = <<>> /\ out'[n] = <<>> /\ lclpending'[n] = 0 /\ o_mack'[n] = 0
        BY <2>1, FreshCycle
      <3>2. Len(AtSlave(n)') = 0
        BY <2>1, FreshCycle, EmptySeq
      <3> QED
        BY <3>1, <3>2
    <2>2. CASE Alive(n)
      BY <1>1, <2>2, InFlightNext, PendingNext
    <2> QED
      BY <1>1, <2>1, <2>2, AliveBefore
  <1>2. \A n \in Masters : (i_mcyc'[n] = 1 /\ o_merr'[n] = 0 =>
           InFlight(n)' = out'[n] /\ lclpending'[n] = o_mack'[n] + Len(AtSlave(n)'))
    BY <1>1
  <1> QED
    BY <1>2 DEF EveryRequestInItsPlace

LEMMA InitXbar == Init => XbarInv
  <1> SUFFICES ASSUME Init PROVE XbarInv
    OBVIOUS
  <1>0. Full \in Nat /\ Full >= 7
    BY FullFacts
  <1>1. ArbiterInv
    BY InitArbiter
  <1>2. RequestTypeOK
    <2>1. Idle \in Msg /\ 0 \in 0 .. Full /\ <<>> \in Seq(Msg)
      BY <1>0, EmptySeq DEF Msg
    <2> QED
      BY <2>1 DEF Init, RequestTypeOK, Bits
  <1>3. OwnRequests
    BY DEF Init, OwnRequests, NoRequest
  <1>4. HolderInv /\ NoForeignRequest /\ ErrorAnswersARequest
    BY DEF Init, HolderInv, NoForeignRequest, ErrorAnswersARequest
  <1>5. MasterInv
    BY DEF Init, MasterInv, Alive
  <1>6. CountersAgree
    BY <1>0 DEF Init, CountersAgree
  <1>7. EveryRequestInItsPlace
    BY DEF Init, EveryRequestInItsPlace
  <1> QED
    BY <1>1, <1>2, <1>3, <1>4, <1>5, <1>6, <1>7 DEF XbarInv, RequestInv

LEMMA NextXbar == MaxOut <= Full /\ XbarInv /\ [Next]_vars => XbarInv'
  <1> SUFFICES ASSUME MaxOut <= Full, XbarInv, [Next]_vars PROVE XbarInv'
    OBVIOUS
  <1>1. CASE Next
    <2>1. PICK in, mv : Step(in, mv)
      BY <1>1 DEF Next, Step
    <2>2. ArbiterInv'
      BY <1>1, NextArbiter DEF XbarInv
    <2>3. RequestTypeOK' /\ OwnRequests' /\ HolderInv' /\ MasterInv' /\ CountersAgree'
      BY <2>1, StepRequestTypes, StepOwn, StepForeign, StepMaster, StepCounters
    <2>4. NoForeignRequest' /\ ErrorAnswersARequest' /\ EveryRequestInItsPlace'
      BY <2>1, StepForeign, StepErrorAnswers, StepRequests
    <2> QED
      BY <2>2, <2>3, <2>4 DEF XbarInv, RequestInv
  <1>2. CASE UNCHANGED vars
    <2> USE <1>2 DEF vars, mvars, dvars, avars, svars, rvars, cvars, XbarInv
    <2>1. ArbiterInv'
      BY NextArbiter
    <2>2. RequestTypeOK' /\ OwnRequests'
      BY DEF RequestTypeOK, OwnRequests, Full
    <2>3. HolderInv' /\ NoForeignRequest' /\ ErrorAnswersARequest'
      BY DEF HolderInv, RequestInv, NoForeignRequest, ErrorAnswersARequest
    <2>4. MasterInv' /\ CountersAgree'
      BY DEF MasterInv, Alive, CountersAgree, Full
    <2>5. EveryRequestInItsPlace'
      <3>1. \A n \in Masters : AtSlave(n)' = AtSlave(n) /\ InFlight(n)' = InFlight(n)
        BY DEF AtSlave, InFlight, One
      <3> QED
        BY <3>1 DEF RequestInv, EveryRequestInItsPlace
    <2> QED
      BY <2>1, <2>2, <2>3, <2>4, <2>5 DEF RequestInv
  <1> QED
    BY <1>1, <1>2

-----------------------------------------------------------------------------
(* The crossbar keeps every request: behind skid buffer, decoder, arbitration and
   registered slave outputs, with stalls, aborted cycles and bus errors of other
   masters, for any number of masters and slaves.  No request is lost, repeated,
   reordered or sent to a slave it does not name, and no master sees a bus error
   that answers nothing.  The masters keep no more requests unanswered than the
   pending counter of wbxbar.v can count; beyond that the code drops one.    *)
THEOREM XbarKeepsRequests == MaxOut <= Full => (Spec => []RequestInv)
  <1> SUFFICES ASSUME MaxOut <= Full PROVE Spec => []RequestInv
    OBVIOUS
  <1>1. Init => XbarInv
    BY InitXbar
  <1>2. XbarInv /\ [Next]_vars => XbarInv'
    BY NextXbar
  <1>3. XbarInv => RequestInv
    BY DEF XbarInv
  <1> QED
    BY <1>1, <1>2, <1>3, PTL DEF Spec

(* The same with the counter's flags: mempty, mnearfull and mfull, computed ahead of
   time from the old count, say what the count is, up to the last place of a burst. *)
THEOREM XbarCountsBursts == MaxOut <= Full => (Spec => []BurstInv)
  <1> SUFFICES ASSUME MaxOut <= Full PROVE Spec => []BurstInv
    OBVIOUS
  <1>1. Init => XbarInv
    BY InitXbar
  <1>2. XbarInv /\ [Next]_vars => XbarInv'
    BY NextXbar
  <1>3. XbarInv => BurstInv
    BY DEF XbarInv, RequestInv, BurstInv
  <1> QED
    BY <1>1, <1>2, <1>3, PTL DEF Spec
=============================================================================
