------------------------------- MODULE WbXbar -------------------------------
(* rtl/wbxbar.v, with the rtl/skidbuffer.v and rtl/addrdecode.v that it puts
   before every master: the Wishbone crossbar that joins the CPU and the debug
   bus to the peripherals (main.v: OPT_DBLBUFFER, OPT_LOWPOWER).

   Every master has a skid buffer, then a registered address decoder; the
   arbiter grants a decoded request its slave, and keeps the grant while
   answers are outstanding; slave outputs and master returns are registered.

   One step is one rising edge of i_clk.  The masters and the slaves are the
   environment: they follow the rules of bench/formal/fwb_slave.v.  The
   variables `out`, `tag` and `sq` belong to them.

   An address is the number of the slave it selects, or NS when it selects
   none; the rest of a request is the master that sent it and a tag that
   alternates, enough to see a request lost, repeated, reordered or misrouted.
   A slave answers a request with the request itself.                       *)
EXTENDS Integers, Sequences, RtlBits

CONSTANTS
    NM, NS,                 \* masters and slaves
    LGMAXBURST,             \* bits of the pending counters
    OPT_TIMEOUT,            \* clocks before a bus error, 0 = never
    TIMEOUT_WIDTH,          \* $clog2(OPT_TIMEOUT)
    OPT_STARVATION_TIMEOUT, \* count the wait for a grant, too
    MaxOut,                 \* bound: requests a master keeps unanswered
    Asks                    \* bound: the addresses the masters ask for

ASSUME SizeAssumption ==
    /\ NM \in Nat \ {0} /\ NS \in Nat \ {0}
    /\ LGMAXBURST \in Nat /\ LGMAXBURST >= 3
    /\ OPT_TIMEOUT \in Nat /\ TIMEOUT_WIDTH \in Nat
    /\ OPT_STARVATION_TIMEOUT \in Bits
    /\ MaxOut \in Nat /\ Asks \subseteq 0 .. NS

(* What LGMAXBURST >= 3 means for the powers of two, of which the provers know
   nothing.                                                                  *)
ASSUME BurstAssumption ==
    /\ 2 ^ LGMAXBURST \in Nat /\ 2 ^ LGMAXBURST >= 8 /\ (2 ^ LGMAXBURST) % 4 = 0

Masters  == 0 .. NM - 1
Slaves   == 0 .. NS - 1
Channels == 0 .. NS         \* NS: the channel of the addresses nobody owns

Request == [m : Masters, addr : Channels, tag : Bits]
Idle    == [m |-> -1, addr |-> -1, tag |-> -1]      \* OPT_LOWPOWER's zeros

VARIABLES
    i_mcyc, i_mstb, i_mreq, tag,            \* the masters' outputs
    out,                                    \* their unanswered requests
    r_valid, r_data,                        \* skid buffers
    dcd_stb, dcd_req,                       \* address decoders
    grant, mgrant, mindex, sgrant, sindex,  \* the arbiter
    o_scyc, o_sstb, o_sreq,                 \* outputs to the slaves
    o_mack, o_merr, o_mdata,                \* returns to the masters
    lclpending, mempty, mnearfull, mfull,   \* counting the unanswered
    deadlock_timer, timed_out,
    sq                                      \* the slaves' accepted requests

mvars == <<i_mcyc, i_mstb, i_mreq, tag, out>>
dvars == <<r_valid, r_data, dcd_stb, dcd_req>>
avars == <<grant, mgrant, mindex, sgrant, sindex>>
svars == <<o_scyc, o_sstb, o_sreq>>
rvars == <<o_mack, o_merr, o_mdata>>
cvars == <<lclpending, mempty, mnearfull, mfull, deadlock_timer, timed_out>>
vars  == <<mvars, dvars, avars, svars, rvars, cvars, sq>>

-----------------------------------------------------------------------------
(* What the slaves drive in one clock: a stall and an answer each.          *)
Answers    == {"none", "ack", "err"}
SlaveInput == [stall : [Slaves -> Bits], resp : [Slaves -> Answers]]

s_stall(in, s) == o_sstb[s] = 1 /\ in.stall[s] = 1
s_ack(in, s)   == s < NS /\ o_scyc[s] = 1 /\ in.resp[s] = "ack"
s_err(in, s)   == s < NS => o_scyc[s] = 1 /\ in.resp[s] = "err"

(* A slave's accepted requests, this clock's included; a slave answers the
   oldest.                                                                  *)
Accepted(in, s) == IF o_scyc[s] = 1 /\ o_sstb[s] = 1 /\ in.stall[s] = 0
                   THEN Append(sq[s], o_sreq[s]) ELSE sq[s]
s_data(in, s)   == IF s < NS /\ in.resp[s] # "none"
                   THEN Head(Accepted(in, s)) ELSE Idle

SlaveRules(in) ==
    \A s \in Slaves :
        /\ in.resp[s] # "none" => o_scyc[s] = 1 /\ Accepted(in, s) # <<>>
        /\ o_sstb[s] = 0 => in.stall[s] = 0     \* nothing to stall

-----------------------------------------------------------------------------
(* DECODE_REQUEST: what each master asks of the arbiter.                    *)
request(n) == IF i_mcyc[n] = 1 /\ dcd_stb[n] = 1 THEN {dcd_req[n].addr} ELSE {}
m_stb(n)   == mfull[n] = 0 /\ i_mcyc[n] = 1 /\ dcd_stb[n] = 1

(* Some master before n asks for slave s and could act upon it.             *)
requested(n, s) ==
    \E k \in Masters : /\ k < n
                       /\ s \in request(k)
                       /\ s \in grant[k] \/ mgrant[k] = 0 \/ mempty[k] = 1

-----------------------------------------------------------------------------
(* DOUBLE_BUFFERRED_STALL: the stall of the decoder's output.               *)
m_stall(in, n) ==
    /\ o_merr[n] = 0
    /\ IF NS \in grant[n] THEN TRUE
       ELSE IF mgrant[n] = 1 /\ mindex[n] \in request(n)
            THEN mfull[n] = 1 \/ (mindex[n] < NS => s_stall(in, mindex[n]))
            ELSE m_stb(n)

skd_stall(in, n) == dcd_stb[n] = 1 /\ m_stall(in, n) /\ i_mcyc[n] = 1
skd_stb(n)       == i_mcyc[n] = 1 /\ (i_mstb[n] = 1 \/ r_valid[n] = 1)
skd_req(n)       == IF r_valid[n] = 1 THEN r_data[n] ELSE i_mreq[n]

(* skidbuffer, OPT_OUTREG = 0: keep what arrives while the output stalls.  It
   is held in reset while the master's CYC is low.                          *)
SkidBufferBug(in) ==                    \* reloads a full skid buffer
    /\ r_valid' = [n \in Masters |->
                     IF i_mcyc[n] = 0 THEN 0
                     ELSE Bit(skd_stb(n) /\ skd_stall(in, n))]
    /\ r_data' = [n \in Masters |-> i_mreq[n]]

SkidBuffer(in) ==
    /\ r_valid' = [n \in Masters |->
                     IF i_mcyc[n] = 0 THEN 0
                     ELSE IF /\ i_mstb[n] = 1 /\ r_valid[n] = 0
                             /\ skd_stb(n) /\ skd_stall(in, n) THEN 1
                     ELSE IF ~skd_stall(in, n) THEN 0
                     ELSE r_valid[n]]
    /\ r_data' = [n \in Masters |->
                     IF r_valid[n] = 0 THEN i_mreq[n] ELSE r_data[n]]

(* addrdecode, OPT_REGISTERED.                                              *)
AddrDecode(in) ==
    /\ dcd_stb' = [n \in Masters |->
                     IF skd_stall(in, n) THEN dcd_stb[n] ELSE Bit(skd_stb(n))]
    /\ dcd_req' = [n \in Masters |->
                     IF skd_stall(in, n) THEN dcd_req[n] ELSE skd_req(n)]

-----------------------------------------------------------------------------
(* SLAVE_GRANT                                                              *)
drop_sgrant(s) ==
    /\ sgrant[s] = 1
    /\ \/ i_mcyc[sindex[s]] = 0
       \/ /\ s \notin request(sindex[s])
          /\ m_stb(sindex[s])
          /\ mempty[sindex[s]] = 1

NextSgrant(s) ==
    IF drop_sgrant(s) THEN 0
    ELSE IF \E n \in Masters : s \in request(n) /\ (mgrant[n] = 0 \/ mempty[n] = 1)
         THEN 1 ELSE sgrant[s]

(* ARBITRATE_REQUESTS                                                       *)
stay_on_channel(n) ==
    \/ request(n) \cap grant[n] # {}
    \/ mgrant[n] = 1 /\ mempty[n] = 0

requested_channel_is_availableBug(n) ==     \* ignores the other masters
    \E s \in request(n) : s = NS \/ sgrant[s] = 0
requested_channel_is_available(n) ==
    IF NM < 2 THEN m_stb(n)
    ELSE \E s \in request(n) : s = NS \/ (sgrant[s] = 0 /\ ~requested(n, s))

NextGrant(n) ==
    IF i_mcyc[n] = 0 THEN {}
    ELSE IF stay_on_channel(n) THEN grant[n]
    ELSE IF requested_channel_is_available(n) THEN request(n)
    ELSE IF m_stb(n) THEN {}
    ELSE grant[n]

NextMgrant(n) ==
    IF i_mcyc[n] = 0 THEN 0
    ELSE IF stay_on_channel(n) THEN mgrant[n]
    ELSE IF requested_channel_is_available(n) THEN 1
    ELSE IF m_stb(n) THEN 0
    ELSE mgrant[n]

(* NEW_MINDEX_CODE, NEW_SINDEX_CODE: the OR of the indices in a set that has
   at most one member.                                                      *)
regrantM(n) ==
    IF mgrant[n] = 1 /\ mempty[n] = 0 THEN {}
    ELSE {c \in request(n) : \/ c \in grant[n]
                             \/ c < NS /\ sgrant[c] = 0 /\ ~requested(n, c)}

NextMindex(n) ==
    IF NS = 1 THEN 0
    ELSE IF regrantM(n) = {} THEN mindex[n]
    ELSE CHOOSE c \in regrantM(n) : TRUE

regrantS(s) ==
    {n \in Masters : /\ s \in request(n)
                     /\ s \in grant[n] \/ (sgrant[s] = 0 /\ ~requested(n, s))
                     /\ mgrant[n] = 0 \/ mempty[n] = 1}

NextSindex(s) ==
    IF NM = 1 THEN 0
    ELSE IF regrantS(s) = {} THEN sindex[s]
    ELSE CHOOSE n \in regrantS(s) : TRUE

Arbitrate ==
    /\ sgrant' = [s \in Slaves |-> NextSgrant(s)]
    /\ grant'  = [n \in Masters |-> NextGrant(n)]
    /\ mgrant' = [n \in Masters |-> NextMgrant(n)]
    /\ mindex' = [n \in Masters |-> NextMindex(n)]
    /\ sindex' = [s \in Slaves |-> NextSindex(s)]

-----------------------------------------------------------------------------
(* The outputs to slave s, parts one and two.                               *)
NextScyc(in, s) == Bit(sgrant[s] = 1 /\ i_mcyc[sindex[s]] = 1 /\ ~s_err(in, s))

NextSstb(in, s) ==
    IF NextScyc(in, s) = 0 THEN 0
    ELSE IF s_stall(in, s) THEN o_sstb[s]
    ELSE Bit(s \in request(sindex[s]) /\ mfull[sindex[s]] = 0)

NextSreq(in, s) ==
    IF sgrant[s] = 0 THEN Idle
    ELSE IF s_stall(in, s) THEN o_sreq[s]
    ELSE dcd_req[sindex[s]]

SlaveOutputs(in) ==
    /\ o_scyc' = [s \in Slaves |-> NextScyc(in, s)]
    /\ o_sstb' = [s \in Slaves |-> NextSstb(in, s)]
    /\ o_sreq' = [s \in Slaves |-> NextSreq(in, s)]

(* The returns to master n.                                                 *)
Expired(n) == NS \in grant[n] \/ (timed_out[n] = 1 /\ o_mack[n] = 0)

NextMack(in, n) ==
    Bit(/\ i_mcyc[n] = 1 /\ o_merr[n] = 0 /\ ~Expired(n)
        /\ mgrant[n] = 1 /\ s_ack(in, mindex[n]))
NextMerr(in, n) ==
    Bit(/\ i_mcyc[n] = 1 /\ o_merr[n] = 0
        /\ Expired(n) \/ (mgrant[n] = 1 /\ s_err(in, mindex[n])))

Returns(in) ==
    /\ o_mack'  = [n \in Masters |-> NextMack(in, n)]
    /\ o_merr'  = [n \in Masters |-> NextMerr(in, n)]
    /\ o_mdata' = [n \in Masters |-> IF mgrant[n] = 0 THEN Idle
                                     ELSE s_data(in, mindex[n])]

-----------------------------------------------------------------------------
(* COUNT_PENDING_TRANSACTIONS: a burst of 2^LGMAXBURST - 1 at most.         *)
Full == 2 ^ LGMAXBURST - 1

Issued(in, n)  == m_stb(n) /\ ~m_stall(in, n)
Quiet(n)       == i_mcyc[n] = 0 \/ o_merr[n] = 1
CountsUp(in, n) == Issued(in, n) /\ o_mack[n] = 0
CountsDn(in, n) == ~Issued(in, n) /\ o_mack[n] = 1

(* &lclpending[LGMAXBURST-1:2] && lclpending[1:0] != 0                      *)
AlmostNearFullBug(n) == lclpending[n] \div 4 = Full \div 4 /\ lclpending[n] % 4 = 3
AlmostNearFull(n)    == lclpending[n] \div 4 = Full \div 4 /\ lclpending[n] % 4 # 0

CountPending(in) ==
    /\ lclpending' = [n \in Masters |->
          IF Quiet(n) THEN 0
          ELSE IF CountsUp(in, n) THEN (lclpending[n] + 1) % 2 ^ LGMAXBURST
          ELSE IF CountsDn(in, n) THEN (lclpending[n] - 1) % 2 ^ LGMAXBURST
          ELSE lclpending[n]]
    /\ mempty' = [n \in Masters |->
          IF Quiet(n) THEN 1
          ELSE IF CountsUp(in, n) THEN 0
          ELSE IF CountsDn(in, n) THEN Bit(lclpending[n] = 1)
          ELSE mempty[n]]
    /\ mnearfull' = [n \in Masters |->
          IF Quiet(n) THEN 0
          ELSE IF CountsUp(in, n) THEN Bit(AlmostNearFull(n))
          ELSE IF CountsDn(in, n) THEN mfull[n]
          ELSE mnearfull[n]]
    /\ mfull' = [n \in Masters |->
          IF Quiet(n) THEN 0
          ELSE IF CountsUp(in, n) THEN mnearfull[n]
          ELSE IF CountsDn(in, n) THEN 0
          ELSE mfull[n]]

(* CHECK_TIMEOUT: the deadlock timer has TIMEOUT_WIDTH bits.                *)
TimerStart == OPT_TIMEOUT % 2 ^ TIMEOUT_WIDTH

ProgressBug(in, n) ==                   \* a stalled request counts as issued
    \/ i_mcyc[n] = 0
    \/ lclpending[n] = 0 /\ ~m_stb(n)
    \/ m_stb(n)
    \/ o_mack[n] = 1 \/ o_merr[n] = 1
    \/ OPT_STARVATION_TIMEOUT = 0 /\ mgrant[n] = 0

Progress(in, n) ==
    \/ i_mcyc[n] = 0
    \/ lclpending[n] = 0 /\ ~m_stb(n)
    \/ Issued(in, n)
    \/ o_mack[n] = 1 \/ o_merr[n] = 1
    \/ OPT_STARVATION_TIMEOUT = 0 /\ mgrant[n] = 0

CheckTimeout(in) ==
    IF OPT_TIMEOUT = 0 THEN UNCHANGED <<deadlock_timer, timed_out>>
    ELSE /\ deadlock_timer' = [n \in Masters |->
               IF Progress(in, n) THEN TimerStart
               ELSE IF deadlock_timer[n] > 0 THEN deadlock_timer[n] - 1
               ELSE deadlock_timer[n]]
         /\ timed_out' = [n \in Masters |->
               IF Progress(in, n) THEN 0
               ELSE IF deadlock_timer[n] > 0 THEN Bit(deadlock_timer[n] <= 1)
               ELSE timed_out[n]]

-----------------------------------------------------------------------------
(* The environment.  A master keeps a stalled request unchanged, drops CYC
   after a bus error, and may abandon a bus cycle at any other time.        *)
o_mstall(n)     == r_valid[n]
Stalled(n)      == i_mstb[n] = 1 /\ o_mstall(n) = 1
NextOut(n) ==
    LET taken == IF i_mstb[n] = 1 /\ o_mstall(n) = 0
                 THEN Append(out[n], i_mreq[n]) ELSE out[n]
    IN  IF i_mcyc[n] = 0 \/ o_merr[n] = 1 THEN <<>>
        ELSE IF o_mack[n] = 1 /\ taken # <<>> THEN Tail(taken) ELSE taken

NoRequest(n) == [m |-> n, addr |-> 0, tag |-> 0]    \* while STB is low

(* Master n's next move: "drop" CYC, keep CYC and ask for nothing ("wait"), or
   "ask" for address a.                                                     *)
Moves == [kind : {"drop", "wait"}, a : {0}] \cup [kind : {"ask"}, a : Asks]

MasterRules(mv) ==
    \A n \in Masters :
        LET alive == i_mcyc[n] = 1 /\ o_merr[n] = 0 IN
        /\ mv[n].kind = "wait" => alive /\ ~Stalled(n)
        /\ mv[n].kind = "ask" =>
               /\ ~(i_mcyc[n] = 1 /\ o_merr[n] = 1)
               /\ IF alive /\ Stalled(n) THEN mv[n].a = i_mreq[n].addr
                  ELSE alive => Len(NextOut(n)) < MaxOut

NewRequest(mv, n) == mv[n].kind = "ask" /\ ~(i_mcyc[n] = 1 /\ Stalled(n))

MasterOutputs(mv) ==
    /\ i_mcyc' = [n \in Masters |-> Bit(mv[n].kind # "drop")]
    /\ i_mstb' = [n \in Masters |-> Bit(mv[n].kind = "ask")]
    /\ i_mreq' = [n \in Masters |->
                    IF NewRequest(mv, n) THEN [m |-> n, addr |-> mv[n].a, tag |-> tag[n]]
                    ELSE IF mv[n].kind = "ask" THEN i_mreq[n]
                    ELSE NoRequest(n)]
    /\ tag' = [n \in Masters |-> IF NewRequest(mv, n) THEN 1 - tag[n] ELSE tag[n]]
    /\ out' = [n \in Masters |->
                 IF mv[n].kind = "drop" THEN <<>> ELSE NextOut(n)]

(* A slave forgets its accepted requests when its CYC goes low, and after an
   error.                                                                   *)
SlaveQueues(in) ==
    sq' = [s \in Slaves |->
             IF o_scyc[s] = 0 \/ in.resp[s] = "err" THEN <<>>
             ELSE IF in.resp[s] = "ack" THEN Tail(Accepted(in, s))
             ELSE Accepted(in, s)]

-----------------------------------------------------------------------------
Init ==
    /\ i_mcyc = [n \in Masters |-> 0] /\ i_mstb = [n \in Masters |-> 0]
    /\ i_mreq = [n \in Masters |-> NoRequest(n)]
    /\ tag = [n \in Masters |-> 0] /\ out = [n \in Masters |-> <<>>]
    /\ r_valid = [n \in Masters |-> 0] /\ r_data = [n \in Masters |-> NoRequest(n)]
    /\ dcd_stb = [n \in Masters |-> 0] /\ dcd_req = [n \in Masters |-> NoRequest(n)]
    /\ grant = [n \in Masters |-> {}] /\ mgrant = [n \in Masters |-> 0]
    /\ mindex \in [Masters -> IF NS = 1 THEN {0} ELSE Channels]   \* never
    /\ sindex \in [Slaves -> Masters]                             \* initialised
    /\ sgrant = [s \in Slaves |-> 0]
    /\ o_scyc = [s \in Slaves |-> 0] /\ o_sstb = [s \in Slaves |-> 0]
    /\ o_sreq = [s \in Slaves |-> Idle]
    /\ o_mack = [n \in Masters |-> 0] /\ o_merr = [n \in Masters |-> 0]
    /\ o_mdata = [n \in Masters |-> Idle]
    /\ lclpending = [n \in Masters |-> 0] /\ mempty = [n \in Masters |-> 1]
    /\ mnearfull = [n \in Masters |-> 0] /\ mfull = [n \in Masters |-> 0]
    /\ deadlock_timer = [n \in Masters |-> TimerStart]
    /\ timed_out = [n \in Masters |-> 0]
    /\ sq = [s \in Slaves |-> <<>>]

(* One clock of the crossbar itself, whatever its masters do next.          *)
XbarTick(in) ==
    /\ SkidBuffer(in)
    /\ AddrDecode(in)
    /\ Arbitrate
    /\ SlaveOutputs(in)
    /\ Returns(in)
    /\ CountPending(in)
    /\ CheckTimeout(in)

Next ==
    \E in \in SlaveInput :
        /\ SlaveRules(in)
        /\ XbarTick(in)
        /\ SlaveQueues(in)
        /\ \E mv \in [Masters -> Moves] : MasterRules(mv) /\ MasterOutputs(mv)

Spec == Init /\ [][Next]_vars

-----------------------------------------------------------------------------
TypeOK ==
    /\ i_mcyc \in [Masters -> Bits] /\ i_mstb \in [Masters -> Bits]
    /\ i_mreq \in [Masters -> Request] /\ tag \in [Masters -> Bits]
    /\ out \in [Masters -> Seq(Request)]
    /\ r_valid \in [Masters -> Bits] /\ r_data \in [Masters -> Request]
    /\ dcd_stb \in [Masters -> Bits] /\ dcd_req \in [Masters -> Request]
    /\ grant \in [Masters -> SUBSET Channels] /\ mgrant \in [Masters -> Bits]
    /\ mindex \in [Masters -> Channels] /\ sindex \in [Slaves -> Masters]
    /\ sgrant \in [Slaves -> Bits]
    /\ o_scyc \in [Slaves -> Bits] /\ o_sstb \in [Slaves -> Bits]
    /\ o_sreq \in [Slaves -> Request \cup {Idle}]
    /\ o_mack \in [Masters -> Bits] /\ o_merr \in [Masters -> Bits]
    /\ o_mdata \in [Masters -> Request \cup {Idle}]
    /\ lclpending \in [Masters -> 0 .. Full] /\ mempty \in [Masters -> Bits]
    /\ mnearfull \in [Masters -> Bits] /\ mfull \in [Masters -> Bits]
    /\ deadlock_timer \in [Masters -> 0 .. TimerStart]
    /\ timed_out \in [Masters -> Bits]
    /\ sq \in [Slaves -> Seq(Request)]

(* The two views of the arbiter, grant/mgrant/mindex by master and sgrant/
   sindex by slave, kept by separate always blocks, never disagree: a slave
   belongs to at most one master, and the returns of a master are taken from
   the slave that its requests were sent to.                                *)
GrantsAgree ==
    /\ \A n \in Masters : /\ \A c, d \in grant[n] : c = d
                          /\ mgrant[n] = 1 <=> grant[n] # {}
    /\ \A n \in Masters : \A s \in grant[n] :
          s < NS => mindex[n] = s /\ sgrant[s] = 1 /\ sindex[s] = n
    /\ \A s \in Slaves : sgrant[s] = 1 => s \in grant[sindex[s]]

(* The inductive invariant behind GrantsAgree: the types of what the arbiter
   reads, and that a full master is not empty and holds a channel.          *)
ArbiterTypeOK ==
    /\ i_mreq \in [Masters -> Request] /\ tag \in [Masters -> Bits]
    /\ i_mcyc \in [Masters -> Bits]
    /\ r_data \in [Masters -> Request]
    /\ dcd_stb \in [Masters -> Bits] /\ dcd_req \in [Masters -> Request]
    /\ grant \in [Masters -> SUBSET Channels] /\ mgrant \in [Masters -> Bits]
    /\ mindex \in [Masters -> Channels] /\ sindex \in [Slaves -> Masters]
    /\ sgrant \in [Slaves -> Bits]
    /\ mempty \in [Masters -> Bits] /\ mnearfull \in [Masters -> Bits]
    /\ mfull \in [Masters -> Bits] /\ o_merr \in [Masters -> Bits]

FullIsGranted ==
    \A n \in Masters : mfull[n] = 1 => mempty[n] = 0 /\ mgrant[n] = 1

ArbiterInv == ArbiterTypeOK /\ FullIsGranted /\ GrantsAgree

(* The flags derived from the pending counter are what the counter says, up to
   the last place: the burst limit stalls before the counter can wrap.      *)
CountersAgree ==
    \A n \in Masters :
        /\ mempty[n] = 1 <=> lclpending[n] = 0
        /\ mnearfull[n] = 1 <=> lclpending[n] >= Full - 1
        /\ mfull[n] = 1 <=> lclpending[n] = Full

(* Where a master's unanswered requests are, oldest first: in the answer that
   is on its way back, in the slave, in the slave's request register, in the
   decoder, in the skid buffer.                                             *)
One(valid, req) == IF valid = 1 THEN <<req>> ELSE <<>>

AtSlave(n) == IF \E s \in grant[n] : s < NS /\ o_scyc[s] = 1
              THEN LET s == CHOOSE s \in grant[n] : TRUE
                   IN  sq[s] \o One(o_sstb[s], o_sreq[s])
              ELSE <<>>

InFlight(n) == One(o_mack[n], o_mdata[n]) \o AtSlave(n)
                   \o One(dcd_stb[n], dcd_req[n]) \o One(r_valid[n], r_data[n])

(* While a bus cycle is alive (no error yet), every request the master handed
   over is in exactly one place, in order, and nothing else is: across skid
   buffer, decoder, arbitration, stalls and another master's aborts, none is
   lost, repeated, reordered or answered with another's answer; and the counter
   that keeps the grant counts exactly those past the decoder.              *)
EveryRequestInItsPlace ==
    \A n \in Masters :
        i_mcyc[n] = 1 /\ o_merr[n] = 0 =>
            /\ InFlight(n) = out[n]
            /\ lclpending[n] = o_mack[n] + Len(AtSlave(n))

(* A slave is only asked what is addressed to it, by the master that holds it;
   two masters never share a bus cycle.                                     *)
NoForeignRequest ==
    \A s \in Slaves :
        o_sstb[s] = 1 => /\ o_scyc[s] = 1
                         /\ o_sreq[s].addr = s
                         /\ \A i \in 1 .. Len(sq[s]) : sq[s][i].m = o_sreq[s].m

(* A bus error always answers a request: a master that has every answer it
   asked for never sees o_merr, whatever the other masters provoke.         *)
ErrorAnswersARequest ==
    \A n \in Masters : o_merr[n] = 1 /\ i_mcyc[n] = 1 => out[n] # <<>>

(* What a master may rely on whatever the others do: its requests go to the slave
   they name and to no other, each of them is in exactly one place until it is
   answered, in order, and an error always answers one.                      *)
RequestInv == NoForeignRequest /\ ErrorAnswersARequest /\ EveryRequestInItsPlace

(* The same at the limit of a burst, where the pending counter must stop the
   master one request before it would wrap.                                  *)
BurstInv == ErrorAnswersARequest /\ EveryRequestInItsPlace /\ CountersAgree
=============================================================================
