--------------------------- MODULE WbuExecProofs ---------------------------
(* For every size of the FIFO, the watchdog and the counters: the engine's
   one-clock-ahead flags agree with what is issued and answered, no cycle ends
   while an answer is due, and every request is the one the codewords ask for. *)
EXTENDS WbuExec, SequenceTheorems, TLAPS

LEMMA PlusType == ASSUME NEW a \in Nat, NEW d \in Nat
                  PROVE  Plus(a, d) \in Address
  BY ExecAssumption DEF Plus, Address

LEMMA AppendType == ASSUME NEW S, NEW s \in Seq(S), NEW e \in S
                    PROVE  Append(s, e) \in Seq(S)
  OBVIOUS

LEMMA NoneNotCodeword == None \notin Codeword
  BY DEF None, Codeword

(* What the types of the inputs say.                                         *)
LEMMA WordType ==
    ASSUME NEW w \in Codeword \cup {None}
    PROVE  /\ w.val \in Nat /\ w.inc \in Bits
           /\ w.op \in {"abs", "rel", "write", "read", "other", "none"}
           /\ w.op = "read" => w.val >= 1
           /\ w \in Codeword => w.op # "none"
           /\ w.op \in {"abs", "rel"} => w.val \in Address
  <1>1. CASE w = None
    BY <1>1, NoneNotCodeword DEF None, Bits
  <1>2. CASE w \in [op : {"abs", "rel"}, val : Address, inc : {0}]
    BY <1>2, ExecAssumption DEF Bits, Address
  <1>3. CASE w \in [op : {"write"}, val : Bits, inc : Bits]
    BY <1>3 DEF Bits
  <1>4. CASE w \in [op : {"read"}, val : Lens, inc : Bits]
    <2>1. w.val \in Lens /\ w.op = "read" /\ w.inc \in Bits
      BY <1>4
    <2>2. w.val \in 1 .. ACKS - 1 /\ ACKS \in Nat
      BY <2>1, ExecAssumption
    <2> QED
      BY <2>1, <2>2
  <1>5. CASE w \in [op : {"other"}, val : {0}, inc : {0}]
    BY <1>5 DEF Bits
  <1> QED
    BY <1>1, <1>2, <1>3, <1>4, <1>5 DEF Codeword

LEMMA RequestType == TypeOK => Request \in WbRequest
  BY DEF TypeOK, Request, WbRequest, Bits

(* The bus's queue, one clock on.                                            *)
LEMMA AcceptedFacts ==
    ASSUME TypeOK, NEW in \in Input, BusRules(in)
    PROVE  /\ Accepted(in) \in Seq(WbRequest)
           /\ Len(Accepted(in)) = Len(pending) + (IF accept(in) THEN 1 ELSE 0)
           /\ Len(Accepted(in)) <= MaxOut
           /\ Accepted(in) # <<>> => Len(Accepted(in)) > 0
           /\ Accepted(in) # <<>> =>
                 /\ Tail(Accepted(in)) \in Seq(WbRequest)
                 /\ Len(Tail(Accepted(in))) = Len(Accepted(in)) - 1
  <1>1. Request \in WbRequest
    BY RequestType
  <1> QED
    BY <1>1, ExecAssumption DEF TypeOK, Accepted, BusRules

LEMMA AskedFacts ==
    ASSUME TypeOK
    PROVE  /\ Asked \in Seq(WbRequest)
           /\ Len(Asked) = IF o_data.op = "write" THEN 1
                           ELSE IF o_data.op = "read" THEN o_data.val ELSE 0
           /\ Len(Asked) = 0 => Asked = <<>>
  <1>1. o_data.val \in Nat /\ o_data.inc \in Bits /\ want \in Address
    BY WordType DEF TypeOK
  <1>2. CASE o_data.op = "write"
    BY <1>1, <1>2 DEF Asked, WbRequest, Bits
  <1>3. CASE o_data.op = "read"
    <2>1. \A i \in 1 .. o_data.val :
             Plus(want, (i - 1) * o_data.inc) \in Address
      <3> SUFFICES ASSUME NEW i \in 1 .. o_data.val
                   PROVE  Plus(want, (i - 1) * o_data.inc) \in Address
        OBVIOUS
      <3>1. (i - 1) * o_data.inc \in Nat
        BY <1>1 DEF Bits
      <3> QED
        BY <3>1, <1>1, PlusType DEF Address
    <2>2. Asked = [i \in 1 .. o_data.val |->
                     [we |-> 0, data |-> 0,
                      addr |-> Plus(want, (i - 1) * o_data.inc)]]
      BY <1>3 DEF Asked
    <2>3. Asked \in [1 .. o_data.val -> WbRequest]
      BY <2>1, <2>2 DEF WbRequest, Bits
    <2>4. Asked \in Seq(WbRequest) /\ Len(Asked) = o_data.val
      BY <1>1, <2>3, SeqDef, LenProperties
    <2> QED
      BY <1>3, <2>4, EmptySeq
  <1>4. CASE o_data.op \notin {"write", "read"}
    BY <1>4 DEF Asked
  <1> QED
    BY <1>2, <1>3, <1>4
-----------------------------------------------------------------------------
LEMMA InitExecInv == Init => ExecInv
  <1> SUFFICES ASSUME Init PROVE ExecInv
    OBVIOUS
  <1>1. TypeOK
    BY ExecAssumption, EmptySeq DEF Init, TypeOK, Bits, Address
  <1>2. AcksAgree /\ CountInv
    BY DEF Init, AcksAgree, CountInv
  <1> QED
    BY <1>1, <1>2 DEF ExecInv

(* One clock, register group by register group.                              *)
LEMMA TypeNext ==
    ASSUME ExecInv, NEW in \in Input, Clock(in)
    PROVE  TypeOK'
  <1> USE DEF ExecInv, Bits
  <1>0. TypeOK /\ CountInv /\ BusRules(in)
    BY DEF Clock
  <1>1. /\ o_data.val \in Nat /\ o_data.inc \in Bits
        /\ o_data.op \in {"abs", "rel"} => o_data.val \in Address
    BY <1>0, WordType DEF TypeOK
  <1>2. /\ wb_state' \in {"IDLE", "READ", "WRITE", "FLUSH"}
        /\ o_wb_cyc' \in Bits /\ o_wb_stb' \in Bits /\ o_busy' \in Bits
        /\ o_wb_data' \in Nat
    BY <1>0, <1>1 DEF Clock, TypeOK, Fsm, FsmReset, FsmIdle, FsmRead, FsmWrite,
                      FsmFlush, Bit
  <1>3. NextAddr(in) \in Address
    <2>1. o_wb_addr \in Nat /\ o_wb_addr \in Address
      BY <1>0 DEF TypeOK, Address
    <2> QED
      BY <2>1, <1>1, PlusType DEF NextAddr
  <1>4. /\ o_wb_we' \in Bits /\ r_inc' \in Bits /\ r_new_addr' \in Bits
        /\ o_wb_addr' \in Address
    BY <1>0, <1>1, <1>3 DEF Clock, Addresses, TypeOK, Bit
  <1>5. o_stb' \in Bits
    BY <1>0 DEF Clock, Answers, Bit
  <1>6. /\ r_acks_needed' \in 0 .. ACKS - 1 /\ r_len' \in Nat
        /\ zero_acks' \in Bits /\ last_ack' \in Bits
        /\ single_read_request' \in Bits /\ last_read_request' \in Bits
    BY <1>0, <1>1, ExecAssumption DEF Clock, Counting, AckCount, ZeroAcks, LastAck,
                      LastRead, TypeOK, Bit
  <1>7. /\ o_data' \in Codeword \cup {None} /\ ring' \in Seq(Codeword)
        /\ o_empty_n' \in Bits
        /\ o_empty_n' = 1 => o_data' \in Codeword
    <2>1. ring # <<>> => Head(ring) \in Codeword /\ Tail(ring) \in Seq(Codeword)
      BY <1>0 DEF TypeOK
    <2>2. in.word # None => in.word \in Codeword
      BY DEF Input
    <2>3. /\ o_data' \in Codeword \cup {None} /\ o_empty_n' \in Bits
          /\ o_empty_n' = 1 => o_data' \in Codeword
      BY <1>0, <2>1 DEF Clock, Fifo, fifo_rd, i_stb, TypeOK, Bit
    <2> DEFINE moves == (fifo_rd \/ o_empty_n = 0) /\ ring # <<>>
               kept  == IF moves THEN Tail(ring) ELSE ring
    <2>4. kept \in Seq(Codeword)
      BY <1>0, <2>1 DEF TypeOK
    <2>5. \/ ring' = <<>> \/ ring' = kept
          \/ in.word # None /\ ring' = Append(kept, in.word)
      BY DEF Clock, Fifo
    <2>6. ring' \in Seq(Codeword)
      BY <2>2, <2>4, <2>5, AppendType, EmptySeq
    <2> QED
      BY <2>3, <2>6
  <1>8. r_wdt_timer' \in 0 .. WDT - 1 /\ r_wdt_reset' \in Bits
    BY <1>0, ExecAssumption DEF Clock, Watchdog, TypeOK, Bit
  <1>9. pending' \in Seq(WbRequest) /\ Len(pending') <= MaxOut
    BY <1>0, AcceptedFacts, EmptySeq, ExecAssumption DEF Clock, Bus, BusRules
  <1>10. todo' \in Seq(WbRequest) /\ want' \in Address
    <2>1. Asked \in Seq(WbRequest) /\ Len(Asked) \in Nat
      BY <1>0, AskedFacts
    <2>2. todo # <<>> => Tail(todo) \in Seq(WbRequest)
      BY <1>0 DEF TypeOK
    <2>3. o_data.inc * Len(Asked) \in Nat
      BY <1>1, <2>1
    <2>4. want \in Nat /\ want \in Address
      BY <1>0 DEF TypeOK, Address
    <2>5. Plus(want, o_data.val) \in Address
          /\ Plus(want, o_data.inc * Len(Asked)) \in Address
      BY <1>1, <2>3, <2>4, PlusType
    <2>6. want' \in Address
      BY <1>1, <1>3, <2>4, <2>5 DEF Clock, Observe
    <2> DEFINE left == IF accept(in) /\ todo # <<>> THEN Tail(todo) ELSE todo
    <2>7. left \in Seq(WbRequest)
      BY <1>0, <2>2 DEF TypeOK
    <2>8. todo' = <<>> \/ todo' = left \/ todo' = left \o Asked
      BY DEF Clock, Observe
    <2>9. left \o Asked \in Seq(WbRequest)
      BY <2>1, <2>7, ConcatProperties
    <2>10. todo' \in Seq(WbRequest)
      BY <2>7, <2>8, <2>9, EmptySeq
    <2> QED
      BY <2>6, <2>10
  <1> QED
    BY <1>2, <1>4, <1>5, <1>6, <1>7, <1>8, <1>9, <1>10 DEF TypeOK

(* The observer's list, one clock on, by length.                             *)
LEMMA TodoNext ==
    ASSUME ExecInv, NEW in \in Input, Clock(in), r_wdt_reset = 0, ~i_wb_err(in)
    PROVE  Len(todo') = (IF accept(in) /\ todo # <<>> THEN Len(todo) - 1
                         ELSE Len(todo))
                        + (IF fifo_rd THEN Len(Asked) ELSE 0)
  <1> DEFINE left == IF accept(in) /\ todo # <<>> THEN Tail(todo) ELSE todo
  <1>1. todo \in Seq(WbRequest) /\ Asked \in Seq(WbRequest)
    BY AskedFacts DEF ExecInv, TypeOK
  <1>2. left \in Seq(WbRequest)
        /\ Len(left) = IF accept(in) /\ todo # <<>> THEN Len(todo) - 1 ELSE Len(todo)
    BY <1>1
  <1>3. todo' = IF fifo_rd THEN left \o Asked ELSE left
    BY DEF Clock, Observe
  <1>4. Len(left \o Asked) = Len(left) + Len(Asked)
    BY <1>1, <1>2, ConcatProperties
  <1>5. CASE fifo_rd
    BY <1>1, <1>2, <1>3, <1>4, <1>5
  <1>6. CASE ~fifo_rd
    BY <1>1, <1>2, <1>3, <1>6
  <1> QED
    BY <1>5, <1>6

LEMMA AcksNext ==
    ASSUME ExecInv, NEW in \in Input, Clock(in)
    PROVE  AcksAgree'
  <1> USE DEF ExecInv, Bits
  <1>1. zero_acks' = 1 <=> r_acks_needed' = 0
    <2>1. CASE r_wdt_reset = 1 \/ o_wb_cyc = 0
      BY <2>1 DEF Clock, Counting, AckCount, ZeroAcks
    <2>2. CASE r_wdt_reset = 0 /\ o_wb_cyc = 1
      <3>1. o_wb_stb = 1 /\ in.stall = 0 => r_acks_needed < ACKS - 1
        BY <2>2, ExecAssumption DEF Clock, BusRules, accept, AcksAgree, TypeOK
      <3> QED
        BY <2>2, <3>1, ExecAssumption
           DEF Clock, Counting, AckCount, ZeroAcks, AcksAgree, TypeOK, Bit, i_wb_ack
    <2> QED
      BY <2>1, <2>2 DEF TypeOK
  <1>2. o_wb_cyc' = 1 => r_acks_needed' = Len(pending')
    <2> SUFFICES ASSUME o_wb_cyc' = 1 PROVE r_acks_needed' = Len(pending')
      OBVIOUS
    <2>1. r_wdt_reset = 0
      BY DEF Clock, Fsm, FsmReset, FsmIdle, FsmRead, FsmWrite, FsmFlush, TypeOK
    <2>2. CASE o_wb_cyc = 0
      <3>1. pending' = <<>>
        BY <2>2 DEF Clock, Bus, Accepted, accept, BusRules, AcksAgree
      <3> QED
        BY <2>2, <3>1 DEF Clock, Counting, AckCount
    <2>3. CASE o_wb_cyc = 1
      <3>1. in.resp \in {"none", "ack"}
        BY <2>1, <2>3 DEF Clock, Fsm, FsmReset, FsmIdle, FsmRead, FsmWrite,
                          FsmFlush, CountInv, i_wb_err, Input, Bit
      <3>2. accept(in) <=> (o_wb_stb = 1 /\ in.stall = 0)
        BY <2>3 DEF accept
      <3>3. /\ Len(Accepted(in)) = Len(pending) + (IF accept(in) THEN 1 ELSE 0)
            /\ Len(Accepted(in)) <= MaxOut /\ Len(pending) \in Nat
            /\ in.resp = "ack" => /\ Len(Accepted(in)) > 0
                                  /\ Len(Tail(Accepted(in))) = Len(Accepted(in)) - 1
        BY AcceptedFacts DEF Clock, BusRules, TypeOK
      <3>4. pending' = IF in.resp = "ack" THEN Tail(Accepted(in)) ELSE Accepted(in)
        BY <3>1 DEF Clock, Bus
      <3>5. r_acks_needed = Len(pending)
        BY <2>3 DEF AcksAgree
      <3>6. r_acks_needed' = AckCount(in)
        BY DEF Clock, Counting
      <3>7. CASE in.resp = "ack"
        BY <2>1, <2>3, <3>2, <3>3, <3>4, <3>5, <3>6, <3>7, ExecAssumption
           DEF AckCount, i_wb_ack
      <3>8. CASE in.resp = "none"
        BY <2>1, <2>3, <3>2, <3>3, <3>4, <3>5, <3>6, <3>8, ExecAssumption
           DEF AckCount, i_wb_ack
      <3> QED
        BY <3>1, <3>7, <3>8
    <2> QED
      BY <2>2, <2>3 DEF TypeOK
  <1>3. o_wb_cyc' = 0 => pending' = <<>>
    BY DEF Clock, Bus
  <1> QED
    BY <1>1, <1>2, <1>3 DEF AcksAgree

(* The state machine's bookkeeping, one step per state.                      *)
LEMMA CountNext ==
    ASSUME ExecInv, NEW in \in Input, Clock(in)
    PROVE  CountInv'
  <1> USE DEF ExecInv, Bits, Bit
  <1>0. TypeOK /\ CountInv /\ AcksAgree /\ BusRules(in) /\ Fsm(in) /\ Observe(in)
        /\ Addresses(in) /\ Counting(in) /\ Fifo(in)
    BY DEF Clock
  <1>1. /\ o_data.val \in Nat /\ o_data.op = "read" => o_data.val >= 1
        /\ todo \in Seq(WbRequest) /\ Len(todo) \in Nat
        /\ Len(todo) = 0 <=> todo = <<>>
    BY <1>0, WordType, EmptySeq DEF TypeOK
  <1>2. CASE FsmReset
    BY <1>0, <1>2 DEF FsmReset, CountInv, Observe
  <1>3. CASE FsmIdle
    <2>1. /\ o_busy = 0 /\ o_wb_cyc = 0 /\ todo = <<>> /\ r_wdt_reset = 0
          /\ wb_state = "IDLE" /\ in.resp = "none"
      BY <1>0, <1>3 DEF FsmIdle, CountInv, BusRules, TypeOK
    <2>2. Len(todo') = IF i_stb THEN Len(Asked) ELSE 0
      BY <2>1, <1>1, TodoNext DEF fifo_rd, accept, i_wb_err
    <2>3. /\ Len(Asked) = IF o_data.op = "write" THEN 1
                          ELSE IF o_data.op = "read" THEN o_data.val ELSE 0
          /\ todo' \in Seq(WbRequest)
      BY <1>0, AskedFacts, TypeNext DEF TypeOK
    <2>4. CASE i_stb /\ o_data.op = "write"
      BY <1>0, <1>1, <1>3, <2>1, <2>2, <2>3, <2>4
         DEF FsmIdle, CountInv, Addresses, IsWrite, Bit35
    <2>5. CASE i_stb /\ o_data.op = "read"
      BY <1>0, <1>1, <1>3, <2>1, <2>2, <2>3, <2>5
         DEF FsmIdle, CountInv, Addresses, Counting, LastAck, LastRead, AckCount,
             IsWrite, Bit35
    <2>6. CASE ~(i_stb /\ o_data.op \in {"write", "read"})
      <3>1. Len(todo') = 0
        BY <2>2, <2>3, <2>6
      <3>2. todo' = <<>>
        BY <3>1, <2>3, EmptySeq
      <3> QED
        BY <1>0, <1>3, <2>1, <2>6, <3>2 DEF FsmIdle, CountInv
    <2> QED
      BY <2>4, <2>5, <2>6
  <1>4. CASE FsmRead(in)
    <2>1. /\ wb_state = "READ" /\ o_wb_cyc = 1 /\ o_busy = 1 /\ r_wdt_reset = 0
          /\ o_wb_we = 0 /\ Len(todo) = r_len /\ r_acks_needed = Len(pending)
          /\ ~fifo_rd
      BY <1>0, <1>4 DEF FsmRead, CountInv, AcksAgree, fifo_rd
    <2>2. o_wb_stb = 1 => r_len > 0
      BY <1>0, <2>1 DEF CountInv
    <2>3. accept(in) <=> (o_wb_stb = 1 /\ in.stall = 0)
      BY <2>1 DEF accept
    <2>4. CASE i_wb_err(in)
      BY <1>0, <1>4, <2>1, <2>4 DEF FsmRead, CountInv, Observe
    <2>5. CASE ~i_wb_err(in)
      <3>1. Len(todo') = IF o_wb_stb = 1 /\ in.stall = 0 THEN r_len - 1 ELSE r_len
        BY <2>1, <2>2, <2>3, <2>5, <1>1, TodoNext
      <3>2. r_len' = Len(todo') /\ r_len \in Nat
        BY <1>0, <2>1, <2>2, <2>3, <3>1 DEF Counting, TypeOK
      <3>3. o_wb_we' = 0
        BY <1>0, <2>1 DEF Addresses
      <3>4. todo' \in Seq(WbRequest)
        BY TypeNext DEF TypeOK
      <3>5. CASE i_wb_ack(in) /\ last_ack = 1
        <4>1. r_len + r_acks_needed <= 1
          BY <1>0, <2>1, <3>5 DEF CountInv
        <4>2. Len(pending) + (IF accept(in) THEN 1 ELSE 0) > 0
          BY <1>0, <3>5, AcceptedFacts DEF BusRules, i_wb_ack, TypeOK
        <4>3. Len(todo') = 0
          BY <1>0, <2>1, <2>2, <2>3, <3>1, <3>2, <4>1, <4>2 DEF TypeOK
        <4>4. todo' = <<>>
          BY <3>4, <4>3, EmptySeq
        <4>5. o_wb_stb' = 0
          BY <1>0, <1>4, <2>1, <2>3, <3>2, <4>1, <4>2 DEF FsmRead, CountInv, TypeOK
        <4> QED
          BY <1>0, <1>4, <3>5, <4>4, <4>5 DEF FsmRead, CountInv
      <3>6. CASE ~(i_wb_ack(in) /\ last_ack = 1)
        <4>1. /\ wb_state' = "READ" /\ o_wb_cyc' = 1 /\ o_busy' = 1
              /\ o_wb_stb' = IF in.stall = 0 /\ (single_read_request = 1
                                                \/ last_read_request = 1)
                             THEN 0 ELSE o_wb_stb
          BY <1>4, <2>1, <2>5, <3>6 DEF FsmRead
        <4>2. o_wb_stb' = 1 <=> r_len' > 0
          BY <1>0, <2>1, <2>2, <2>3, <3>1, <3>2, <4>1 DEF CountInv, TypeOK
        <4>3. o_wb_stb' = 1 =>
                 /\ last_read_request' = 1 <=> r_len' <= 1
                 /\ single_read_request' = 1 => r_len' <= 1
          BY <1>0, <2>1, <2>2, <2>3, <3>1, <3>2, <4>1
             DEF CountInv, TypeOK, Counting, LastRead
        <4>4. last_ack' = 1 => r_len' + r_acks_needed' <= 1
          <5>1. r_acks_needed' = AckCount(in) /\ last_ack' = LastAck(in)
            BY <1>0 DEF Counting
          <5>2. in.resp = "ack" => \/ Len(pending) > 0
                                   \/ o_wb_stb = 1 /\ in.stall = 0
            BY <1>0, <2>3, AcceptedFacts DEF BusRules, TypeOK
          <5>3. r_acks_needed \in Nat /\ r_len \in Nat
            BY <1>0 DEF TypeOK
          <5>4. ACKS \in Nat /\ ACKS > 1
            BY ExecAssumption
          <5>5. r_len' = IF o_wb_stb = 1 /\ in.stall = 0 THEN r_len - 1 ELSE r_len
            BY <3>1, <3>2
          <5>6. CASE in.resp = "ack"
            <6>1. last_ack' = 1 => r_len + r_acks_needed <= 2
              BY <2>1, <5>1, <5>6 DEF LastAck, i_wb_ack
            <6>2. r_acks_needed' = IF o_wb_stb = 1 /\ in.stall = 0
                                   THEN r_acks_needed ELSE r_acks_needed - 1
              BY <2>1, <5>1, <5>2, <5>3, <5>6 DEF AckCount, i_wb_ack
            <6> QED
              BY <2>2, <5>3, <5>5, <6>1, <6>2
          <5>7. CASE in.resp # "ack"
            <6>1. last_ack' = 1 => r_len + r_acks_needed <= 1
              BY <2>1, <5>1, <5>7 DEF LastAck, i_wb_ack
            <6>2. r_acks_needed' = IF o_wb_stb = 1 /\ in.stall = 0
                                   THEN IF r_acks_needed = ACKS - 1 THEN 0
                                        ELSE r_acks_needed + 1
                                   ELSE r_acks_needed
              BY <2>1, <5>1, <5>7 DEF AckCount, i_wb_ack
            <6> QED
              BY <2>2, <5>3, <5>4, <5>5, <6>1, <6>2
          <5> QED
            BY <5>6, <5>7
        <4> QED
          BY <3>2, <3>3, <4>1, <4>2, <4>3, <4>4 DEF CountInv
      <3> QED
        BY <3>5, <3>6
    <2> QED
      BY <2>4, <2>5
  <1>5. CASE FsmWrite(in)
    <2>1. /\ wb_state = "WRITE" /\ o_wb_cyc = 1 /\ r_wdt_reset = 0
          /\ o_wb_we = 1 /\ Len(todo) = o_wb_stb
          /\ o_busy = 0 => i_stb /\ IsWrite(o_data) /\ o_wb_stb = 0
      BY <1>0, <1>5 DEF FsmWrite, CountInv
    <2>2. CASE i_wb_err(in)
      BY <1>0, <1>5, <2>2 DEF FsmWrite, CountInv, Observe
    <2>3. CASE ~i_wb_err(in)
      <3>1. accept(in) /\ todo # <<>> <=> (o_wb_stb = 1 /\ in.stall = 0)
        BY <1>1, <2>1 DEF accept
      <3>2. Len(todo') = (IF o_wb_stb = 1 /\ in.stall = 0 THEN 0 ELSE o_wb_stb)
                         + (IF fifo_rd THEN 1 ELSE 0)
        <4>1. fifo_rd => Len(Asked) = 1
          BY <1>0, <2>1, AskedFacts DEF fifo_rd, IsWrite
        <4>2. Len(todo') = (IF accept(in) /\ todo # <<>> THEN Len(todo) - 1
                            ELSE Len(todo))
                           + (IF fifo_rd THEN Len(Asked) ELSE 0)
          BY <2>1, <2>3, TodoNext
        <4>3. CASE fifo_rd
          <5>1. o_wb_stb = 0 /\ Len(Asked) = 1
            BY <2>1, <4>1, <4>3 DEF fifo_rd
          <5>2. ~(accept(in) /\ todo # <<>>)
            BY <3>1, <5>1
          <5> QED
            BY <2>1, <4>2, <4>3, <5>1, <5>2
        <4>4. CASE ~fifo_rd
          BY <1>0, <2>1, <3>1, <4>2, <4>4 DEF TypeOK
        <4> QED
          BY <4>3, <4>4
      <3>3. o_wb_we' = 1 /\ todo' \in Seq(WbRequest)
        BY <1>0, <2>1, TypeNext DEF Addresses, TypeOK
      <3>4. Len(todo') = o_wb_stb'
        BY <1>0, <1>5, <2>1, <2>3, <3>2 DEF FsmWrite, fifo_rd, TypeOK
      <3>5. CASE wb_state' = "IDLE"
        <4>1. o_wb_cyc' = 0 /\ o_busy' = 0 /\ o_wb_stb' = 0
          BY <1>0, <1>5, <2>1, <2>3, <3>5 DEF FsmWrite, TypeOK
        <4>2. todo' = <<>>
          BY <3>3, <3>4, <4>1, EmptySeq
        <4> QED
          BY <3>5, <4>1, <4>2 DEF CountInv
      <3>6. CASE wb_state' = "WRITE"
        <4>1. o_wb_cyc' = 1
          BY <1>0, <1>5, <2>1, <2>3, <3>6 DEF FsmWrite, TypeOK
        <4>2. o_busy' = 0 => /\ i_stb /\ IsWrite(o_data) /\ o_busy = 1
                             /\ o_wb_stb = 0 /\ o_wb_stb' = 0
          BY <1>0, <1>5, <2>1, <2>3, <3>6 DEF FsmWrite, TypeOK
        <4>3. o_busy' = 0 => o_data' = o_data /\ o_empty_n' = 1
          BY <1>0, <2>1, <4>2 DEF Fifo, fifo_rd, i_stb
        <4> QED
          BY <3>3, <3>4, <3>6, <4>1, <4>2, <4>3 DEF CountInv, i_stb, IsWrite
      <3> QED
        BY <1>5, <2>3, <3>5, <3>6 DEF FsmWrite
    <2> QED
      BY <2>2, <2>3
  <1>6. CASE FsmFlush
    <2>1. /\ wb_state = "FLUSH" /\ o_busy = 1 /\ o_wb_cyc = 0 /\ todo = <<>>
          /\ r_wdt_reset = 0 /\ in.resp = "none"
      BY <1>0, <1>6 DEF FsmFlush, CountInv, BusRules, TypeOK, Input
    <2>2. todo' = <<>>
      BY <1>0, <2>1 DEF Observe, fifo_rd, i_wb_err, accept
    <2> QED
      BY <1>6, <2>2 DEF FsmFlush, CountInv
  <1> QED
    BY <1>0, <1>2, <1>3, <1>4, <1>5, <1>6 DEF Fsm

-----------------------------------------------------------------------------
LEMMA NextExecInv == ExecInv /\ [Next]_vars => ExecInv'
  <1>1. ASSUME ExecInv, Next PROVE ExecInv'
    BY <1>1, TypeNext, AcksNext, CountNext DEF Next, ExecInv
  <1>2. ASSUME ExecInv, UNCHANGED vars PROVE ExecInv'
    BY <1>2 DEF ExecInv, TypeOK, AcksAgree, CountInv, vars, fsm, counts, addrs,
                fifo, observer, i_stb, IsWrite
  <1> QED
    BY <1>1, <1>2

(* The types, the ack counter and the bookkeeping that ends a read or a burst
   of writes hold always, for every size of FIFO, counter and watchdog.      *)
THEOREM ExecInvariant == Spec => []ExecInv
  BY InitExecInv, NextExecInv, PTL DEF Spec

(* No cycle ends, errors and the watchdog apart, while an answer is due.     *)
THEOREM ExecNoAbandonedRequest == Spec => NoAbandonedRequest
  <1> DEFINE A == o_wb_cyc = 1 /\ o_wb_cyc' = 0 =>
                    \/ r_wdt_reset = 1
                    \/ o_stb' = 1 /\ o_codword' = "err"
                    \/ Len(pending) <= o_stb' /\ todo' = <<>>
  <1>1. ASSUME ExecInv, NEW in \in Input, Clock(in) PROVE A
    <2> USE DEF ExecInv, Bits, Bit
    <2> SUFFICES ASSUME o_wb_cyc = 1, o_wb_cyc' = 0, r_wdt_reset = 0,
                        ~i_wb_err(in)
                 PROVE  Len(pending) <= o_stb' /\ todo' = <<>>
      BY <1>1 DEF Clock, Answers, TypeOK, i_wb_err
    <2>1. wb_state' = "IDLE" /\ CountInv'
      BY <1>1, CountNext DEF Clock, Fsm, FsmReset, FsmIdle, FsmRead, FsmWrite,
                             FsmFlush, CountInv, TypeOK
    <2>2. todo' = <<>>
      BY <2>1 DEF CountInv
    <2>3. CASE wb_state = "READ"
      <3>1. i_wb_ack(in) /\ last_ack = 1
        BY <1>1, <2>3 DEF Clock, Fsm, FsmReset, FsmIdle, FsmRead, FsmWrite, FsmFlush
      <3>2. o_stb' = 1
        BY <1>1, <3>1 DEF Clock, Answers, i_wb_ack
      <3>3. Len(pending) <= 1
        BY <1>1, <2>3, <3>1 DEF CountInv, AcksAgree, TypeOK
      <3> QED
        BY <2>2, <3>2, <3>3
    <2>4. CASE wb_state = "WRITE"
      <3>1. zero_acks = 1
        BY <1>1, <2>4 DEF Clock, Fsm, FsmReset, FsmIdle, FsmRead, FsmWrite, FsmFlush
      <3>2. Len(pending) = 0
        BY <1>1, <3>1 DEF AcksAgree
      <3>3. o_stb' \in Bits
        BY <1>1, TypeNext DEF TypeOK
      <3> QED
        BY <2>2, <3>2, <3>3
    <2> QED
      BY <1>1, <2>3, <2>4 DEF CountInv
  <1>2. ExecInv /\ [Next]_vars => [A]_vars
    BY <1>1 DEF Next
  <1> QED
    BY <1>2, ExecInvariant, PTL DEF Spec, NoAbandonedRequest

-----------------------------------------------------------------------------
(* Addresses wrap: adding twice is adding once.                              *)
LEMMA Remainder ==
    ASSUME NEW N \in Nat, N > 0, NEW k \in Nat
    PROVE  /\ k % N \in 0 .. N - 1
           /\ \E q \in Int : k = q * N + (k % N)
  <1>1. k % N \in 0 .. N - 1
    BY SMTT(30)
  <1>2. \E q \in Int : k = q * N + (k % N)
    BY SMTT(30)
  <1> QED
    BY <1>1, <1>2

LEMMA OneRemainder ==
    ASSUME NEW N \in Nat, N > 0, NEW k \in Nat, NEW q \in Int, NEW r \in 0 .. N - 1,
           k = q * N + r
    PROVE  k % N = r
  OBVIOUS

LEMMA PlusPlus ==
    ASSUME NEW a \in Nat, NEW d \in Nat, NEW e \in Nat
    PROVE  Plus(Plus(a, d), e) = Plus(a, d + e)
  <1> DEFINE N == NADDR
             r == (a + d) % N
             s == (r + e) % N
  <1>1. N \in Nat /\ N > 0 /\ a + d \in Nat /\ a + (d + e) \in Nat
    BY ExecAssumption
  <1>2. r \in 0 .. N - 1 /\ \E q \in Int : a + d = q * N + r
    BY <1>1, Remainder
  <1>3. PICK q \in Int : a + d = q * N + r
    BY <1>2
  <1> HIDE DEF N, r
  <1>4. r \in Nat /\ r + e \in Nat
    BY <1>1, <1>2
  <1>5. s \in 0 .. N - 1 /\ \E p \in Int : r + e = p * N + s
    BY <1>1, <1>4, Remainder
  <1>6. PICK p \in Int : r + e = p * N + s
    BY <1>5
  <1> HIDE DEF s
  <1>7. a + (d + e) = (q + p) * N + s
    <2>1. (q + p) * N = q * N + p * N /\ q * N \in Int /\ p * N \in Int
      BY <1>1
    <2> QED
      BY <1>1, <1>3, <1>4, <1>5, <1>6, <2>1
  <1>8. (a + (d + e)) % N = s
    <2>1. q + p \in Int
      OBVIOUS
    <2> QED
      BY <1>1, <1>5, <1>7, <2>1, OneRemainder
  <1> QED
    BY <1>8 DEF Plus, N, r, s

LEMMA PlusZero == ASSUME NEW a \in Address PROVE Plus(a, 0) = a
  BY ExecAssumption DEF Plus, Address

(* The requests of a read of n words, and what is left of them when the first is
   accepted.                                                                 *)
Reads(a, n, inc) ==
    [i \in 1 .. n |-> [we |-> 0, data |-> 0, addr |-> Plus(a, (i - 1) * inc)]]

LEMMA ReadsFacts ==
    ASSUME NEW a \in Address, NEW n \in Nat, NEW inc \in Bits
    PROVE  /\ Reads(a, n, inc) \in Seq(WbRequest)
           /\ Len(Reads(a, n, inc)) = n
           /\ n >= 1 => /\ Head(Reads(a, n, inc)) = [we |-> 0, data |-> 0, addr |-> a]
                        /\ Tail(Reads(a, n, inc)) = Reads(Plus(a, inc), n - 1, inc)
  <1> DEFINE R == Reads(a, n, inc)
  <1>0. a \in Nat /\ inc \in Nat
    BY ExecAssumption DEF Address, Bits
  <1>1. R \in [1 .. n -> WbRequest]
    <2> SUFFICES ASSUME NEW i \in 1 .. n PROVE Plus(a, (i - 1) * inc) \in Address
      BY DEF Reads, WbRequest, Bits
    <2>1. (i - 1) * inc \in Nat
      BY DEF Bits
    <2> QED
      BY <1>0, <2>1, PlusType
  <1>2. R \in Seq(WbRequest) /\ Len(R) = n
    BY <1>1, SeqDef, LenProperties
  <1>3. ASSUME n >= 1
        PROVE  /\ Head(R) = [we |-> 0, data |-> 0, addr |-> a]
               /\ Tail(R) = Reads(Plus(a, inc), n - 1, inc)
    <2>1. Head(R) = [we |-> 0, data |-> 0, addr |-> Plus(a, (1 - 1) * inc)]
      <3>1. Head(R) = R[1]
        BY <1>2, <1>3
      <3> QED
        BY <1>3, <3>1 DEF Reads
    <2>2. (1 - 1) * inc = 0
      BY <1>0
    <2>3. R # <<>>
      BY <1>2, <1>3, EmptySeq
    <2>4. /\ Tail(R) \in [1 .. n - 1 -> WbRequest]
          /\ \A i \in 1 .. n - 1 : Tail(R)[i] = R[i + 1]
      <3>1. /\ Tail(R) \in Seq(WbRequest) /\ Len(Tail(R)) = n - 1
            /\ \A i \in 1 .. n - 1 : Tail(R)[i] = R[i + 1]
        BY <1>2, <2>3, HeadTailProperties
      <3> QED
        BY <3>1, LenProperties
    <2>5. ASSUME NEW i \in 1 .. n - 1
          PROVE  R[i + 1] = [we |-> 0, data |-> 0, addr |-> Plus(Plus(a, inc), (i - 1) * inc)]
      <3>1. R[i + 1] = [we |-> 0, data |-> 0, addr |-> Plus(a, ((i + 1) - 1) * inc)]
        BY <2>5 DEF Reads
      <3>2. ((i + 1) - 1) * inc = inc + (i - 1) * inc /\ (i - 1) * inc \in Nat
        BY <2>5 DEF Bits
      <3>3. PICK p \in Nat : p = (i - 1) * inc
        BY <3>2
      <3>4. Plus(Plus(a, inc), p) = Plus(a, inc + p)
        BY <1>0, PlusPlus
      <3> QED
        BY <3>1, <3>2, <3>3, <3>4
    <2>6. Tail(R) = [i \in 1 .. n - 1 |->
                       [we |-> 0, data |-> 0, addr |-> Plus(Plus(a, inc), (i - 1) * inc)]]
      BY <2>4, <2>5
    <2> QED
      BY <2>1, <2>2, <2>6, PlusZero DEF Reads
  <1> QED
    BY <1>2, <1>3

-----------------------------------------------------------------------------
(* The words under way: the one at the FIFO's output and those in its ring.  The
   writes of one burst have one increment flag, up to the burst the engine is in. *)
line == (IF o_empty_n = 1 THEN <<o_data>> ELSE <<>>) \o ring

BurstInv ==
    /\ \A i \in 1 .. Len(line) - 1 :
          IsWrite(line[i]) /\ IsWrite(line[i + 1]) => line[i + 1].inc = line[i].inc
    /\ line # <<>> /\ IsWrite(line[Len(line)]) => burst = line[Len(line)].inc
    /\ wb_state = "WRITE" =>
          IF line = <<>> THEN burst = r_inc
          ELSE IsWrite(line[1]) => line[1].inc = r_inc

(* Where the next request goes, and what is left to ask for.                 *)
IssueInv ==
    /\ wb_state \in {"IDLE", "FLUSH"} => want = o_wb_addr
    /\ wb_state = "READ" => /\ todo = Reads(o_wb_addr, r_len, r_inc)
                            /\ want = Plus(o_wb_addr, r_len * r_inc)
    /\ wb_state = "WRITE" => /\ want = Plus(o_wb_addr, o_wb_stb * r_inc)
                             /\ o_wb_stb = 1 => o_busy = 1 /\ todo = <<Request>>

LEMMA LineType ==
    ASSUME TypeOK
    PROVE  /\ line \in Seq(Codeword)
           /\ (line = <<>> <=> o_empty_n = 0 /\ ring = <<>>)
           /\ i_stb => line # <<>> /\ Head(line) = o_data /\ line[1] = o_data /\ Tail(line) = ring
           /\ o_empty_n = 0 => line = ring
  <1>1. ring \in Seq(Codeword) /\ o_empty_n \in Bits
    BY DEF TypeOK
  <1>2. CASE o_empty_n = 1
    <2>1. o_data \in Codeword /\ line = <<o_data>> \o ring
      BY <1>2 DEF TypeOK, line
    <2> QED
      BY <1>1, <1>2, <2>1 DEF i_stb
  <1>3. CASE o_empty_n = 0
    <2>1. line = <<>> \o ring
      BY <1>3 DEF line
    <2>2. line = ring
      BY <1>1, <2>1
    <2> QED
      BY <1>1, <1>3, <2>2 DEF i_stb
  <1> QED
    BY <1>1, <1>2, <1>3 DEF Bits

(* The FIFO, one clock on: a word leaves at the front, another joins at the back;
   a reset empties it.                                                       *)
LEMMA LineNext ==
    ASSUME TypeOK, NEW in \in Input, Clock(in), r_wdt_reset = 0
    PROVE  LET left == IF fifo_rd THEN Tail(line) ELSE line IN
           line' = IF in.word # None THEN Append(left, in.word) ELSE left
  <1> DEFINE moves == (fifo_rd \/ o_empty_n = 0) /\ ring # <<>>
             kept  == IF moves THEN Tail(ring) ELSE ring
             left  == IF fifo_rd THEN Tail(line) ELSE line
             more  == in.word # None
  <1>1. /\ o_data' = IF moves THEN Head(ring) ELSE o_data
        /\ ring' = IF more THEN Append(kept, in.word) ELSE kept
        /\ o_empty_n' = IF fifo_rd \/ o_empty_n = 0 THEN Bit(ring # <<>>) ELSE o_empty_n
    BY DEF Clock, Fifo
  <1>2. ring \in Seq(Codeword) /\ o_empty_n \in Bits /\ (more => in.word \in Codeword)
    BY DEF TypeOK, Input
  <1>3. line' = (IF o_empty_n' = 1 THEN <<o_data'>> ELSE <<>>) \o ring'
    BY DEF line
  <1>4. CASE ~(fifo_rd \/ o_empty_n = 0)
    <2>1. o_empty_n' = 1 /\ o_empty_n = 1 /\ o_data' = o_data /\ o_data \in Codeword /\ left = <<o_data>> \o ring
      BY <1>1, <1>2, <1>4 DEF Bits, TypeOK, line
    <2> QED
      BY <1>1, <1>2, <1>3, <1>4, <2>1
  <1>5. CASE fifo_rd \/ o_empty_n = 0
    <2>1. left = ring
      BY <1>5, LineType DEF fifo_rd, i_stb
    <2>2. CASE ring = <<>>
      <3>1. o_empty_n' = 0 /\ kept = <<>>
        BY <1>1, <1>5, <2>2 DEF Bit
      <3>2. ring' \in Seq(Codeword)
        BY <1>1, <1>2, <2>2, <3>1
      <3>3. line' = ring'
        BY <1>3, <3>1, <3>2
      <3> QED
        BY <1>1, <2>1, <2>2, <3>1, <3>3
    <2>3. CASE ring # <<>>
      <3>1. /\ o_empty_n' = 1 /\ o_data' = Head(ring) /\ kept = Tail(ring)
            /\ Head(ring) \in Codeword /\ Tail(ring) \in Seq(Codeword)
        BY <1>1, <1>2, <1>5, <2>3 DEF Bit
      <3>2. ring = <<Head(ring)>> \o Tail(ring)
        BY <1>2, <2>3
      <3> DEFINE h == Head(ring)
                 t == Tail(ring)
      <3>3. h \in Codeword /\ t \in Seq(Codeword) /\ ring = <<h>> \o t
        BY <3>1, <3>2
      <3>4. line' = <<h>> \o (IF more THEN Append(t, in.word) ELSE t)
        BY <1>1, <1>3, <3>1
      <3> HIDE DEF h, t, more, left
      <3>5. more => <<h>> \o Append(t, in.word) = Append(<<h>> \o t, in.word)
        BY <1>2, <3>3
      <3>6. line' = IF more THEN Append(left, in.word) ELSE left
        BY <2>1, <3>3, <3>4, <3>5
      <3> QED
        BY <3>6 DEF more, left
    <2> QED
      BY <2>2, <2>3
  <1> QED
    BY <1>4, <1>5

(* A queue whose neighbouring writes agree, and whose last write `b` knows.     *)
Agreeing(q, b) ==
    /\ \A i \in 1 .. Len(q) - 1 : IsWrite(q[i]) /\ IsWrite(q[i + 1]) => q[i + 1].inc = q[i].inc
    /\ q # <<>> /\ IsWrite(q[Len(q)]) => b = q[Len(q)].inc

LEMMA AgreeTail ==
    ASSUME NEW q \in Seq(Codeword), q # <<>>, NEW b, Agreeing(q, b)
    PROVE  Agreeing(Tail(q), b)
  <1>1. /\ Tail(q) \in Seq(Codeword) /\ Len(Tail(q)) = Len(q) - 1 /\ Len(q) \in Nat
        /\ \A i \in 1 .. Len(q) - 1 : Tail(q)[i] = q[i + 1]
    BY HeadTailProperties
  <1> DEFINE t == Tail(q)
  <1> HIDE DEF t
  <1>2. ASSUME NEW i \in 1 .. Len(t) - 1, IsWrite(t[i]), IsWrite(t[i + 1])
        PROVE  t[i + 1].inc = t[i].inc
    <2>1. t[i] = q[i + 1] /\ t[i + 1] = q[(i + 1) + 1] /\ i + 1 \in 1 .. Len(q) - 1
      BY <1>1 DEF t
    <2> QED
      BY <1>2, <2>1 DEF Agreeing
  <1>3. ASSUME t # <<>>, IsWrite(t[Len(t)]) PROVE b = t[Len(t)].inc
    <2>1. Len(t) \in 1 .. Len(q) - 1
      BY <1>1, <1>3, EmptySeq DEF t
    <2>2. t[Len(t)] = q[Len(q)]
      BY <1>1, <2>1 DEF t
    <2> QED
      BY <1>3, <2>2 DEF Agreeing
  <1> QED
    BY <1>2, <1>3 DEF Agreeing, t

LEMMA AgreeAppend ==
    ASSUME NEW q \in Seq(Codeword), NEW b, Agreeing(q, b), NEW w \in Codeword,
           q # <<>> /\ IsWrite(w) /\ IsWrite(q[Len(q)]) => w.inc = b
    PROVE  Agreeing(Append(q, w), IF IsWrite(w) THEN w.inc ELSE -1)
  <1> DEFINE t == Append(q, w)
  <1>1. /\ Len(t) = Len(q) + 1 /\ t[Len(q) + 1] = w /\ Len(q) \in Nat /\ t # <<>>
        /\ \A i \in 1 .. Len(q) : t[i] = q[i]
    <2>1. /\ t \in Seq(Codeword) /\ Len(t) = Len(q) + 1 /\ t[Len(q) + 1] = w
          /\ \A i \in 1 .. Len(q) : t[i] = q[i]
      BY AppendProperties
    <2>2. Len(q) \in Nat
      OBVIOUS
    <2> QED
      BY <2>1, <2>2, EmptySeq
  <1> HIDE DEF t
  <1>2. ASSUME NEW i \in 1 .. Len(t) - 1, IsWrite(t[i]), IsWrite(t[i + 1])
        PROVE  t[i + 1].inc = t[i].inc
    <2>1. CASE i < Len(q)
      <3>1. t[i] = q[i] /\ t[i + 1] = q[i + 1] /\ i \in 1 .. Len(q) - 1
        BY <1>1, <2>1
      <3> QED
        BY <1>2, <3>1 DEF Agreeing
    <2>2. CASE i = Len(q)
      <3>1. t[i] = q[Len(q)] /\ t[i + 1] = w /\ q # <<>>
        BY <1>1, <2>2
      <3> QED
        BY <1>2, <3>1 DEF Agreeing
    <2> QED
      BY <1>1, <2>1, <2>2
  <1> QED
    BY <1>1, <1>2 DEF Agreeing, t

LEMMA BurstNext ==
    ASSUME ExecInv, BurstInv, NEW in \in Input, Clock(in)
    PROVE  BurstInv'
  <1> DEFINE left == IF fifo_rd THEN Tail(line) ELSE line
             more == in.word # None
  <1>1. TypeOK /\ CountInv /\ line \in Seq(Codeword) /\ Agreeing(line, burst)
    BY LineType DEF ExecInv, BurstInv, Agreeing
  <1>2. burst' = IF ~more THEN burst ELSE IF IsWrite(in.word) THEN in.word.inc ELSE -1
    BY DEF Clock, Observe
  <1>3. more => in.word \in Codeword /\ (IsWrite(in.word) /\ burst # -1 => in.word.inc = burst)
    BY DEF Clock, HostRules, Input
  <1>4. CASE r_wdt_reset = 1
    <2>1. line' = <<>>
      BY <1>4 DEF Clock, Fifo, line
    <2>2. wb_state' = "IDLE"
      BY <1>1, <1>4 DEF Clock, Fsm, FsmReset, FsmIdle, FsmRead, FsmWrite, FsmFlush
    <2> QED
      BY <2>1, <2>2 DEF BurstInv
  <1>5. CASE r_wdt_reset = 0
    <2>1. line' = IF more THEN Append(left, in.word) ELSE left
      BY <1>1, <1>5, LineNext
    <2>2. left \in Seq(Codeword) /\ Agreeing(left, burst) /\ (fifo_rd => line # <<>>)
      <3>1. CASE fifo_rd
        <4>1. line # <<>>
          BY <1>1, <3>1, LineType DEF fifo_rd
        <4> QED
          BY <1>1, <3>1, <4>1, AgreeTail, HeadTailProperties
      <3>2. CASE ~fifo_rd
        BY <1>1, <3>2
      <3> QED
        BY <3>1, <3>2
    <2>3. Agreeing(line', burst')
      <3>1. CASE more
        <4>1. left # <<>> /\ IsWrite(in.word) /\ IsWrite(left[Len(left)]) => in.word.inc = burst
          <5> SUFFICES ASSUME left # <<>>, IsWrite(in.word), IsWrite(left[Len(left)])
                       PROVE  in.word.inc = burst
            OBVIOUS
          <5>1. left[Len(left)] \in Codeword
            BY <2>2, ElementOfSeq, EmptySeq
          <5>2. burst = left[Len(left)].inc
            BY <2>2 DEF Agreeing
          <5>3. burst # -1
            BY <5>1, <5>2, WordType DEF Bits
          <5> QED
            BY <1>3, <3>1, <5>3
        <4> QED
          BY <1>2, <1>3, <2>1, <2>2, <3>1, <4>1, AgreeAppend
      <3>2. CASE ~more
        BY <1>2, <2>1, <2>2, <3>2
      <3> QED
        BY <3>1, <3>2
    <2>4. wb_state' = "WRITE" =>
             IF line' = <<>> THEN burst' = r_inc'
             ELSE IsWrite(line'[1]) => line'[1].inc = r_inc'
      <3> SUFFICES ASSUME wb_state' = "WRITE"
                   PROVE  IF line' = <<>> THEN burst' = r_inc'
                          ELSE IsWrite(line'[1]) => line'[1].inc = r_inc'
        OBVIOUS
      <3>1. /\ r_inc' \in Bits
            /\ r_inc' = IF wb_state = "IDLE" THEN o_data.inc ELSE r_inc
            /\ (wb_state = "IDLE" /\ fifo_rd /\ IsWrite(o_data)) \/ wb_state = "WRITE"
        <4>1. r_inc' \in Bits
          BY TypeNext DEF TypeOK
        <4>2. r_inc' = IF wb_state = "IDLE" THEN o_data.inc ELSE r_inc
          BY DEF Clock, Addresses
        <4>3. (wb_state = "IDLE" /\ fifo_rd /\ IsWrite(o_data)) \/ wb_state = "WRITE"
          BY <1>1, <1>5 DEF Clock, Fsm, FsmReset, FsmIdle, FsmRead, FsmWrite, FsmFlush,
                            CountInv, fifo_rd, IsWrite
        <4> QED
          BY <4>1, <4>2, <4>3
      <3>2. IF left = <<>> THEN burst = r_inc' ELSE IsWrite(left[1]) => left[1].inc = r_inc'
        <4>1. CASE fifo_rd
          <5>1. /\ line # <<>> /\ line[1] = o_data /\ IsWrite(o_data) /\ r_inc' = line[1].inc
            BY <1>1, <3>1, <4>1, LineType DEF fifo_rd, CountInv, BurstInv
          <5>2. /\ left \in Seq(Codeword) /\ Len(left) = Len(line) - 1 /\ Len(line) \in Nat
                /\ \A i \in 1 .. Len(left) : left[i] = line[i + 1]
            BY <1>1, <4>1, <5>1, HeadTailProperties
          <5>3. CASE left = <<>>
            <6>1. Len(left) = 0
              BY <5>3
            <6>2. Len(line) = 1
              BY <5>2, <6>1
            <6> QED
              BY <1>1, <5>1, <5>3, <6>2 DEF Agreeing
          <5>4. CASE left # <<>>
            <6>1. 1 \in 1 .. Len(line) - 1 /\ left[1] = line[1 + 1]
              BY <5>2, <5>4, EmptySeq
            <6> QED
              BY <1>1, <5>1, <5>4, <6>1 DEF Agreeing
          <5> QED
            BY <5>3, <5>4
        <4>2. CASE ~fifo_rd
          BY <3>1, <4>2 DEF BurstInv
        <4> QED
          BY <4>1, <4>2
      <3>3. CASE ~more
        BY <1>2, <2>1, <3>2, <3>3
      <3>4. CASE more /\ left = <<>>
        <4>1. line' # <<>> /\ line'[1] = in.word
          <5>1. line' = Append(<<>>, in.word)
            BY <2>1, <3>4
          <5>2. Append(<<>>, in.word) = <<in.word>>
            OBVIOUS
          <5> QED
            BY <5>1, <5>2
        <4>2. burst # -1
          BY <3>1, <3>2, <3>4 DEF Bits
        <4> QED
          BY <1>3, <3>2, <3>4, <4>1, <4>2
      <3>5. CASE more /\ left # <<>>
        <4>1. line' # <<>> /\ line'[1] = left[1]
          BY <1>3, <2>1, <2>2, <3>5
        <4> QED
          BY <3>2, <3>5, <4>1
      <3> QED
        BY <3>3, <3>4, <3>5
    <2> QED
      BY <2>3, <2>4 DEF BurstInv, Agreeing
  <1> QED
    BY <1>1, <1>4, <1>5 DEF TypeOK, Bits

(* The address and the list of requests, one step per state.                 *)
LEMMA IssueNext ==
    ASSUME ExecInv, BurstInv, IssueInv, NEW in \in Input, Clock(in)
    PROVE  IssueInv'
  <1>1. /\ TypeOK /\ CountInv /\ TypeOK' /\ CountInv' /\ BusRules(in) /\ Fsm(in)
        /\ Observe(in) /\ Addresses(in) /\ Counting(in) /\ Fifo(in)
    BY TypeNext, CountNext DEF ExecInv, Clock
  <1>2. /\ o_wb_addr \in Address /\ want \in Address /\ o_wb_addr' \in Address /\ r_inc \in Bits
        /\ o_wb_stb \in Bits /\ r_len \in Nat /\ todo \in Seq(WbRequest)
        /\ o_wb_addr' = NextAddr(in)
        /\ o_wb_addr \in Nat /\ want \in Nat /\ o_wb_cyc \in Bits /\ o_busy \in Bits
    BY <1>1 DEF TypeOK, Addresses, Address
  <1>3. accept(in) <=> o_wb_stb = 1 /\ in.stall = 0
    BY <1>1 DEF accept, CountInv
  <1>4. CASE r_wdt_reset = 1 \/ i_wb_err(in)
    <2>1. want' = o_wb_addr'
      BY <1>1, <1>2, <1>4 DEF Observe
    <2>2. wb_state' \in {"IDLE", "FLUSH"}
      BY <1>1, <1>4 DEF Fsm, FsmReset, FsmIdle, FsmRead, FsmWrite, FsmFlush, BusRules,
                        CountInv, i_wb_err
    <2> QED
      BY <2>1, <2>2 DEF IssueInv
  <1>5. CASE r_wdt_reset = 0 /\ ~i_wb_err(in) /\ wb_state = "IDLE"
    <2>1. /\ o_busy = 0 /\ o_wb_cyc = 0 /\ o_wb_stb = 0 /\ todo = <<>> /\ want = o_wb_addr
          /\ ~accept(in) /\ (fifo_rd <=> i_stb)
      BY <1>1, <1>2, <1>3, <1>5 DEF CountInv, IssueInv, fifo_rd, Bits
    <2>2. FsmIdle /\ r_inc' = o_data.inc /\ r_len' = o_data.val
      BY <1>1, <1>5, <2>1 DEF Fsm, FsmReset, FsmIdle, FsmRead, FsmWrite, FsmFlush,
                              Addresses, Counting
    <2>3. /\ o_data.val \in Nat /\ o_data.inc \in Bits
          /\ o_data.op \in {"abs", "rel", "write", "read", "other", "none"}
          /\ Asked \in Seq(WbRequest)
      BY <1>1, WordType, AskedFacts DEF TypeOK
    <2>4. CASE ~i_stb
      <3>1. want' = want /\ o_wb_addr' = o_wb_addr /\ wb_state' = "IDLE"
        BY <1>1, <1>2, <1>5, <2>1, <2>2, <2>4 DEF Observe, NextAddr, FsmIdle
      <3> QED
        BY <2>1, <3>1 DEF IssueInv
    <2>5. /\ i_stb => todo' = Asked
          /\ i_stb => want' = CASE o_data.op = "abs" -> o_data.val
                                [] o_data.op = "rel" -> Plus(want, o_data.val)
                                [] OTHER -> Plus(want, o_data.inc * Len(Asked))
      BY <1>1, <1>5, <2>1, <2>3 DEF Observe
    <2>6. CASE i_stb /\ o_data.op \in {"abs", "rel"}
      <3>1. wb_state' = "IDLE" /\ want' = o_wb_addr'
        BY <1>2, <2>1, <2>2, <2>5, <2>6 DEF FsmIdle, NextAddr
      <3> QED
        BY <3>1 DEF IssueInv
    <2>7. i_stb /\ o_data.op \notin {"abs", "rel"} =>
             o_wb_addr' = o_wb_addr /\ want' = Plus(o_wb_addr, o_data.inc * Len(Asked))
      BY <1>2, <2>1, <2>5 DEF NextAddr
    <2>8. CASE i_stb /\ o_data.op \in {"other", "none"}
      <3>1. Len(Asked) = 0 /\ o_data.inc * 0 = 0
        BY <1>1, <2>3, <2>8, AskedFacts DEF Bits
      <3>2. wb_state' = "IDLE" /\ want' = o_wb_addr'
        BY <1>2, <2>2, <2>7, <2>8, <3>1, PlusZero DEF FsmIdle
      <3> QED
        BY <3>2 DEF IssueInv
    <2>9. CASE i_stb /\ o_data.op = "write"
      <3>1. /\ wb_state' = "WRITE" /\ o_wb_stb' = 1 /\ o_busy' = 1 /\ o_wb_data' = o_data.val
            /\ o_wb_we' = 1
        BY <1>1, <2>2, <2>9 DEF FsmIdle, IsWrite, Bit, CountInv
      <3>2. todo' = <<[we |-> 1, addr |-> want, data |-> o_data.val]>> /\ Len(Asked) = 1
        BY <1>1, <2>5, <2>9, AskedFacts DEF Asked
      <3>3. want' = Plus(o_wb_addr', o_wb_stb' * r_inc')
        <4>1. o_data.inc * 1 = 1 * o_data.inc
          BY <2>3 DEF Bits
        <4> QED
          BY <2>2, <2>7, <2>9, <3>1, <3>2, <4>1
      <3>4. todo' = <<Request'>>
        BY <2>1, <2>7, <2>9, <3>1, <3>2 DEF Request
      <3> QED
        BY <3>1, <3>3, <3>4 DEF IssueInv
    <2>10. CASE i_stb /\ o_data.op = "read"
      <3>1. wb_state' = "READ"
        BY <2>2, <2>10 DEF FsmIdle, IsWrite, Bit
      <3>2. todo' = Reads(o_wb_addr', r_len', r_inc')
        BY <2>1, <2>2, <2>5, <2>7, <2>10 DEF Asked, Reads
      <3>3. want' = Plus(o_wb_addr', r_len' * r_inc')
        <4>1. Len(Asked) = o_data.val /\ o_data.inc * o_data.val = o_data.val * o_data.inc
          BY <1>1, <2>3, <2>10, AskedFacts DEF Bits
        <4> QED
          BY <2>2, <2>7, <2>10, <4>1
      <3> QED
        BY <3>1, <3>2, <3>3 DEF IssueInv, Reads, Plus
    <2> QED
      BY <2>3, <2>4, <2>6, <2>8, <2>9, <2>10
  <1>6. CASE r_wdt_reset = 0 /\ ~i_wb_err(in) /\ wb_state = "READ"
    <2>1. /\ o_wb_cyc = 1 /\ ~fifo_rd /\ r_inc' = r_inc /\ want' = want
          /\ todo = Reads(o_wb_addr, r_len, r_inc)
          /\ want = Plus(o_wb_addr, r_len * r_inc)
      BY <1>1, <1>6 DEF CountInv, fifo_rd, Addresses, Observe, IssueInv
    <2>2. todo' = IF accept(in) /\ todo # <<>> THEN Tail(todo) ELSE todo
      BY <1>1, <1>6, <2>1 DEF Observe
    <2>3. /\ todo' = Reads(o_wb_addr', r_len', r_inc')
          /\ want' = Plus(o_wb_addr', r_len' * r_inc')
          /\ r_len' \in Nat /\ Len(todo') = r_len'
      <3>1. CASE ~accept(in)
        <4>1. o_wb_addr' = o_wb_addr /\ r_len' = r_len /\ todo' = todo
          BY <1>1, <1>2, <1>3, <2>1, <2>2, <3>1 DEF NextAddr, Counting
        <4> QED
          BY <1>2, <2>1, <4>1, ReadsFacts
      <3>2. CASE accept(in)
        <4>1. r_len >= 1 /\ r_len' = r_len - 1
          BY <1>1, <1>2, <1>3, <1>6, <2>1, <3>2 DEF CountInv, Counting
        <4>2. o_wb_addr' = Plus(o_wb_addr, r_inc)
          BY <1>2, <1>3, <2>1, <3>2, PlusZero DEF NextAddr, Bits
        <4>3. todo # <<>>
          BY <1>2, <2>1, <4>1, ReadsFacts, EmptySeq
        <4>4. todo' = Reads(o_wb_addr', r_len', r_inc')
          <5>1. todo' = Tail(Reads(o_wb_addr, r_len, r_inc))
            BY <2>1, <2>2, <3>2, <4>3
          <5>2. Tail(Reads(o_wb_addr, r_len, r_inc)) = Reads(Plus(o_wb_addr, r_inc), r_len - 1, r_inc)
            BY <1>2, <4>1, ReadsFacts
          <5> QED
            BY <2>1, <4>1, <4>2, <5>1, <5>2
        <4>5. want = Plus(Plus(o_wb_addr, r_inc), (r_len - 1) * r_inc)
          <5> DEFINE m == (r_len - 1) * r_inc
          <5>1. r_len * r_inc = r_inc + m /\ m \in Nat /\ r_inc \in Nat
            BY <1>2, <4>1 DEF Bits
          <5> HIDE DEF m
          <5>2. Plus(Plus(o_wb_addr, r_inc), m) = Plus(o_wb_addr, r_inc + m)
            BY <1>2, <5>1, PlusPlus
          <5> QED
            BY <2>1, <5>1, <5>2 DEF m
        <4>6. r_len' \in Nat /\ r_inc' \in Bits /\ o_wb_addr' \in Address
          BY <1>2, <2>1, <4>1
        <4>7. Len(Reads(o_wb_addr', r_len', r_inc')) = r_len'
          BY <4>6, ReadsFacts
        <4> QED
          BY <2>1, <4>1, <4>2, <4>4, <4>5, <4>6, <4>7
      <3> QED
        BY <3>1, <3>2
    <2>4. CASE wb_state' = "IDLE"
      <3>1. r_len' = 0 /\ 0 * r_inc = 0
        BY <1>1, <1>2, <2>3, <2>4, EmptySeq DEF CountInv, Bits
      <3> QED
        BY <1>2, <2>1, <2>3, <2>4, <3>1, PlusZero DEF IssueInv
    <2>5. CASE wb_state' = "READ"
      BY <2>3, <2>5 DEF IssueInv, Reads, Plus
    <2> QED
      BY <1>1, <1>6, <2>4, <2>5 DEF Fsm, FsmReset, FsmIdle, FsmRead, FsmWrite, FsmFlush
  <1>7. CASE r_wdt_reset = 0 /\ ~i_wb_err(in) /\ wb_state = "WRITE"
    <2>1. /\ o_wb_cyc = 1 /\ o_wb_we = 1 /\ o_wb_we' = 1 /\ r_inc' = r_inc
          /\ (o_busy = 0 => i_stb /\ IsWrite(o_data) /\ o_wb_stb = 0)
          /\ want = Plus(o_wb_addr, o_wb_stb * r_inc)
          /\ o_wb_stb = 1 => o_busy = 1 /\ todo = <<Request>>
      BY <1>1, <1>7 DEF CountInv, Addresses, IssueInv
    <2>2. FsmWrite(in) /\ in.stall \in Bits
      BY <1>1, <1>7 DEF Fsm, FsmReset, FsmIdle, FsmRead, FsmWrite, FsmFlush, Input
    <2>3. 0 * r_inc = 0 /\ 1 * r_inc = r_inc
      BY <1>2 DEF Bits
    <2>4. CASE fifo_rd
      <3>1. /\ i_stb /\ o_busy = 0 /\ IsWrite(o_data) /\ o_wb_stb = 0 /\ todo = <<>>
            /\ want = o_wb_addr /\ ~accept(in)
        BY <1>1, <1>2, <1>3, <1>7, <2>1, <2>3, <2>4, PlusZero, EmptySeq
           DEF fifo_rd, CountInv
      <3>2. o_data.inc = r_inc
        BY <1>1, <1>7, <3>1, LineType DEF BurstInv
      <3>3. /\ wb_state' = "WRITE" /\ o_wb_stb' = 1 /\ o_busy' = 1
            /\ o_wb_data' = o_data.val /\ o_wb_addr' = o_wb_addr
        BY <1>2, <1>7, <2>2, <3>1 DEF FsmWrite, NextAddr, Bit, IsWrite
      <3>4. /\ Asked = <<[we |-> 1, addr |-> want, data |-> o_data.val]>> /\ Len(Asked) = 1
            /\ Asked \in Seq(WbRequest)
        BY <1>1, <3>1, AskedFacts DEF Asked, IsWrite
      <3>5. todo' = Asked /\ want' = Plus(want, r_inc * 1)
        BY <1>1, <1>7, <2>4, <3>1, <3>2, <3>4 DEF Observe, IsWrite
      <3>6. todo' = <<Request'>>
        BY <2>1, <3>1, <3>3, <3>4, <3>5 DEF Request
      <3>7. want' = Plus(o_wb_addr', o_wb_stb' * r_inc')
        <4>1. r_inc * 1 = 1 * r_inc
          BY <1>2 DEF Bits
        <4> QED
          BY <2>1, <3>1, <3>3, <3>5, <4>1
      <3> QED
        BY <3>3, <3>6, <3>7 DEF IssueInv
    <2>5. CASE ~fifo_rd /\ accept(in)
      <3>1. o_wb_stb = 1 /\ in.stall = 0 /\ o_busy = 1 /\ want' = want
        BY <1>1, <1>3, <1>7, <2>1, <2>5 DEF Observe
      <3>2. wb_state' = "WRITE" /\ o_wb_stb' = 0
        BY <1>7, <2>2, <3>1 DEF FsmWrite
      <3>3. o_wb_addr' = Plus(o_wb_addr, r_inc)
        BY <1>2, <2>5, <3>1, PlusZero DEF NextAddr, Bits
      <3>4. want' = o_wb_addr'
        BY <2>1, <2>3, <3>1, <3>3
      <3>5. want' = Plus(o_wb_addr', o_wb_stb' * r_inc')
        BY <1>2, <2>1, <2>3, <3>2, <3>4, PlusZero
      <3> QED
        BY <3>2, <3>5 DEF IssueInv
    <2>6. CASE ~fifo_rd /\ ~accept(in)
      <3>1. o_busy = 1 /\ want' = want /\ todo' = todo
        BY <1>1, <1>2, <1>7, <2>1, <2>6 DEF Observe, fifo_rd, Bits
      <3>2. o_wb_addr' = o_wb_addr /\ o_wb_stb' = o_wb_stb /\ o_wb_data' = o_wb_data
        BY <1>2, <1>3, <1>7, <2>2, <2>6, <3>1 DEF NextAddr, FsmWrite, Bits
      <3>3. CASE wb_state' = "IDLE"
        <4>1. o_wb_stb = 0
          BY <1>7, <2>2, <3>3 DEF FsmWrite
        <4>2. want = o_wb_addr
          BY <1>2, <2>1, <2>3, <4>1, PlusZero
        <4> QED
          BY <3>1, <3>2, <3>3, <4>2 DEF IssueInv
      <3>4. CASE wb_state' = "WRITE"
        <4>1. want' = Plus(o_wb_addr', o_wb_stb' * r_inc')
          BY <2>1, <3>1, <3>2
        <4>2. o_wb_stb' = 1 => o_busy' = 1
          BY <1>7, <2>2, <3>2 DEF FsmWrite, Bit
        <4>3. o_wb_stb' = 1 => todo' = <<Request'>>
          BY <2>1, <3>1, <3>2 DEF Request
        <4> QED
          BY <3>4, <4>1, <4>2, <4>3 DEF IssueInv
      <3> QED
        BY <1>7, <2>2, <3>3, <3>4 DEF FsmWrite
    <2> QED
      BY <2>4, <2>5, <2>6
  <1>8. CASE r_wdt_reset = 0 /\ ~i_wb_err(in) /\ wb_state = "FLUSH"
    <2>1. o_wb_stb = 0 /\ ~fifo_rd /\ want = o_wb_addr
      BY <1>1, <1>2, <1>8 DEF CountInv, IssueInv, fifo_rd, Bits
    <2>2. want' = want /\ o_wb_addr' = o_wb_addr
      BY <1>1, <1>2, <1>8, <2>1 DEF Observe, NextAddr
    <2>3. wb_state' \in {"IDLE", "FLUSH"}
      BY <1>1, <1>8 DEF Fsm, FsmReset, FsmIdle, FsmRead, FsmWrite, FsmFlush
    <2> QED
      BY <2>1, <2>2, <2>3 DEF IssueInv
  <1> QED
    BY <1>1, <1>4, <1>5, <1>6, <1>7, <1>8 DEF TypeOK, Bits

IssueIInv == ExecInv /\ BurstInv /\ IssueInv

LEMMA InitIssueIInv == Init => IssueIInv
  <1> SUFFICES ASSUME Init PROVE BurstInv /\ IssueInv
    BY InitExecInv DEF IssueIInv
  <1>1. line = <<>>
    <2>1. line = <<>> \o <<>>
      BY DEF Init, line
    <2> QED
      BY <2>1
  <1> QED
    BY <1>1 DEF Init, BurstInv, IssueInv

LEMMA NextIssueIInv == IssueIInv /\ [Next]_vars => IssueIInv'
  <1>1. ASSUME IssueIInv, Next PROVE IssueIInv'
    BY <1>1, NextExecInv, BurstNext, IssueNext DEF Next, IssueIInv
  <1>2. ASSUME IssueIInv, UNCHANGED vars PROVE IssueIInv'
    <2>1. ExecInv'
      BY <1>2, NextExecInv DEF IssueIInv
    <2>2. BurstInv'
      BY <1>2 DEF IssueIInv, BurstInv, line, vars, fsm, counts, addrs, fifo, observer, IsWrite
    <2>3. IssueInv'
      BY <1>2 DEF IssueIInv, IssueInv, Reads, Plus, Request, vars, fsm, counts, addrs, fifo,
                  observer
    <2> QED
      BY <2>1, <2>2, <2>3 DEF IssueIInv
  <1> QED
    BY <1>1, <1>2

(* Every request on the bus is the next one that the host's codewords ask for, at
   its address, with its data and in its direction; none is left over when
   wbuexec.v returns to idle.                                                *)
THEOREM ExecIssuedAsCommanded == Spec => []IssuedAsCommanded
  <1>1. IssueIInv => IssuedAsCommanded
    <2> SUFFICES ASSUME IssueIInv, o_wb_stb = 1 PROVE todo # <<>> /\ Request = Head(todo)
      BY DEF IssueIInv, ExecInv, CountInv, IssuedAsCommanded
    <2>1. /\ TypeOK /\ wb_state \in {"READ", "WRITE"}
      BY DEF IssueIInv, ExecInv, CountInv
    <2>2. CASE wb_state = "READ"
      <3>1. /\ r_len >= 1 /\ r_len \in Nat /\ r_inc \in Bits /\ o_wb_addr \in Address
            /\ o_wb_we = 0 /\ todo = Reads(o_wb_addr, r_len, r_inc)
        BY <2>1, <2>2 DEF IssueIInv, ExecInv, CountInv, TypeOK, IssueInv
      <3>2. Head(todo) = [we |-> 0, data |-> 0, addr |-> o_wb_addr] /\ todo # <<>>
        BY <3>1, ReadsFacts, EmptySeq
      <3> QED
        BY <3>1, <3>2 DEF Request
    <2>3. CASE wb_state = "WRITE"
      BY <2>3 DEF IssueIInv, IssueInv
    <2> QED
      BY <2>1, <2>2, <2>3
  <1> QED
    BY <1>1, InitIssueIInv, NextIssueIInv, PTL DEF Spec
=============================================================================
