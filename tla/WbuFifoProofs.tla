--------------------------- MODULE WbuFifoProofs ---------------------------
(* For every ring size FLEN >= 3 and every set of words, the FIFO of
   wbufifo.v is an exact bounded queue of FLEN + 1 places.                  *)
EXTENDS WbuFifo, TLAPS

(* The pointers count: a write adds one to the fill level, a read takes one
   away, for every position of the pointers, wrapped or not.                *)
Dist(w, r) == IF w >= r THEN w - r ELSE w + 2 * FLEN - r

LEMMA NxtType ==
    ASSUME NEW p \in Pointer
    PROVE  Nxt(p) \in Pointer /\ LowBits(p) \in Address
  BY FLENAssumption DEF Nxt, Pointer, LowBits, Address

LEMMA DistNxt ==
    ASSUME NEW w \in Pointer, NEW r \in Pointer
    PROVE  /\ Dist(w, r) \in 0 .. 2 * FLEN - 1
           /\ Dist(w, r) < 2 * FLEN - 1 => Dist(Nxt(w), r) = Dist(w, r) + 1
           /\ Dist(w, r) > 0 => Dist(w, Nxt(r)) = Dist(w, r) - 1
           /\ Dist(Nxt(w), Nxt(r)) = Dist(w, r)
           /\ (Dist(w, r) = 0) <=> (w = r)
           /\ Dist(w, r) = FLEN <=> /\ LowBits(w) = LowBits(r)
                                    /\ WrapBit(w) # WrapBit(r)
  BY FLENAssumption DEF Dist, Nxt, Pointer, LowBits, WrapBit

(* Ring addresses: the write pointer is Dist places after the read pointer,
   distinct places of a ring that is not over-full have distinct addresses,
   and moving the read pointer renumbers the places by one.                 *)
At(r, i) == LowBits(IF r + i >= 2 * FLEN THEN r + i - 2 * FLEN ELSE r + i)

LEMMA AtFacts ==
    ASSUME NEW w \in Pointer, NEW r \in Pointer, NEW i \in 0 .. FLEN
    PROVE  /\ At(r, i) \in Address
           /\ Dist(w, r) = i => LowBits(w) = At(r, i)
           /\ i > 0 /\ i < FLEN /\ i < Dist(w, r) /\ Dist(w, r) <= FLEN
                 => At(r, i) # LowBits(w)
           /\ Dist(w, r) > 0 /\ Dist(w, r) < FLEN => At(r, 0) # LowBits(w)
           /\ i < FLEN => At(Nxt(r), i) = At(r, i + 1)
           /\ At(r, 0) = LowBits(r)
  BY FLENAssumption DEF At, Dist, Nxt, Pointer, LowBits, Address

LEMMA FillIsDist ==
    /\ Fill = Dist(r_wrptr, r_rdptr)
    /\ Fill' = Dist(r_wrptr', r_rdptr')
    /\ \A i : AddrAt(i) = At(r_rdptr, i)
    /\ \A i : AddrAt(i)' = At(r_rdptr', i)
  BY DEF Fill, Dist, AddrAt, At

-----------------------------------------------------------------------------
LEMMA InitIInv == Init => IInv
  <1> SUFFICES ASSUME Init PROVE IInv
    OBVIOUS
  <1>1. TypeOK
    BY FLENAssumption DEF Init, TypeOK, Pointer, Address, Bits
  <1>2. Fill = 0
    BY DEF Init, Fill
  <1>3. FlagInv
    BY <1>2, FLENAssumption DEF Init, FlagInv
  <1>4. DataInv
    BY <1>2 DEF Init, DataInv
  <1> QED BY <1>1, <1>3, <1>4 DEF IInv

(* One clock without reset.  The ring's fill level, the output register and
   the queue move together: the queue loses a word exactly when the output
   register is taken, the ring loses one exactly when the output register is
   loaded from it.                                                          *)
LEMMA ClockIInv ==
    ASSUME IInv, NEW i_wr \in BOOLEAN, NEW i_rd \in BOOLEAN, NEW i_data \in Word,
           Clock(i_wr, i_data, i_rd)
    PROVE  IInv'
  <1> DEFINE wr == w_write(i_wr, i_rd)
             rd == w_read(i_rd)
             pop == i_rd /\ o_empty_n = 1
  <1> USE FLENAssumption DEF IInv, Bit, Bits
  <1>0. /\ r_wrptr \in Pointer /\ r_rdptr \in Pointer
        /\ Fill \in 0 .. FLEN
        /\ will_overflow \in Bits /\ will_underflow \in Bits
        /\ o_empty_n \in Bits
    BY FillIsDist, DistNxt, FLENAssumption DEF TypeOK, FlagInv
  <1>1. TypeOK'
    <2>1. queue' \in Seq(Word)
      <3>1. Popped(i_rd) \in Seq(Word)
        BY <1>0 DEF TypeOK, Popped, FlagInv
      <3> QED BY <3>1 DEF Clock, Observe
    <2>2. fifo' \in [Address -> Word] /\ o_data' \in Word
      BY NxtType DEF TypeOK, Clock, DataPath
    <2>3. r_wrptr' \in Pointer /\ r_rdptr' \in Pointer
      BY NxtType DEF TypeOK, Clock
    <2>4. /\ will_overflow' \in Bits /\ will_underflow' \in Bits
          /\ o_empty_n' \in Bits
      BY <1>0 DEF Clock, NextOverflow, NextUnderflow, NextEmptyN
    <2> QED BY <2>1, <2>2, <2>3, <2>4 DEF TypeOK
  <1>2. wr <=> i_wr /\ (Fill < FLEN \/ i_rd)
    BY <1>0 DEF w_write, FlagInv
  <1>3. rd <=> (i_rd \/ o_empty_n = 0) /\ Fill > 0
    BY <1>0 DEF w_read, FlagInv
  <1>4. Fill' = Fill + (IF wr THEN 1 ELSE 0) - (IF rd THEN 1 ELSE 0)
    <2>1. CASE wr /\ rd
      BY <2>1, <1>0, DistNxt, FillIsDist, FLENAssumption DEF Clock
    <2>2. CASE wr /\ ~rd
      <3>1. Fill < 2 * FLEN - 1
        BY <1>0, FLENAssumption
      <3> QED BY <2>2, <3>1, <1>0, DistNxt, FillIsDist, FLENAssumption DEF Clock
    <2>3. CASE ~wr /\ rd
      BY <2>3, <1>0, <1>3, DistNxt, FillIsDist, FLENAssumption DEF Clock
    <2>4. CASE ~wr /\ ~rd
      BY <2>4, <1>0, FillIsDist DEF Clock
    <2> QED BY <2>1, <2>2, <2>3, <2>4
  <1>5. o_empty_n' = o_empty_n + (IF rd THEN 1 ELSE 0) - (IF pop THEN 1 ELSE 0)
    BY <1>0, <1>3 DEF Clock, NextEmptyN, FlagInv
  <1>6. Len(queue') = Len(queue) + (IF wr THEN 1 ELSE 0) - (IF pop THEN 1 ELSE 0)
    <2>1. queue \in Seq(Word) /\ (pop => Len(queue) > 0)
      BY <1>0 DEF TypeOK, FlagInv
    <2>2. Len(Popped(i_rd)) = Len(queue) - (IF pop THEN 1 ELSE 0)
      BY <2>1 DEF Popped
    <2>3. Popped(i_rd) \in Seq(Word)
      BY <2>1 DEF Popped
    <2>4. queue' = IF wr THEN Append(Popped(i_rd), i_data) ELSE Popped(i_rd)
      BY <1>0 DEF Clock, Observe, w_write
    <2>5. Len(Append(Popped(i_rd), i_data)) = Len(Popped(i_rd)) + 1
      BY <2>3
    <2>6. Len(Popped(i_rd)) \in Int /\ Len(queue) \in Int
      BY <2>1, <2>3
    <2>7. CASE wr
      <3>1. Len(queue') = Len(Popped(i_rd)) + 1
        BY <2>4, <2>5, <2>7
      <3> QED BY <2>7, <3>1, <2>2, <2>6
    <2>8. CASE ~wr
      <3>1. Len(queue') = Len(Popped(i_rd))
        BY <2>4, <2>8
      <3> QED BY <2>8, <3>1, <2>2, <2>6
    <2> QED BY <2>7, <2>8
  <1>7. FlagInv'
    <2>1. Len(queue)' = Fill' + o_empty_n'
      BY <1>0, <1>4, <1>5, <1>6, FLENAssumption DEF FlagInv, TypeOK
    <2>2. Fill' <= FLEN
      BY <1>0, <1>2, <1>3, <1>4, FLENAssumption
    <2>3. will_underflow' = 1 <=> Fill' = 0
      <3>1. Nxt(r_rdptr) = r_wrptr <=> Fill = 1
        BY <1>0, FillIsDist, DistNxt, NxtType, FLENAssumption
           DEF Dist, Nxt, Pointer
      <3> QED BY <3>1, <1>0, <1>2, <1>3, <1>4, FLENAssumption
              DEF FlagInv, Clock, NextUnderflow
    <2>4. will_overflow' = 1 <=> Fill' = FLEN
      <3>1. (/\ LowBits(Nxt(r_wrptr)) = LowBits(r_rdptr)
             /\ WrapBit(Nxt(r_wrptr)) # WrapBit(r_rdptr)) <=> Fill = FLEN - 1
        BY <1>0, FillIsDist, FLENAssumption
           DEF Dist, Nxt, Pointer, LowBits, WrapBit
      <3> QED BY <3>1, <1>0, <1>2, <1>3, <1>4, FLENAssumption
              DEF FlagInv, Clock, NextOverflow
    <2>5. o_empty_n' = 0 => Fill' <= 1
      BY <1>0, <1>2, <1>3, <1>4, FLENAssumption DEF FlagInv, Clock, NextEmptyN
    <2> QED BY <2>1, <2>2, <2>3, <2>4, <2>5 DEF FlagInv
  <1>8. DataInv'
    <2> DEFINE base == IF pop THEN 1 ELSE 0
               step == IF rd THEN 1 ELSE 0
    <2>1. queue \in Seq(Word) /\ Len(queue) = Fill + o_empty_n
      BY DEF TypeOK, FlagInv
    <2>2. ASSUME NEW j \in 1 .. Len(queue) - base
          PROVE  queue'[j] = queue[j + base]
      <3>1. /\ Popped(i_rd) \in Seq(Word)
            /\ Len(Popped(i_rd)) = Len(queue) - base
            /\ Popped(i_rd)[j] = queue[j + base]
        BY <1>0, <2>1 DEF Popped
      <3> QED BY <3>1, <1>0 DEF Clock, Observe
    <2>3. wr => queue'[Len(queue) - base + 1] = i_data
      <3>1. /\ Popped(i_rd) \in Seq(Word)
            /\ Len(Popped(i_rd)) = Len(queue) - base
        BY <1>0, <2>1 DEF Popped
      <3> QED BY <3>1, <1>0 DEF Clock, Observe, w_write
    <2>4. ASSUME NEW i \in 0 .. FLEN - 1
          PROVE  AddrAt(i)' = AddrAt(i + step)
      BY <1>0, AtFacts, FillIsDist DEF Clock
    <2>5. ASSUME NEW i \in 0 .. FLEN - 1, i < Fill, ~(wr /\ i = 0 /\ Fill = FLEN)
          PROVE  fifo'[AddrAt(i)] = fifo[AddrAt(i)] /\ AddrAt(i) \in Address
      <3>1. AddrAt(i) = At(r_rdptr, i) /\ Fill = Dist(r_wrptr, r_rdptr)
        BY FillIsDist
      <3>2. AddrAt(i) \in Address
        BY <3>1, <1>0, AtFacts
      <3>3. wr => AddrAt(i) # LowBits(r_wrptr)
        BY <3>1, <2>5, <1>0, AtFacts
      <3> QED BY <3>2, <3>3 DEF Clock, DataPath, TypeOK
    <2>6. wr => fifo'[LowBits(r_wrptr)] = i_data /\ LowBits(r_wrptr) = AddrAt(Fill)
      BY <1>0, AtFacts, FillIsDist, NxtType DEF Clock, DataPath, TypeOK
    <2>7. ASSUME o_empty_n' = 1 PROVE queue'[1] = o_data'
      <3>1. CASE rd
        <4>1. o_data' = fifo[AddrAt(0)] /\ Fill > 0
          BY <3>1, <1>0, <1>3, AtFacts, FillIsDist DEF Clock, DataPath
        <4>2. queue[1 + o_empty_n] = fifo[AddrAt(0)]
          BY <4>1, <1>0 DEF DataInv
        <4>3. base = o_empty_n
          BY <3>1, <1>0, <1>3
        <4> QED BY <4>1, <4>2, <4>3, <2>1, <2>2, <1>0
      <3>2. CASE ~rd
        <4>1. o_empty_n = 1 /\ base = 0 /\ o_data' = o_data
          BY <3>2, <2>7, <1>0, <1>5 DEF Clock, DataPath
        <4> QED BY <4>1, <2>1, <2>2, <1>0 DEF DataInv
      <3> QED BY <3>1, <3>2
    <2>8. ASSUME NEW i \in 0 .. FLEN - 1, i < Fill'
          PROVE  queue'[i + 1 + o_empty_n'] = fifo'[AddrAt(i)']
      <3>0. AddrAt(i)' = AddrAt(i + step) /\ o_empty_n' = o_empty_n + step - base
        BY <2>4, <1>5
      <3>1. CASE i + step < Fill
        <4>1. i + step \in 0 .. FLEN - 1 /\ ~(wr /\ i + step = 0 /\ Fill = FLEN)
          BY <3>1, <1>0, <1>2, <1>3
        <4>2. fifo'[AddrAt(i + step)] = fifo[AddrAt(i + step)]
          BY <4>1, <3>1, <2>5
        <4>3. queue[i + step + 1 + o_empty_n] = fifo[AddrAt(i + step)]
          BY <4>1, <3>1 DEF DataInv
        <4>4. i + 1 + o_empty_n + step - base \in 1 .. Len(queue) - base
          BY <2>1, <3>1, <1>0
        <4>5. queue'[i + 1 + o_empty_n + step - base] = queue[i + 1 + o_empty_n + step]
          BY <2>2, <4>4, <1>0, SMTT(40)
        <4> QED BY <4>2, <4>3, <4>5, <3>0, <1>0
      <3>2. CASE i + step >= Fill
        <4>1. wr /\ i + step = Fill
          BY <3>2, <2>8, <1>0, <1>4
        <4>2. fifo'[AddrAt(i + step)] = i_data
          BY <4>1, <2>6
        <4>3. queue'[Len(queue) - base + 1] = i_data
          BY <4>1, <2>3
        <4>4. Len(queue) - base + 1 = i + 1 + o_empty_n'
          BY <2>1, <4>1, <3>0, <1>0
        <4> QED BY <4>2, <4>3, <4>4, <3>0
      <3> QED BY <3>1, <3>2, <1>0
    <2> QED BY <2>7, <2>8 DEF DataInv
  <1> QED BY <1>1, <1>7, <1>8

LEMMA ResetIInv ==
    ASSUME IInv, NEW i_wr \in BOOLEAN, NEW i_rd \in BOOLEAN, NEW i_data \in Word,
           Reset(i_wr, i_data, i_rd)
    PROVE  IInv'
  <1>1. fifo' \in [Address -> Word] /\ o_data' \in Word
    BY NxtType DEF IInv, TypeOK, Reset, DataPath
  <1>2. TypeOK'
    BY <1>1, FLENAssumption DEF Reset, TypeOK, Pointer, Bits
  <1>3. Fill' = 0
    BY DEF Reset, Fill
  <1>4. FlagInv'
    BY <1>3, FLENAssumption DEF Reset, FlagInv
  <1>5. DataInv'
    BY <1>3 DEF Reset, DataInv
  <1> QED BY <1>2, <1>4, <1>5 DEF IInv

LEMMA NextIInv == IInv /\ [Next]_vars => IInv'
  <1> SUFFICES ASSUME IInv, [Next]_vars PROVE IInv'
    OBVIOUS
  <1>1. CASE Next
    BY <1>1, ClockIInv, ResetIInv DEF Next
  <1>2. CASE UNCHANGED vars
    BY <1>2 DEF vars, IInv, TypeOK, FlagInv, DataInv, Fill, AddrAt
  <1> QED BY <1>1, <1>2

(* The registers of wbufifo.v keep their types, their flags agree with their
   pointers, and the ring with its output register holds, word for word, what
   the ports' observer wrote down.                                          *)
THEOREM FifoInvariant == Spec => []IInv
  <1> QED BY InitIInv, NextIInv, PTL DEF Spec

(* InOrder of every behaviour: o_data is the oldest word not yet read.      *)
THEOREM FifoInOrder == Spec => []InOrder
  <1>1. IInv => InOrder
    BY FLENAssumption, FillIsDist, DistNxt DEF IInv, TypeOK, FlagInv, DataInv, InOrder
  <1> QED BY <1>1, FifoInvariant, PTL

(* RefusesOnlyWhenFull of every behaviour: o_err on a write means that all
   FLEN + 1 places are taken, and the warning is never late.                *)
THEOREM FifoRefusesOnlyWhenFull == Spec => []RefusesOnlyWhenFull
  <1>1. IInv => RefusesOnlyWhenFull
    BY FLENAssumption, FillIsDist, DistNxt
       DEF IInv, TypeOK, FlagInv, RefusesOnlyWhenFull, Bits
  <1> QED BY <1>1, FifoInvariant, PTL

(* NoHiddenBacklog of every behaviour: "empty" hides at most one word.      *)
THEOREM FifoNoHiddenBacklog == Spec => []NoHiddenBacklog
  <1>1. IInv => NoHiddenBacklog
    BY FLENAssumption, FillIsDist, DistNxt DEF IInv, TypeOK, FlagInv, NoHiddenBacklog
  <1> QED BY <1>1, FifoInvariant, PTL

(* wbufifo.v is a queue, for every ring size and word width: words come out in the
   order they were written, a write is refused exactly when all FLEN + 1 places
   are taken, and "empty" hides at most one word.                            *)
THEOREM FifoIsAQueue == Spec => []QueueInv
  <1> QED BY FifoInOrder, FifoRefusesOnlyWhenFull, FifoNoHiddenBacklog, PTL DEF QueueInv
=============================================================================
