------------------------- MODULE WbuCompressProofs -------------------------
(* For every table size, every pair of code lengths and all values and
   addresses: whatever leaves wbucompress.v, at whichever clock of the search it
   is taken, decodes to the oldest word that went in.                        *)
EXTENDS WbuCompress, SequenceTheorems, TLAPS

Word == [t : {"addr", "data", "other"}, v : Nat, inc : {0, 1}, n : 0 .. 5]
Place == 0 .. TBL - 1

TypeInv ==
    /\ i_stb \in Bits /\ i_codword \in Codeword /\ i_busy \in Bits
    /\ aword_valid \in Bits /\ a_addrword \in Word /\ r_word \in Word /\ o_stb \in Bits
    /\ tbl_addr \in Place /\ tbl_filled \in Bits /\ compression_tbl \in [Place -> Nat]
    /\ dffaddr \in Place /\ maddr \in Place /\ cword \in Nat
    /\ vaddr \in Bits /\ pmatch \in Bits /\ dmatch \in Bits /\ addr_within_table \in Bits
    /\ matched \in Bits /\ zmatch \in Bits /\ hmatch \in Bits
    /\ d_addr \in Place /\ d_tbl \in [Place -> Int]

-----------------------------------------------------------------------------
(* The place k back from where the table is written, whether it has been written
   since the last address, and whether it holds the value looked for.        *)
At(k) == (tbl_addr - k) % TBL
Valid(k) == tbl_filled = 1 \/ k <= tbl_addr
Furthest == NLONG + NSHORT
Holds(k) == k \in 1 .. Furthest /\ Valid(k) /\ compression_tbl[At(k)] = r_word.v

(* The registers of the search, a clock apart: dffaddr is how far back rd_addr
   looks; what was read for maddr is in cword; and dmatch, zmatch, hmatch and the
   two numbers of the reference are about the place before that.             *)
LookInv ==
    /\ rd_addr = At(dffaddr) /\ rd_addr \in Place
    /\ addr_within_table = 1 => dffaddr <= Furthest + 2
    /\ addr_within_table = 1 /\ o_stb = 1 => dffaddr >= 1
    /\ pmatch = 1 => o_stb = 1
ReadInv ==
    pmatch = 1 /\ addr_within_table = 1 =>
        /\ maddr >= 1 /\ dffaddr = maddr + 1
        /\ vaddr = 1 => Valid(maddr) /\ cword = compression_tbl[At(maddr)]
MatchInv ==
    dmatch = 1 /\ addr_within_table = 1 =>
        /\ Holds(maddr - 1)
        /\ zmatch = 1 <=> maddr - 1 = 1
        /\ hmatch = 1 <=> maddr - 1 <= NSHORT + 1
        /\ matched = 0 => /\ adr_hlfd = (maddr - 3) % NSHORT
                          /\ adr_dbld = (maddr - NSHORT - 3) % TBL

(* The word at the output: itself, or a reference to a place that holds it.    *)
RefersTo(w, k) == w.t \in {"last", "short", "long"} /\ Back(w) = k
CwordInv ==
    \/ r_cword = r_word
    \/ /\ r_cword.v = r_word.v /\ r_cword.inc = r_word.inc /\ Isdata(r_word)
       /\ \E k \in 1 .. Furthest : Holds(k) /\ RefersTo(r_cword, k)

(* The words that went in and have not come out: the one under search, and the one
   behind it.                                                                *)
SentInv ==
    /\ sent \in Seq(Codeword) /\ Len(sent) = o_stb + aword_valid
    /\ o_stb = 1 => r_word = AddrCompress(sent[1])
    /\ aword_valid = 1 => a_addrword = AddrCompress(sent[1 + o_stb])

IInv == TypeInv /\ LookInv /\ ReadInv /\ MatchInv /\ CwordInv /\ SentInv /\ TablesAgree

-----------------------------------------------------------------------------
(* Arithmetic of the table's places.                                         *)
LEMMA Sizes == /\ TBL \in Nat /\ Furthest \in Nat /\ Furthest >= 2 /\ Furthest + 2 < TBL
               /\ NSHORT \in Nat /\ NSHORT >= 1 /\ NLONG \in Nat /\ NLONG >= 1
  BY CompressAssumption DEF Furthest

LEMMA PlaceFacts ==
    ASSUME NEW a \in Place, NEW k \in 0 .. TBL
    PROVE  /\ (a - k) % TBL = IF a >= k THEN a - k ELSE a - k + TBL
           /\ (a - k) % TBL \in Place
           /\ (a + 1) % TBL = IF a = TBL - 1 THEN 0 ELSE a + 1
           /\ (a + 1) % TBL \in Place
           /\ k \in 1 .. TBL - 1 => (a - k) % TBL # a
           /\ (a - 0) % TBL = a
  BY Sizes DEF Place

LEMMA Places == /\ 0 \in Place /\ 1 \in Place /\ TBL - 1 \in Place
                /\ \A a \in Place : a \in 0 .. TBL /\ a \in Nat /\ (a + 1) % TBL \in Place
  <1>1. 0 \in Place /\ 1 \in Place /\ TBL - 1 \in Place
    BY Sizes DEF Place
  <1>2. ASSUME NEW a \in Place PROVE a \in 0 .. TBL /\ a \in Nat
    BY Sizes DEF Place
  <1>3. ASSUME NEW a \in Place PROVE (a + 1) % TBL \in Place
    <2>1. 0 \in 0 .. TBL
      BY Sizes
    <2> QED
      BY <2>1, PlaceFacts
  <1> QED
    BY <1>1, <1>2, <1>3

LEMMA NextPlace ==
    ASSUME NEW a \in Place, NEW k \in 0 .. TBL - 1
    PROVE  /\ (((a + 1) % TBL) - (k + 1)) % TBL = (a - k) % TBL
           /\ (((a - k) % TBL) - 1) % TBL = (a - (k + 1)) % TBL
  <1> DEFINE b == (a + 1) % TBL
             c == (a - k) % TBL
  <1>1. k \in 0 .. TBL /\ k + 1 \in 0 .. TBL /\ 1 \in 0 .. TBL
    BY Sizes
  <1>2. b \in Place /\ b = (IF a = TBL - 1 THEN 0 ELSE a + 1)
    BY <1>1, PlaceFacts
  <1>3. c \in Place /\ c = (IF a >= k THEN a - k ELSE a - k + TBL)
    BY <1>1, PlaceFacts
  <1> HIDE DEF b, c
  <1>4. /\ (b - (k + 1)) % TBL = IF b >= k + 1 THEN b - (k + 1) ELSE b - (k + 1) + TBL
        /\ (c - 1) % TBL = IF c >= 1 THEN c - 1 ELSE c - 1 + TBL
        /\ (a - (k + 1)) % TBL = IF a >= k + 1 THEN a - (k + 1) ELSE a - (k + 1) + TBL
    BY <1>1, <1>2, <1>3, PlaceFacts
  <1>5. (b - (k + 1)) % TBL = c /\ (c - 1) % TBL = (a - (k + 1)) % TBL
    BY <1>2, <1>3, <1>4, Sizes DEF Place
  <1> QED
    BY <1>5 DEF b, c

(* The address word of fewer digits is the same address.                     *)
LEMMA Compressed ==
    ASSUME NEW w \in Codeword
    PROVE  LET c == AddrCompress(w) IN
           /\ c \in Word /\ c.t = w.t /\ c.v = w.v /\ c.inc = w.inc
           /\ Isaddr(w) => c.v % B ^ c.n = w.v
  <1>0. \A a \in Addrs : a \in Nat /\ a < B ^ 5
    <2>1. B ^ 5 \in Int
      BY CompressAssumption
    <2>2. \A a \in Addrs : a \in 0 .. B ^ 5 - 1
      BY CompressAssumption
    <2> QED
      BY <2>1, <2>2
  <1>1. w \in Word
    <2>1. Values \subseteq Nat /\ IncValues \subseteq Nat /\ Addrs \subseteq Nat
      BY <1>0, CompressAssumption
    <2>2. w \in [t : {"addr", "data", "other"}, v : Values \cup IncValues \cup Addrs \cup {0},
                inc : {0, 1}, n : {0, 5}]
      BY DEF Codeword
    <2>3. /\ w = [t |-> w.t, v |-> w.v, inc |-> w.inc, n |-> w.n]
          /\ w.t \in {"addr", "data", "other"} /\ w.inc \in {0, 1} /\ w.n \in {0, 5}
          /\ w.v \in Values \cup IncValues \cup Addrs \cup {0}
      BY <2>2
    <2>4. w.v \in Nat /\ w.n \in 0 .. 5
      BY <2>1, <2>3
    <2> QED
      BY <2>3, <2>4 DEF Word
  <1>2. CASE ~Isaddr(w)
    BY <1>1, <1>2 DEF AddrCompress
  <1>3. CASE Isaddr(w)
    <2>1. w.v \in Nat /\ w.v < B ^ 5
      <3>1. w.v \in Addrs
        BY <1>3 DEF Codeword, Isaddr
      <3> QED
        BY <1>0, <3>1
    <2> DEFINE fits(k) == w.v < B ^ k /\ \A j \in 1 .. k - 1 : w.v >= B ^ j
               n == CHOOSE k \in 1 .. 5 : fits(k)
    <2>2. \E k \in 1 .. 5 : fits(k)
      <3>1. \A k \in 1 .. 5 : B ^ k \in Int
        BY CompressAssumption
      <3>2. /\ \A k \in 1 .. 5 : w.v < B ^ k \/ w.v >= B ^ k
        BY <2>1, <3>1
      <3>3. CASE w.v < B ^ 1
        BY <3>3
      <3>4. CASE w.v >= B ^ 1 /\ w.v < B ^ 2
        BY <3>4
      <3>5. CASE w.v >= B ^ 1 /\ w.v >= B ^ 2 /\ w.v < B ^ 3
        BY <3>5
      <3>6. CASE w.v >= B ^ 1 /\ w.v >= B ^ 2 /\ w.v >= B ^ 3 /\ w.v < B ^ 4
        BY <3>6
      <3>7. CASE w.v >= B ^ 1 /\ w.v >= B ^ 2 /\ w.v >= B ^ 3 /\ w.v >= B ^ 4
        BY <2>1, <3>7
      <3> QED
        BY <3>2, <3>3, <3>4, <3>5, <3>6, <3>7
    <2>3. n \in 1 .. 5 /\ w.v < B ^ n
      BY <2>2
    <2>4. AddrCompress(w) = [w EXCEPT !.n = n]
      BY <1>3 DEF AddrCompress
    <2> HIDE DEF n
    <2>5. w.v % B ^ n = w.v
      <3>1. B ^ n \in Int
        BY <2>3, CompressAssumption
      <3> QED
        BY <2>1, <2>3, <3>1
    <2> QED
      BY <1>1, <2>3, <2>4, <2>5 DEF Word
  <1> QED
    BY <1>2, <1>3

-----------------------------------------------------------------------------
(* While the next stage is busy with a word, the search goes on and nothing else
   changes; at any other clock the search begins again.                      *)
LEMMA BusyFacts ==
    ASSUME TypeInv
    PROVE  /\ Idle <=> ~tbl_busy
           /\ w_accepted <=> o_stb = 1 /\ i_busy = 0
           /\ tbl_busy <=> o_stb = 1 /\ i_busy = 1
           /\ tbl_busy => ~w_accepted /\ ~clear_table
  BY DEF TypeInv, Bits, Idle, tbl_busy, w_accepted, clear_table

LEMMA WordInit == CW_IDLE \in Codeword /\ CW_IDLE \in Word /\ ~Isaddr(CW_IDLE) /\ ~Isdata(CW_IDLE)
  BY DEF CW_IDLE, Codeword, Word, Isaddr, Isdata

LEMMA CwordTypes ==
    ASSUME TypeInv, CwordInv
    PROVE  /\ r_cword.v = r_word.v /\ r_cword.v \in Nat
           /\ (Isdata(r_cword) \/ Isaddr(r_cword)) => r_cword = r_word
  BY DEF TypeInv, CwordInv, RefersTo, Isdata, Isaddr, Word

LEMMA TypeStep == TypeInv /\ LookInv /\ CwordInv /\ Next => TypeInv'
  <1> SUFFICES ASSUME TypeInv, LookInv, CwordInv, Next PROVE TypeInv'
    OBVIOUS
  <1>1. /\ i_stb' \in Bits /\ i_codword' \in Codeword /\ i_busy' \in Bits
        /\ aword_valid' \in Bits /\ o_stb' \in Bits
    <2>1. i_stb' \in Bits /\ i_codword' \in Codeword
      BY WordInit DEF Next, Before, TypeInv, Bits
    <2>2. i_busy' \in Bits
      BY DEF Next, Behind, TypeInv, Bits
    <2>3. aword_valid' \in Bits /\ o_stb' \in Bits
      BY DEF Next, AddressStage, Output, TypeInv, Bits
    <2> QED
      BY <2>1, <2>2, <2>3
  <1>2. a_addrword' \in Word /\ r_word' \in Word
    BY Compressed DEF Next, AddressStage, Output, TypeInv
  <1>3. tbl_addr' \in Place /\ tbl_filled' \in Bits /\ compression_tbl' \in [Place -> Nat]
    <2>1. 0 \in Place /\ tbl_addr' \in {0, (tbl_addr + 1) % TBL, tbl_addr}
      BY Sizes DEF Next, Table, Place
    <2>2. (tbl_addr + 1) % TBL \in Place
      BY Places DEF TypeInv
    <2>3. tbl_filled' \in Bits
      BY DEF Next, Table, NextFilled, TypeInv, Bits
    <2>4. compression_tbl' \in [Place -> Nat]
      BY DEF Next, Table, TypeInv, Word
    <2> QED
      BY <2>1, <2>2, <2>3, <2>4 DEF TypeInv
  <1>4. dffaddr' \in Place /\ maddr' \in Place
    <2>1. 1 \in Place /\ (dffaddr + 1) % TBL \in Place
      BY Places DEF TypeInv
    <2> QED
      BY <2>1 DEF Next, Walk, NextDffaddr, TypeInv
  <1>5. /\ vaddr' \in Bits /\ pmatch' \in Bits /\ dmatch' \in Bits /\ addr_within_table' \in Bits
        /\ matched' \in Bits /\ zmatch' \in Bits /\ hmatch' \in Bits
    BY DEF Next, Walk, Match, TypeInv, Bits, Bit
  <1>7. cword' \in Nat
    BY DEF Next, Walk, TypeInv, LookInv
  <1>6. d_addr' \in Place /\ d_tbl' \in [Place -> Int]
    <2>1. 0 \in Place /\ (d_addr + 1) % TBL \in Place /\ r_cword.v \in Int /\ NoValue \in Int
      BY Places, CwordTypes DEF TypeInv, NoValue
    <2> QED
      BY <2>1 DEF Next, Observe, Decode, TypeInv, Place
  <1> QED
    BY <1>1, <1>2, <1>3, <1>4, <1>5, <1>6, <1>7, Zenon DEF TypeInv

LEMMA Kept ==
    ASSUME TypeInv, Next, tbl_busy
    PROVE  /\ tbl_addr' = tbl_addr /\ r_word' = r_word /\ o_stb' = 1
           /\ \A k \in 0 .. Furthest + 1 : At(k)' = At(k) /\ (Valid(k)' <=> Valid(k))
           /\ \A k \in 1 .. Furthest + 1 :
                 /\ At(k) \in Place
                 /\ compression_tbl'[At(k)] = compression_tbl[At(k)]
           /\ \A k : Holds(k) => Holds(k)'
  <1>1. tbl_addr' = tbl_addr
    BY BusyFacts DEF Next, Table
  <1>2. r_word' = r_word /\ o_stb' = 1
    BY BusyFacts DEF Next, Output, TypeInv, Bits
  <1>3. ASSUME NEW k \in 0 .. Furthest + 1
        PROVE  At(k)' = At(k) /\ (Valid(k)' <=> Valid(k))
    <2>1. At(k)' = At(k)
      BY <1>1 DEF At
    <2>2. k <= TBL - 1
      BY <1>3, Sizes
    <2>3. tbl_filled' = IF tbl_addr = TBL - 1 THEN 1 ELSE tbl_filled
      BY BusyFacts DEF Next, Table, NextFilled
    <2> QED
      BY <1>1, <2>1, <2>2, <2>3 DEF Valid
  <1>4. ASSUME NEW k \in 1 .. Furthest + 1
        PROVE  At(k) \in Place /\ compression_tbl'[At(k)] = compression_tbl[At(k)]
    <2>1. k \in 0 .. TBL /\ k \in 1 .. TBL - 1
      BY <1>4, Sizes
    <2>2. At(k) \in Place /\ At(k) # tbl_addr
      BY <2>1, PlaceFacts DEF At, TypeInv
    <2>3. compression_tbl' = [compression_tbl EXCEPT ![tbl_addr] = r_word.v]
      BY DEF Next, Table
    <2> QED
      BY <2>2, <2>3 DEF TypeInv
  <1>5. ASSUME NEW k, Holds(k) PROVE Holds(k)'
    <2>1. k \in 1 .. Furthest
      BY <1>5 DEF Holds
    <2>2. k \in 0 .. Furthest + 1 /\ k \in 1 .. Furthest + 1
      BY <2>1, Sizes
    <2> QED
      BY <1>2, <1>3, <1>4, <1>5, <2>1, <2>2 DEF Holds
  <1> QED
    BY <1>1, <1>2, <1>3, <1>4, <1>5

LEMMA LookStep == TypeInv /\ LookInv /\ CwordInv /\ Next => LookInv'
  <1> SUFFICES ASSUME TypeInv, LookInv, CwordInv, Next PROVE LookInv'
    OBVIOUS
  <1>1. CASE tbl_busy
    <2>1. /\ rd_addr' = (rd_addr - 1) % TBL /\ dffaddr' = (dffaddr + 1) % TBL
          /\ tbl_addr' = tbl_addr /\ o_stb' = 1
      BY <1>1, BusyFacts, Kept DEF Next, Walk, NextRdAddr, NextDffaddr
    <2>2. rd_addr' \in Place
      BY <2>1, Sizes, PlaceFacts DEF LookInv
    <2>3. rd_addr' = (tbl_addr' - dffaddr') % TBL
      <3> DEFINE d == dffaddr
      <3>1. d \in 0 .. TBL - 1 /\ rd_addr' = (((tbl_addr - d) % TBL) - 1) % TBL
        BY <2>1 DEF LookInv, At, TypeInv, Place
      <3>2. rd_addr' = (tbl_addr - (d + 1)) % TBL
        BY <3>1, NextPlace DEF TypeInv
      <3>3. CASE d < TBL - 1
        <4>1. dffaddr' = d + 1
          BY <2>1, <3>1, <3>3, PlaceFacts, Places DEF TypeInv
        <4> QED
          BY <2>1, <3>2, <4>1
      <3>4. CASE d = TBL - 1
        <4>1. dffaddr' = 0
          BY <2>1, <3>1, <3>4, PlaceFacts, Places DEF TypeInv
        <4>2. (tbl_addr - TBL) % TBL = (tbl_addr - 0) % TBL
          <5>1. TBL \in 0 .. TBL /\ 0 \in 0 .. TBL /\ tbl_addr \in Place /\ tbl_addr < TBL
            BY Sizes DEF TypeInv, Place
          <5> QED
            BY <5>1, Sizes, PlaceFacts, Places
        <4>3. d + 1 = TBL
          BY <3>4, Sizes
        <4> QED
          BY <2>1, <3>2, <4>1, <4>2, <4>3
      <3>5. d < TBL - 1 \/ d = TBL - 1
        BY <3>1, Sizes
      <3> QED
        BY <3>3, <3>4, <3>5
    <2>4. addr_within_table' = 1 => dffaddr' <= Furthest + 2 /\ dffaddr' >= 1
      <3>1. addr_within_table' = 1 => dffaddr <= Furthest + 1
        BY <1>1, BusyFacts DEF Next, Walk, Bit, Furthest
      <3>2. addr_within_table' = 1 => dffaddr' = dffaddr + 1
        <4> SUFFICES ASSUME addr_within_table' = 1 PROVE dffaddr' = dffaddr + 1
          OBVIOUS
        <4>1. dffaddr < TBL - 1 /\ 0 \in 0 .. TBL
          BY <3>1, Sizes DEF TypeInv, Place
        <4>2. (dffaddr + 1) % TBL = IF dffaddr = TBL - 1 THEN 0 ELSE dffaddr + 1
          BY <4>1, PlaceFacts DEF TypeInv
        <4> QED
          BY <2>1, <4>1, <4>2, Sizes DEF TypeInv, Place
      <3> QED
        BY <3>1, <3>2, Sizes DEF TypeInv, Place
    <2>5. rd_addr' = At(dffaddr)'
      BY <2>3 DEF At
    <2> QED
      BY <2>1, <2>2, <2>4, <2>5 DEF LookInv
  <1>2. CASE ~tbl_busy
    <2>1. Idle /\ dffaddr' = 1 /\ pmatch' = 0
      BY <1>2, BusyFacts DEF Next, Walk, Match, NextDffaddr, Bit
    <2>2. rd_addr' = (tbl_addr' - 1) % TBL
      <3>1. CASE clear_table
        <4>1. tbl_addr' = 0 /\ rd_addr' = TBL - 1
          BY <3>1 DEF Next, Table, Walk, NextRdAddr
        <4>2. (0 - 1) % TBL = TBL - 1
          BY Sizes, PlaceFacts, Places
        <4> QED
          BY <4>1, <4>2
      <3>2. CASE w_accepted /\ Isdata(r_cword)
        <4>1. ~clear_table
          BY <3>2 DEF clear_table, Isaddr, Isdata
        <4>2. tbl_addr' = (tbl_addr + 1) % TBL /\ rd_addr' = (tbl_addr - 0) % TBL
          BY <2>1, <3>2, <4>1 DEF Next, Table, Walk, NextRdAddr, w_accepted
        <4>3. (((tbl_addr + 1) % TBL) - (0 + 1)) % TBL = (tbl_addr - 0) % TBL
          BY NextPlace, Sizes DEF TypeInv
        <4> QED
          BY <4>2, <4>3
      <3>3. CASE ~clear_table /\ ~(w_accepted /\ Isdata(r_cword))
        <4>1. ~(o_stb = 1 /\ Isdata(r_cword))
          BY <1>2, <3>3 DEF w_accepted
        <4>2. tbl_addr' = tbl_addr /\ rd_addr' = (tbl_addr - 1) % TBL
          BY <2>1, <3>3, <4>1 DEF Next, Table, Walk, NextRdAddr
        <4> QED
          BY <4>2
      <3> QED
        BY <3>1, <3>2, <3>3
    <2>3. rd_addr' \in Place
      <3>1. tbl_addr' \in Place
        BY TypeStep DEF TypeInv
      <3> QED
        BY <2>2, <3>1, PlaceFacts, Sizes
    <2> QED
      BY <2>1, <2>2, <2>3, Sizes DEF LookInv, At
  <1> QED
    BY <1>1, <1>2

LEMMA ReadStep == TypeInv /\ LookInv /\ ReadInv /\ CwordInv /\ Next => ReadInv'
  <1> SUFFICES ASSUME TypeInv, LookInv, ReadInv, CwordInv, Next,
                      pmatch' = 1, addr_within_table' = 1
               PROVE  /\ maddr' >= 1 /\ dffaddr' = maddr' + 1
                      /\ vaddr' = 1 => Valid(maddr)' /\ cword' = compression_tbl'[At(maddr)']
    BY DEF ReadInv, At
  <1>1. tbl_busy /\ o_stb = 1 /\ i_busy = 1
    BY BusyFacts DEF Next, Match, Bit
  <1>2. addr_within_table = 1 /\ dffaddr <= Furthest + 1 /\ dffaddr >= 1
    BY <1>1 DEF Next, Walk, Bit, LookInv, Furthest
  <1>3. dffaddr \in 1 .. Furthest + 1 /\ dffaddr \in 0 .. Furthest + 1
    BY <1>2 DEF TypeInv, Place
  <1>4. maddr' = dffaddr /\ cword' = compression_tbl[rd_addr]
    BY DEF Next, Walk
  <1>5. dffaddr' = dffaddr + 1
    <2>1. dffaddr' = (dffaddr + 1) % TBL
      BY <1>1, BusyFacts DEF Next, Walk, NextDffaddr
    <2>2. dffaddr < TBL - 1 /\ 0 \in 0 .. TBL
      BY <1>2, Sizes DEF TypeInv, Place
    <2>3. (dffaddr + 1) % TBL = IF dffaddr = TBL - 1 THEN 0 ELSE dffaddr + 1
      BY <2>2, PlaceFacts DEF TypeInv
    <2> QED
      BY <2>1, <2>2, <2>3, Sizes DEF TypeInv, Place
  <1>6. cword' = compression_tbl'[At(maddr)']
    <2>1. rd_addr = At(dffaddr) /\ compression_tbl'[At(dffaddr)] = compression_tbl[At(dffaddr)]
      BY <1>1, <1>3, Kept DEF LookInv
    <2>2. At(maddr)' = At(dffaddr)
      BY <1>1, <1>3, <1>4, Kept DEF At
    <2> QED
      BY <1>4, <2>1, <2>2
  <1>7. ASSUME vaddr' = 1 PROVE Valid(maddr)'
    <2>1. rd_addr < tbl_addr + TBL * tbl_filled
      BY <1>7 DEF Next, Walk, Bit
    <2>2. rd_addr = IF tbl_addr >= dffaddr THEN tbl_addr - dffaddr ELSE tbl_addr - dffaddr + TBL
      <3>1. dffaddr \in 0 .. TBL
        BY <1>3, Sizes
      <3> QED
        BY <3>1, PlaceFacts DEF LookInv, At, TypeInv
    <2>3. Valid(dffaddr)
      <3>1. CASE tbl_filled = 1
        BY <3>1 DEF Valid
      <3>2. CASE tbl_filled = 0
        <4>1. TBL * tbl_filled = 0
          BY <3>2, Sizes
        <4>2. rd_addr < tbl_addr /\ dffaddr < TBL /\ tbl_addr \in Int /\ dffaddr \in Int
          BY <2>1, <4>1, Sizes DEF TypeInv, Place
        <4>3. dffaddr <= tbl_addr
          BY <2>2, <4>2, Sizes
        <4> QED
          BY <4>3 DEF Valid
      <3> QED
        BY <3>1, <3>2 DEF TypeInv, Bits
    <2>4. Valid(maddr)' <=> tbl_filled' = 1 \/ dffaddr <= tbl_addr'
      BY <1>4 DEF Valid
    <2>5. tbl_addr' = tbl_addr /\ tbl_filled' = IF tbl_addr = TBL - 1 THEN 1 ELSE tbl_filled
      BY <1>1, BusyFacts DEF Next, Table, NextFilled
    <2> QED
      BY <2>3, <2>4, <2>5 DEF Valid
  <1> QED
    BY <1>2, <1>4, <1>5, <1>6, <1>7

LEMMA MatchStep == TypeInv /\ LookInv /\ ReadInv /\ CwordInv /\ Next => MatchInv'
  <1> SUFFICES ASSUME TypeInv, LookInv, ReadInv, CwordInv, Next,
                      dmatch' = 1, addr_within_table' = 1
               PROVE  /\ Holds(maddr - 1)'
                      /\ zmatch' = 1 <=> maddr' - 1 = 1
                      /\ hmatch' = 1 <=> maddr' - 1 <= NSHORT + 1
                      /\ matched' = 0 => /\ adr_hlfd' = (maddr' - 3) % NSHORT
                                         /\ adr_dbld' = (maddr' - NSHORT - 3) % TBL
    BY DEF MatchInv
  <1>1. ~Idle /\ cword = r_word.v /\ pmatch = 1 /\ matched = 0 /\ vaddr = 1
    BY DEF Next, Match, Bit
  <1>2. tbl_busy /\ o_stb = 1 /\ i_busy = 1
    BY <1>1, BusyFacts
  <1>3. addr_within_table = 1 /\ dffaddr <= Furthest + 1
    BY <1>2 DEF Next, Walk, Bit, LookInv, Furthest
  <1>4. /\ maddr >= 1 /\ dffaddr = maddr + 1
        /\ Valid(maddr) /\ cword = compression_tbl[At(maddr)]
    BY <1>1, <1>3 DEF ReadInv
  <1>5. maddr \in Int /\ maddr \in 1 .. Furthest /\ maddr' = maddr + 1
    BY <1>3, <1>4, Sizes DEF Next, Walk, TypeInv, Place
  <1>6. Holds(maddr)
    BY <1>1, <1>4, <1>5 DEF Holds
  <1>7. Holds(maddr - 1)'
    <2> DEFINE k == maddr
    <2>1. Holds(k) /\ maddr' - 1 = k
      BY <1>5, <1>6
    <2> HIDE DEF k
    <2>2. /\ k \in 1 .. Furthest
          /\ (tbl_filled' = 1 \/ k <= tbl_addr')
          /\ compression_tbl'[(tbl_addr' - k) % TBL] = r_word'.v
      <3>1. /\ k \in 1 .. Furthest /\ k \in 0 .. Furthest + 1 /\ k \in 1 .. Furthest + 1
        BY <2>1, Sizes DEF Holds
      <3>2. Valid(k) /\ compression_tbl[At(k)] = r_word.v
        BY <2>1 DEF Holds
      <3>3. tbl_filled' = 1 \/ k <= tbl_addr'
        <4>1. tbl_addr' = tbl_addr /\ tbl_filled' = IF tbl_addr = TBL - 1 THEN 1 ELSE tbl_filled
          BY <1>2, BusyFacts DEF Next, Table, NextFilled
        <4> QED
          BY <3>2, <4>1 DEF Valid
      <3>4. tbl_addr' = tbl_addr /\ r_word' = r_word
            /\ compression_tbl'[At(k)] = compression_tbl[At(k)]
        BY <1>2, <3>1, Kept
      <3> QED
        BY <3>1, <3>2, <3>3, <3>4 DEF At
    <2> QED
      BY <2>1, <2>2 DEF Holds, Valid, At
  <1>8. (zmatch' = 1 <=> maddr' - 1 = 1) /\ (hmatch' = 1 <=> maddr' - 1 <= NSHORT + 1)
    BY <1>1, <1>4, <1>5, Sizes DEF Next, Match, Bit
  <1>9. ASSUME matched' = 0
        PROVE  adr_hlfd' = (maddr' - 3) % NSHORT /\ adr_dbld' = (maddr' - NSHORT - 3) % TBL
    <2>1. ~w_match
      BY <1>1, <1>9 DEF Next, Match, Bit
    <2>2. adr_hlfd' = (maddr - 2) % NSHORT /\ adr_dbld' = (maddr - NSHORT - 2) % TBL
      BY <1>1, <2>1 DEF Next, Match
    <2>3. maddr - 2 = maddr' - 3 /\ maddr - NSHORT - 2 = maddr' - NSHORT - 3
      BY <1>5, Sizes
    <2> QED
      BY <2>2, <2>3
  <1> QED
    BY <1>7, <1>8, <1>9

(* The code the reference gives for the place k, of the three forms.         *)
LEMMA RefersRight ==
    ASSUME TypeInv, MatchInv, CwordInv, w_match, matched = 0
    PROVE  /\ Holds(maddr - 1) /\ RefersTo(Reference, maddr - 1)
           /\ Reference.v = r_word.v /\ Reference.inc = r_word.inc
  <1> DEFINE k == maddr - 1
  <1>1. /\ Holds(k) /\ k \in 1 .. Furthest
        /\ (zmatch = 1 <=> k = 1) /\ (hmatch = 1 <=> k <= NSHORT + 1)
        /\ adr_hlfd = (maddr - 3) % NSHORT
        /\ adr_dbld = (maddr - NSHORT - 3) % TBL
    BY DEF w_match, MatchInv, Holds
  <1>2. maddr = k + 1
    BY DEF TypeInv, Place
  <1>3. /\ r_word \in Word
        /\ r_word = [t |-> r_word.t, v |-> r_word.v, inc |-> r_word.inc, n |-> r_word.n]
    BY DEF TypeInv, Word
  <1> HIDE DEF k
  <1>4. CASE zmatch = 1
    <2>1. Reference = [r_word EXCEPT !.t = "last"]
      BY <1>4 DEF Reference
    <2> QED
      BY <1>1, <1>2, <1>3, <1>4, <2>1 DEF RefersTo, Back, k
  <1>5. CASE zmatch # 1 /\ hmatch = 1
    <2>1. Reference = [r_word EXCEPT !.t = "short", !.n = adr_hlfd]
      BY <1>5 DEF Reference
    <2>2. k - 2 \in 0 .. NSHORT - 1 /\ maddr - 3 = k - 2
      BY <1>1, <1>2, <1>5, Sizes
    <2>3. adr_hlfd = k - 2
      BY <1>1, <2>2, Sizes
    <2>4. Reference.t = "short" /\ Reference.n = k - 2
      BY <1>3, <2>1, <2>3
    <2> QED
      BY <1>1, <1>3, <2>1, <2>4, Sizes DEF RefersTo, Back, k
  <1>6. CASE zmatch # 1 /\ hmatch # 1
    <2>1. Reference = [r_word EXCEPT !.t = "long", !.n = adr_dbld % NLONG]
      BY <1>6 DEF Reference
    <2>2. /\ k - NSHORT - 2 \in 0 .. NLONG - 1 /\ k - NSHORT - 2 \in 0 .. TBL - 1
          /\ maddr - NSHORT - 3 = k - NSHORT - 2
      BY <1>1, <1>2, <1>6, Sizes DEF Furthest
    <2>3. adr_dbld % NLONG = k - NSHORT - 2
      <3>1. adr_dbld = k - NSHORT - 2
        BY <1>1, <2>2, Sizes
      <3> QED
        BY <2>2, <3>1, Sizes
    <2>4. Reference.t = "long" /\ Reference.n = k - NSHORT - 2
      BY <1>3, <2>1, <2>3
    <2> QED
      BY <1>1, <1>3, <2>1, <2>4, Sizes DEF RefersTo, Back, k
  <1> QED
    BY <1>4, <1>5, <1>6

LEMMA CwordStep == TypeInv /\ MatchInv /\ CwordInv /\ Next => CwordInv'
  <1> SUFFICES ASSUME TypeInv, MatchInv, CwordInv, Next PROVE CwordInv'
    OBVIOUS
  <1>1. CASE ~tbl_busy
    BY <1>1 DEF Next, Output, CwordInv
  <1>2. CASE tbl_busy /\ matched = 0 /\ w_match
    <2>1. PICK k \in 1 .. Furthest : Holds(k) /\ RefersTo(Reference, k)
      BY <1>2, RefersRight DEF Holds
    <2>2. r_cword' = Reference /\ r_word' = r_word /\ Holds(k)'
      BY <1>2, <2>1, Kept DEF Next, Output
    <2>3. r_cword'.v = r_word'.v /\ r_cword'.inc = r_word'.inc /\ Isdata(r_word)'
      BY <1>2, <2>2, RefersRight DEF w_match, Isdata
    <2>4. RefersTo(r_cword', k)
      BY <2>1, <2>2
    <2>5. \E j \in 1 .. Furthest : Holds(j)' /\ RefersTo(r_cword', j)
      BY <2>1, <2>2, <2>4
    <2> QED
      BY <2>3, <2>5 DEF CwordInv, RefersTo, Back
  <1>3. CASE tbl_busy /\ ~(matched = 0 /\ w_match)
    <2>1. r_cword' = r_cword /\ r_word' = r_word
      BY <1>3, Kept DEF Next, Output
    <2>2. \A j : Holds(j) => Holds(j)'
      BY <1>3, Kept
    <2> QED
      BY <2>1, <2>2 DEF CwordInv, RefersTo, Back, Isdata
  <1> QED
    BY <1>1, <1>2, <1>3

LEMMA AgreeStep == TypeInv /\ CwordInv /\ TablesAgree /\ Next => TablesAgree'
  <1> SUFFICES ASSUME TypeInv, CwordInv, TablesAgree, Next PROVE TablesAgree'
    OBVIOUS
  <1>0. /\ compression_tbl' = [compression_tbl EXCEPT ![tbl_addr] = r_word.v]
        /\ tbl_filled' = NextFilled /\ tbl_addr \in Place /\ tbl_addr = d_addr
        /\ compression_tbl \in [Place -> Nat] /\ d_tbl \in [Place -> Int]
        /\ tbl_filled \in Bits /\ r_word.v \in Nat
    BY DEF Next, Table, TypeInv, TablesAgree, Word
  <1>1. CASE clear_table
    <2>1. tbl_addr' = 0 /\ tbl_filled' = 0 /\ d_addr' = 0
      BY <1>1 DEF Next, Table, NextFilled, clear_table, Observe, Decode
    <2> QED
      BY <2>1 DEF TablesAgree
  <1>2. CASE w_accepted /\ Isdata(r_cword)
    <2>1. /\ tbl_addr' = (tbl_addr + 1) % TBL /\ d_addr' = (tbl_addr + 1) % TBL
          /\ d_tbl' = [d_tbl EXCEPT ![tbl_addr] = r_word.v]
          /\ tbl_filled' = IF tbl_addr = TBL - 1 THEN 1 ELSE tbl_filled
      <3>1. ~clear_table /\ ~Isaddr(r_cword) /\ r_cword.v = r_word.v
        BY <1>2, CwordTypes DEF clear_table, Isaddr, Isdata
      <3> QED
        BY <1>0, <1>2, <3>1 DEF Next, Table, NextFilled, Observe, Decode
    <2>2. ASSUME NEW k \in 1 .. NLONG + NSHORT + 1, tbl_filled' = 1 \/ k <= tbl_addr'
          PROVE  compression_tbl'[(tbl_addr' - k) % TBL] = d_tbl'[(tbl_addr' - k) % TBL]
      <3> DEFINE j == k - 1
      <3>1. j \in 0 .. TBL - 1 /\ j \in 0 .. TBL /\ k = j + 1 /\ j <= Furthest
        BY <2>2, Sizes DEF Furthest
      <3>2. (tbl_addr' - k) % TBL = (tbl_addr - j) % TBL
        BY <1>0, <2>1, <3>1, NextPlace
      <3>3. CASE j = 0
        <4>1. (tbl_addr - j) % TBL = tbl_addr
          BY <1>0, <3>1, <3>3, PlaceFacts
        <4> QED
          BY <1>0, <2>1, <3>2, <4>1
      <3>4. CASE j # 0
        <4>1. j \in 1 .. TBL - 1 /\ j \in 1 .. NLONG + NSHORT + 1
          BY <2>2, <3>1, <3>4, Sizes DEF Furthest
        <4>2. (tbl_addr - j) % TBL \in Place /\ (tbl_addr - j) % TBL # tbl_addr
          BY <1>0, <3>1, <4>1, PlaceFacts
        <4>3. tbl_filled = 1 \/ j <= tbl_addr
          <5>1. tbl_addr' = IF tbl_addr = TBL - 1 THEN 0 ELSE tbl_addr + 1
            BY <1>0, <2>1, <3>1, PlaceFacts
          <5> QED
            BY <1>0, <2>1, <2>2, <3>1, <5>1, Sizes DEF Place
        <4>4. compression_tbl[(tbl_addr - j) % TBL] = d_tbl[(tbl_addr - j) % TBL]
          BY <4>1, <4>3 DEF TablesAgree
        <4> QED
          BY <1>0, <2>1, <3>2, <4>2, <4>4
      <3> QED
        BY <3>3, <3>4
    <2> QED
      BY <2>1, <2>2 DEF TablesAgree
  <1>3. CASE ~clear_table /\ ~(w_accepted /\ Isdata(r_cword))
    <2>1. /\ tbl_addr' = tbl_addr /\ d_addr' = d_addr /\ d_tbl' = d_tbl
          /\ tbl_filled' = IF tbl_addr = TBL - 1 THEN 1 ELSE tbl_filled
      BY <1>0, <1>3 DEF Next, Table, NextFilled, Observe, Decode, clear_table
    <2>2. ASSUME NEW k \in 1 .. NLONG + NSHORT + 1, tbl_filled' = 1 \/ k <= tbl_addr'
          PROVE  compression_tbl'[(tbl_addr' - k) % TBL] = d_tbl'[(tbl_addr' - k) % TBL]
      <3>1. k \in 0 .. TBL /\ k \in 1 .. TBL - 1
        BY <2>2, Sizes DEF Furthest
      <3>2. (tbl_addr - k) % TBL \in Place /\ (tbl_addr - k) % TBL # tbl_addr
        BY <1>0, <3>1, PlaceFacts
      <3>3. tbl_filled = 1 \/ k <= tbl_addr
        BY <1>0, <2>1, <2>2, <3>1, Sizes
      <3>4. compression_tbl[(tbl_addr - k) % TBL] = d_tbl[(tbl_addr - k) % TBL]
        BY <2>2, <3>3 DEF TablesAgree
      <3> QED
        BY <1>0, <2>1, <3>2, <3>4
    <2> QED
      BY <1>0, <2>1, <2>2 DEF TablesAgree
  <1> QED
    BY <1>1, <1>2, <1>3 DEF clear_table

(* A word goes in at the back of `sent`, and the word at the output leaves at its
   front.                                                                    *)
LEMMA SentStep == TypeInv /\ SentInv /\ Next => SentInv'
  <1> SUFFICES ASSUME TypeInv, SentInv, Next PROVE SentInv'
    OBVIOUS
  <1> DEFINE base == IF w_accepted THEN Tail(sent) ELSE sent
             more == IF i_stb = 1 /\ ~o_busy THEN <<i_codword>> ELSE <<>>
             kept == IF tbl_busy THEN aword_valid ELSE 0
  <1>1. /\ sent' = base \o more /\ i_codword \in Codeword
        /\ sent \in Seq(Codeword) /\ Len(sent) = o_stb + aword_valid
        /\ o_stb \in Bits /\ aword_valid \in Bits /\ i_busy \in Bits /\ i_stb \in Bits
    BY DEF Next, Observe, TypeInv, SentInv
  <1>2. /\ base \in Seq(Codeword) /\ Len(base) = o_stb' + kept
        /\ o_stb' = 1 => r_word' = AddrCompress(base[1])
        /\ kept = 1 => a_addrword = AddrCompress(base[2]) /\ o_stb' = 1
        /\ o_stb' \in Bits /\ kept \in Bits
    <2>1. CASE tbl_busy
      <3>1. ~w_accepted /\ o_stb = 1 /\ o_stb' = 1 /\ r_word' = r_word
        BY <2>1, BusyFacts, Kept
      <3> QED
        BY <1>1, <2>1, <3>1 DEF SentInv, Bits
    <2>2. CASE ~tbl_busy /\ o_stb = 1
      <3>1. w_accepted /\ o_stb' = aword_valid /\ r_word' = a_addrword
        BY <1>1, <2>2, BusyFacts DEF Next, Output, Bits
      <3>2. sent # <<>> /\ base = Tail(sent)
        BY <1>1, <2>2, <3>1 DEF Bits
      <3>3. base \in Seq(Codeword) /\ Len(base) = aword_valid
        BY <1>1, <2>2, <3>2 DEF Bits
      <3>4. ASSUME aword_valid = 1 PROVE base[1] = sent[2]
        <4>1. Len(sent) = 2 /\ 1 \in 1 .. Len(sent) - 1
          BY <1>1, <2>2, <3>4
        <4>2. sent \in Seq(Codeword) /\ 1 \in 1 .. Len(Tail(sent))
          BY <1>1, <3>2, <4>1
        <4> QED
          BY <3>2, <4>1, <4>2
      <3> QED
        BY <1>1, <2>2, <3>1, <3>3, <3>4 DEF SentInv, Bits
    <2>3. CASE ~tbl_busy /\ o_stb = 0
      <3>1. ~w_accepted /\ o_stb' = aword_valid /\ r_word' = a_addrword
        BY <1>1, <2>3, BusyFacts DEF Next, Output, Bits
      <3> QED
        BY <1>1, <2>3, <3>1 DEF SentInv, Bits
    <2> QED
      BY <1>1, <2>1, <2>2, <2>3 DEF Bits
  <1>3. /\ o_busy <=> kept = 1
        /\ aword_valid' = IF i_stb = 1 THEN 1 ELSE kept
        /\ a_addrword' = IF kept = 1 THEN a_addrword ELSE AddrCompress(i_codword)
        /\ kept = 0 /\ i_stb = 0 => aword_valid' = 0
    BY <1>1 DEF Next, AddressStage, o_busy, Bits
  <1> HIDE DEF base, kept
  <1>4. CASE i_stb = 1 /\ kept = 0
    <2>1. sent' = Append(base, i_codword) /\ aword_valid' = 1
      BY <1>1, <1>2, <1>3, <1>4
    <2>2. /\ sent' \in Seq(Codeword) /\ Len(sent') = o_stb' + 1
          /\ o_stb' = 1 => sent'[1] = base[1]
          /\ sent'[1 + o_stb'] = i_codword
      BY <1>1, <1>2, <1>4, <2>1 DEF Bits
    <2>3. /\ o_stb' = 1 => r_word' = AddrCompress(sent'[1])
          /\ a_addrword' = AddrCompress(sent'[1 + o_stb'])
      <3>1. a_addrword' = AddrCompress(i_codword)
        BY <1>3, <1>4
      <3>2. o_stb' = 1 => r_word' = AddrCompress(base[1])
        BY <1>2
      <3> QED
        BY <2>2, <3>1, <3>2
    <2> QED
      BY <2>1, <2>2, <2>3 DEF SentInv
  <1>5. CASE ~(i_stb = 1 /\ kept = 0)
    <2>1. sent' = base /\ aword_valid' = kept
      <3>1. more = <<>>
        BY <1>2, <1>3, <1>5 DEF Bits
      <3>2. base \o <<>> = base
        BY <1>2
      <3> QED
        BY <1>1, <1>2, <1>3, <1>5, <3>1, <3>2 DEF Bits
    <2>2. /\ sent' \in Seq(Codeword) /\ Len(sent') = o_stb' + aword_valid'
          /\ o_stb' = 1 => r_word' = AddrCompress(sent'[1])
      BY <1>2, <2>1
    <2>3. ASSUME aword_valid' = 1 PROVE a_addrword' = AddrCompress(sent'[1 + o_stb'])
      <3>1. kept = 1 /\ 1 + o_stb' = 2
        BY <1>2, <2>1, <2>3
      <3>2. a_addrword' = a_addrword
        BY <1>3, <3>1
      <3> QED
        BY <1>2, <2>1, <3>1, <3>2
    <2> QED
      BY <2>2, <2>3 DEF SentInv
  <1> QED
    BY <1>4, <1>5

-----------------------------------------------------------------------------
LEMMA InitInv == Init => IInv
  <1> SUFFICES ASSUME Init PROVE IInv
    OBVIOUS
  <1>1. TypeInv
    BY WordInit, Sizes DEF Init, TypeInv, Bits, Place, NoValue
  <1>2. LookInv
    BY Sizes, PlaceFacts, Places DEF Init, LookInv, At
  <1>3. ReadInv /\ MatchInv /\ CwordInv
    BY DEF Init, ReadInv, MatchInv, CwordInv
  <1>4. SentInv
    BY DEF Init, SentInv
  <1>5. TablesAgree
    BY DEF Init, TablesAgree
  <1> QED
    BY <1>1, <1>2, <1>3, <1>4, <1>5 DEF IInv

LEMMA NextInv == IInv /\ [Next]_vars => IInv'
  <1>1. CASE Next
    BY <1>1, TypeStep, LookStep, ReadStep, MatchStep, CwordStep, SentStep, AgreeStep DEF IInv
  <1>2. CASE UNCHANGED vars
    BY <1>2, SMTT(40) DEF vars, table, search, IInv, TypeInv, LookInv, ReadInv, MatchInv, CwordInv,
       SentInv, TablesAgree, Holds, Valid, At, RefersTo, Back, Isdata
  <1> QED
    BY <1>1, <1>2

LEMMA Invariant == Spec => []IInv
  BY InitInv, NextInv, PTL DEF Spec

(* Every place the search may still refer to holds the same value in the table
   of wbucompress.v and in the table of the program that decodes the line.   *)
THEOREM TablesStayTogether == Spec => []TablesAgree
  <1>1. IInv => TablesAgree
    BY DEF IInv
  <1> QED
    BY Invariant, <1>1, PTL

LEMMA OutputRight == IInv => DecodesToWhatWentIn
  <1> SUFFICES ASSUME IInv, o_stb = 1
               PROVE  /\ sent # <<>>
                      /\ Decoded(r_cword) = Head(sent).v
                      /\ r_cword.inc = Head(sent).inc
                      /\ Isaddr(r_cword) <=> Isaddr(Head(sent))
    BY DEF DecodesToWhatWentIn
  <1>1. /\ sent # <<>> /\ Head(sent) = sent[1] /\ sent[1] \in Codeword
        /\ r_word = AddrCompress(sent[1])
    <2>1. sent \in Seq(Codeword) /\ Len(sent) >= 1
      BY DEF IInv, SentInv, TypeInv, Bits
    <2> QED
      BY <2>1 DEF IInv, SentInv
  <1>2. /\ r_word.t = sent[1].t /\ r_word.v = sent[1].v /\ r_word.inc = sent[1].inc
        /\ r_word \in Word
        /\ Isaddr(sent[1]) => r_word.v % B ^ r_word.n = sent[1].v
    BY <1>1, Compressed
  <1>3. CASE r_cword = r_word
    <2>1. r_word.t \notin {"last", "short", "long"} /\ (Isaddr(r_word) <=> Isaddr(sent[1]))
      BY <1>2 DEF Word, Isaddr
    <2> QED
      BY <1>1, <1>2, <1>3, <2>1 DEF Decoded
  <1>4. CASE r_cword # r_word
    <2>1. PICK k \in 1 .. Furthest : Holds(k) /\ RefersTo(r_cword, k)
      BY <1>4 DEF IInv, CwordInv
    <2>2. r_cword.v = r_word.v /\ r_cword.inc = r_word.inc /\ Isdata(r_word)
      BY <1>4 DEF IInv, CwordInv
    <2>3. Decoded(r_cword) = d_tbl[(tbl_addr - k) % TBL]
      BY <2>1 DEF RefersTo, Decoded, IInv, TablesAgree
    <2>4. d_tbl[(tbl_addr - k) % TBL] = compression_tbl[(tbl_addr - k) % TBL]
      <3>1. k \in 1 .. NLONG + NSHORT + 1 /\ (tbl_filled = 1 \/ k <= tbl_addr)
        BY <2>1, Sizes DEF Holds, Valid, Furthest
      <3> QED
        BY <3>1 DEF IInv, TablesAgree
    <2>5. compression_tbl[(tbl_addr - k) % TBL] = r_word.v
      BY <2>1 DEF Holds, At
    <2>6. ~Isaddr(r_cword) /\ ~Isaddr(sent[1])
      BY <1>2, <2>1, <2>2 DEF RefersTo, Isaddr, Isdata
    <2> QED
      BY <1>1, <1>2, <2>2, <2>3, <2>4, <2>5, <2>6
  <1> QED
    BY <1>3, <1>4

(* Whatever wbucompress.v offers, at whichever clock of its search it is taken,
   decodes to the oldest word that went in and has not come out.             *)
THEOREM CompressionLosesNothing == Spec => []DecodesToWhatWentIn
  BY Invariant, OutputRight, PTL
=============================================================================
