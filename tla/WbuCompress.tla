---------------------------- MODULE WbuCompress ----------------------------
(* rtl/wbubus/wbucompress.v, clock by clock: the last word but one of the way
   from the bus to the host.  While the next stage is busy with the word
   before, the pipeline walks back through the table of the values sent in
   full since the last address and replaces a value it finds by how far back
   it found it.  Every register of the search is a clock behind the one it is
   computed from, and the word may be taken at any clock, in the middle of the
   search as well.

   `sent` and the variables of the decoder are not in the code: what went in
   and has not come out, and the table of a program that decodes what comes
   out.                                                                      *)
EXTENDS Integers, Sequences, RtlBits

CONSTANTS
    Values, Addrs,      \* 32-bit values, data and addresses
    IncValues,          \* bound: the values read with the increment flag
    TBL,                \* table size (1024)
    NSHORT, NLONG,      \* distances with a one- and a two-digit code (8, 512)
    B                   \* values of a digit (64)

ASSUME CompressAssumption ==
    /\ Values # {} /\ Values \subseteq Nat /\ Addrs \subseteq 0 .. B ^ 5 - 1
    /\ IncValues \subseteq Nat
    /\ NSHORT \in Nat \ {0} /\ NLONG \in Nat \ {0} /\ B \in Nat \ {0, 1}
    /\ TBL \in Nat /\ NLONG + NSHORT + 2 < TBL

VARIABLES
    i_stb, i_codword, i_busy,                   \* wbuidleint, wbudeword
    aword_valid, a_addrword,                    \* address compression
    r_word, r_cword, o_stb,                     \* the word under search
    tbl_addr, tbl_filled, compression_tbl,      \* the table
    rd_addr, cword, dffaddr, maddr,             \* the search
    vaddr, pmatch, dmatch, addr_within_table, matched, zmatch, hmatch,
    adr_hlfd, adr_dbld,
    sent, d_addr, d_tbl                         \* observer and decoder

table  == <<tbl_addr, tbl_filled, compression_tbl>>
search == <<rd_addr, cword, dffaddr, maddr, vaddr, pmatch, dmatch,
            addr_within_table, matched, zmatch, hmatch, adr_hlfd, adr_dbld>>
vars   == <<i_stb, i_codword, i_busy, aword_valid, a_addrword, r_word, r_cword,
            o_stb, table, search, sent, d_addr, d_tbl>>

-----------------------------------------------------------------------------
(* A codeword: an address, a data word, anything else; v is its value, inc the
   increment flag of a data word, n the digits of an address.                *)
Codeword == [t : {"addr"}, v : Addrs, inc : {0}, n : {5}]
       \cup [t : {"data"}, v : Values, inc : {0}, n : {0}]
       \cup [t : {"data"}, v : IncValues, inc : {1}, n : {0}]
       \cup [t : {"other"}, v : {0}, inc : {0}, n : {0}]

CW_IDLE == [t |-> "other", v |-> 0, inc |-> 0, n |-> 0]

Isdata(w)  == w.t = "data"                      \* [35:33] == 3'b111
Isaddr(w)  == w.t = "addr"                      \* [35:33] == 3'b001

tbl_busy   == o_stb = 1 /\ i_busy = 1
o_busy     == aword_valid = 1 /\ tbl_busy
w_accepted == o_stb = 1 /\ ~tbl_busy
Idle       == o_stb = 0 \/ i_busy = 0
clear_table == w_accepted /\ Isaddr(r_cword)
w_match    == addr_within_table = 1 /\ dmatch = 1 /\ Isdata(r_word)

-----------------------------------------------------------------------------
(* Leading zero digits of an address are not sent.                           *)
AddrCompress(w) ==
    IF ~Isaddr(w) THEN w
    ELSE [w EXCEPT !.n = CHOOSE k \in 1 .. 5 : /\ w.v < B ^ k
                                               /\ \A j \in 1 .. k - 1 : w.v >= B ^ j]

AddressStage ==
    /\ a_addrword' = IF o_busy THEN a_addrword ELSE AddrCompress(i_codword)
    /\ aword_valid' = IF i_stb = 1 THEN 1 ELSE IF ~tbl_busy THEN 0 ELSE aword_valid

(* The table: a value sent in full takes the next place.                     *)
NextFilledBug == IF tbl_addr = TBL - 1 THEN 1 ELSE tbl_filled   \* outlives the table
NextFilled == IF clear_table THEN 0
              ELSE IF tbl_addr = TBL - 1 THEN 1 ELSE tbl_filled

Table ==
    /\ tbl_addr' = IF clear_table THEN 0
                   ELSE IF w_accepted /\ Isdata(r_cword) THEN (tbl_addr + 1) % TBL
                   ELSE tbl_addr
    /\ tbl_filled' = NextFilled
    /\ compression_tbl' = [compression_tbl EXCEPT ![tbl_addr] = r_word.v]

(* Where the search looks, and how far back that is.                         *)
NextRdAddr ==
    IF clear_table THEN TBL - 1
    ELSE IF Idle THEN (tbl_addr - (IF o_stb = 1 /\ Isdata(r_cword) THEN 0 ELSE 1)) % TBL
    ELSE (rd_addr - 1) % TBL

NextDffaddr == IF clear_table \/ Idle THEN 1 ELSE (dffaddr + 1) % TBL

Walk ==
    /\ rd_addr' = NextRdAddr
    /\ dffaddr' = NextDffaddr
    /\ cword' = compression_tbl[rd_addr]
    /\ maddr' = dffaddr
    /\ vaddr' = Bit(i_busy = 1 /\ rd_addr < tbl_addr + TBL * tbl_filled)
    /\ addr_within_table' =
          IF i_busy = 0 THEN 1
          ELSE Bit(addr_within_table = 1 /\ dffaddr <= NLONG + NSHORT + 1)

(* Is it the value looked for?  The first match counts.                      *)
Match ==
    /\ pmatch' = Bit(tbl_busy)
    /\ dmatch' = Bit(/\ ~Idle /\ cword = r_word.v
                     /\ pmatch = 1 /\ matched = 0 /\ vaddr = 1)
    /\ matched' = IF Idle THEN 0 ELSE IF matched = 0 THEN Bit(w_match) ELSE 1
    /\ zmatch' = Bit(~Idle /\ pmatch = 1 /\ dffaddr = 2)
    /\ hmatch' = Bit(~Idle /\ pmatch = 1 /\ dffaddr < NSHORT + 3)
    /\ IF matched = 0 /\ ~w_match
       THEN /\ adr_hlfd' = (maddr - 2) % NSHORT
            /\ adr_dbld' = (maddr - NSHORT - 2) % TBL
       ELSE UNCHANGED <<adr_hlfd, adr_dbld>>

(* A reference: in the code's three forms, its number within the form.       *)
ReferenceBug ==                         \* takes the short code one too far
    IF zmatch = 1 THEN [r_word EXCEPT !.t = "last"]
    ELSE IF hmatch = 1 \/ adr_dbld = 0 THEN [r_word EXCEPT !.t = "short", !.n = adr_hlfd]
    ELSE [r_word EXCEPT !.t = "long", !.n = adr_dbld % NLONG]

Reference ==
    IF zmatch = 1 THEN [r_word EXCEPT !.t = "last"]
    ELSE IF hmatch = 1 THEN [r_word EXCEPT !.t = "short", !.n = adr_hlfd]
    ELSE [r_word EXCEPT !.t = "long", !.n = adr_dbld % NLONG]

Output ==
    /\ r_word' = IF tbl_busy THEN r_word ELSE a_addrword
    /\ r_cword' = IF ~tbl_busy THEN a_addrword
                  ELSE IF matched = 0 /\ w_match THEN Reference
                  ELSE r_cword
    /\ o_stb' = IF aword_valid = 1 THEN 1 ELSE IF i_busy = 0 THEN 0 ELSE o_stb

-----------------------------------------------------------------------------
(* readword: what the word stands for, in a table that an address empties.   *)
Back(w) == CASE w.t = "last"  -> 1
             [] w.t = "short" -> w.n + 2
             [] w.t = "long"  -> w.n + NSHORT + 2
Decoded(w) == IF w.t \in {"last", "short", "long"}
              THEN d_tbl[(d_addr - Back(w)) % TBL]
              ELSE IF Isaddr(w) THEN w.v % B ^ w.n ELSE w.v

NoValue == -1       \* a place the program has not filled
Decode(w) ==
    /\ d_addr' = IF Isaddr(w) THEN 0
                 ELSE IF Isdata(w) THEN (d_addr + 1) % TBL ELSE d_addr
    /\ d_tbl' = IF Isaddr(w) THEN [a \in 0 .. TBL - 1 |-> NoValue]
                ELSE IF Isdata(w) THEN [d_tbl EXCEPT ![d_addr] = w.v] ELSE d_tbl

(* wbuidleint holds its word until it is taken and then pauses for a clock, the
   idle code at its output; wbudeword is busy from the clock after it took a
   word until it is done.                                                    *)
Before ==
    \/ i_stb = 1 /\ o_busy /\ UNCHANGED <<i_stb, i_codword>>
    \/ ~(i_stb = 1 /\ o_busy) /\ i_stb' = 0 /\ i_codword' = CW_IDLE
    \/ i_stb = 0 /\ i_stb' = 1 /\ i_codword' \in Codeword

Behind == IF w_accepted THEN i_busy' = 1 ELSE i_busy' \in 0 .. i_busy

Observe ==
    /\ sent' = (IF w_accepted THEN Tail(sent) ELSE sent)
               \o (IF i_stb = 1 /\ ~o_busy THEN <<i_codword>> ELSE <<>>)
    /\ IF w_accepted THEN Decode(r_cword) ELSE UNCHANGED <<d_addr, d_tbl>>

Init ==
    /\ i_stb = 0 /\ i_codword = CW_IDLE /\ i_busy = 0
    /\ aword_valid = 0 /\ o_stb = 0
    /\ a_addrword = i_codword /\ r_word = i_codword /\ r_cword = i_codword
    /\ tbl_addr = 0 /\ tbl_filled = 0
    /\ compression_tbl = [a \in 0 .. TBL - 1 |-> 0]
    /\ rd_addr = 0 /\ cword = 0 /\ dffaddr = 0 /\ maddr = 0 /\ vaddr = 0
    /\ pmatch = 0 /\ dmatch = 0 /\ addr_within_table = 1 /\ matched = 0
    /\ zmatch = 0 /\ hmatch = 0 /\ adr_hlfd = 0 /\ adr_dbld = 0
    /\ sent = <<>> /\ d_addr = 0 /\ d_tbl = [a \in 0 .. TBL - 1 |-> NoValue]

Next == /\ AddressStage /\ Table /\ Walk /\ Match /\ Output
        /\ Before /\ Behind /\ Observe

Spec == Init /\ [][Next]_vars

-----------------------------------------------------------------------------
(* Whatever is offered at the output, at whichever clock of the search it is
   taken, decodes to the oldest word that went in and has not come out: no
   word is lost, doubled or overtaken, and every reference points at its value
   in the table of a program that has seen the line since the last address.  *)
DecodesToWhatWentIn ==
    o_stb = 1 => /\ sent # <<>>
                 /\ Decoded(r_cword) = Head(sent).v
                 /\ r_cword.inc = Head(sent).inc
                 /\ Isaddr(r_cword) <=> Isaddr(Head(sent))

(* The board's table and the decoder's never drift apart: every place that the
   search may still refer to holds the same value in both.                   *)
TablesAgree ==
    /\ tbl_addr = d_addr
    /\ \A k \in 1 .. NLONG + NSHORT + 1 :
          tbl_filled = 1 \/ k <= tbl_addr
             => compression_tbl[(tbl_addr - k) % TBL] = d_tbl[(tbl_addr - k) % TBL]
=============================================================================
