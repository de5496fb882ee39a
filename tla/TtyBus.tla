------------------------------- MODULE TtyBus -------------------------------
(* The debug link end to end, one codeword at a time: the host's sw/host/
   ttybus.cpp (readv, writev, readword, readidle, encode_address), the two
   compression tables that host and board keep in step without ever naming
   them (wbudecompress.v, wbucompress.v), and wbuexec.v's commands.

   The host and the board are two processes; `down` and `up` are the words
   under way between them.  WbuExec models the engine clock by clock; here a
   command, or one bus access of a read, is a step.  The idle and interrupt
   words of wbuidleint.v and the resets of the watchdog are left out.
   An address is in words; the serial line's six-bit digits are digits of
   base B, so that the shortest of the address encodings is chosen as the
   code chooses it.                                                          *)
EXTENDS Integers, Sequences, FiniteSetsExt, TLC, RtlBits

CONSTANTS
    NADDR, B,       \* addresses are 0 .. NADDR-1; values of a digit (64)
    Values, Junk,   \* what the bus holds; what uninitialised memory holds
    RDTBL, MAXD,    \* read table size (1024), longest reference (521)
    WRTBL,          \* write table size (256)
    READBLOCK,      \* words per read command, and words asked for ahead of
    READAHEAD,      \*   those that have come (512 and 512)
    Lens, Incs,     \* bounds: words per call, increments used
    MaxDown, MaxUp, \* bounds: words under way when a call begins
    Calls,          \* the calls the program makes: "read", "write"
    ErrAddrs,       \* addresses that answer with a bus error
    Retries         \* does a program go on after a bus error, or end?

ASSUME LinkAssumption ==
    /\ B \in Nat /\ B >= 2 /\ NADDR \in 1 .. B ^ 5 /\ Junk \notin Values
    /\ \A k \in 1 .. 5 : B ^ k \in Nat
    /\ RDTBL \in Nat \ {0} /\ WRTBL \in Nat \ {0} /\ MAXD \in Nat
    /\ MAXD < RDTBL /\ Lens \subseteq Nat \ {0} /\ Incs \subseteq Bits
    /\ READBLOCK \in Nat \ {0} /\ READAHEAD \in Nat
    /\ ErrAddrs \subseteq 0 .. NADDR - 1 /\ Retries \in BOOLEAN

VARIABLES
    m_addr_set, m_lastaddr, m_rdaddr, m_readtbl,            \* TTYBUS
    m_wraddr, m_wrloaded, m_writetbl, m_bus_err,
    pc, call, got,          \* where the program is, in which call
    down, up,               \* the line, both ways
    o_wb_addr, r_new_addr, r_inc, rdleft, stuck,            \* wbuexec
    wr_addr, wr_tbl,                                        \* wbudecompress
    tbl_addr, tbl_filled, rd_tbl,                           \* wbucompress
    last_out_nl,                                            \* wbucompactlines
    mem,                    \* what the bus holds
    meant                   \* what it would hold had every call been obeyed

host  == <<m_addr_set, m_lastaddr, m_rdaddr, m_readtbl, m_wraddr, m_wrloaded,
           m_writetbl, m_bus_err, pc, call, got, meant>>
board == <<o_wb_addr, r_new_addr, r_inc, rdleft, stuck, wr_addr, wr_tbl,
           tbl_addr, tbl_filled, rd_tbl, last_out_nl, mem>>
vars  == <<host, board, down, up>>

-----------------------------------------------------------------------------
Address == 0 .. NADDR - 1
Plus(a, d) == (a + d) % NADDR

(* A call: its address, increment and length, and the words commanded so far. *)
NoCall == [a |-> 0, inc |-> 0, n |-> 0, cmdrd |-> 0]

(* A word on the line: what it is, its value, its increment flag (of an
   address: its number of digits).                                           *)
Word(t, v, i) == [t |-> t, v |-> v, i |-> i]
Newline == Word("nl", 0, 0)

-----------------------------------------------------------------------------
(* encode_address: nothing if the board is known to be there already, else the
   shorter of a difference and an absolute address, absolute if equal.  The
   difference is unsigned: one backwards is huge, and never fits.            *)
AbsDigits(a) == Min({k \in 1 .. 4 : a < B ^ k} \cup {5})

FitsBug(d, k) == 0 <= d /\ 2 * d <= B ^ k      \* one too many
Fits(d, k) == 0 <= d /\ 2 * d < B ^ k
DiffDigits(d) == Min({k \in 1 .. 4 : Fits(d, k)} \cup {6})

(* An address word: its digits, and how many there are.                      *)
EncodeAddress(a) ==
    LET d    == a - m_lastaddr
        diff == DiffDigits(d)
        abs  == AbsDigits(a)
    IN IF m_addr_set /\ d = 0 THEN <<>>
       ELSE IF m_addr_set /\ diff < abs
            THEN <<Word("rel", d % B ^ diff, diff)>>
       ELSE <<Word("abs", a, abs)>>

(* readv's commands for the words from..to-1, READBLOCK at most in each.     *)
ReadCommands(from, to, inc) ==
    [i \in 1 .. (to - from + READBLOCK - 1) \div READBLOCK |->
        Word("read", Min({READBLOCK, to - from - (i - 1) * READBLOCK}), inc)]

(* readv up to its first readword.  Only an address that is sent empties the
   host's read table.                                                        *)
CallRead(a, inc, n) ==
    /\ pc = "idle" /\ "read" \in Calls
    /\ a + inc * n < NADDR
    /\ Len(down) <= MaxDown /\ Len(up) <= MaxUp
    /\ LET cmdrd == Min({n, READAHEAD + READBLOCK})
       IN /\ down' = down \o EncodeAddress(a) \o ReadCommands(0, cmdrd, inc)
          /\ call' = [a |-> a, inc |-> inc, n |-> n, cmdrd |-> cmdrd]
    /\ m_rdaddr' = IF EncodeAddress(a) = <<>> THEN m_rdaddr ELSE 0
    /\ pc' = "reading"
    /\ got' = <<>>
    /\ UNCHANGED <<m_addr_set, m_lastaddr, m_readtbl, m_wraddr, m_wrloaded,
                   m_writetbl, m_bus_err, meant, up, board>>

(* readv's next commands, once all but READAHEAD of the words have come.     *)
SendReads ==
    /\ pc = "reading" /\ call.cmdrd < call.n
    /\ Len(got) >= call.cmdrd - READAHEAD
    /\ LET cmdrd == Min({call.n, Len(got) + READAHEAD + READBLOCK})
       IN /\ down' = down \o ReadCommands(call.cmdrd, cmdrd, call.inc)
          /\ call' = [call EXCEPT !.cmdrd = cmdrd]
    /\ UNCHANGED <<m_addr_set, m_lastaddr, m_rdaddr, m_readtbl, m_wraddr,
                   m_wrloaded, m_writetbl, m_bus_err, pc, got, meant, up, board>>

(* BUSERR reaches the program.                                               *)
Thrown == IF Retries THEN "idle" ELSE "ended"

(* readword: the value a data word stands for, 0 .. MAXD words back.         *)
Decoded(w) == IF w.t = "raw" THEN w.v
              ELSE m_readtbl[(m_rdaddr - w.v) % RDTBL]

(* readword, one word of the stream; the last one ends readv, whose check of
   m_lastaddr ends the program if it fails.                                  *)
ReadWord ==
    /\ pc = "reading" /\ up # <<>>
    /\ call.cmdrd < call.n => Len(got) < call.cmdrd - READAHEAD
    /\ up' = Tail(up)
    /\ LET w == Head(up)
           data == w.t \in {"raw", "ref"}
           all  == data /\ Len(got) + 1 = call.n
           last == IF w.t = "addr" THEN w.v
                   ELSE IF data THEN m_lastaddr + w.i ELSE m_lastaddr
       IN /\ m_lastaddr' = last
          /\ m_addr_set' = (m_addr_set \/ w.t = "addr")
          /\ m_bus_err' = (m_bus_err \/ w.t = "err")
          /\ got' = IF data THEN Append(got, Decoded(w)) ELSE got
          /\ m_readtbl' = IF w.t = "raw" THEN [m_readtbl EXCEPT ![m_rdaddr] = w.v]
                          ELSE m_readtbl
          /\ m_rdaddr' = IF w.t = "raw" THEN (m_rdaddr + 1) % RDTBL ELSE m_rdaddr
          /\ pc' = IF w.t = "err" THEN Thrown
                   ELSE IF ~all THEN "reading"
                   ELSE IF last = call.a + call.inc * call.n THEN "returned"
                   ELSE "exit"
    /\ UNCHANGED <<m_wraddr, m_wrloaded, m_writetbl, call, meant, down, board>>

(* The caller has its words and goes on.                                     *)
Return ==
    /\ pc = "returned"
    /\ pc' = "idle" /\ call' = NoCall /\ got' = <<>>
    /\ UNCHANGED <<m_addr_set, m_lastaddr, m_rdaddr, m_readtbl, m_wraddr,
                   m_wrloaded, m_writetbl, m_bus_err, meant, down, up, board>>

-----------------------------------------------------------------------------
(* writev's compression: the nearest of the last WRTBL - 1 words sent in full,
   as far back as this program has filled the table.                         *)
BackBug(v) == {i \in 1 .. WRTBL :       \* one too far
              /\ m_writetbl[(m_wraddr - i) % WRTBL] = v
              /\ m_wrloaded \/ i <= m_wraddr}

Back(v) == {i \in 1 .. WRTBL - 1 :
              /\ m_writetbl[(m_wraddr - i) % WRTBL] = v
              /\ m_wrloaded \/ i <= m_wraddr}

(* One word of writev: the call, with its values, is sent word by word; the
   last one is followed by the newline that ends the burst.                  *)
CallWrite(a, inc, n) ==
    /\ pc = "idle" /\ "write" \in Calls
    /\ a + inc * n < NADDR
    /\ Len(down) <= MaxDown /\ Len(up) <= MaxUp
    /\ down' = down \o EncodeAddress(a)
    /\ m_rdaddr' = IF EncodeAddress(a) = <<>> THEN m_rdaddr ELSE 0
    /\ m_lastaddr' = a /\ m_addr_set' = TRUE
    /\ pc' = "writing"
    /\ call' = [a |-> a, inc |-> inc, n |-> n, cmdrd |-> 0]
    /\ UNCHANGED <<m_readtbl, m_wraddr, m_wrloaded, m_writetbl, m_bus_err, got,
                   meant, up, board>>

WriteWord(v) ==
    /\ pc = "writing"
    /\ LET short == Back(v) # {}
           word  == IF short THEN Word("wref", Min(Back(v)), call.inc)
                             ELSE Word("write", v, call.inc)
           next  == (m_wraddr + 1) % WRTBL
       IN /\ down' = IF call.n = 1 THEN down \o <<word, Word("eow", 0, 0)>>
                                   ELSE Append(down, word)
          /\ m_writetbl' = IF short THEN m_writetbl
                           ELSE [m_writetbl EXCEPT ![m_wraddr] = v]
          /\ m_wraddr' = IF short THEN m_wraddr ELSE next
          /\ m_wrloaded' = (m_wrloaded \/ (~short /\ next = 0))
    /\ m_lastaddr' = m_lastaddr + call.inc
    /\ meant' = IF m_lastaddr \in ErrAddrs THEN meant
                ELSE [meant EXCEPT ![m_lastaddr] = v]
    /\ IF call.n = 1 THEN pc' = "drain1" /\ call' = NoCall
                     ELSE call' = [call EXCEPT !.n = call.n - 1] /\ UNCHANGED pc
    /\ UNCHANGED <<m_addr_set, m_rdaddr, m_readtbl, m_bus_err, got, up, board>>

(* readidle, which writev calls twice.  Each turn of its loop reads one
   character, which must be a code for the loop to go on, then reads another
   and looks at that one.  Acknowledgements, errors and newlines are all it
   finds, one character each, unless a read of several commands failed: the
   runs that write keep their reads to one command.                          *)
AfterDrain == IF pc \in {"drain1", "look1"} THEN "drain2" ELSE "idle"
Look       == IF pc = "drain1" THEN "look1" ELSE "look2"
Drain      == IF pc = "look1" THEN "drain1" ELSE "drain2"

ReadIdle ==
    /\ pc \in {"drain1", "drain2"}
    /\ \/ pc' = AfterDrain /\ UNCHANGED up              \* nothing has arrived
       \/ /\ up # <<>> /\ up' = Tail(up)
          /\ pc' = IF Head(up) = Newline THEN AfterDrain ELSE Look
    /\ UNCHANGED <<m_addr_set, m_lastaddr, m_rdaddr, m_readtbl, m_wraddr,
                   m_wrloaded, m_writetbl, m_bus_err, call, got, meant, down,
                   board>>

ReadIdleLook ==
    /\ pc \in {"look1", "look2"} /\ up # <<>>
    /\ up' = Tail(up)
    /\ m_bus_err' = (m_bus_err \/ Head(up).t = "err")
    /\ pc' = IF Head(up).t = "err" THEN Thrown ELSE Drain
    /\ UNCHANGED <<m_addr_set, m_lastaddr, m_rdaddr, m_readtbl, m_wraddr,
                   m_wrloaded, m_writetbl, call, got, meant, down, board>>

(* Another program opens the link: TTYBUS::init.  The board keeps its state. *)
Restart ==
    /\ pc \in {"idle", "ended"} /\ pc' = "idle"
    /\ m_addr_set' = FALSE /\ m_bus_err' = FALSE
    /\ m_wrloaded' = FALSE /\ m_rdaddr' = 0 /\ m_wraddr' = 0
    /\ m_lastaddr' = 0
    /\ m_readtbl' = [i \in 0 .. RDTBL - 1 |-> Junk]
    /\ m_writetbl' = [i \in 0 .. WRTBL - 1 |-> Junk]
    /\ UNCHANGED <<call, got, meant, down, up, board>>

-----------------------------------------------------------------------------
(* The board answers, on a line that is no longer empty.                     *)
Answer(w) == up' = Append(up, w) /\ last_out_nl' = FALSE

(* wbucompactlines ends a line that is full, or when nothing more is coming. *)
BoardNewline ==
    /\ ~last_out_nl
    /\ up' = Append(up, Newline) /\ last_out_nl' = TRUE
    /\ UNCHANGED <<o_wb_addr, r_new_addr, r_inc, rdleft, stuck, wr_addr, wr_tbl,
                   tbl_addr, tbl_filled, rd_tbl, mem, down, host>>

(* wbudecompress: a difference is sign extended from its digits.             *)
SignExtend(v, k) == IF 2 * v >= B ^ k THEN v - B ^ k ELSE v

(* The next word reaches wbuexec between two commands.  A write that fails
   leaves the engine flushing: it waits, and takes no further write.  On its
   way, wbudecompress has put the word into its table, whatever it was, but
   only a write in full keeps its place there.                               *)
Take(w) ==
    /\ down # <<>> /\ Head(down) = w /\ rdleft = 0
    /\ stuck => w.t \notin {"write", "wref"}
    /\ down' = Tail(down)
    /\ wr_tbl' = [wr_tbl EXCEPT ![wr_addr] = IF w.t = "write" THEN w.v ELSE Junk]
    /\ wr_addr' = IF w.t = "write" THEN (wr_addr + 1) % WRTBL ELSE wr_addr

BoardAddress ==
    \E w \in {x \in {Head(down)} : x.t \in {"abs", "rel"}} :
        /\ Take(w)
        /\ o_wb_addr' = IF w.t = "abs" THEN w.v
                       ELSE Plus(o_wb_addr, SignExtend(w.v, w.i))
        /\ r_new_addr' = 1 /\ stuck' = FALSE
        /\ UNCHANGED <<r_inc, rdleft, tbl_addr, tbl_filled, rd_tbl, last_out_nl,
                       mem, up, host>>

BoardWrite ==
    \E w \in {x \in {Head(down)} : x.t \in {"write", "wref"}} :
        /\ Take(w)
        /\ LET v == IF w.t = "write" THEN w.v
                    ELSE wr_tbl[(wr_addr - w.v) % WRTBL]
           IN IF o_wb_addr \in ErrAddrs
              THEN stuck' = TRUE /\ UNCHANGED mem /\ Answer(Word("err", 0, 0))
              ELSE /\ mem' = [mem EXCEPT ![o_wb_addr] = v]
                   /\ Answer(Word("ack", 0, 0))
                   /\ UNCHANGED stuck
        /\ o_wb_addr' = Plus(o_wb_addr, w.i)
        /\ r_new_addr' = 0
        /\ UNCHANGED <<r_inc, rdleft, tbl_addr, tbl_filled, rd_tbl, host>>

BoardEndOfWrite ==
    \E w \in {x \in {Head(down)} : x.t = "eow"} :
        /\ Take(w)
        /\ stuck' = FALSE
        /\ UNCHANGED <<o_wb_addr, r_new_addr, r_inc, rdleft, tbl_addr, tbl_filled,
                       rd_tbl, last_out_nl, mem, up, host>>

(* A read command.  A new address is confirmed first, and that empties the
   board's read table.                                                       *)
ReadStartBug(w) ==                      \* the table outlives the address
    /\ rdleft' = w.v /\ r_inc' = w.i
    /\ IF r_new_addr = 1 THEN Answer(Word("addr", o_wb_addr, 0))
                         ELSE UNCHANGED <<up, last_out_nl>>
    /\ UNCHANGED <<tbl_addr, tbl_filled>>

ReadStart(w) ==
    /\ rdleft' = w.v /\ r_inc' = w.i
    /\ IF r_new_addr = 1
       THEN /\ Answer(Word("addr", o_wb_addr, 0))
            /\ tbl_addr' = 0 /\ tbl_filled' = FALSE
       ELSE UNCHANGED <<up, last_out_nl, tbl_addr, tbl_filled>>

BoardRead ==
    \E w \in {x \in {Head(down)} : x.t = "read"} :
        /\ Take(w)
        /\ ReadStart(w)
        /\ r_new_addr' = 0 /\ stuck' = FALSE
        /\ UNCHANGED <<o_wb_addr, rd_tbl, mem, host>>

(* wbucompress: the places of the table where value v is found in time.  The
   search stops when the line is free, so a match may also be missed.        *)
Matches(v) == {d \in 1 .. MAXD : /\ tbl_filled \/ d <= tbl_addr
                                 /\ rd_tbl[(tbl_addr - d) % RDTBL] = v}

BoardReadAnswer ==
    /\ rdleft > 0 /\ o_wb_addr \notin ErrAddrs
    /\ LET v == mem[o_wb_addr]
       IN \/ /\ Answer(Word("raw", v, r_inc))
             /\ rd_tbl' = [rd_tbl EXCEPT ![tbl_addr] = v]
             /\ tbl_addr' = (tbl_addr + 1) % RDTBL
             /\ tbl_filled' = (tbl_filled \/ tbl_addr' = RDTBL - 1)
          \/ \E d \in Matches(v) :
                /\ Answer(Word("ref", d, r_inc))
                /\ UNCHANGED <<rd_tbl, tbl_addr, tbl_filled>>
    /\ o_wb_addr' = Plus(o_wb_addr, r_inc)
    /\ rdleft' = rdleft - 1
    /\ UNCHANGED <<r_new_addr, r_inc, stuck, wr_addr, wr_tbl, mem, down, host>>

(* A bus error ends the read; the engine may have issued any number of the
   requests behind the failing one, each of which moved the address.         *)
AfterError == {Plus(o_wb_addr, issued * r_inc) : issued \in 1 .. rdleft}

BoardReadError ==
    /\ rdleft > 0 /\ o_wb_addr \in ErrAddrs
    /\ Answer(Word("err", 0, 0))
    /\ o_wb_addr' \in AfterError
    /\ rdleft' = 0
    /\ UNCHANGED <<r_new_addr, r_inc, stuck, wr_addr, wr_tbl, tbl_addr,
                   tbl_filled, rd_tbl, mem, down, host>>

-----------------------------------------------------------------------------
Init ==
    /\ m_addr_set = FALSE /\ m_lastaddr = 0 /\ m_rdaddr = 0
    /\ m_readtbl = [i \in 0 .. RDTBL - 1 |-> Junk]
    /\ m_wraddr = 0 /\ m_wrloaded = FALSE
    /\ m_writetbl = [i \in 0 .. WRTBL - 1 |-> Junk]
    /\ m_bus_err = FALSE
    /\ pc = "idle" /\ call = NoCall /\ got = <<>>
    /\ down = <<>> /\ up = <<>>
    /\ o_wb_addr = 0 /\ r_new_addr = 1 /\ r_inc = 0 /\ rdleft = 0
    /\ stuck = FALSE
    /\ wr_addr = 0 /\ wr_tbl = [i \in 0 .. WRTBL - 1 |-> Junk]
    /\ tbl_addr = 0 /\ tbl_filled = FALSE
    /\ rd_tbl = [i \in 0 .. RDTBL - 1 |-> Junk] /\ last_out_nl = TRUE
    /\ mem \in [Address -> Values] /\ meant = mem

Host == \/ \E a \in Address, inc \in Incs, n \in Lens :
               CallRead(a, inc, n) \/ CallWrite(a, inc, n)
        \/ \E v \in Values : WriteWord(v)
        \/ SendReads \/ ReadWord \/ Return \/ ReadIdle \/ ReadIdleLook \/ Restart
Board == \/ /\ down # <<>>
            /\ BoardAddress \/ BoardWrite \/ BoardEndOfWrite \/ BoardRead
         \/ BoardReadAnswer \/ BoardReadError \/ BoardNewline
Next == Host \/ Board
Spec == Init /\ [][Next]_vars

(* Values are only compared with one another.                                *)
ValueSymmetry == Permutations(Values)

-----------------------------------------------------------------------------
(* devbus.h's promise for readio, readi and readz: a call that returns has the
   words that the bus holds at the addresses it named, whatever has been read
   and written before and however the line compressed them.                  *)
ReadsRight ==
    pc = "returned" =>
        \A i \in 1 .. call.n : got[i] = mem[Plus(call.a, (i - 1) * call.inc)]

(* readio's "This should only happen if there are bugs in the interface": the
   host's idea of the address never differs from the board's.                *)
NeverExits == pc # "exit"

(* devbus.h's promise for writeio, writei and writez: once the line is quiet,
   every address holds the last word written to it and nothing else changed. *)
WritesRight ==
    pc = "idle" /\ down = <<>> /\ rdleft = 0 => mem = meant

=============================================================================
