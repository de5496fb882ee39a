------------------------------- MODULE ScopeCls -------------------------------
(* A logic analyser of the board and the host's SCOPE class that reads it out:
   rtl/wbscope/wbscope.v (and the contents that wbscopc.v, the compressed one,
   leaves), sw/host/scopecls.cpp, and the tools made from it, of which
   sw/host/flashscope.cpp is the pattern.

   The record `sb` is the scope on the board, one step a clock, its data clock
   being the bus clock and i_ce true; `sh` is the tool that is running and its
   SCOPE object, one step a bus transaction.  A word is a natural number; in a
   compressed scope one with the high bit set is a run of n + 1 repeats.  The time
   written is counted in clocks.                                                       *)
EXTENDS Integers, Sequences, FiniteSets, SequencesExt, FiniteSetsExt

CONSTANTS
    SHIGHBIT,                       \* the high bit of a word: 2^31
    SLGMEMS,                        \* the values of LGMEM
    SStreams,                       \* i_data, clock by clock
    SBuffers,                       \* what a stopped compressed scope may hold
    SHOLDOFFS,                      \* the values of br_holdoff
    STraces,                        \* register_trace's (nbits, shift), in order
    SMaxRuns                        \* bound: the tool is run so often

ASSUME ScopeAssumption ==
    /\ SMaxRuns \in Nat /\ SHOLDOFFS \subseteq Nat /\ SLGMEMS \subseteq 1 .. 19
    /\ \A b \in SBuffers : \E lg \in SLGMEMS : Len(b) = 2 ^ lg

VARIABLES sb, sh
scope_vars == <<sb, sh>>

IsRun(w) == w >= SHIGHBIT
SLen == 2 ^ sb.lgmem

-----------------------------------------------------------------------------
(* The scope on the board.                                                   *)
ScopeData == sb.stream[sb.t + 1]

Recording(trigger) ==
    LET fires == sb.primed /\ trigger
    IN  sb' = [sb EXCEPT
            !.t = @ + 1,
            !.at = IF fires /\ ~sb.triggered THEN sb.t ELSE @,
            !.triggered = @ \/ fires,
            !.counter = IF sb.triggered THEN @ + 1 ELSE @,
            !.stopped = sb.triggered /\ sb.counter >= sb.holdoff,
            !.mem[sb.waddr] = sb.pipe,
            !.pipe = ScopeData,
            !.waddr = (@ + 1) % SLen,
            !.primed = @ \/ sb.waddr = SLen - 1]
ScopeClock ==
    /\ ~sb.stopped /\ sb.t + 1 < Len(sb.stream)
    /\ \E trigger \in BOOLEAN : Recording(trigger)
    /\ UNCHANGED sh

(* A read of the data port: of the memory, and then of its next word, only once
   the scope has stopped.                                                     *)
DataPort == IF sb.stopped THEN sb.mem[(sb.raddr + sb.waddr) % SLen] ELSE ScopeData
ReadsDataPort == sb' = [sb EXCEPT !.raddr = IF sb.stopped THEN (@ + 1) % SLen ELSE @]

-----------------------------------------------------------------------------
(* The SCOPE object.                                                         *)
NewSCOPE(r) == [pc |-> "ready", m_scoplen |-> 0, m_holdoff |-> 0, m_data |-> <<>>,
                shown |-> <<>>, vcd |-> <<>>, zero |-> 0, runs |-> r]

readyBug == sb.triggered
ready == sb.stopped /\ sb.triggered

(* getaddresslen() counts a run only after the first word, and print() counts
   every one of them.                                                        *)
RunLength(w) == IF IsRun(w) THEN w - SHIGHBIT ELSE 0
getaddresslen(data) ==
    Len(data) + (IF sb.compressed
                 THEN FoldLeft(LAMBDA n, w : n + RunLength(w), 0, Tail(data)) ELSE 0)
offset(data) == getaddresslen(data) - sh.m_holdoff - 1

(* addrv when word i is come to, the words from f on being counted.           *)
Advance(w) == IF IsRun(w) THEN w - SHIGHBIT + 1 ELSE 1
addrv(data, f, i) == FoldLeft(LAMBDA n, w : n + Advance(w), 0, SubSeq(data, f, i - 1))

Line(t, w, trig) == [t |-> t, w |-> w, trig |-> trig]
Lines(data, Shown(_), At(_), Trig(_)) ==
    LET is == SelectSeq([i \in 1 .. Len(data) |-> i], Shown)
    IN  [k \in 1 .. Len(is) |-> Line(At(is[k]), data[is[k]], Trig(is[k]))]

Repeats(data, i) == i > 1 /\ data[i] = data[i - 1]

(* The lines of print(): of the compressed, every word that is no run, marked when
   addrv, already past it, is the offset; else every word that is not the one
   before it again, or is the last.                                          *)
printed(data) ==
    IF sb.compressed
    THEN Lines(data, LAMBDA i : ~IsRun(data[i]), LAMBDA i : addrv(data, 1, i),
               LAMBDA i : addrv(data, 1, i) + 1 = offset(data))
    ELSE Lines(data, LAMBDA i : ~Repeats(data, i) \/ i = Len(data),
               LAMBDA i : i - 1, LAMBDA i : i - 1 = offset(data))

(* The entries of writevcd(): a run at the very beginning is passed over.     *)
FirstCounted(data) == IF IsRun(data[1]) THEN 2 ELSE 1
writevcd(data) ==
    IF sb.compressed
    THEN LET At(i) == addrv(data, FirstCounted(data), i)
         IN  Lines(data, LAMBDA i : ~IsRun(data[i]), At,
                   LAMBDA i : At(i) - getaddresslen(data) = offset(data))
    ELSE Lines(data, LAMBDA i : TRUE, LAMBDA i : i - 1, LAMBDA i : i - 1 = offset(data))

(* register_trace(): the second letter of the key, by the number of the trace;
   and what write_binary_trace() writes under it.                            *)
TraceKey(n) == CASE n < 26 -> <<"a", n>>
            [] n \in 26 .. 51 -> <<"A", n - 26>>
            [] OTHER -> <<"0", n - 52>>
BinaryTrace(tr, w) == (w \div 2 ^ tr.shift) % 2 ^ tr.nbits
Traces(line) ==
    [key \in {TraceKey(n - 1) : n \in DOMAIN STraces} |->
        BinaryTrace(STraces[Max({n \in DOMAIN STraces : TraceKey(n - 1) = key})], line.w)]

-----------------------------------------------------------------------------
(* The tool.                                                                 *)
ToolRuns ==
    /\ sh.pc = "idle" /\ sh.runs < SMaxRuns
    /\ sh' = NewSCOPE(sh.runs + 1) /\ UNCHANGED sb

SCOPE_ready ==
    /\ sh.pc = "ready"
    /\ sh' = [sh EXCEPT !.m_scoplen = SLen, !.m_holdoff = sb.holdoff,
                        !.pc = IF ready THEN "rawread" ELSE "decode"]
    /\ UNCHANGED sb

decode_control == sh.pc = "decode" /\ sh' = [sh EXCEPT !.pc = "idle"] /\ UNCHANGED sb

(* rawread(): the words one after another, by readz() or by readio().  For a scope
   that is too short it returns without any, and print() uses them all the same. *)
rawread ==
    /\ sh.pc = "rawread" /\ sh.m_scoplen > 4
    /\ ReadsDataPort
    /\ sh' = [sh EXCEPT !.m_data = Append(@, DataPort),
                        !.pc = IF Len(sh.m_data) + 1 = sh.m_scoplen THEN "print" ELSE @]
TooShort ==
    /\ sh.pc = "rawread" /\ sh.m_scoplen <= 4
    /\ sh' = [sh EXCEPT !.pc = "killed"] /\ UNCHANGED sb

SCOPE_print ==
    /\ sh.pc = "print"
    /\ sh' = [sh EXCEPT !.shown = printed(sh.m_data), !.pc = "vcd"] /\ UNCHANGED sb
SCOPE_writevcd ==
    /\ sh.pc = "vcd"
    /\ sh' = [sh EXCEPT !.vcd = writevcd(sh.m_data), !.zero = offset(sh.m_data), !.pc = "idle"]
    /\ UNCHANGED sb

-----------------------------------------------------------------------------
(* A compressed scope is met when it has stopped, a plain one at its reset.   *)
ScopeInit ==
    /\ sh = [NewSCOPE(0) EXCEPT !.pc = "idle"]
    /\ \E h \in SHOLDOFFS :
        \/ \E lg \in SLGMEMS, s \in SStreams :
              sb = [compressed |-> FALSE, lgmem |-> lg, holdoff |-> h, stream |-> s,
                    mem |-> [a \in 0 .. 2 ^ lg - 1 |-> 0], waddr |-> 0, raddr |-> 0, pipe |-> 0,
                    primed |-> FALSE, triggered |-> FALSE, stopped |-> FALSE, counter |-> 0,
                    t |-> 0, at |-> 0]
        \/ \E b \in SBuffers, w \in {0, 3} :
              sb = [compressed |-> TRUE, lgmem |-> CHOOSE lg \in SLGMEMS : 2 ^ lg = Len(b),
                    holdoff |-> h, stream |-> b,
                    mem |-> [a \in 0 .. Len(b) - 1 |-> b[((a - w) % Len(b)) + 1]], waddr |-> w,
                    raddr |-> 0, pipe |-> 0, primed |-> TRUE, triggered |-> TRUE,
                    stopped |-> TRUE, counter |-> h, t |-> 0, at |-> 0]
ScopeNext ==
    \/ ScopeClock \/ ToolRuns \/ SCOPE_ready \/ decode_control \/ rawread \/ TooShort
    \/ SCOPE_print \/ SCOPE_writevcd

-----------------------------------------------------------------------------
(* scopecls.h: "Walk through the data", "see when our trigger took place".  The VCD
   file of a plain scope has the samples of as many clocks as the scope is long,
   one after another and up to the one that the holdoff asked for; each has under
   its key the field of every trace; and the sample that is marked is the one that
   was there when the trigger came, whenever it came, in the first reading and in
   one that follows it.                                                       *)
Sample(i) == sb.stream[sb.at + sb.holdoff + 1 - SLen + i]
VcdShowsCapture ==
    ~sb.compressed /\ sh.vcd # <<>> =>
        /\ Len(sh.vcd) = SLen
        /\ \A i \in 1 .. SLen :
            /\ sh.vcd[i].w = Sample(i) /\ sh.vcd[i].t = i - 1
            /\ sh.vcd[i].trig <=> sb.at + sb.holdoff + 1 - SLen + i = sb.at + 1
            /\ \A n \in DOMAIN STraces :
                Traces(sh.vcd[i])[TraceKey(n - 1)] = (Sample(i) \div 2 ^ STraces[n].shift) % 2 ^ STraces[n].nbits

(* scopecls.h: "print() will avoid printing those lines for the purpose of keeping
   the output from getting cluttered".  Nothing is lost by that: the sample at any
   clock is the one of the last line at or before it.                         *)
PrintLosesNothing ==
    ~sb.compressed /\ sh.shown # <<>> =>
        \A i \in 1 .. SLen :
            \E k \in 1 .. Len(sh.shown) :
                /\ sh.shown[k].t < i /\ (k = Len(sh.shown) \/ sh.shown[k + 1].t >= i)
                /\ sh.shown[k].w = Sample(i)

(* What wbscopc.v compressed is put back in time: between two words that print()
   or writevcd() writes there are as many clocks as were recorded between them.  *)
ClocksBetween(b, i, j) == FoldLeft(LAMBDA n, w : n + (IF IsRun(w) THEN w - SHIGHBIT + 1 ELSE 1), 0, SubSeq(b, i, j - 1))
RecordedAt(k) == CHOOSE i \in 1 .. Len(sb.stream) :
                    ~IsRun(sb.stream[i]) /\ Cardinality({j \in 1 .. i : ~IsRun(sb.stream[j])}) = k
TimesAsRecorded(lines) ==
    \A k \in 1 .. Len(lines) - 1 :
        /\ lines[k].w = sb.stream[RecordedAt(k)]
        /\ lines[k + 1].t - lines[k].t = ClocksBetween(sb.stream, RecordedAt(k), RecordedAt(k + 1))
RunsPutBack == sb.compressed => TimesAsRecorded(sh.shown) /\ TimesAsRecorded(sh.vcd)

(* scopecls.cpp reports the capture: the VCD file has its samples, in order, with
   the trigger where it was, what is printed can be read back, and the runs of a
   compressed scope are put back in their length.                            *)
ScopeRight == VcdShowsCapture /\ PrintLosesNothing /\ RunsPutBack
=============================================================================
