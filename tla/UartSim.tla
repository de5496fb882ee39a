------------------------------- MODULE UartSim -------------------------------
(* The two simulated serial ports: sim/verilated/uartsim.cpp (one connection)
   and dbluartsim.cpp (two connections that share one wire, told apart by the
   top bit of every character), each wired back to itself: what it sends on
   o_rx it receives, a tick later, on i_tx.

   The record `un` is the object, `ur` its surroundings: the wire, what the
   clients have still to send, and what they got.  A word of the shift registers
   is the sequence of its bits, low bit first; m_rx_busy and m_tx_busy are the
   number of their ones.                                                     *)
EXTENDS Integers, Sequences, SequencesExt

CONSTANTS
    UBITS,                          \* bits of a character: 8
    UWORD,                          \* bits of m_tx_data: 32
    UBUFLEN,                        \* DBLPIPEBUFLEN
    USETUPS,                        \* the values of setup() that are tried
    UCmdText, UConText,             \* what the two clients send, in all
    UNewline,                       \* '\n'
    UMAXCUTS                        \* bound: how often a client hangs up

ASSUME UartAssumption ==
    /\ UBITS \in Nat \ {0, 1} /\ UWORD >= UBITS + 4 /\ UBUFLEN > 2
    /\ \A s \in USETUPS : s.baud > 1 /\ s.nstop \in {1, 2} /\ s.nparity \in {0, 1}

VARIABLES un, ur
un_vars == <<un, ur>>

Chans == {"cmd", "con"}
UText == [c \in Chans |-> IF c = "cmd" THEN UCmdText ELSE UConText]
UBit(v, i) == (v \div 2^i) % 2
UTop == 2^(UBITS - 1)

-----------------------------------------------------------------------------
(* setup(): m_baud_counts, m_nparity, m_fixdp, m_evenp and m_nstop in one.    *)
UNBits(u) == UBITS + u.m_setup.nparity + u.m_setup.nstop
CtrCap(u) == 3 * u.m_setup.baud         \* bound: beyond this they act alike

Init_UARTSIM(kind, s) ==
    [kind |-> kind, m_setup |-> s,
     m_rx_state |-> "RXIDLE", m_rx_baudcounter |-> 0, m_rx_changectr |-> 0,
     m_last_tx |-> 1, m_rx_data |-> <<>>,
     m_tx_state |-> "TXIDLE", m_tx_baudcounter |-> 0, m_tx_busy |-> 0,
     m_tx_data |-> [i \in 1 .. UWORD |-> 1],
     conn |-> [c \in Chans |-> FALSE],                  \* m_cmd, m_con; m_conrd
     m_rxbuf |-> <<>>, m_cmdbuf |-> <<>>, m_conbuf |-> <<>>]

(* The receiver: a character begins with a low wire, is sampled in the middle of
   its bits and given out a bit after its last one, when the next start bit may
   already be on the wire: m_rx_changectr makes up for it.                   *)
StartCountBug(b, changectr) == b + b \div 2 - 1         \* the late start is not made up for
StartCount(b, changectr) == b + b \div 2 - 1 - changectr

RxStep(u, i_tx) ==
    LET ctr == IF i_tx = 0 /\ u.m_last_tx = 1 THEN 0
               ELSE IF u.m_rx_changectr < CtrCap(u) THEN u.m_rx_changectr + 1 ELSE u.m_rx_changectr
        w   == [u EXCEPT !.m_rx_changectr = ctr, !.m_last_tx = i_tx]
        b   == u.m_setup.baud
    IN  CASE u.m_rx_state = "RXIDLE" /\ i_tx = 1 -> w
          [] u.m_rx_state = "RXIDLE" /\ i_tx = 0 ->
               [w EXCEPT !.m_rx_state = "RXDATA", !.m_rx_data = <<>>,
                         !.m_rx_baudcounter = StartCount(b, ctr)]
          [] u.m_rx_state = "RXDATA" /\ u.m_rx_baudcounter > 0 ->
               [w EXCEPT !.m_rx_baudcounter = @ - 1]
          [] OTHER ->
               IF Len(u.m_rx_data) >= UNBits(u)
               THEN [w EXCEPT !.m_rx_state = "RXIDLE", !.m_rx_baudcounter = b - 1]
               ELSE [w EXCEPT !.m_rx_data = Append(@, i_tx), !.m_rx_baudcounter = b - 1]

(* Does this tick finish a character, and which?                             *)
RxDone(u) == /\ u.m_rx_state = "RXDATA" /\ u.m_rx_baudcounter <= 0
             /\ Len(u.m_rx_data) >= UNBits(u)
RxChar(u) == FoldLeftDomain(LAMBDA a, i : a + u.m_rx_data[i] * 2^(i - 1), 0,
                            SubSeq(u.m_rx_data, 1, UBITS))

(* The transmitter: start bit, character, parity, and ones.                  *)
Parity(u, ch) ==
    LET p == FoldLeft(LAMBDA a, i : (a + UBit(ch, i - 1)) % 2, 0, [i \in 1 .. UBITS |-> i])
    IN  IF u.m_setup.fixdp THEN u.m_setup.evenp ELSE (p + u.m_setup.evenp) % 2
TxLoad(u, ch) ==
    [u EXCEPT !.m_tx_state = "TXDATA", !.m_tx_baudcounter = u.m_setup.baud - 1,
              !.m_tx_busy = UNBits(u) + 1,
              !.m_tx_data = [i \in 1 .. UWORD |->
                  CASE i = 1 -> 0
                    [] i \in 2 .. UBITS + 1 -> UBit(ch, i - 2)
                    [] i = UBITS + 2 /\ u.m_setup.nparity = 1 -> Parity(u, ch)
                    [] OTHER -> 1]]
TxStep(u) ==
    IF u.m_tx_baudcounter > 0 THEN [u EXCEPT !.m_tx_baudcounter = @ - 1]
    ELSE [u EXCEPT !.m_tx_data = Append(Tail(@), 0),
                   !.m_tx_busy = IF @ > 0 THEN @ - 1 ELSE 0,
                   !.m_tx_state = IF u.m_tx_busy <= 1 THEN "TXIDLE" ELSE @,
                   !.m_tx_baudcounter = IF u.m_tx_busy <= 1 THEN @ ELSE u.m_setup.baud - 1]

-----------------------------------------------------------------------------
(* dbluartsim.cpp.  received(): a command character waits for its line to be
   complete, a console character goes out at once if someone listens, and else is
   kept for the simulator's own output.  What is returned: the object, and the
   text that goes out to each client.                                        *)
Received(u, ch) ==
    LET cmd1 == IF ch >= UTop THEN Append(u.m_cmdbuf, ch % UTop) ELSE u.m_cmdbuf
        con1 == IF ch >= UTop THEN u.m_conbuf ELSE Append(u.m_conbuf, ch)
        line(b) == b # <<>> /\ (b[Len(b)] = UNewline \/ Len(b) >= UBUFLEN - 2)
        consent == u.conn["con"] /\ con1 # <<>>
    IN  [u   |-> [u EXCEPT !.m_cmdbuf = IF line(cmd1) THEN <<>> ELSE cmd1,
                           !.m_conbuf = IF consent \/ line(con1) THEN <<>> ELSE con1],
         out |-> [c \in Chans |->
                   IF c = "cmd" THEN IF line(cmd1) /\ u.conn["cmd"] THEN cmd1 ELSE <<>>
                   ELSE IF consent THEN <<con1[Len(con1)]>> ELSE <<>>]]

(* poll_read(): both connections are read into what room m_rxbuf has, commands
   marked and first.  pend: what the clients have sent and was not read yet.  *)
PollReadBug(u, pend) ==                 \* the console's text lands on the commands'
    LET n1 == IF Len(pend["cmd"]) <= UBUFLEN THEN Len(pend["cmd"]) ELSE UBUFLEN
        n2 == IF Len(pend["con"]) <= UBUFLEN THEN Len(pend["con"]) ELSE UBUFLEN
    IN  [n |-> [c \in Chans |-> IF c = "cmd" THEN n1 ELSE n2],
         buf |-> [i \in 1 .. n1 |-> IF i <= n2 THEN pend["con"][i] ELSE pend["cmd"][i] + UTop]]

PollRead(u, pend) ==
    LET n1 == IF Len(pend["cmd"]) <= UBUFLEN THEN Len(pend["cmd"]) ELSE UBUFLEN
        n2 == IF Len(pend["con"]) <= UBUFLEN - n1 THEN Len(pend["con"]) ELSE UBUFLEN - n1
    IN  [n |-> [c \in Chans |-> IF c = "cmd" THEN n1 ELSE n2],
         buf |-> [i \in 1 .. n1 |-> pend["cmd"][i] + UTop] \o SubSeq(pend["con"], 1, n2)]

-----------------------------------------------------------------------------
(* What has come in for the simulator to read, of those that are connected.  *)
Pending(failed) == [c \in Chans |-> IF un.conn[c] /\ c \notin failed THEN ur.sent[c] ELSE <<>>]
Hangups == {c \in Chans : un.conn[c] /\ ur.gone[c] /\ ur.sent[c] = <<>>}
Accept(u) == [u EXCEPT !.conn = [c \in Chans |-> u.conn[c] \/ ur.calling[c]]]
AfterAccept == [c \in Chans |-> ur.calling[c] /\ un.conn[c]]
Give(got, out) == [c \in Chans |-> IF ur.gone[c] THEN got[c] ELSE got[c] \o out[c]]
(* A send to a client that hung up may fail, and then the simulator closes too. *)
MayFail(out) == SUBSET {c \in Chans : ur.gone[c] /\ out[c] # <<>>}

(* DBLUARTSIM::tick().  A client that hung up is noticed when nothing is left of
   what it sent and the buffer is read again.                                *)
tick ==
    LET rx  == RxStep(Accept(un), ur.wire)
        rcv == IF RxDone(un) THEN Received(rx, RxChar(un))
               ELSE [u |-> rx, out |-> [c \in Chans |-> <<>>]]
        idle == un.m_tx_state = "TXIDLE"
        polls == idle /\ un.m_rxbuf = <<>>
    IN \E failed \in MayFail(rcv.out) :
        LET rd   == PollRead(rcv.u, Pending(failed))
            buf  == IF polls THEN rd.buf ELSE un.m_rxbuf
            shut == failed \cup (IF polls THEN Hangups ELSE {})
            u1   == IF idle /\ buf # <<>> THEN [TxLoad(rcv.u, Head(buf)) EXCEPT !.m_rxbuf = Tail(buf)]
                    ELSE IF idle THEN rcv.u ELSE TxStep(rcv.u)
            n(c) == IF polls THEN rd.n[c] ELSE 0
        IN  /\ un' = [u1 EXCEPT !.conn = [c \in Chans |-> @[c] /\ c \notin shut]]
            /\ ur' = [ur EXCEPT
                        !.wire = IF idle /\ buf = <<>> THEN 1 ELSE u1.m_tx_data[1],
                        !.calling = AfterAccept,
                        !.gone = [c \in Chans |-> @[c] /\ c \notin shut],
                        !.sent = [c \in Chans |-> IF c \in shut THEN <<>>
                                                  ELSE SubSeq(@[c], n(c) + 1, Len(@[c]))],
                        !.read = [c \in Chans |-> @[c] \o SubSeq(ur.sent[c], 1, n(c))],
                        !.got  = Give(@, rcv.out)]

(* UARTSIM::rawtick() on a network port: one connection ("con"), read a character
   at a time, and every character received is sent on.                       *)
rawtick ==
    LET rx   == RxStep(Accept(un), ur.wire)
        idle == un.m_tx_state = "TXIDLE"
        out  == [c \in Chans |-> IF c = "con" /\ RxDone(un) /\ rx.conn[c] THEN <<RxChar(un)>> ELSE <<>>]
    IN \E failed \in MayFail(out) :
        LET pend  == Pending(failed)["con"]
            takes == idle /\ pend # <<>>
            shut  == failed # {} \/ (idle /\ pend = <<>> /\ "con" \in Hangups)
            u1    == IF takes THEN TxLoad(rx, Head(pend)) ELSE IF idle THEN rx ELSE TxStep(rx)
        IN  /\ un' = [u1 EXCEPT !.conn["con"] = @ /\ ~shut]
            /\ ur' = [ur EXCEPT
                        !.wire = IF idle /\ ~takes THEN 1 ELSE u1.m_tx_data[1],
                        !.calling = AfterAccept,
                        !.gone["con"] = @ /\ ~shut,
                        !.sent["con"] = IF shut THEN <<>> ELSE IF takes THEN Tail(@) ELSE @,
                        !.read["con"] = IF takes THEN Append(@, Head(pend)) ELSE @,
                        !.got = Give(@, out)]

UTick == IF un.kind = "dbl" THEN tick ELSE rawtick

-----------------------------------------------------------------------------
(* The clients: one calls, writes some of its text, hangs up, calls again.  What
   it has written it does not write again.                                   *)
UCalls(c) ==
    /\ ~ur.calling[c] /\ ~ur.gone[c] /\ ~un.conn[c] /\ (un.kind = "dbl" \/ c = "con")
    /\ ur.left[c] # <<>>
    /\ ur' = [ur EXCEPT !.calling[c] = TRUE]
    /\ UNCHANGED un
UWrites(c) ==
    /\ un.conn[c] /\ ~ur.gone[c] /\ ur.left[c] # <<>>
    /\ \E n \in 1 .. Len(ur.left[c]) :
         ur' = [ur EXCEPT !.sent[c] = @ \o SubSeq(ur.left[c], 1, n),
                          !.left[c] = SubSeq(@, n + 1, Len(@))]
    /\ UNCHANGED un
UHangsUp(c) ==
    /\ un.conn[c] /\ ~ur.gone[c] /\ ur.cuts < UMAXCUTS
    /\ ur' = [ur EXCEPT !.gone[c] = TRUE, !.cuts = @ + 1]
    /\ UNCHANGED un

(* The simulator is built and set up: MAINTB().                              *)
UBuild ==
    /\ un.kind = "none"
    /\ \E k \in {"dbl", "one"}, s \in USETUPS : un' = Init_UARTSIM(k, s)
    /\ UNCHANGED ur

UartInit ==
    /\ un = [kind |-> "none", conn |-> [c \in Chans |-> FALSE]]
    /\ ur = [wire |-> 1, cuts |-> 0,
             calling |-> [c \in Chans |-> FALSE], gone |-> [c \in Chans |-> FALSE],
             left |-> UText, sent |-> [c \in Chans |-> <<>>],
             read |-> [c \in Chans |-> <<>>], got |-> [c \in Chans |-> <<>>]]
UartTick == un.kind # "none" /\ UTick
UartNext == \/ UBuild
            \/ UartTick
            \/ un.kind # "none" /\ \E c \in Chans : UCalls(c) \/ UWrites(c) \/ UHangsUp(c)

-----------------------------------------------------------------------------
(* s is t with some left out.                                                *)
USubSeq(s, t) == \E f \in [1 .. Len(s) -> 1 .. Len(t)] :
    (\A i \in 1 .. Len(s) : s[i] = t[f[i]]) /\ (\A i, j \in 1 .. Len(s) : i < j => f[i] < f[j])

(* What a client gets back is what was read from it: as long as nobody hangs up,
   all of it in order, whatever the other one sends and however close together
   the characters are; after that, at least nothing that was never sent, twice or
   out of order.                                                             *)
UartEchoes ==
    \A c \in Chans : IF ur.cuts = 0 THEN IsPrefix(ur.got[c], ur.read[c])
                     ELSE Len(ur.got[c]) <= Len(ur.read[c]) /\ USubSeq(ur.got[c], ur.read[c])

(* The simulator holds no text back: with nobody hanging up, each client in the
   end gets all it sent, the commands up to the end of their last line.       *)
UartDelivers ==
    <>[](\A c \in Chans : ur.cuts = 0 /\ un.kind # "none" /\ (un.kind = "dbl" \/ c = "con") =>
            ur.got[c] = UText[c])
=============================================================================
