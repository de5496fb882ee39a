-------------------------------- MODULE MainTb --------------------------------
(* The simulation's main loop: sim/verilated/tbclock.h (one clock), testb.h (the
   step from one clock edge of the design to the next) and main_tb.cpp (what the
   simulator does on each clock), with memsim.cpp, the simulated SDRAM.

   The record `tb` holds the clocks and what the callbacks share with the design;
   `mb` is the SDRAM and the bus master that uses it.  A clock's m_now_ps and
   m_last_posedge_ps are only used as a difference, which is its phase here.  *)
EXTENDS Integers, Sequences, FiniteSets, FiniteSetsExt

CONSTANTS
    INCREMENT,                      \* m_increment_ps of each clock, by its name
    MDELAYS,                        \* m_delay of the SDRAM: 27
    MADDRS, MVALS                   \* its words, and what is written to them

Clocks == {"clk", "eth_rx", "eth_tx", "crystal"}

ASSUME MainTbAssumption ==
    /\ INCREMENT \in [Clocks -> Nat \ {0}]
    /\ MDELAYS \subseteq Nat \ {0}

VARIABLES tb, mb
tb_vars == <<tb, mb>>

-----------------------------------------------------------------------------
(* TBCLOCK, of half period inc and phase ph.                                 *)
InitPhase(inc) == inc + 1
time_to_edge(inc, ph) == IF inc > ph THEN inc - ph ELSE 2 * inc - ph
AdvancePhase(inc, ph, itime) == IF ph + itime >= 2 * inc THEN ph + itime - 2 * inc ELSE ph + itime
rising_edge(ph) == ph = 0
falling_edge(inc, ph) == ph = inc
ClockOk(inc, ph) == ph < 2 * inc

(* The step of TESTB::tick(): to the nearest edge of any clock.              *)
mintimeBug(ph) == time_to_edge(INCREMENT["clk"], ph["clk"])      \* the first clock alone
mintime(ph) == Min({time_to_edge(INCREMENT[c], ph[c]) : c \in Clocks})

-----------------------------------------------------------------------------
(* MEMSIM: the answers wait m_delay clocks in a ring whose length is a power of
   two.                                                                      *)
RingLen(d) == CHOOSE n \in {2^k : k \in 0 .. d} : n >= d /\ (n = 1 \/ n \div 2 < d)
RingTailBug(head, d) == (head - d + 1) % RingLen(d)      \* off by one
RingTail(head, d) == (head - d) % RingLen(d)

Init_MEMSIM(d) ==
    [m_delay |-> d, m_head |-> 0,
     m_fifo_ack |-> [i \in 0 .. RingLen(d) - 1 |-> FALSE],
     m_fifo_data |-> [i \in 0 .. RingLen(d) - 1 |-> CHOOSE v \in MVALS : TRUE],
     m_mem |-> [a \in MADDRS |-> CHOOSE v \in MVALS : TRUE],
     o_ack |-> FALSE, o_data |-> CHOOSE v \in MVALS : TRUE]

(* memsim.cpp: for(m_fifo_ln = 1; m_fifo_ln < delay; m_fifo_ln <<= 1).  The loop
   ends with a length that is no less than the delay; that is all the theorems
   need of it, and TLC evaluates it here for the delays of a run.            *)
ASSUME MemSimAssumption ==
    /\ MVALS # {}
    /\ \A d \in MDELAYS : RingLen(d) \in Nat /\ d <= RingLen(d)

(* apply(), of a request rq; a cycle that is not there empties the ring.     *)
MemApply(m, rq) ==
    LET head == (m.m_head + 1) % RingLen(m.m_delay)
        tail == RingTail(m.m_head + 1, m.m_delay)
    IN  IF ~rq.cyc
        THEN [m EXCEPT !.o_ack = FALSE, !.m_head = 0,
                       !.m_fifo_ack = [i \in DOMAIN @ |-> FALSE]]
        ELSE [m EXCEPT !.m_head = head,
                       !.o_ack = m.m_fifo_ack[tail], !.o_data = m.m_fifo_data[tail],
                       !.m_fifo_ack[head] = rq.stb,
                       !.m_fifo_data[head] = IF rq.stb /\ ~rq.we THEN m.m_mem[rq.addr] ELSE @,
                       !.m_mem = IF rq.stb /\ rq.we THEN [@ EXCEPT ![rq.addr] = rq.data] ELSE @]

-----------------------------------------------------------------------------
(* The callbacks of main_tb.cpp, of the clocks that fall.  The bus master: it has
   a cycle or none, and asks for anything.  due: how long its requests wait, and
   what must come back.                                                      *)
Requests == {[cyc |-> FALSE, stb |-> FALSE]}
            \cup {[cyc |-> TRUE, stb |-> FALSE]}
            \cup {[cyc |-> TRUE, stb |-> TRUE, we |-> FALSE, addr |-> a] : a \in MADDRS}
            \cup {[cyc |-> TRUE, stb |-> TRUE, we |-> TRUE, addr |-> a, data |-> v] :
                    a \in MADDRS, v \in MVALS}
Aged(due) == [i \in 1 .. Len(due) |-> [due[i] EXCEPT !.age = @ + 1]]
Owed(rq) == [age |-> 0, rd |-> ~rq.we, v |-> IF rq.we THEN rq.data ELSE mb.mem.m_mem[rq.addr]]

sim_clk_tick ==
    \E rq \in Requests :
        LET m   == MemApply(mb.mem, rq)
            due == IF rq.stb THEN Append(Aged(mb.due), Owed(rq)) ELSE Aged(mb.due)
        IN  mb' = [mb EXCEPT !.mem = m,
                             !.due = IF ~rq.cyc THEN <<>>
                                     ELSE IF m.o_ack /\ due # <<>> THEN Tail(due) ELSE due,
                             !.ok = @ /\ (m.o_ack => /\ due # <<>>
                                                     /\ due[1].age = mb.mem.m_delay
                                                     /\ due[1].rd => m.o_data = due[1].v)]

(* sim_eth_rx_clk_tick(): what the design sends comes back to it.            *)
sim_eth_rx_clk_tick(e) == [e EXCEPT !.i_eth_rxd = e.o_eth_txd]

(* The design, as far as the callbacks see it: on a rising eth_tx_clk it sends
   the next nibble (of NIBBLES), on a rising eth_rx_clk it takes one in.      *)
NIBBLES == 3
DesignEth(e, ph) ==
    [e EXCEPT !.o_eth_txd = IF rising_edge(ph["eth_tx"]) THEN (@ + 1) % NIBBLES ELSE @,
              !.got = IF rising_edge(ph["eth_rx"]) THEN e.i_eth_rxd ELSE @,
              !.was = IF rising_edge(ph["eth_rx"]) THEN e.got ELSE @,
              !.n = IF rising_edge(ph["eth_rx"]) /\ @ < 2 THEN @ + 1 ELSE @]

(* TESTB::tick(): the clocks advance, the design is evaluated, the callbacks of
   those that fell are called.  since: the time since each one's last callback. *)
Tick ==
    LET t  == mintime(tb.ph)
        ph == [c \in Clocks |-> AdvancePhase(INCREMENT[c], tb.ph[c], t)]
        fell(c) == falling_edge(INCREMENT[c], ph[c])
        e  == DesignEth(tb.eth, ph)
    IN  /\ tb.ok /\ mb.ok
        /\ tb' = [tb EXCEPT
                   !.ph = ph,
                   !.eth = IF fell("eth_rx") THEN sim_eth_rx_clk_tick(e) ELSE e,
                   !.since = [c \in Clocks |-> IF fell(c) THEN 0 ELSE @[c] + t],
                   !.ok = /\ @ /\ t > 1
                          /\ \A c \in Clocks : /\ ClockOk(INCREMENT[c], tb.ph[c])
                                               /\ t <= INCREMENT[c]]
        /\ IF fell("clk") THEN sim_clk_tick ELSE UNCHANGED mb

MainTbBuild == /\ mb.mem = <<>>
               /\ \E d \in MDELAYS : mb' = [mb EXCEPT !.mem = Init_MEMSIM(d)]
               /\ UNCHANGED tb
MainTbInit ==
    /\ tb = [ph |-> [c \in Clocks |-> InitPhase(INCREMENT[c])],
             since |-> [c \in Clocks |-> 1], ok |-> TRUE,
             eth |-> [o_eth_txd |-> 0, i_eth_rxd |-> 0, got |-> 0, was |-> 0, n |-> 0]]
    /\ mb = [mem |-> <<>>, due |-> <<>>, ok |-> TRUE]
MainTbNext == MainTbBuild \/ (mb.mem # <<>> /\ Tick)
MainTbSpec == MainTbInit /\ [][MainTbNext]_tb_vars

-----------------------------------------------------------------------------
(* Every clock's callback comes exactly once a period: no step of the simulation
   jumps over an edge of one of the clocks, and no assertion of testb.h or
   tbclock.h fails.                                                          *)
NoEdgeSkipped == /\ tb.ok
                 /\ \A c \in Clocks : tb.since[c] < 2 * INCREMENT[c]
                                      /\ (falling_edge(INCREMENT[c], tb.ph[c]) <=> tb.since[c] = 0)

(* The nibbles that the design sends on one clock come back on the other one,
   each of them once and in order.                                           *)
NibblesComeBack == tb.eth.n = 2 => tb.eth.got = (tb.eth.was + 1) % NIBBLES

(* The SDRAM answers each request of a cycle, exactly m_delay clocks later and in
   order; a read brings what the word held when it was asked for, whatever is
   written while it waits; what a dropped cycle asked for is never answered.  *)
MemAnswersRight ==
    /\ mb.ok
    /\ mb.mem # <<>> => \A i \in 1 .. Len(mb.due) : mb.due[i].age < mb.mem.m_delay

(* What the design is given back is what it sent, as much later as it expects:
   words of the simulated memory, and the nibbles of the Ethernet loop.      *)
SimAnswersRight == MemAnswersRight /\ NibblesComeBack
=============================================================================
