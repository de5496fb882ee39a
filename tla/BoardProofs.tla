----------------------------- MODULE BoardProofs -----------------------------
(* The programs of the board, and the main loop of the simulation that they run
   in, for every value of their constants: simple_ping answers each request once
   and to the one who asked, and its supervisor never halts, for every size of
   the ARP table and wherever arp_table_add() writes; the boot loader never
   enters main() before the program is complete, for every layout that the linker
   scripts give, with resets at any time; the C library's console loses nothing
   and reads what was typed, for every FIFO; the time of day goes on from each day
   to the next; the simulation's clocks skip no edge, for any half periods that
   are even and greater than two; its SDRAM and its Ethernet loop answer right,
   for any delay; and its SD card serves a master that gives up and starts over
   anywhere, for any number and length of blocks.                             *)
EXTENDS SimplePing, ZipBoot, ZipConsole, MainTb, SdSpiSim,
        WellFoundedInduction, SequenceTheorems, FiniteSetTheorems, TLAPS

Names == {"0", "router", "host", "all"}
Ints == {"RX", "TX", "TMA", "PPS"}
Packets == [kind : {"none", "echo", "reply", "arpreq", "arprep"}, mac : Names, ip : Names, id : Nat]
Entries == [valid : BOOLEAN, age : Nat, ipaddr : Names, mac : Names]
Board == [sup : {"top", "loop", "user", "serve", "halted"}, user : {"lookup", "wait"},
          trap : Packets, rx : Packets, tx : Packets,
          int_state : SUBSET Ints, int_enable : SUBSET Ints, mie : BOOLEAN,
          picv : [st : SUBSET Ints, en : SUBSET Ints], lastpps : 0 .. 2,
          arp_table : [1 .. NARP -> Entries],
          router_mac_addr : Names, ping_mac_addr : Names]
Network == [wire : Packets, asked : Nat, open : SUBSET (Names \X Nat)]

(* Whoever owns a MAC address in the tables of the board owns the IP address that
   stands beside it, in the entries that are not valid too.                  *)
MacsOwned(b) == /\ \A e \in 1 .. NARP : b.arp_table[e].mac = b.arp_table[e].ipaddr
                /\ b.router_mac_addr \in {"0", "router"}
BoardOK(b) == b \in Board /\ MacsOwned(b)

(* The two timers' interrupts are on when the supervisor looks.              *)
TimersOn(b) == b.sup \in {"loop", "user"} => {"TMA", "PPS"} \subseteq b.int_enable

(* A request that was not answered is in one place: on the wire, received, in the
   user's call, or in the transmitter.                                       *)
Pending(p) == p.id # 0 => p.id <= nw.asked /\ p.mac = p.ip /\ <<p.ip, p.id>> \in nw.open
Apart(p, q) == p.id # 0 => p.id # q.id
Incoming(p) == p.mac = p.ip /\ (p.kind = "echo" => p.id # 0)
Outgoing(p) == p.kind = "reply" => p.id # 0

PingInv ==
    /\ BoardOK(np) /\ nw \in Network
    /\ np.sup # "halted" /\ TimersOn(np)
    /\ \A p \in {nw.wire, np.rx, np.trap, np.tx} : Pending(p)
    /\ Incoming(nw.wire) /\ Incoming(np.rx) /\ Outgoing(np.trap) /\ Outgoing(np.tx)
    /\ Apart(nw.wire, np.rx) /\ Apart(nw.wire, np.trap) /\ Apart(nw.wire, np.tx)
    /\ Apart(np.rx, np.trap) /\ Apart(np.rx, np.tx) /\ Apart(np.trap, np.tx)


-----------------------------------------------------------------------------
(* A set of positions that is not empty has a first one: what CHOOSE takes where
   the code's loop over the table stops.                                     *)
LEMMA LessThan == \A y, x : <<y, x>> \in OpToRel(<, Nat) <=> (y \in Nat /\ x \in Nat /\ y < x)
  BY Zenon DEF OpToRel

LEMMA FirstOf ==
    ASSUME NEW S \in SUBSET Nat, S # {}
    PROVE  (CHOOSE e \in S : \A f \in S : e <= f) \in S
  <1>1. PICK x \in S : \A y \in S : ~(<<y, x>> \in OpToRel(<, Nat))
    BY NatLessThanWellFounded, WFMin
  <1>2. \A y \in S : x <= y
    <2> SUFFICES ASSUME NEW y \in S PROVE x <= y
      OBVIOUS
    <2>1. ~(y < x)
      BY <1>1, LessThan, Zenon
    <2> QED
      BY <2>1
  <1> QED
    BY <1>2

(* arp.c keeps the tables right, and changes nothing else of the board.      *)
LEMMA MacRight ==
    ASSUME NEW b, BoardOK(b), NEW ip \in Names, ArpKnown(b, ip)
    PROVE  ArpMac(b, ip) = ip
  <1>1. CASE ip = "router" /\ b.router_mac_addr # "0"
    BY <1>1 DEF ArpMac, BoardOK, MacsOwned
  <1>2. CASE ~(ip = "router" /\ b.router_mac_addr # "0")
    <2>1. ArpFind(b, ip) # {} /\ ArpFind(b, ip) \in SUBSET Nat
      BY <1>2 DEF ArpKnown, ArpFind
    <2> DEFINE first == CHOOSE e \in ArpFind(b, ip) : \A f \in ArpFind(b, ip) : e <= f
    <2>2. first \in ArpFind(b, ip)
      BY <2>1, FirstOf
    <2>3. ArpMac(b, ip) = b.arp_table[first].mac
      BY <1>2 DEF ArpMac
    <2> HIDE DEF first
    <2> QED
      BY <2>2, <2>3 DEF BoardOK, MacsOwned, ArpFind
  <1> QED
    BY <1>1, <1>2

(* What of the board arp.c leaves alone.                                     *)
SameBut(b, c) == /\ c.sup = b.sup /\ c.trap = b.trap /\ c.rx = b.rx /\ c.tx = b.tx
                 /\ c.int_enable = b.int_enable /\ c.user = b.user

TableOK(t) == t \in [1 .. NARP -> Entries] /\ \A e \in 1 .. NARP : t[e].mac = t[e].ipaddr

LEMMA OlderOK ==
    ASSUME NEW t, TableOK(t), NEW l
    PROVE  TableOK(ArpOlder(t, l))
  <1>1. ASSUME NEW e \in 1 .. NARP
        PROVE  /\ ArpOlder(t, l)[e] \in Entries
               /\ ArpOlder(t, l)[e].mac = ArpOlder(t, l)[e].ipaddr
    <2>1. /\ t[e] \in Entries /\ t[e].mac = t[e].ipaddr
          /\ [t[e] EXCEPT !.age = 0] \in Entries /\ [t[e] EXCEPT !.age = t[e].age + 1] \in Entries
      BY DEF TableOK, Entries
    <2>2. ArpOlder(t, l)[e] \in {t[e], [t[e] EXCEPT !.age = 0], [t[e] EXCEPT !.age = t[e].age + 1]}
      BY DEF ArpOlder
    <2> QED
      BY <2>1, <2>2 DEF Entries
  <1> QED
    BY <1>1 DEF TableOK, ArpOlder

LEMMA AgedOK ==
    ASSUME NEW b, BoardOK(b), NEW ip
    PROVE  BoardOK(ArpAged(b, ip)) /\ SameBut(b, ArpAged(b, ip))
  <1> DEFINE hit == ArpFind(b, ip)
             last == IF hit = {} THEN NARP + 1 ELSE CHOOSE e \in hit : \A f \in hit : e <= f
  <1>1. TableOK(b.arp_table)
    BY DEF BoardOK, MacsOwned, Board, TableOK
  <1>2. CASE ~(ip = "router" /\ b.router_mac_addr # "0")
    <2>1. ArpAged(b, ip) = [b EXCEPT !.arp_table = ArpOlder(b.arp_table, last)]
      BY <1>2 DEF ArpAged
    <2> HIDE DEF last
    <2> QED
      BY <1>1, <2>1, OlderOK DEF BoardOK, MacsOwned, Board, TableOK, SameBut
  <1>3. CASE ip = "router" /\ b.router_mac_addr # "0"
    BY <1>3 DEF ArpAged, SameBut
  <1> QED
    BY <1>2, <1>3

LEMMA FilledOK ==
    ASSUME NEW t, TableOK(t), NEW k, NEW ip \in Names
    PROVE  /\ TableOK([t EXCEPT ![k].age = 0, ![k].ipaddr = ip, ![k].mac = ip])
           /\ TableOK([t EXCEPT ![k].valid = TRUE])
  <1> DEFINE e1 == [t[k] EXCEPT !.age = 0, !.ipaddr = ip, !.mac = ip]
             e2 == [t[k] EXCEPT !.valid = TRUE]
  <1>1. CASE k \in 1 .. NARP
    <2>1. t[k] \in Entries /\ t[k].mac = t[k].ipaddr
      BY <1>1 DEF TableOK
    <2>2. e1 \in Entries /\ e1.mac = e1.ipaddr /\ e2 \in Entries /\ e2.mac = e2.ipaddr
      BY <2>1 DEF Entries
    <2>3. /\ [t EXCEPT ![k].age = 0, ![k].ipaddr = ip, ![k].mac = ip] = [t EXCEPT ![k] = e1]
          /\ [t EXCEPT ![k].valid = TRUE] = [t EXCEPT ![k] = e2]
      BY <1>1 DEF TableOK
    <2> HIDE DEF e1, e2
    <2>4. TableOK([t EXCEPT ![k] = e1]) /\ TableOK([t EXCEPT ![k] = e2])
      BY <2>2 DEF TableOK
    <2> QED
      BY <2>3, <2>4
  <1>2. CASE k \notin 1 .. NARP
    BY <1>2 DEF TableOK
  <1> QED
    BY <1>1, <1>2

LEMMA FillOK ==
    ASSUME NEW b, BoardOK(b), NEW ip \in Names, NEW ev, NEW c \in ArpFill(b, ip, ip, ev)
    PROVE  BoardOK(c) /\ SameBut(b, c)
  <1> DEFINE eid == get_next_arp_index(b)
             filled == [b.arp_table EXCEPT ![eid].age = 0, ![eid].ipaddr = ip, ![eid].mac = ip]
  <1>1. \E t : c = [b EXCEPT !.arp_table = t] /\ (t = filled \/ \E k : t = [filled EXCEPT ![k].valid = TRUE])
    BY DEF ArpFill
  <1> HIDE DEF eid
  <1>2. TableOK(b.arp_table)
    BY DEF BoardOK, MacsOwned, Board, TableOK
  <1>3. TableOK(filled)
    BY <1>2, FilledOK
  <1> HIDE DEF filled
  <1>4. ASSUME NEW k PROVE TableOK([filled EXCEPT ![k].valid = TRUE])
    BY <1>3, FilledOK
  <1>5. PICK t : c = [b EXCEPT !.arp_table = t] /\ TableOK(t)
    BY <1>1, <1>3, <1>4
  <1> QED
    BY <1>5 DEF BoardOK, MacsOwned, Board, TableOK, SameBut

LEMMA UpdateOK ==
    ASSUME NEW b, BoardOK(b), NEW ip \in Names
    PROVE  BoardOK(ArpUpdate(b, ip, ip)) /\ SameBut(b, ArpUpdate(b, ip, ip))
  <1> DEFINE t == [e \in 1 .. NARP |-> IF e \in ArpFind(b, ip)
                                       THEN [b.arp_table[e] EXCEPT !.age = 0, !.mac = ip]
                                       ELSE b.arp_table[e]]
  <1>1. ArpUpdate(b, ip, ip) = [b EXCEPT !.arp_table = t]
    BY DEF ArpUpdate
  <1>2. TableOK(t)
    BY ZenonT(60) DEF BoardOK, MacsOwned, Board, TableOK, Entries, ArpFind
  <1> HIDE DEF t
  <1> QED
    BY <1>1, <1>2 DEF BoardOK, MacsOwned, Board, TableOK, SameBut

-----------------------------------------------------------------------------
(* A step of the user task that leaves the supervisor's part alone: it may take
   the packet received, and the call it makes carries no request, or the one it
   took.                                                                     *)
LEMMA UserStep ==
    ASSUME PingInv, BoardOK(np'), nw' = nw,
           np'.sup = np.sup, np'.int_enable = np.int_enable, np'.tx = np.tx,
           np'.rx \in {np.rx, NoPkt},
           \/ np'.trap.id = 0 /\ np'.trap.kind # "reply"
           \/ /\ np'.rx = NoPkt /\ np.rx.id # 0
              /\ np'.trap.id = np.rx.id /\ np'.trap.ip = np.rx.ip /\ np'.trap.mac = np.rx.ip
    PROVE  PingInv'
  BY
  DEF PingInv, BoardOK, TimersOn, Pending, Apart, Incoming, Outgoing, NoPkt, NPkt,
      Board, Packets, Network

(* What a system call of the user changes.                                   *)
LEMMA SyscallOK ==
    ASSUME NEW b, BoardOK(b), NEW pkt \in Packets, NEW at \in {"lookup", "wait"}
    PROVE  /\ BoardOK(Syscall(b, pkt, at)) /\ Syscall(b, pkt, at).trap = pkt
           /\ Syscall(b, pkt, at).sup = b.sup /\ Syscall(b, pkt, at).int_enable = b.int_enable
           /\ Syscall(b, pkt, at).tx = b.tx /\ Syscall(b, pkt, at).rx = b.rx
  BY DEF Syscall, BoardOK, MacsOwned, Board

LEMMA PacketTypes ==
    /\ \A ip \in Names : arp_request(ip) \in Packets /\ arp_request(ip).id = 0 /\ arp_request(ip).kind # "reply"
    /\ \A mac \in Names, ip \in Names, id \in Nat :
          /\ NPkt("reply", mac, ip, id) \in Packets /\ NPkt("arprep", mac, ip, id) \in Packets
          /\ NPkt("echo", mac, ip, id) \in Packets /\ NPkt("arpreq", mac, ip, id) \in Packets
    /\ NoPkt \in Packets /\ NoPkt.id = 0 /\ NoPkt.kind = "none" /\ NoPkt.mac = NoPkt.ip
    /\ PINGIP \in Names
  BY PingAssumption DEF arp_request, NPkt, NoPkt, Packets, Names

LEMMA AskOK ==
    ASSUME NEW b, NEW a, BoardOK(a), SameBut(b, a), NEW ip \in Names, NEW at \in {"lookup", "wait"}
    PROVE  LET c == Syscall(a, arp_request(ip), at) IN
           /\ BoardOK(c) /\ c.sup = b.sup /\ c.int_enable = b.int_enable /\ c.tx = b.tx /\ c.rx = b.rx
           /\ c.trap.id = 0 /\ c.trap.kind # "reply"
  <1>1. arp_request(ip) \in Packets /\ arp_request(ip).id = 0 /\ arp_request(ip).kind # "reply"
    BY PacketTypes
  <1> QED
    BY <1>1, SyscallOK DEF SameBut

LEMMA LookupRouterOK ==
    ASSUME NEW b, BoardOK(b), b.trap = NoPkt
    PROVE  LET c == lookup_router(b) IN
           /\ BoardOK(c) /\ c.sup = b.sup /\ c.int_enable = b.int_enable /\ c.tx = b.tx /\ c.rx = b.rx
           /\ c.trap.id = 0 /\ c.trap.kind # "reply"
  <1> DEFINE a == ArpAged(b, "router")
  <1>1. BoardOK(a) /\ SameBut(b, a)
    BY AgedOK
  <1> HIDE DEF a
  <1>2. CASE ArpKnown(b, "router")
    <2>1. lookup_router(b) = [a EXCEPT !.user = "wait"]
      BY <1>2 DEF lookup_router, a
    <2> QED
      BY <1>1, <2>1, PacketTypes DEF BoardOK, MacsOwned, Board, SameBut
  <1>3. CASE ~ArpKnown(b, "router")
    <2>1. lookup_router(b) = Syscall(a, arp_request("router"), "wait")
      BY <1>3 DEF lookup_router, a
    <2> QED
      BY <1>1, <2>1, AskOK DEF Names
  <1> QED
    BY <1>2, <1>3

LEMMA LookupStep == PingInv /\ user_lookup => PingInv'
  <1> SUFFICES ASSUME PingInv, user_lookup PROVE PingInv'
    OBVIOUS
  <1> DEFINE a == ArpAged(np, PINGIP)
  <1>1. BoardOK(np) /\ BoardOK(a) /\ SameBut(np, a) /\ np.trap = NoPkt /\ nw' = nw
    BY AgedOK DEF PingInv, user_lookup, Runs
  <1> HIDE DEF a
  <1>2. CASE ArpKnown(np, PINGIP)
    <2> DEFINE c == [a EXCEPT !.ping_mac_addr = ArpMac(np, PINGIP)]
    <2>1. ArpMac(np, PINGIP) \in Names
      BY <1>1, <1>2, MacRight, PacketTypes
    <2>2. /\ BoardOK(c) /\ c.trap = NoPkt /\ c.sup = np.sup /\ c.int_enable = np.int_enable
          /\ c.tx = np.tx /\ c.rx = np.rx
      BY <1>1, <2>1 DEF BoardOK, MacsOwned, Board, SameBut
    <2>3. np' = lookup_router(c)
      BY <1>2 DEF user_lookup, a
    <2> HIDE DEF c
    <2> QED
      BY <1>1, <2>2, <2>3, LookupRouterOK, UserStep
  <1>3. CASE ~ArpKnown(np, PINGIP)
    <2>1. np' = Syscall(a, arp_request(PINGIP), "wait")
      BY <1>3 DEF user_lookup, a
    <2> QED
      BY <1>1, <2>1, AskOK, PacketTypes, UserStep
  <1> QED
    BY <1>2, <1>3

LEMMA WaitStep == PingInv /\ user_wait => PingInv'
  <1> SUFFICES ASSUME PingInv, user_wait PROVE PingInv'
    OBVIOUS
  <1>1. /\ BoardOK(np') /\ np'.sup = np.sup /\ np'.int_enable = np.int_enable /\ np'.tx = np.tx
        /\ np'.rx = np.rx /\ np'.trap = NoPkt /\ nw' = nw
    BY DEF PingInv, user_wait, Runs, BoardOK, MacsOwned, Board
  <1> QED
    BY <1>1, UserStep, PacketTypes

(* The four kinds of packet that the user may find, b the board without it.  *)
Without(b) == [b EXCEPT !.rx = NoPkt]

LEMMA WithoutOK ==
    ASSUME PingInv
    PROVE  /\ BoardOK(Without(np)) /\ Without(np).rx = NoPkt /\ Without(np).trap = np.trap
           /\ Without(np).sup = np.sup /\ Without(np).int_enable = np.int_enable
           /\ Without(np).tx = np.tx
  BY PacketTypes DEF PingInv, Without, BoardOK, MacsOwned, Board

LEMMA ReplyStep ==
    ASSUME PingInv, np.rx.kind = "echo", np' = uping_reply(Without(np), np.rx), nw' = nw
    PROVE  PingInv'
  <1> DEFINE b == Without(np)
             p == np.rx
             a == ArpAged(b, p.ip)
  <1>1. p.ip \in Names /\ p.id \in Nat /\ p.id # 0
    BY DEF PingInv, BoardOK, Board, Packets, Incoming
  <1>2. /\ BoardOK(b) /\ b.rx = NoPkt /\ b.sup = np.sup /\ b.int_enable = np.int_enable /\ b.tx = np.tx
    BY WithoutOK
  <1> HIDE DEF b
  <1>3. BoardOK(a) /\ SameBut(b, a)
    BY <1>2, AgedOK
  <1>4. CASE ArpKnown(b, p.ip)
    <2> DEFINE q == NPkt("reply", p.ip, p.ip, p.id)
    <2>1. np' = Syscall(a, q, "lookup")
      BY <1>1, <1>2, <1>4, MacRight DEF uping_reply, b
    <2>2. q \in Packets /\ q.id = p.id /\ q.ip = p.ip /\ q.mac = p.ip
      BY <1>1, PacketTypes DEF NPkt
    <2> HIDE DEF q, p, a
    <2>3. /\ BoardOK(np') /\ np'.trap = q /\ np'.sup = np.sup /\ np'.int_enable = np.int_enable
          /\ np'.tx = np.tx /\ np'.rx = NoPkt
      BY <1>2, <1>3, <2>1, <2>2, SyscallOK DEF SameBut
    <2> QED
      BY <1>1, <2>2, <2>3, UserStep DEF p
  <1>5. CASE ~ArpKnown(b, p.ip)
    <2>1. np' = Syscall(a, arp_request(p.ip), "lookup")
      BY <1>5 DEF uping_reply, b
    <2> HIDE DEF a, p
    <2> QED
      BY <1>1, <1>2, <1>3, <2>1, AskOK, UserStep DEF SameBut
  <1> QED
    BY <1>4, <1>5

LEMMA AnswerArpStep ==
    ASSUME PingInv, nw' = nw,
           np' = Syscall(Without(np), NPkt("arprep", np.rx.mac, np.rx.ip, 0), "lookup")
    PROVE  PingInv'
  <1> DEFINE q == NPkt("arprep", np.rx.mac, np.rx.ip, 0)
  <1>1. q \in Packets /\ q.id = 0 /\ q.kind # "reply"
    BY PacketTypes DEF PingInv, BoardOK, Board, Packets, NPkt
  <1> HIDE DEF q
  <1>2. np' = Syscall(Without(np), q, "lookup")
    BY DEF q
  <1>3. /\ BoardOK(np') /\ np'.trap = q /\ np'.sup = np.sup /\ np'.int_enable = np.int_enable
        /\ np'.tx = np.tx /\ np'.rx = NoPkt
    BY <1>1, <1>2, WithoutOK, SyscallOK
  <1> QED
    BY <1>1, <1>3, UserStep

LEMMA TableAddStep ==
    ASSUME PingInv, nw' = nw, np.trap = NoPkt,
           NEW b, b = [Without(np) EXCEPT !.ping_mac_addr = IF np.rx.ip = PINGIP THEN np.rx.mac ELSE @],
           np' \in arp_table_add(b, np.rx.ip, np.rx.mac)
    PROVE  PingInv'
  <1> DEFINE ip == np.rx.ip
  <1>1. ip \in Names /\ np.rx.mac = ip
    BY DEF PingInv, BoardOK, Board, Packets, Incoming
  <1>2. /\ BoardOK(b) /\ b.rx = NoPkt /\ b.sup = np.sup /\ b.int_enable = np.int_enable /\ b.tx = np.tx
        /\ b.trap = NoPkt
    BY <1>1, WithoutOK DEF BoardOK, MacsOwned, Board
  <1>3. np' \in arp_table_add(b, ip, ip)
    BY <1>1
  <1> HIDE DEF ip
  <1>4. CASE ip = "router"
    <2>1. np' = [b EXCEPT !.router_mac_addr = "router", !.user = "lookup"]
      BY <1>3, <1>4 DEF arp_table_add
    <2>0. "router" \in Names
      BY DEF Names
    <2>2. /\ BoardOK(np') /\ np'.sup = np.sup /\ np'.int_enable = np.int_enable /\ np'.tx = np.tx
          /\ np'.rx = NoPkt /\ np'.trap = NoPkt
      BY <1>2, <2>0, <2>1, ZenonT(60) DEF BoardOK, MacsOwned, Board
    <2> QED
      BY <2>2, UserStep, PacketTypes
  <1> DEFINE a == ArpAged(b, ip)
  <1>5. BoardOK(a) /\ SameBut(b, a)
    BY <1>2, AgedOK
  <1> HIDE DEF a
  <1>6. CASE ip # "router" /\ ArpFind(b, ip) # {}
    <2>1. np' = [ArpUpdate(a, ip, ip) EXCEPT !.user = "lookup"]
      BY <1>3, <1>6 DEF arp_table_add, a
    <2>2. BoardOK(ArpUpdate(a, ip, ip)) /\ SameBut(a, ArpUpdate(a, ip, ip))
      BY <1>1, <1>5, UpdateOK
    <2>3. /\ BoardOK(np') /\ np'.sup = np.sup /\ np'.int_enable = np.int_enable /\ np'.tx = np.tx
          /\ np'.rx = NoPkt /\ np'.trap = NoPkt
      BY <1>2, <1>5, <2>1, <2>2, SMTT(40) DEF BoardOK, MacsOwned, Board, SameBut
    <2> QED
      BY <2>3, UserStep, PacketTypes
  <1>7. CASE ip # "router" /\ ArpFind(b, ip) = {}
    <2>1. \E ev \in ARPEV : \E c \in ArpFill(a, ip, ip, ev) : np' = Syscall(c, arp_request(ip), "lookup")
      BY <1>3, <1>7 DEF arp_table_add, a
    <2>2. PICK c : BoardOK(c) /\ SameBut(a, c) /\ np' = Syscall(c, arp_request(ip), "lookup")
      BY <1>1, <1>5, <2>1, FillOK
    <2>3. SameBut(b, c)
      BY <1>5, <2>2 DEF SameBut
    <2>4. /\ BoardOK(np') /\ np'.sup = b.sup /\ np'.int_enable = b.int_enable /\ np'.tx = b.tx
          /\ np'.rx = b.rx /\ np'.trap.id = 0 /\ np'.trap.kind # "reply"
      <3> DEFINE d == Syscall(c, arp_request(ip), "lookup")
      <3>1. /\ BoardOK(d) /\ d.sup = b.sup /\ d.int_enable = b.int_enable /\ d.tx = b.tx
            /\ d.rx = b.rx /\ d.trap.id = 0 /\ d.trap.kind # "reply"
        <4>1. arp_request(ip) \in Packets /\ arp_request(ip).id = 0 /\ arp_request(ip).kind # "reply"
          BY <1>1, PacketTypes
        <4>2. /\ BoardOK(d) /\ d.trap = arp_request(ip) /\ d.sup = c.sup /\ d.int_enable = c.int_enable
              /\ d.tx = c.tx /\ d.rx = c.rx
          BY <2>2, <4>1, SyscallOK
        <4> QED
          BY <2>3, <4>1, <4>2 DEF SameBut
      <3> QED
        BY <2>2, <3>1, Zenon
    <2> QED
      BY <1>2, <2>4, UserStep
  <1> QED
    BY <1>4, <1>6, <1>7

LEMMA HandleStep == PingInv /\ user_handle => PingInv'
  <1> SUFFICES ASSUME PingInv, user_handle PROVE PingInv'
    OBVIOUS
  <1>1. np.trap = NoPkt /\ nw' = nw
    BY DEF user_handle, Runs
  <1>2. CASE np.rx.kind = "echo"
    BY <1>1, <1>2, ReplyStep DEF user_handle, Without
  <1>3. CASE np.rx.kind = "arpreq"
    BY <1>1, <1>3, AnswerArpStep DEF user_handle, Without
  <1>4. CASE np.rx.kind = "arprep"
    BY <1>1, <1>4, TableAddStep DEF user_handle, Without
  <1>5. CASE np.rx.kind \notin {"echo", "arpreq", "arprep"}
    <2>1. np' = [Without(np) EXCEPT !.user = "lookup"]
      BY <1>5 DEF user_handle, Without
    <2>2. /\ BoardOK(np') /\ np'.sup = np.sup /\ np'.int_enable = np.int_enable /\ np'.tx = np.tx
          /\ np'.rx = NoPkt /\ np'.trap = NoPkt
      BY <1>1, <2>1, WithoutOK DEF BoardOK, MacsOwned, Board
    <2> QED
      BY <1>1, <2>2, UserStep, PacketTypes
  <1> QED
    BY <1>2, <1>3, <1>4, <1>5

-----------------------------------------------------------------------------
(* A step of the supervisor: the call of the user stays where it is, or goes to
   the transmitter, which was free.                                          *)
LEMMA SupervisorStep ==
    ASSUME PingInv, BoardOK(np'), nw' = nw, np'.sup # "halted", TimersOn(np'), np'.rx = np.rx,
           \/ np'.trap = np.trap /\ np'.tx = np.tx
           \/ np'.trap = NoPkt /\ np'.tx = np.trap
           \/ np'.trap = np.trap /\ np'.tx.id = 0 /\ np'.tx.kind # "reply"
    PROVE  PingInv'
  <1>1. CASE np'.trap = np.trap /\ np'.tx = np.tx
    BY <1>1 DEF PingInv, Pending, Apart, Incoming, Outgoing
  <1>2. CASE np'.trap = NoPkt /\ np'.tx = np.trap
    BY <1>2, PacketTypes DEF PingInv, Pending, Apart, Incoming, Outgoing
  <1>3. CASE np'.trap = np.trap /\ np'.tx.id = 0 /\ np'.tx.kind # "reply"
    BY <1>3 DEF PingInv, Pending, Apart, Incoming, Outgoing
  <1> QED
    BY <1>1, <1>2, <1>3

(* The interrupt controller: what EINT and DINT leave alone, and that only RX and
   TX are ever taken off.                                                    *)
SamePorts(b, c) == /\ c.sup = b.sup /\ c.trap = b.trap /\ c.rx = b.rx /\ c.tx = b.tx
                   /\ c.lastpps = b.lastpps
Keeps(b, c) == b.int_enable \cap {"TMA", "PPS"} \subseteq c.int_enable

LEMMA EintOK ==
    ASSUME NEW b, BoardOK(b), NEW s \in SUBSET Ints
    PROVE  /\ BoardOK(EINT(b, s)) /\ SamePorts(b, EINT(b, s)) /\ Keeps(b, EINT(b, s))
           /\ s \subseteq EINT(b, s).int_enable
           /\ BoardOK(DINT(b, s)) /\ SamePorts(b, DINT(b, s))
           /\ s \subseteq {"RX", "TX"} => Keeps(b, DINT(b, s))
  BY DEF EINT, DINT, BoardOK, MacsOwned, Board, SamePorts, Keeps

LEMMA RearmOK ==
    ASSUME NEW b, BoardOK(b), NEW picv
    PROVE  /\ BoardOK(Rearm(b, picv)) /\ SamePorts(b, Rearm(b, picv))
           /\ {"TMA", "PPS"} \subseteq Rearm(b, picv).int_enable
  <1>1. ASSUME NEW c, BoardOK(c), NEW i \in Ints
        PROVE  BoardOK(SeenOrArmed(c, picv, i)) /\ SamePorts(c, SeenOrArmed(c, picv, i))
    <2>1. {i} \in SUBSET Ints
      OBVIOUS
    <2>2. SeenOrArmed(c, picv, i) \in {c, EINT(c, {i}), DINT(c, {i})}
      BY DEF SeenOrArmed
    <2>3. SamePorts(c, c)
      BY DEF SamePorts
    <2>4. /\ BoardOK(EINT(c, {i})) /\ SamePorts(c, EINT(c, {i}))
          /\ BoardOK(DINT(c, {i})) /\ SamePorts(c, DINT(c, {i}))
      BY <1>1, <2>1, EintOK
    <2> QED
      BY <1>1, <2>2, <2>3, <2>4
  <1>2. "RX" \in Ints /\ "TX" \in Ints /\ {"TMA", "PPS"} \in SUBSET Ints
    BY DEF Ints
  <1> DEFINE c == SeenOrArmed(b, picv, "RX")
             d == SeenOrArmed(c, picv, "TX")
  <1>3. BoardOK(c) /\ SamePorts(b, c)
    BY <1>1, <1>2
  <1>4. BoardOK(d) /\ SamePorts(c, d)
    BY <1>1, <1>2, <1>3
  <1>5. Rearm(b, picv) = EINT(d, {"TMA", "PPS"})
    BY DEF Rearm
  <1> HIDE DEF c, d
  <1> QED
    BY <1>2, <1>3, <1>4, <1>5, EintOK DEF SamePorts

LEMMA TailOK ==
    ASSUME NEW b, BoardOK(b), NEW picv
    PROVE  LET c == tail(b, picv) IN
           /\ BoardOK(c) /\ c.sup \in {"top", "loop"} /\ TimersOn(c)
           /\ c.trap = b.trap /\ c.rx = b.rx /\ c.tx = b.tx
  <1> DEFINE r == Rearm(b, picv)
             p == CASE "PPS" \in picv.st -> 1
                    [] "PPS" \notin picv.st /\ Counts(b, picv) -> 2
                    [] "PPS" \notin picv.st /\ "TMA" \in picv.st /\ ~Counts(b, picv) -> 0
                    [] OTHER -> r.lastpps
             s == IF Due(b, picv) THEN "top" ELSE "loop"
  <1>1. BoardOK(r) /\ SamePorts(b, r) /\ {"TMA", "PPS"} \subseteq r.int_enable
    BY RearmOK
  <1>2. tail(b, picv) = [r EXCEPT !.picv = NothingSeen, !.sup = s, !.lastpps = p]
    BY DEF tail
  <1>3. p \in 0 .. 2 /\ s \in {"top", "loop"} /\ NothingSeen \in [st : SUBSET Ints, en : SUBSET Ints]
    BY <1>1 DEF BoardOK, Board, NothingSeen
  <1> HIDE DEF r, p, s
  <1> DEFINE c == [r EXCEPT !.picv = NothingSeen, !.sup = s, !.lastpps = p]
  <1>4. BoardOK(c)
    BY <1>1, <1>3 DEF BoardOK, MacsOwned, Board
  <1>5. /\ c.sup = s /\ c.int_enable = r.int_enable /\ c.trap = r.trap /\ c.rx = r.rx /\ c.tx = r.tx
    BY <1>1 DEF BoardOK, Board
  <1> HIDE DEF c
  <1>6. tail(b, picv) = c
    BY <1>2 DEF c
  <1> QED
    BY <1>1, <1>3, <1>4, <1>5, <1>6 DEF SamePorts, TimersOn

LEMMA SetPicOK ==
    ASSUME NEW b, BoardOK(b)
    PROVE  /\ BoardOK(SetPic(b)) /\ SetPic(b).sup = "loop" /\ TimersOn(SetPic(b))
           /\ SetPic(b).trap = b.trap /\ SetPic(b).rx = b.rx /\ SetPic(b).tx = b.tx
  BY DEF SetPic, EINT, BoardOK, MacsOwned, Board, TimersOn, Ints

LEMMA PingStep == PingInv /\ (send_ping \/ no_ping) => PingInv'
  <1>1. ASSUME PingInv, no_ping PROVE PingInv'
    <2>1. np' = SetPic(np) /\ nw' = nw /\ BoardOK(np)
      BY <1>1 DEF no_ping, PingInv
    <2> QED
      BY <1>1, <2>1, SetPicOK, SupervisorStep
  <1>2. ASSUME PingInv, send_ping PROVE PingInv'
    <2> DEFINE q == NPkt("echo", np.ping_mac_addr, PINGIP, 0)
               b == Transmit(np, q)
    <2>0. BoardOK(np) /\ np.ping_mac_addr \in Names /\ PINGIP \in Names
      BY <1>2, PacketTypes DEF PingInv, BoardOK, Board
    <2>1. q \in Packets /\ q.id = 0 /\ q.kind # "reply"
      BY <2>0 DEF NPkt, Packets
    <2>2. np' = SetPic(b) /\ nw' = nw
      BY <1>2 DEF send_ping
    <2> HIDE DEF q
    <2>3. BoardOK(b) /\ b.trap = np.trap /\ b.rx = np.rx /\ b.tx = q
      BY <2>0, <2>1 DEF Transmit, BoardOK, MacsOwned, Board
    <2> HIDE DEF b
    <2> QED
      BY <1>2, <2>1, <2>2, <2>3, SetPicOK, SupervisorStep
  <1> QED
    BY <1>1, <1>2

(* Coming back from the user: INTNOW, or a call, rules out the first reason to
   halt, and the timers' interrupts the second.                              *)
LEMMA FromUserOK ==
    ASSUME NEW b, BoardOK(b), b.trap # NoPkt \/ INTNOW(b), {"TMA", "PPS"} \subseteq b.int_enable
    PROVE  LET c == FromUser(b) IN
           /\ BoardOK(c) /\ c.sup # "halted" /\ TimersOn(c)
           /\ c.trap = b.trap /\ c.rx = b.rx /\ c.tx = b.tx
  <1> DEFINE picv == [st |-> b.int_state, en |-> b.int_enable]
             c == ClearInts(b, b.int_state)
  <1>1. BoardOK(c) /\ SamePorts(b, c)
    BY DEF ClearInts, Latch, Levels, BoardOK, MacsOwned, Board, SamePorts, Ints
  <1>2. picv \in [st : SUBSET Ints, en : SUBSET Ints] /\ picv.en = b.int_enable
    BY DEF BoardOK, Board
  <1>3. CASE b.trap # NoPkt
    <2>1. FromUser(b) = [c EXCEPT !.sup = "serve", !.picv = picv]
      BY <1>3 DEF FromUser
    <2> HIDE DEF c, picv
    <2> DEFINE d == [c EXCEPT !.sup = "serve", !.picv = picv]
    <2>2. /\ BoardOK(d) /\ d.sup = "serve" /\ d.trap = b.trap /\ d.rx = b.rx /\ d.tx = b.tx
      BY <1>1, <1>2 DEF BoardOK, MacsOwned, Board, SamePorts
    <2> HIDE DEF d
    <2>3. FromUser(b) = d
      BY <2>1 DEF d
    <2> QED
      BY <2>2, <2>3 DEF TimersOn
  <1>4. CASE b.trap = NoPkt
    <2>1. FromUser(b) = tail(c, picv)
      BY <1>2, <1>4 DEF FromUser
    <2> HIDE DEF c, picv
    <2> QED
      BY <1>1, <2>1, TailOK DEF SamePorts
  <1> QED
    BY <1>3, <1>4

LEMMA LoopStep == PingInv /\ (loop \/ from_user) => PingInv'
  <1> SUFFICES ASSUME PingInv, loop \/ from_user PROVE PingInv'
    OBVIOUS
  <1>1. BoardOK(np) /\ {"TMA", "PPS"} \subseteq np.int_enable /\ nw' = nw
    BY DEF PingInv, loop, from_user, TimersOn
  <1>2. CASE np' = FromUser(np) /\ (np.trap # NoPkt \/ INTNOW(np))
    BY <1>1, <1>2, FromUserOK, SupervisorStep
  <1>3. CASE np' = [np EXCEPT !.sup = "user"]
    <2>1. /\ BoardOK(np') /\ np'.sup = "user" /\ np'.int_enable = np.int_enable /\ np'.trap = np.trap
          /\ np'.rx = np.rx /\ np'.tx = np.tx
      BY <1>1, <1>3 DEF BoardOK, MacsOwned, Board
    <2> QED
      BY <1>1, <2>1, SupervisorStep DEF TimersOn
  <1> QED
    BY <1>2, <1>3 DEF loop, from_user

LEMMA ServeStep == PingInv /\ serve => PingInv'
  <1> SUFFICES ASSUME PingInv, serve PROVE PingInv'
    OBVIOUS
  <1> DEFINE b == [Transmit(np, np.trap) EXCEPT !.trap = NoPkt]
             c == EINT(b, {"TX", "RX"})
  <1>1. BoardOK(np) /\ np' = tail(c, np.picv) /\ nw' = nw
    BY DEF PingInv, serve
  <1>2. BoardOK(b) /\ b.trap = NoPkt /\ b.rx = np.rx /\ b.tx = np.trap
    BY <1>1, PacketTypes DEF Transmit, BoardOK, MacsOwned, Board
  <1> HIDE DEF b
  <1>3. {"TX", "RX"} \in SUBSET Ints
    BY DEF Ints
  <1>4. BoardOK(c) /\ SamePorts(b, c)
    BY <1>2, <1>3, EintOK
  <1> HIDE DEF c
  <1> QED
    BY <1>1, <1>2, <1>4, TailOK, SupervisorStep DEF SamePorts

-----------------------------------------------------------------------------
(* The packet interface, the network and the clock.                          *)
LEMMA LatchOK ==
    ASSUME NEW b, BoardOK(b)
    PROVE  /\ BoardOK(Latch(b)) /\ SamePorts(b, Latch(b)) /\ Latch(b).int_enable = b.int_enable
  BY DEF Latch, Levels, BoardOK, MacsOwned, Board, SamePorts, Ints

LEMMA TxDoneStep == PingInv /\ TxDone => PingInv'
  <1> SUFFICES ASSUME PingInv, TxDone PROVE PingInv'
    OBVIOUS
  <1> DEFINE b == [np EXCEPT !.tx = NoPkt]
             q == Answer(np.tx)
  <1>1. /\ BoardOK(b) /\ b.sup = np.sup /\ b.trap = np.trap /\ b.rx = np.rx /\ b.tx = NoPkt
        /\ b.int_enable = np.int_enable
    BY PacketTypes DEF PingInv, BoardOK, MacsOwned, Board
  <1>2. np' = Latch(b)
    BY DEF TxDone
  <1> HIDE DEF b
  <1>3. /\ BoardOK(np') /\ np'.sup = np.sup /\ np'.trap = np.trap /\ np'.rx = np.rx /\ np'.tx = NoPkt
        /\ np'.int_enable = np.int_enable
    BY <1>1, <1>2, LatchOK DEF SamePorts
  <1>4. q \in Packets /\ q.id = 0 /\ q.mac = q.ip /\ q.kind # "echo"
    BY PacketTypes DEF PingInv, BoardOK, Board, Packets, Answer, NPkt
  <1> HIDE DEF q
  <1>5. nw \in Network /\ np.tx \in Packets
    BY DEF PingInv, BoardOK, Board
  <1>6. /\ nw'.wire \in {q, nw.wire} /\ nw'.asked = nw.asked
        /\ nw'.open = nw.open \ {<<np.tx.ip, np.tx.id>>} /\ nw' \in Network
    BY <1>4, <1>5 DEF TxDone, Network, q
  <1>7. ASSUME NEW p \in Packets, Pending(p), Apart(p, np.tx)
        PROVE  /\ p.id # 0 => p.id <= nw'.asked /\ p.mac = p.ip /\ <<p.ip, p.id>> \in nw'.open
    BY <1>5, <1>6, <1>7 DEF Pending, Apart
  <1>8. /\ nw.wire \in Packets /\ np.rx \in Packets /\ np.trap \in Packets
    BY DEF PingInv, BoardOK, Board, Network
  <1> QED
    BY <1>3, <1>4, <1>6, <1>7, <1>8, PacketTypes
    DEF PingInv, TimersOn, Pending, Apart, Incoming, Outgoing

LEMMA RxArrivesStep == PingInv /\ RxArrives => PingInv'
  <1> SUFFICES ASSUME PingInv, RxArrives PROVE PingInv'
    OBVIOUS
  <1> DEFINE b == [np EXCEPT !.rx = nw.wire]
  <1>1. nw \in Network /\ BoardOK(np) /\ nw.wire \in Packets
    BY DEF PingInv, Network
  <1>2. nw' \in Network /\ nw'.wire = NoPkt /\ nw'.asked = nw.asked /\ nw'.open = nw.open
    BY <1>1, PacketTypes DEF RxArrives, Network
  <1>3. /\ BoardOK(b) /\ b.sup = np.sup /\ b.trap = np.trap /\ b.rx = nw.wire /\ b.tx = np.tx
        /\ b.int_enable = np.int_enable
    BY <1>1 DEF BoardOK, MacsOwned, Board
  <1>4. np' \in {np, Latch(b)}
    BY DEF RxArrives
  <1> HIDE DEF b
  <1>5. /\ BoardOK(np') /\ np'.sup = np.sup /\ np'.trap = np.trap /\ np'.rx \in {np.rx, nw.wire}
        /\ np'.tx = np.tx /\ np'.int_enable = np.int_enable
    BY <1>1, <1>3, <1>4, LatchOK DEF SamePorts
  <1> QED
    BY <1>2, <1>5, PacketTypes DEF PingInv, TimersOn, Pending, Apart, Incoming, Outgoing

LEMMA PeerAsksStep == PingInv /\ PeerAsks => PingInv'
  <1> SUFFICES ASSUME PingInv, PeerAsks PROVE PingInv'
    OBVIOUS
  <1> DEFINE k == nw.asked + 1
  <1>0. nw \in Network /\ np' = np
    BY DEF PingInv, PeerAsks
  <1>1. nw \in Network /\ np' = np /\ k \in Nat /\ k # 0
    BY <1>0 DEF Network
  <1>2. \A p \in {np.rx, np.trap, np.tx} : p.id # k /\ p \in Packets
    BY <1>1 DEF PingInv, Pending, Network, BoardOK, Board, Packets
  <1>3. nw' \in Network /\ nw'.asked = k /\ nw.open \subseteq nw'.open /\ Incoming(nw'.wire)
        /\ \/ nw'.wire.id = 0
           \/ nw'.wire.id = k /\ nw'.wire.mac = nw'.wire.ip /\ <<nw'.wire.ip, k>> \in nw'.open
    <2>1. ASSUME NEW p \in Peers, nw' = [nw EXCEPT !.asked = @ + 1, !.open = @ \cup {<<p, k>>},
                                                   !.wire = NPkt("echo", p, p, k)]
          PROVE  <1>3
      <3>1. p \in Names
        BY DEF Peers, Names
      <3> HIDE DEF k
      <3> DEFINE q == NPkt("echo", p, p, k)
      <3>2. q \in Packets /\ q.mac = p /\ q.ip = p /\ q.id = k
        BY <1>1, <3>1 DEF NPkt, Packets
      <3> HIDE DEF q
      <3>3. nw' = [nw EXCEPT !.asked = k, !.open = nw.open \cup {<<p, k>>}, !.wire = q]
        BY <2>1 DEF q, k
      <3> DEFINE o == nw.open \cup {<<p, k>>}
      <3>4. o \in SUBSET (Names \X Nat)
        BY <1>1, <3>1 DEF Network
      <3> HIDE DEF o
      <3>5. nw' = [nw EXCEPT !.asked = k, !.open = o, !.wire = q]
        BY <3>3 DEF o
      <3>6. nw' \in Network /\ nw'.asked = k /\ nw'.open = o /\ nw'.wire = q
        BY <1>1, <3>2, <3>4, <3>5 DEF Network
      <3>7. nw' \in Network /\ nw'.asked = k /\ nw'.open = nw.open \cup {<<p, k>>} /\ nw'.wire = q
        BY <3>6 DEF o
      <3> QED
        BY <1>1, <3>2, <3>7 DEF Incoming
    <2>2. ASSUME nw' = [nw EXCEPT !.asked = @ + 1, !.wire = NPkt("arpreq", "router", "router", 0)]
          PROVE  <1>3
      <3>1. NPkt("arpreq", "router", "router", 0) \in Packets
        BY PacketTypes DEF Names
      <3> QED
        BY <1>1, <2>2, <3>1 DEF Network, NPkt, Incoming
    <2> QED
      BY <2>1, <2>2 DEF PeerAsks
  <1> HIDE DEF k
  <1> QED
    BY <1>1, <1>2, <1>3
    DEF PingInv, TimersOn, Pending, Apart, Incoming, Outgoing, Packets, Network, k

LEMMA SecondStep ==
    ASSUME PingInv, NEW i \in Ints, SecondPasses(i)
    PROVE  PingInv'
  <1>1. BoardOK(np) /\ nw' = nw /\ np' = [np EXCEPT !.int_state = np.int_state \cup {i}]
    BY DEF PingInv, SecondPasses
  <1>2. /\ BoardOK(np') /\ np'.sup = np.sup /\ np'.trap = np.trap /\ np'.rx = np.rx /\ np'.tx = np.tx
        /\ np'.int_enable = np.int_enable
    BY <1>1 DEF BoardOK, MacsOwned, Board
  <1> QED
    BY <1>1, <1>2, SupervisorStep DEF PingInv, TimersOn

LEMMA PingInitInv == PingInit => PingInv
  <1> SUFFICES ASSUME PingInit PROVE PingInv
    OBVIOUS
  <1> DEFINE none == [e \in 1 .. NARP |-> NoEntry]
  <1>1. TableOK(none)
    BY DEF TableOK, NoEntry, Entries, Names
  <1>2. PICK g \in {0, 1} :
          np = [sup |-> "top", user |-> "lookup", trap |-> NoPkt,
                rx |-> NoPkt, tx |-> NoPkt, int_state |-> {"TX"}, int_enable |-> {}, mie |-> FALSE,
                picv |-> NothingSeen, lastpps |-> g, arp_table |-> none,
                router_mac_addr |-> "0", ping_mac_addr |-> "0"]
    BY DEF PingInit
  <1> HIDE DEF none
  <1>3. "0" \in Names /\ "TX" \in Ints /\ NothingSeen \in [st : SUBSET Ints, en : SUBSET Ints]
    BY DEF Names, Ints, NothingSeen
  <1>4. /\ np.sup = "top" /\ np.trap = NoPkt /\ np.rx = NoPkt /\ np.tx = NoPkt /\ np \in Board
        /\ np.arp_table = none /\ np.router_mac_addr = "0"
    BY <1>1, <1>2, <1>3, PacketTypes DEF Board, TableOK
  <1>5. nw \in Network /\ nw.wire = NoPkt
    BY PacketTypes DEF PingInit, Network
  <1> QED
    BY <1>1, <1>4, <1>5, PacketTypes
    DEF PingInv, BoardOK, MacsOwned, TableOK, TimersOn, Pending, Apart, Incoming,
        Outgoing

LEMMA PingNextInv == PingInv /\ [PingNext]_np_vars => PingInv'
  <1> SUFFICES ASSUME PingInv, [PingNext]_np_vars PROVE PingInv'
    OBVIOUS
  <1>1. CASE UserTask
    BY <1>1, LookupStep, WaitStep, HandleStep DEF UserTask
  <1>2. CASE Supervisor
    BY <1>2, PingStep, LoopStep, ServeStep DEF Supervisor
  <1>3. CASE TxDone \/ RxArrives \/ PeerAsks
    BY <1>3, TxDoneStep, RxArrivesStep, PeerAsksStep
  <1>4. CASE SecondPasses("PPS") \/ SecondPasses("TMA")
    BY <1>4, SecondStep DEF Ints
  <1>5. CASE UNCHANGED np_vars
    BY <1>5
    DEF np_vars, PingInv, BoardOK, MacsOwned, TimersOn, Pending, Apart, Incoming,
        Outgoing
  <1> QED
    BY <1>1, <1>2, <1>3, <1>4, <1>5 DEF PingNext

(* simple_ping.c answers every echo request at most once, and to the MAC address
   of the one who asked, and its supervisor never takes a way out to zip_halt():
   for every NUM_ARP_ENTRIES, wherever arp_table_add()'s pointer ev points, and
   however many requests come.                                               *)
THEOREM PingAnswersRight == PingSpec => []PingRight
  <1>1. PingInv => PingRight
    BY DEF PingInv, PingRight, RepliesRight, SupervisorNeverHalts, Pending, Outgoing
  <1> QED
    BY <1>1, PingInitInv, PingNextInv, PTL DEF PingSpec

-----------------------------------------------------------------------------
(* The boot loader.                                                          *)
(* What there is of the program where it runs.                               *)
Loaded(b, S) == \A a \in BMem : a \in S => b.mem[a] = Image(b.l, a)
KernelLoaded(b) == \A a \in BMem : InKernel(b.l, a) => b.mem[a] = Image(b.l, a)
ImageLoaded(b) == KernelLoaded(b) /\ Loaded(b, b.l.ram .. b.l.iend - 1)
Cleared(b, to) == \A a \in BMem : a \in b.l.iend .. to - 1 => b.mem[a] = 0

BootTypes(b) ==
    b \in [at : {"start", "kram", "ram", "wram", "tobss", "bss", "main", "ran"}, l : BLayouts, use_dma : BOOLEAN,
           mem : [BMem -> Int], resets : Nat, pic : BOOLEAN,
           dma : [busy : BOOLEAN, const : BOOLEAN, rd : Nat, wr : Nat, len : Nat]]

(* The flash keeps the program, and without it the RAM does.                 *)
ProgramKept(b) == IF b.l.rom # 0 THEN \A a \in BMem : ~InRam(b.l, a) => b.mem[a] = a
                                 ELSE ImageLoaded(b)

(* The DMA copies from where a part stands in the flash to where it runs, or clears
   what is to be cleared: also when a reset has come and nobody waits for it.  *)
Copies(b, src, from, to) ==
    /\ b.l.rom # 0 /\ from <= b.dma.wr /\ b.dma.wr + b.dma.len <= to
    /\ b.dma.rd + from = b.dma.wr + src
CopiesKernel(b) == HasKernel(b.l) /\ Copies(b, b.l.kstart, b.l.kram, b.l.kend)
CopiesImage(b) == Copies(b, b.l.istart, b.l.ram, b.l.iend)
Clears(b) == b.l.iend <= b.dma.wr /\ b.dma.wr + b.dma.len <= b.l.bend
DmaKnown(b) ==
    b.dma.busy => b.use_dma /\ IF b.dma.const THEN Clears(b) ELSE CopiesKernel(b) \/ CopiesImage(b)

(* The interrupt that a wait is for has not come before the last word.       *)
DoneAt(b, to) == b.dma.wr + b.dma.len = to /\ (b.pic => ~b.dma.busy /\ b.dma.len = 0)
KramOK(b) == ~b.dma.const /\ CopiesKernel(b) /\ DoneAt(b, b.l.kend) /\ Loaded(b, b.l.kram .. b.dma.wr - 1)
RamOK(b) == /\ ~b.dma.busy /\ b.l.rom # 0 /\ KernelLoaded(b) /\ b.dma.rd = b.l.istart
            /\ b.l.kram = 0 => b.dma.wr = b.l.ram /\ b.dma.len = b.l.iend - b.l.ram
WramOK(b) == /\ ~b.dma.const /\ CopiesImage(b) /\ DoneAt(b, b.l.iend)
             /\ KernelLoaded(b) /\ Loaded(b, b.l.ram .. b.dma.wr - 1)
TobssOK(b) == ~b.dma.busy /\ ImageLoaded(b) /\ b.dma.wr = b.l.iend
BssOK(b) == b.dma.const /\ Clears(b) /\ DoneAt(b, b.l.bend) /\ ImageLoaded(b) /\ Cleared(b, b.dma.wr)
MainOK(b) == ~b.dma.busy /\ ImageLoaded(b) /\ Cleared(b, b.l.bend)
PhaseOK(b) ==
    /\ b.at \in {"kram", "ram", "wram", "tobss", "bss"} => b.use_dma
    /\ b.at = "kram"  => KramOK(b)
    /\ b.at = "ram"   => RamOK(b)
    /\ b.at = "wram"  => WramOK(b)
    /\ b.at = "tobss" => TobssOK(b)
    /\ b.at = "bss"   => BssOK(b)
    /\ b.at = "main"  => MainOK(b)
    /\ b.at = "ran"   => ~b.dma.busy

BootOK(b) == BootTypes(b) /\ ProgramKept(b) /\ DmaKnown(b) /\ PhaseOK(b)
BootInv == (zb.at = "off" /\ BootInit) \/ BootOK(zb)

-----------------------------------------------------------------------------
LEMMA LayoutTypes ==
    ASSUME NEW l \in BLayouts
    PROVE  /\ l.rom \in Nat /\ l.kram \in Nat /\ l.kstart \in Nat /\ l.kend \in Nat
           /\ l.ram \in Nat /\ l.istart \in Nat /\ l.iend \in Nat /\ l.bend \in Nat
           /\ l.ram <= l.iend /\ l.iend <= l.bend
           /\ HasKernel(l) => l.kram <= l.kend
           /\ LayoutOK(l)
  BY BootAssumption DEF LayoutOK, BLayout

(* A word that the DMA copies is one of the program, in the flash, and goes where
   it runs; the kernel part and the rest are not in each other's way.        *)
LEMMA KernelWord ==
    ASSUME NEW l \in BLayouts, HasKernel(l), NEW w \in Nat, l.kram <= w, w < l.kend
    PROVE  /\ InKernel(l, w) /\ InRam(l, w) /\ ~(w \in l.ram .. l.bend - 1)
           /\ l.rom # 0 => \A r \in Nat : r + l.kram = w + l.kstart =>
                                r \in BMem /\ ~InRam(l, r) /\ Image(l, w) = r
  BY LayoutTypes DEF LayoutOK, InKernel, InRam, Image

LEMMA ImageWord ==
    ASSUME NEW l \in BLayouts, NEW w \in Nat, l.ram <= w, w < l.bend
    PROVE  /\ ~InKernel(l, w) /\ InRam(l, w)
           /\ l.rom # 0 /\ w < l.iend => \A r \in Nat : r + l.ram = w + l.istart =>
                                r \in BMem /\ ~InRam(l, r) /\ Image(l, w) = r
  BY LayoutTypes DEF LayoutOK, InKernel, InRam, Image

-----------------------------------------------------------------------------
(* One word of the DMA.  It is written to a place of the program that is not yet
   counted as loaded or cleared, with what belongs there.                    *)
WordWritten(b, c) ==
    LET w == b.dma.wr IN
    /\ c.at = b.at /\ c.l = b.l /\ c.use_dma = b.use_dma /\ c.resets = b.resets
    /\ c.dma.const = b.dma.const /\ c.dma.wr = w + 1 /\ c.dma.len = b.dma.len - 1
    /\ c.dma.rd = IF b.dma.const THEN b.dma.rd ELSE b.dma.rd + 1
    /\ c.dma.busy = (b.dma.len > 1) /\ c.pic = (b.pic \/ b.dma.len = 1)
    /\ c.mem = [b.mem EXCEPT ![w] = IF b.dma.const THEN 0 ELSE b.mem[b.dma.rd]]

LEMMA WordFields ==
    ASSUME BootTypes(zb), DmaWord
    PROVE  WordWritten(zb, zb') /\ DOMAIN zb' = DOMAIN zb
  BY ZenonT(60) DEF BootTypes, DmaWord, WordWritten

LEMMA WordValue ==
    ASSUME NEW b, BootOK(b), b.dma.busy, b.dma.len > 0
    PROVE  LET w == b.dma.wr
               v == IF b.dma.const THEN 0 ELSE b.mem[b.dma.rd]
           IN  /\ InRam(b.l, w) /\ v \in Int
               /\ IF b.dma.const THEN w \in b.l.iend .. b.l.bend - 1 /\ v = 0 ELSE b.l.rom # 0 /\ v = Image(b.l, w)
               /\ ~b.dma.const => InKernel(b.l, w) \/ w \in b.l.ram .. b.l.iend - 1
               /\ InKernel(b.l, w) => ~(w \in b.l.ram .. b.l.bend - 1)
  <1> DEFINE l == b.l
             w == b.dma.wr
             r == b.dma.rd
  <1>1. l \in BLayouts /\ w \in Nat /\ r \in Nat /\ b.dma.len \in Nat /\ b.mem \in [BMem -> Int]
    BY DEF BootOK, BootTypes
  <1>2. /\ l.ram \in Nat /\ l.iend \in Nat /\ l.bend \in Nat /\ l.kram \in Nat /\ l.kend \in Nat
        /\ l.ram <= l.iend /\ l.iend <= l.bend
    BY <1>1, LayoutTypes
  <1>3. CASE b.dma.const
    <2>1. l.iend <= w /\ w < l.bend
      BY <1>1, <1>2, <1>3 DEF BootOK, DmaKnown, Clears
    <2> QED
      BY <1>1, <1>2, <1>3, <2>1, ImageWord
  <1>4. CASE ~b.dma.const /\ CopiesKernel(b)
    <2>1. HasKernel(l) /\ l.rom # 0 /\ l.kram <= w /\ w < l.kend /\ r + l.kram = w + l.kstart
      BY <1>1, <1>2, <1>4 DEF CopiesKernel, Copies
    <2>2. r \in BMem /\ ~InRam(l, r) /\ Image(l, w) = r /\ InKernel(l, w) /\ InRam(l, w)
          /\ ~(w \in l.ram .. l.bend - 1)
      BY <1>1, <2>1, KernelWord
    <2>3. b.mem[r] = r
      BY <2>1, <2>2 DEF BootOK, ProgramKept
    <2> QED
      BY <1>1, <1>2, <1>4, <2>1, <2>2, <2>3
  <1>5. CASE ~b.dma.const /\ CopiesImage(b)
    <2>1. l.rom # 0 /\ l.ram <= w /\ w < l.iend /\ r + l.ram = w + l.istart
      BY <1>1, <1>2, <1>5 DEF CopiesImage, Copies
    <2>2. r \in BMem /\ ~InRam(l, r) /\ Image(l, w) = r /\ ~InKernel(l, w) /\ InRam(l, w)
      BY <1>1, <1>2, <2>1, ImageWord
    <2>3. b.mem[r] = r
      BY <2>1, <2>2 DEF BootOK, ProgramKept
    <2> QED
      BY <1>1, <1>2, <1>5, <2>1, <2>2, <2>3
  <1> QED
    BY <1>3, <1>4, <1>5 DEF BootOK, DmaKnown

LEMMA WordStep ==
    ASSUME NEW b, NEW c, BootOK(b), b.dma.busy, b.dma.len > 0, BootTypes(c), WordWritten(b, c)
    PROVE  BootOK(c)
  <1> DEFINE l == b.l
             w == b.dma.wr
             v == IF b.dma.const THEN 0 ELSE b.mem[b.dma.rd]
  <1>1. /\ l \in BLayouts /\ w \in Nat /\ b.dma.rd \in Nat /\ b.dma.len \in Nat /\ b.mem \in [BMem -> Int]
        /\ b.dma.const \in BOOLEAN /\ b.pic \in BOOLEAN /\ b.dma.busy \in BOOLEAN
    BY DEF BootOK, BootTypes
  <1>2. /\ l.ram \in Nat /\ l.iend \in Nat /\ l.bend \in Nat /\ l.kram \in Nat /\ l.kend \in Nat
        /\ l.kstart \in Nat /\ l.istart \in Nat /\ l.ram <= l.iend /\ l.iend <= l.bend
    BY <1>1, LayoutTypes
  <1>3. /\ InRam(l, w)
        /\ IF b.dma.const THEN w \in l.iend .. l.bend - 1 /\ v = 0 ELSE l.rom # 0 /\ v = Image(l, w)
        /\ ~b.dma.const => InKernel(l, w) \/ w \in l.ram .. l.iend - 1
        /\ InKernel(l, w) => ~(w \in l.ram .. l.bend - 1)
    BY WordValue
  <1>4. /\ c.at = b.at /\ c.l = l /\ c.use_dma = b.use_dma
        /\ c.dma.const = b.dma.const /\ c.dma.wr = w + 1 /\ c.dma.len = b.dma.len - 1
        /\ c.dma.rd = IF b.dma.const THEN b.dma.rd ELSE b.dma.rd + 1
        /\ c.dma.busy = (b.dma.len > 1) /\ c.pic = (b.pic \/ b.dma.len = 1)
        /\ c.mem = [b.mem EXCEPT ![w] = v]
    BY DEF WordWritten
  <1> HIDE DEF v
  <1>5. \A a \in BMem : c.mem[a] = IF a = w THEN v ELSE b.mem[a]
    BY <1>1, <1>4
  <1>6. /\ KernelLoaded(b) => KernelLoaded(c)
        /\ ImageLoaded(b) => ImageLoaded(c)
        /\ \A from \in Nat : ~b.dma.const /\ Loaded(b, from .. w - 1) => Loaded(c, from .. w)
        /\ b.dma.const /\ Cleared(b, w) => Cleared(c, w + 1)
    BY <1>1, <1>2, <1>3, <1>4, <1>5 DEF KernelLoaded, ImageLoaded, Loaded, Cleared
  <1>7. ProgramKept(c)
    BY <1>1, <1>3, <1>4, <1>5, <1>6 DEF BootOK, ProgramKept
  <1>8. /\ ~b.dma.const /\ CopiesKernel(b) => CopiesKernel(c)
        /\ ~b.dma.const /\ CopiesImage(b) => CopiesImage(c)
        /\ Clears(b) => Clears(c)
        /\ \A to \in Nat : DoneAt(b, to) => DoneAt(c, to)
    BY <1>1, <1>2, <1>4 DEF CopiesKernel, CopiesImage, Copies, Clears, DoneAt
  <1>9. DmaKnown(c)
    BY <1>1, <1>4, <1>8 DEF BootOK, DmaKnown
  <1>10. PhaseOK(c)
    <2>1. ~(b.at \in {"ram", "tobss", "main", "ran"})
      BY DEF BootOK, PhaseOK, RamOK, TobssOK, MainOK
    <2>0. c.dma.wr - 1 = w /\ l.kend \in Nat
      BY <1>1, <1>2, <1>4
    <2>2. KramOK(b) => KramOK(c)
      BY <1>2, <1>4, <1>6, <1>8, <2>0 DEF KramOK
    <2>3. WramOK(b) => WramOK(c)
      BY <1>2, <1>4, <1>6, <1>8, <2>0 DEF WramOK
    <2>4. BssOK(b) => BssOK(c)
      BY <1>1, <1>2, <1>4, <1>6, <1>8 DEF BssOK
    <2> QED
      BY <1>4, <2>1, <2>2, <2>3, <2>4 DEF BootOK, PhaseOK
  <1> QED
    BY <1>7, <1>9, <1>10 DEF BootOK

LEMMA DmaWordStep == BootOK(zb) /\ DmaWord => BootOK(zb')
  <1> SUFFICES ASSUME BootOK(zb), DmaWord PROVE BootOK(zb')
    OBVIOUS
  <1>1. zb.dma.busy /\ zb.dma.len > 0 /\ WordWritten(zb, zb')
    BY WordFields DEF BootOK, DmaWord
  <1>2. BootTypes(zb')
    <2> DEFINE w == zb.dma.wr
               v == IF zb.dma.const THEN 0 ELSE zb.mem[zb.dma.rd]
               q == zb.dma.len > 1
               r == IF zb.dma.const THEN zb.dma.rd ELSE zb.dma.rd + 1
               d == [zb.dma EXCEPT !.rd = r,
                                   !.wr = w + 1, !.len = zb.dma.len - 1, !.busy = q]
               p == (zb.pic \/ zb.dma.len = 1)
    <2>1. v \in Int
      BY <1>1, WordValue
    <2>2. zb' = [zb EXCEPT !.mem = [zb.mem EXCEPT ![w] = v], !.dma = d, !.pic = p]
      BY ZenonT(60) DEF DmaWord, BootOK, BootTypes
    <2>3. d \in [busy : BOOLEAN, const : BOOLEAN, rd : Nat, wr : Nat, len : Nat]
      <3>1. /\ zb.dma \in [busy : BOOLEAN, const : BOOLEAN, rd : Nat, wr : Nat, len : Nat]
            /\ q \in BOOLEAN /\ zb.dma.len - 1 \in Nat /\ r \in Nat /\ w + 1 \in Nat
        BY <1>1 DEF BootOK, BootTypes
      <3> HIDE DEF q, r, w
      <3> QED
        BY <3>1
    <2>4. [zb.mem EXCEPT ![w] = v] \in [BMem -> Int]
      BY <2>1 DEF BootOK, BootTypes
    <2>5. p \in BOOLEAN
      BY DEF BootOK, BootTypes
    <2> HIDE DEF w, v, d, p
    <2> QED
      BY <2>2, <2>3, <2>4, <2>5 DEF BootOK, BootTypes
  <1> QED
    BY <1>1, <1>2, WordStep

-----------------------------------------------------------------------------
(* What the helpers of the boot loader change.                               *)
SameProgram(b, c) == c.l = b.l /\ c.use_dma = b.use_dma /\ c.mem = b.mem
SameCopy(b, c) == c.dma.rd = b.dma.rd /\ c.dma.wr = b.dma.wr /\ c.dma.len = b.dma.len

LEMMA Clearing ==
    ASSUME NEW b, BootTypes(b)
    PROVE  LET c == DmaClear(b) IN
           /\ BootTypes(c) /\ SameProgram(b, c) /\ SameCopy(b, c) /\ ~c.dma.busy /\ c.at = b.at
  BY DEF DmaClear, BootTypes, SameProgram, SameCopy

LEMMA Copying ==
    ASSUME NEW b, BootTypes(b), ~b.dma.busy, NEW const \in BOOLEAN
    PROVE  LET c == Copy(b, const) IN
           /\ BootTypes(c) /\ SameProgram(b, c) /\ SameCopy(b, c)
           /\ c.dma.busy /\ c.dma.const = const /\ c.pic = FALSE
  BY DEF Copy, BootTypes, SameProgram, SameCopy

LEMMA Going ==
    ASSUME NEW b, BootTypes(b),
           NEW at \in {"start", "kram", "ram", "wram", "tobss", "bss", "main", "ran"}
    PROVE  LET c == [b EXCEPT !.at = at] IN
           BootTypes(c) /\ SameProgram(b, c) /\ c.dma = b.dma /\ c.pic = b.pic /\ c.at = at
  BY DEF BootTypes, SameProgram

(* The program stays as it was, whatever the DMA is told.                    *)
LEMMA ProgramStays ==
    ASSUME NEW b, NEW c, SameProgram(b, c)
    PROVE  /\ ProgramKept(b) => ProgramKept(c)
           /\ KernelLoaded(b) <=> KernelLoaded(c)
           /\ ImageLoaded(b) <=> ImageLoaded(c)
           /\ \A S : Loaded(b, S) <=> Loaded(c, S)
           /\ \A to : Cleared(b, to) <=> Cleared(c, to)
  BY DEF SameProgram, ProgramKept, KernelLoaded, ImageLoaded, Loaded, Cleared

-----------------------------------------------------------------------------
(* The four ways on, from a board b where no copy is under way.              *)
Ready(b) == BootTypes(b) /\ ~b.dma.busy /\ b.use_dma /\ ProgramKept(b)

LEMMA ReadyLayout ==
    ASSUME NEW b, BootTypes(b)
    PROVE  /\ b.l \in BLayouts /\ b.l.kstart \in Nat /\ b.l.kram \in Nat /\ b.l.ram \in Nat /\ b.l.istart \in Nat
           /\ b.l.kend \in Nat /\ b.l.iend \in Nat /\ b.l.bend \in Nat
           /\ b.l.iend - b.l.ram \in Nat /\ b.l.bend - b.l.iend \in Nat
           /\ HasKernel(b.l) => b.l.kend - b.l.kram \in Nat
           /\ b.dma.rd \in Nat /\ b.dma.wr \in Nat /\ b.dma.len \in Nat /\ b.dma.busy \in BOOLEAN /\ b.pic \in BOOLEAN
  BY LayoutTypes DEF BootTypes

LEMMA ToKram ==
    ASSUME NEW b, Ready(b), b.l.rom # 0, HasKernel(b.l)
    PROVE  BootOK([Copy(Configured(b, b.l.kstart, b.l.kram, b.l.kend - b.l.kram), FALSE) EXCEPT !.at = "kram"])
  <1>n. PICK n \in Int : n = b.l.kend - b.l.kram
    BY ReadyLayout DEF Ready
  <1> DEFINE c == Configured(b, b.l.kstart, b.l.kram, n)
             d == Copy(c, FALSE)
             e == [d EXCEPT !.at = "kram"]
  <1>0. BootTypes(b) /\ ~b.dma.busy /\ b.use_dma /\ ProgramKept(b)
    BY DEF Ready
  <1>a. b.l.kstart \in Nat /\ b.l.kram \in Nat /\ n \in Nat
    BY <1>0, <1>n, ReadyLayout
  <1>1. /\ BootTypes(c) /\ SameProgram(b, c) /\ ~c.dma.busy
        /\ c.dma.rd = b.l.kstart /\ c.dma.wr = b.l.kram /\ c.dma.len = n
    BY <1>0, <1>a DEF Configured, BootTypes, SameProgram
  <1> HIDE DEF c
  <1>2. BootTypes(d) /\ SameProgram(c, d) /\ SameCopy(c, d) /\ d.dma.const = FALSE /\ d.pic = FALSE
    BY <1>1, Copying
  <1> HIDE DEF d
  <1>3. BootTypes(e) /\ SameProgram(d, e) /\ e.dma = d.dma /\ e.pic = d.pic /\ e.at = "kram"
    BY <1>2, Going
  <1> HIDE DEF e
  <1>4. SameProgram(b, e)
    BY <1>1, <1>2, <1>3 DEF SameProgram
  <1>5. /\ e.dma.rd = b.l.kstart /\ e.dma.wr = b.l.kram /\ e.dma.len = n
        /\ e.dma.const = FALSE /\ e.pic = FALSE /\ e.l = b.l /\ e.use_dma
    BY <1>0, <1>1, <1>2, <1>3, <1>4 DEF SameCopy, SameProgram
  <1>6. CopiesKernel(e) /\ DoneAt(e, e.l.kend) /\ Loaded(e, e.l.kram .. e.dma.wr - 1)
    BY <1>0, <1>n, <1>5, ReadyLayout DEF CopiesKernel, Copies, DoneAt, Loaded
  <1>7. ProgramKept(e)
    BY <1>0, <1>4, ProgramStays
  <1>8. DmaKnown(e)
    BY <1>5, <1>6 DEF DmaKnown
  <1>9. KramOK(e)
    BY <1>5, <1>6 DEF KramOK
  <1>10. PhaseOK(e)
    BY <1>3, <1>5, <1>9 DEF PhaseOK
  <1> QED
    BY <1>n, <1>3, <1>7, <1>8, <1>10 DEF BootOK, e, d, c

LEMMA ToWram ==
    ASSUME NEW b, Ready(b), b.l.rom # 0, KernelLoaded(b), b.dma.rd = b.l.istart,
           b.dma.wr = b.l.ram, b.dma.len = b.l.iend - b.l.ram
    PROVE  BootOK([Copy(b, FALSE) EXCEPT !.at = "wram"])
  <1> DEFINE d == Copy(b, FALSE)
             e == [d EXCEPT !.at = "wram"]
  <1>0. BootTypes(b) /\ ~b.dma.busy /\ b.use_dma /\ ProgramKept(b)
    BY DEF Ready
  <1>2. BootTypes(d) /\ SameProgram(b, d) /\ SameCopy(b, d) /\ d.dma.const = FALSE /\ d.pic = FALSE
    BY <1>0, Copying
  <1> HIDE DEF d
  <1>3. BootTypes(e) /\ SameProgram(d, e) /\ e.dma = d.dma /\ e.pic = d.pic /\ e.at = "wram"
    BY <1>2, Going
  <1> HIDE DEF e
  <1>4. SameProgram(b, e)
    BY <1>2, <1>3 DEF SameProgram
  <1>5. /\ e.dma.rd = b.l.istart /\ e.dma.wr = b.l.ram /\ e.dma.len = b.l.iend - b.l.ram
        /\ e.dma.const = FALSE /\ e.pic = FALSE /\ e.l = b.l /\ e.use_dma
    BY <1>0, <1>2, <1>3, <1>4 DEF SameCopy, SameProgram
  <1>6. CopiesImage(e) /\ DoneAt(e, e.l.iend) /\ Loaded(e, e.l.ram .. e.dma.wr - 1)
    BY <1>0, <1>5, ReadyLayout DEF CopiesImage, Copies, DoneAt, Loaded
  <1>7. ProgramKept(e) /\ KernelLoaded(e)
    BY <1>0, <1>4, ProgramStays
  <1>8. DmaKnown(e)
    BY <1>5, <1>6 DEF DmaKnown
  <1>9. WramOK(e)
    BY <1>5, <1>6, <1>7 DEF WramOK
  <1>10. PhaseOK(e)
    BY <1>3, <1>5, <1>9 DEF PhaseOK
  <1> QED
    BY <1>3, <1>7, <1>8, <1>10 DEF BootOK, e, d

LEMMA ToBss ==
    ASSUME NEW b, Ready(b), ImageLoaded(b)
    PROVE  BootOK([Copy(Configured(b, 0, b.l.iend, b.l.bend - b.l.iend), TRUE) EXCEPT !.at = "bss"])
  <1>n. PICK n \in Int : n = b.l.bend - b.l.iend
    BY ReadyLayout DEF Ready
  <1> DEFINE c == Configured(b, 0, b.l.iend, n)
             d == Copy(c, TRUE)
             e == [d EXCEPT !.at = "bss"]
  <1>0. BootTypes(b) /\ ~b.dma.busy /\ b.use_dma /\ ProgramKept(b)
    BY DEF Ready
  <1>a. 0 \in Nat /\ b.l.iend \in Nat /\ n \in Nat
    BY <1>0, <1>n, ReadyLayout
  <1>1. /\ BootTypes(c) /\ SameProgram(b, c) /\ ~c.dma.busy
        /\ c.dma.wr = b.l.iend /\ c.dma.len = n
    BY <1>0, <1>a DEF Configured, BootTypes, SameProgram
  <1> HIDE DEF c
  <1>2. BootTypes(d) /\ SameProgram(c, d) /\ SameCopy(c, d) /\ d.dma.const = TRUE /\ d.pic = FALSE
    BY <1>1, Copying
  <1> HIDE DEF d
  <1>3. BootTypes(e) /\ SameProgram(d, e) /\ e.dma = d.dma /\ e.pic = d.pic /\ e.at = "bss"
    BY <1>2, Going
  <1> HIDE DEF e
  <1>4. SameProgram(b, e)
    BY <1>1, <1>2, <1>3 DEF SameProgram
  <1>5. /\ e.dma.wr = b.l.iend /\ e.dma.len = n
        /\ e.dma.const = TRUE /\ e.pic = FALSE /\ e.l = b.l /\ e.use_dma
    BY <1>0, <1>1, <1>2, <1>3, <1>4 DEF SameCopy, SameProgram
  <1>6. Clears(e) /\ DoneAt(e, e.l.bend) /\ Cleared(e, e.dma.wr)
    BY <1>0, <1>n, <1>5, ReadyLayout DEF Clears, DoneAt, Cleared
  <1>7. ProgramKept(e) /\ ImageLoaded(e)
    BY <1>0, <1>4, ProgramStays
  <1>8. DmaKnown(e)
    BY <1>5, <1>6 DEF DmaKnown
  <1>9. BssOK(e)
    BY <1>5, <1>6, <1>7 DEF BssOK
  <1>10. PhaseOK(e)
    BY <1>3, <1>5, <1>9 DEF PhaseOK
  <1> QED
    BY <1>n, <1>3, <1>7, <1>8, <1>10 DEF BootOK, e, d, c

(* A phase that waits for nothing is entered with the board as it is.        *)
LEMMA ToPhase ==
    ASSUME NEW b, BootTypes(b), ~b.dma.busy, ProgramKept(b),
           NEW at \in {"ram", "tobss", "main", "ran"},
           at \in {"ram", "tobss"} => b.use_dma,
           at = "ram" => RamOK(b), at = "tobss" => TobssOK(b), at = "main" => MainOK(b)
    PROVE  BootOK([b EXCEPT !.at = at])
  <1> DEFINE e == [b EXCEPT !.at = at]
  <1>0. at \in {"start", "kram", "ram", "wram", "tobss", "bss", "main", "ran"}
    OBVIOUS
  <1>1. BootTypes(e) /\ SameProgram(b, e) /\ e.dma = b.dma /\ e.at = at
    BY <1>0, Going, ZenonT(60)
  <1> HIDE DEF e
  <1>2. ProgramKept(e) /\ (at = "ram" => RamOK(e)) /\ (at = "tobss" => TobssOK(e)) /\ (at = "main" => MainOK(e))
    BY <1>1, ProgramStays DEF RamOK, TobssOK, MainOK, SameProgram
  <1>3. DmaKnown(e) /\ PhaseOK(e)
    BY <1>1, <1>2 DEF DmaKnown, PhaseOK, SameProgram
  <1> QED
    BY <1>1, <1>2, <1>3 DEF BootOK, e

-----------------------------------------------------------------------------
LEMMA StartBootStep == BootOK(zb) /\ StartBoot => BootOK(zb')
  <1> SUFFICES ASSUME BootOK(zb), StartBoot PROVE BootOK(zb')
    OBVIOUS
  <1> DEFINE l == zb.l
             b == DmaClear(zb)
  <1>1. /\ BootTypes(b) /\ SameProgram(zb, b) /\ ~b.dma.busy /\ b.l = l /\ b.use_dma
    BY Clearing DEF BootOK, StartBoot, SameProgram
  <1>2. Ready(b)
    BY <1>1, ProgramStays DEF BootOK, Ready
  <1>3. CASE l.rom = 0 /\ l.bend # l.iend
    <2>1. ImageLoaded(b)
      BY <1>1, <1>2, <1>3 DEF Ready, ProgramKept
    <2>2. zb' = [Copy(Configured(b, 0, l.iend, l.bend - l.iend), TRUE) EXCEPT !.at = "bss"]
      BY <1>3 DEF StartBoot
    <2> HIDE DEF b
    <2> QED
      BY <1>1, <1>2, <2>1, <2>2, ToBss
  <1>4. CASE l.rom = 0 /\ l.bend = l.iend
    <2>1. MainOK(b)
      BY <1>1, <1>2, <1>4, ReadyLayout DEF Ready, ProgramKept, MainOK, Cleared
    <2>2. zb' = [b EXCEPT !.at = "main"]
      BY <1>4 DEF StartBoot
    <2> HIDE DEF b
    <2> QED
      BY <1>2, <2>1, <2>2, ToPhase DEF Ready
  <1>5. CASE l.rom # 0 /\ HasKernel(l)
    <2>1. zb' = [Copy(Configured(b, l.kstart, l.kram, l.kend - l.kram), FALSE) EXCEPT !.at = "kram"]
      BY <1>5 DEF StartBoot
    <2> HIDE DEF b
    <2> QED
      BY <1>1, <1>2, <1>5, <2>1, ToKram
  <1>6. CASE l.rom # 0 /\ ~HasKernel(l)
    <2>1. l \in BLayouts /\ l.istart = l.kstart
      BY <1>6, LayoutTypes DEF BootOK, BootTypes, LayoutOK
    <2>2. PICK c : /\ BootTypes(c) /\ SameProgram(b, c) /\ ~c.dma.busy /\ c.dma.rd = l.istart
                   /\ l.kram = 0 => c.dma.wr = l.ram /\ c.dma.len = l.iend - l.ram
                   /\ zb' = [c EXCEPT !.at = "ram"]
      <3> HIDE DEF b
      <3>1. /\ l.istart \in Nat /\ l.kstart \in Nat /\ l.kram \in Nat /\ l.ram \in Nat
            /\ b.dma.len \in Nat /\ l.iend - l.ram \in Nat
        BY <1>1, ReadyLayout
      <3>2. PICK m \in Nat, n \in Nat : m = b.dma.len /\ n = l.iend - l.ram
        BY <3>1
      <3> DEFINE c1 == Configured(b, l.kstart, l.kram, m)
                 c2 == Configured(b, l.istart, l.ram, n)
      <3>3. CASE l.kram # 0
        <4>1. zb' = [c1 EXCEPT !.at = "ram"]
          BY <1>6, <3>2, <3>3 DEF StartBoot, b
        <4>2. BootTypes(c1) /\ SameProgram(b, c1) /\ ~c1.dma.busy /\ c1.dma.rd = l.kstart
          BY <1>1, <3>1 DEF Configured, BootTypes, SameProgram
        <4> HIDE DEF c1
        <4> QED
          BY <2>1, <3>3, <4>1, <4>2
      <3>4. CASE l.kram = 0
        <4>1. zb' = [c2 EXCEPT !.at = "ram"]
          BY <1>6, <3>2, <3>4 DEF StartBoot, b
        <4>2. /\ BootTypes(c2) /\ SameProgram(b, c2) /\ ~c2.dma.busy
              /\ c2.dma.rd = l.istart /\ c2.dma.wr = l.ram /\ c2.dma.len = n
          BY <1>1, <3>1 DEF Configured, BootTypes, SameProgram
        <4> HIDE DEF c2
        <4> QED
          BY <3>2, <3>4, <4>1, <4>2
      <3> QED
        BY <3>3, <3>4
    <2> HIDE DEF b
    <2>3. ProgramKept(c) /\ c.l = l /\ c.use_dma /\ KernelLoaded(c)
      BY <1>1, <1>2, <1>6, <2>2, ProgramStays
      DEF Ready, SameProgram, KernelLoaded, InKernel
    <2>4. RamOK(c)
      BY <1>6, <2>2, <2>3 DEF RamOK
    <2> QED
      BY <2>2, <2>3, <2>4, ToPhase
  <1> QED
    BY <1>3, <1>4, <1>5, <1>6

LEMMA KramDoneStep == BootOK(zb) /\ KramDone => BootOK(zb')
  <1> SUFFICES ASSUME BootOK(zb), KramDone PROVE BootOK(zb')
    OBVIOUS
  <1>1. /\ zb.pic /\ zb.use_dma /\ KramOK(zb) /\ BootTypes(zb) /\ ProgramKept(zb) /\ zb' = [zb EXCEPT !.at = "ram"]
    BY DEF BootOK, PhaseOK, KramDone, Waited
  <1>2. zb.l.istart = zb.l.kstart + (zb.l.kend - zb.l.kram) /\ zb.l.kram # 0
    BY <1>1, ReadyLayout, LayoutTypes
    DEF KramOK, CopiesKernel, Copies, LayoutOK, HasKernel
  <1>3. RamOK(zb)
    BY <1>1, <1>2, ReadyLayout
       DEF RamOK, KramOK, CopiesKernel, Copies, DoneAt, Loaded, KernelLoaded, InKernel
  <1> QED
    BY <1>1, <1>3, ToPhase DEF RamOK

LEMMA RamStep == BootOK(zb) /\ Ram => BootOK(zb')
  <1> SUFFICES ASSUME BootOK(zb), Ram PROVE BootOK(zb')
    OBVIOUS
  <1> DEFINE l == zb.l
  <1>1. zb.use_dma /\ RamOK(zb) /\ BootTypes(zb) /\ ProgramKept(zb)
    BY DEF BootOK, PhaseOK, Ram
  <1>2. PICK b : /\ BootTypes(b) /\ SameProgram(zb, b) /\ ~b.dma.busy
                 /\ b.dma.rd = l.istart /\ b.dma.wr = l.ram /\ b.dma.len = l.iend - l.ram
                 /\ zb' = IF b.dma.len > 0 THEN [Copy(b, FALSE) EXCEPT !.at = "wram"] ELSE [b EXCEPT !.at = "tobss"]
    <2>1. CASE l.kram # 0
      <3>1. zb.dma.rd \in Nat /\ l.ram \in Nat /\ l.iend - l.ram \in Nat
        BY <1>1, ReadyLayout
      <3>2. PICK n \in Nat : n = l.iend - l.ram
        BY <3>1
      <3> DEFINE c == Configured(zb, zb.dma.rd, l.ram, n)
      <3>3. /\ BootTypes(c) /\ SameProgram(zb, c) /\ ~c.dma.busy
            /\ c.dma.rd = zb.dma.rd /\ c.dma.wr = l.ram /\ c.dma.len = n
        BY <1>1, <3>1, <3>2 DEF RamOK, Configured, BootTypes, SameProgram
      <3>4. zb' = IF c.dma.len > 0 THEN [Copy(c, FALSE) EXCEPT !.at = "wram"] ELSE [c EXCEPT !.at = "tobss"]
        BY <2>1, <3>2 DEF Ram
      <3> HIDE DEF c
      <3> QED
        BY <1>1, <3>2, <3>3, <3>4 DEF RamOK
    <2>2. CASE l.kram = 0
      <3>1. zb' = IF zb.dma.len > 0 THEN [Copy(zb, FALSE) EXCEPT !.at = "wram"] ELSE [zb EXCEPT !.at = "tobss"]
        BY <2>2 DEF Ram
      <3> QED
        BY <1>1, <2>2, <3>1 DEF RamOK, SameProgram
    <2> QED
      BY <2>1, <2>2
  <1>3. b.l = l /\ b.use_dma /\ l.rom # 0 /\ ProgramKept(b) /\ KernelLoaded(b)
    BY <1>1, <1>2, ProgramStays DEF SameProgram, RamOK
  <1>4. CASE b.dma.len > 0
    BY <1>2, <1>3, <1>4, ToWram DEF Ready
  <1>5. CASE ~(b.dma.len > 0)
    <2>1. l.ram \in Nat /\ l.iend \in Nat /\ l.iend - l.ram \in Nat
      BY <1>1, ReadyLayout
    <2>3. l.iend = l.ram
      BY <1>2, <1>5, <2>1
    <2>2. TobssOK(b)
      BY <1>2, <1>3, <2>1, <2>3 DEF TobssOK, ImageLoaded, Loaded
    <2> QED
      BY <1>2, <1>3, <1>5, <2>2, ToPhase
  <1> QED
    BY <1>4, <1>5

LEMMA RamDoneStep == BootOK(zb) /\ RamDone => BootOK(zb')
  <1> SUFFICES ASSUME BootOK(zb), RamDone PROVE BootOK(zb')
    OBVIOUS
  <1>1. /\ zb.pic /\ zb.use_dma /\ WramOK(zb) /\ BootTypes(zb) /\ ProgramKept(zb) /\ zb' = [zb EXCEPT !.at = "tobss"]
    BY DEF BootOK, PhaseOK, RamDone, Waited
  <1>2. TobssOK(zb)
    BY <1>1, ReadyLayout DEF TobssOK, WramOK, DoneAt, ImageLoaded
  <1> QED
    BY <1>1, <1>2, ToPhase DEF TobssOK

LEMMA BssStep == BootOK(zb) /\ Bss => BootOK(zb')
  <1> SUFFICES ASSUME BootOK(zb), Bss PROVE BootOK(zb')
    OBVIOUS
  <1>1. zb.use_dma /\ TobssOK(zb) /\ BootTypes(zb) /\ ProgramKept(zb) /\ zb.dma.wr = zb.l.iend
    BY DEF BootOK, PhaseOK, Bss, TobssOK
  <1>2. CASE zb.l.bend # zb.l.iend
    BY <1>1, <1>2, ToBss DEF Bss, Ready, TobssOK
  <1>3. CASE zb.l.bend = zb.l.iend
    <2>1. MainOK(zb)
      BY <1>1, <1>3, ReadyLayout DEF MainOK, TobssOK, Cleared
    <2> QED
      BY <1>1, <1>3, <2>1, ToPhase DEF Bss, TobssOK
  <1> QED
    BY <1>2, <1>3

LEMMA BssDoneStep == BootOK(zb) /\ BssDone => BootOK(zb')
  <1> SUFFICES ASSUME BootOK(zb), BssDone PROVE BootOK(zb')
    OBVIOUS
  <1>1. zb.pic /\ BssOK(zb) /\ BootTypes(zb) /\ ProgramKept(zb) /\ zb' = [zb EXCEPT !.at = "main"]
    BY DEF BootOK, PhaseOK, BssDone, Waited
  <1>2. MainOK(zb)
    BY <1>1, ReadyLayout DEF MainOK, BssOK, DoneAt
  <1> QED
    BY <1>1, <1>2, ToPhase DEF MainOK

(* Without the DMA nothing is copied behind the program's back.              *)
LEMMA SoftwareStep == BootOK(zb) /\ Software => BootOK(zb')
  <1> SUFFICES ASSUME BootOK(zb), Software PROVE BootOK(zb')
    OBVIOUS
  <1> DEFINE l == zb.l
             m1 == KernelMoved(l, zb.mem)
             m2 == ImageMoved(l, m1)
             m == IF l.rom = 0 THEN zb.mem ELSE m2
  <1>1. /\ ~zb.dma.busy /\ BootTypes(zb) /\ ProgramKept(zb) /\ l \in BLayouts /\ zb.mem \in [BMem -> Int]
        /\ BMem \subseteq Nat
    BY BootAssumption DEF BootOK, DmaKnown, Software, BootTypes
  <1>2. /\ l.kstart \in Nat /\ l.kram \in Nat /\ l.ram \in Nat /\ l.istart \in Nat
        /\ l.kend \in Nat /\ l.iend \in Nat /\ l.bend \in Nat /\ l.ram <= l.iend /\ l.iend <= l.bend
    BY <1>1, LayoutTypes
  <1>3. zb' = [zb EXCEPT !.at = "main", !.mem = BssZero(l, m)]
    BY DEF Software
  <1>4. ASSUME l.rom # 0, NEW a \in BMem
        PROVE  /\ ~InRam(l, a) => m1[a] = a
               /\ InKernel(l, a) => m1[a] = Image(l, a)
    <2>1. CASE InKernel(l, a)
      <3>1. /\ HasKernel(l) /\ a \in Nat /\ l.kram <= a /\ a < l.kend /\ InRam(l, a)
            /\ KernelLen(l) \in Int /\ l.kram + KernelLen(l) = l.kend /\ l.kram # 0
        BY <1>1, <1>2, <2>1 DEF InKernel, HasKernel, InRam, KernelLen
      <3>2. PICK r \in Nat : r = l.kstart + a - l.kram
        BY <1>2, <3>1
      <3>3. r \in BMem /\ ~InRam(l, r) /\ Image(l, a) = r
        BY <1>1, <1>2, <1>4, <3>1, <3>2, KernelWord
      <3>4. zb.mem[r] = r
        BY <1>1, <1>4, <3>3 DEF ProgramKept
      <3>5. m1[a] = zb.mem[r]
        <4>1. l.kram # 0 /\ a \in l.kram .. l.kram + KernelLen(l) - 1
          BY <1>2, <3>1
        <4>2. m1[a] = zb.mem[l.kstart + a - l.kram]
          BY <4>1, Zenon DEF KernelMoved
        <4> QED
          BY <3>2, <4>2
      <3> QED
        BY <3>1, <3>3, <3>4, <3>5
    <2>2. CASE ~InKernel(l, a)
      <3>1. ~(l.kram # 0 /\ a \in l.kram .. l.kram + KernelLen(l) - 1)
        BY <1>1, <1>2, <2>2 DEF InKernel, HasKernel, KernelLen
      <3>2. m1[a] = zb.mem[a]
        BY <3>1 DEF KernelMoved
      <3> QED
        BY <1>1, <1>4, <2>2, <3>2 DEF ProgramKept
    <2> QED
      BY <2>1, <2>2
  <1>5. ASSUME l.rom # 0, NEW a \in BMem
        PROVE  /\ m2[a] \in Int
               /\ ~InRam(l, a) => m2[a] = a
               /\ InRam(l, a) /\ ~(a \in l.iend .. l.bend - 1) => m2[a] = Image(l, a)
    <2> HIDE DEF m1
    <2>0. a \in Nat /\ Image(l, a) \in Int
      BY <1>1, <1>2 DEF Image
    <2>1. CASE a \in l.ram .. l.iend - 1
      <3>1. PICK r \in Int : r = l.kstart + (IF l.kram # 0 THEN KernelLen(l) ELSE 0) + a - l.ram
        BY <1>2, <2>0 DEF KernelLen
      <3>2. r \in Nat /\ r + l.ram = a + l.istart
        BY <1>1, <1>2, <1>5, <2>0, <2>1, <3>1, LayoutTypes
        DEF LayoutOK, HasKernel, KernelLen
      <3>3. r \in BMem /\ ~InRam(l, r) /\ Image(l, a) = r /\ InRam(l, a)
        BY <1>1, <1>2, <1>5, <2>0, <2>1, <3>2, ImageWord
      <3>4. m2[a] = m1[r]
        BY <2>1, <3>1 DEF ImageMoved
      <3> QED
        BY <1>4, <1>5, <3>3, <3>4
    <2>2. CASE ~(a \in l.ram .. l.iend - 1)
      <3>1. m2[a] = m1[a]
        BY <2>2 DEF ImageMoved
      <3>2. CASE InRam(l, a) /\ ~InKernel(l, a)
        <4>1. a \in l.iend .. l.bend - 1
          BY <1>2, <2>0, <2>2, <3>2 DEF InRam
        <4>2. m1[a] \in Int
          BY <1>2, <3>2, <2>0, <1>1 DEF m1, KernelMoved, KernelLen, InKernel, HasKernel
        <4> QED
          BY <3>1, <3>2, <4>1, <4>2
      <3>3. CASE ~(InRam(l, a) /\ ~InKernel(l, a))
        BY <1>4, <1>5, <2>0, <3>1, <3>3
      <3> QED
        BY <3>2, <3>3
    <2> QED
      BY <2>1, <2>2
  <1>6. m2 = [a \in BMem |-> m2[a]]
    BY DEF ImageMoved
  <1> HIDE DEF m1, m2
  <1>7. /\ m \in [BMem -> Int]
        /\ l.rom # 0 => \A a \in BMem : ~InRam(l, a) => m[a] = a
        /\ \A a \in BMem : InRam(l, a) /\ ~(a \in l.iend .. l.bend - 1) => m[a] = Image(l, a)
    <2>1. CASE l.rom # 0
      BY <1>5, <1>6, <2>1
    <2>2. CASE l.rom = 0
      BY <1>1, <1>2, <2>2 DEF ProgramKept, ImageLoaded, KernelLoaded, Loaded, InRam
    <2> QED
      BY <2>1, <2>2
  <1> HIDE DEF m
  <1> DEFINE e == BssZero(l, m)
  <1>8. /\ e \in [BMem -> Int]
        /\ \A a \in BMem : e[a] = IF a \in l.iend .. l.bend - 1 THEN 0 ELSE m[a]
    BY <1>7 DEF BssZero
  <1>9. zb' = [zb EXCEPT !.at = "main", !.mem = e]
    BY <1>3
  <1> HIDE DEF e
  <1>10. BootTypes(zb') /\ zb'.l = l /\ ~zb'.dma.busy /\ zb'.mem = e /\ zb'.at = "main"
    BY <1>1, <1>8, <1>9 DEF BootTypes
  <1>11. ProgramKept(zb') /\ ImageLoaded(zb') /\ Cleared(zb', l.bend)
    <2>1. ASSUME NEW a \in BMem, a \in l.iend .. l.bend - 1
          PROVE  InRam(l, a) /\ ~InKernel(l, a) /\ ~(a \in l.ram .. l.iend - 1)
      BY <1>1, <1>2, <2>1, ImageWord
    <2>2. ImageLoaded(zb')
      BY <1>2, <1>7, <1>8, <1>10, <2>1 DEF ImageLoaded, KernelLoaded, Loaded, InRam
    <2>3. Cleared(zb', l.bend)
      BY <1>8, <1>10 DEF Cleared
    <2> QED
      BY <1>7, <1>8, <1>10, <2>1, <2>2, <2>3 DEF ProgramKept
  <1> QED
    BY <1>10, <1>11 DEF BootOK, DmaKnown, PhaseOK, MainOK

(* A reset leaves the DMA at work, and what it does is known.                *)
LEMMA BResetStep == BootOK(zb) /\ BReset => BootOK(zb')
  <1> SUFFICES ASSUME BootOK(zb), BReset PROVE BootOK(zb')
    OBVIOUS
  <1>1. BootTypes(zb') /\ SameProgram(zb, zb') /\ zb'.dma = zb.dma /\ zb'.at = "start"
    <2>1. zb.resets \in Nat
      BY DEF BootOK, BootTypes
    <2>2. PICK n \in Nat : n = zb.resets + 1
      BY <2>1
    <2>3. zb' = [zb EXCEPT !.at = "start", !.resets = n]
      BY <2>2 DEF BReset
    <2> QED
      BY <2>3 DEF BootOK, BootTypes, SameProgram
  <1>2. ProgramKept(zb')
    BY <1>1, ProgramStays DEF BootOK
  <1>3. DmaKnown(zb')
    BY <1>1 DEF BootOK, DmaKnown, SameProgram, CopiesKernel, CopiesImage, Copies, Clears
  <1>4. PhaseOK(zb')
    BY <1>1 DEF PhaseOK
  <1> QED
    BY <1>1, <1>2, <1>3, <1>4 DEF BootOK

LEMMA MainStep == BootOK(zb) /\ Main => BootOK(zb')
  <1> SUFFICES ASSUME BootOK(zb), Main PROVE BootOK(zb')
    OBVIOUS
  <1> DEFINE m == [a \in BMem |-> IF zb.l.rom # 0 /\ InRam(zb.l, a) THEN Junk ELSE zb.mem[a]]
  <1>1. BootTypes(zb) /\ ProgramKept(zb) /\ ~zb.dma.busy /\ zb.mem \in [BMem -> Int]
    BY DEF BootOK, BootTypes, PhaseOK, Main, MainOK
  <1>2. zb' = [zb EXCEPT !.at = "ran", !.mem = m]
    BY DEF Main
  <1>3. /\ m \in [BMem -> Int]
        /\ \A a \in BMem : m[a] = IF zb.l.rom # 0 /\ InRam(zb.l, a) THEN Junk ELSE zb.mem[a]
    BY <1>1 DEF Junk
  <1> HIDE DEF m
  <1>4. BootTypes(zb') /\ zb'.l = zb.l /\ ~zb'.dma.busy /\ zb'.mem = m /\ zb'.at = "ran"
    BY <1>1, <1>2, <1>3 DEF BootTypes
  <1>5. ProgramKept(zb')
    BY <1>1, <1>3, <1>4 DEF ProgramKept, ImageLoaded, KernelLoaded, Loaded
  <1> QED
    BY <1>4, <1>5 DEF BootOK, DmaKnown, PhaseOK

LEMMA PowerUpStep == BootInit /\ PowerUp => BootOK(zb')
  <1> SUFFICES ASSUME BootInit, PowerUp PROVE BootOK(zb')
    OBVIOUS
  <1>1. PICK l \in BLayouts, d \in BOOLEAN :
          zb' = [zb EXCEPT !.at = "start", !.l = l, !.use_dma = d,
                           !.mem = [a \in BMem |-> IF ~InRam(l, a) THEN a
                                                   ELSE IF l.rom = 0 /\ a \notin l.iend .. l.bend - 1
                                                   THEN Image(l, a) ELSE Junk]]
    BY DEF PowerUp
  <1> DEFINE m == [a \in BMem |-> IF ~InRam(l, a) THEN a
                                  ELSE IF l.rom = 0 /\ a \notin l.iend .. l.bend - 1 THEN Image(l, a) ELSE Junk]
  <1>2. /\ l.kstart \in Nat /\ l.kram \in Nat /\ l.ram \in Nat /\ l.istart \in Nat /\ l.kend \in Nat
        /\ l.iend \in Nat /\ l.bend \in Nat /\ l.ram <= l.iend /\ l.iend <= l.bend
        /\ \A a \in BMem : a \in Nat /\ Image(l, a) \in Int
    BY LayoutTypes, BootAssumption DEF Image
  <1>3. /\ m \in [BMem -> Int]
        /\ \A a \in BMem : m[a] = IF ~InRam(l, a) THEN a
                                  ELSE IF l.rom = 0 /\ a \notin l.iend .. l.bend - 1 THEN Image(l, a) ELSE Junk
    BY <1>2 DEF Junk
  <1>4. zb' = [zb EXCEPT !.at = "start", !.l = l, !.use_dma = d, !.mem = m]
    BY <1>1
  <1> HIDE DEF m
  <1>5. BootTypes(zb') /\ zb'.l = l /\ ~zb'.dma.busy /\ zb'.mem = m /\ zb'.at = "start"
    BY <1>3, <1>4 DEF BootInit, BootTypes
  <1>6. ASSUME NEW a \in BMem, a \in l.iend .. l.bend - 1
        PROVE  ~InKernel(l, a) /\ ~(a \in l.ram .. l.iend - 1)
    BY <1>2, <1>6, ImageWord
  <1>7. ProgramKept(zb')
    BY <1>2, <1>3, <1>5, <1>6 DEF ProgramKept, ImageLoaded, KernelLoaded, Loaded, InRam
  <1> QED
    BY <1>5, <1>7 DEF BootOK, DmaKnown, PhaseOK

(* main() is never entered before the whole program is where it runs and what must be
   zero is zero: for every layout that crt0.c allows, with the DMA or without, and
   however often and wherever a reset comes.                                 *)
THEOREM BootsWholeProgram == BootSpec => []BootedRight
  <1>1. BootInit => BootInv
    BY DEF BootInv, BootInit
  <1>2. BootInv /\ [BootNext]_zb => BootInv'
    <2> SUFFICES ASSUME BootInv, [BootNext]_zb PROVE BootInv'
      OBVIOUS
    <2>1. CASE zb' = zb
      <3>1. BootOK(zb) => BootOK(zb')
        BY <2>1
      <3> QED
        BY <2>1, <3>1 DEF BootInv, BootInit
    <2>2. CASE zb.at = "off" /\ BootInit /\ BootNext
      <3>1. PowerUp
        BY <2>2
        DEF BootNext, BootStep, BootInit, StartBoot, KramDone, Ram, RamDone, Bss,
            BssDone, Software, DmaWord, BReset, Main
      <3> QED
        BY <2>2, <3>1, PowerUpStep DEF BootInv
    <2>3. CASE BootOK(zb) /\ BootNext
      <3>1. ~PowerUp
        BY <2>3 DEF BootOK, BootTypes, PowerUp
      <3> QED
        BY <2>3, <3>1, StartBootStep, KramDoneStep, RamStep, RamDoneStep, BssStep, BssDoneStep, SoftwareStep,
           DmaWordStep, BResetStep, MainStep DEF BootNext, BootStep, BootInv
    <2> QED
      BY <2>1, <2>2, <2>3 DEF BootInv
  <1>3. BootInv => BootedRight
    <2> SUFFICES ASSUME BootInv, zb.at = "main", NEW a \in BMem, InRam(zb.l, a)
                 PROVE  zb.mem[a] = IF a \in zb.l.iend .. zb.l.bend - 1 THEN 0 ELSE Image(zb.l, a)
      BY DEF BootedRight
    <2>1. BootOK(zb)
      BY DEF BootInv
    <2>2. ImageLoaded(zb) /\ Cleared(zb, zb.l.bend) /\ zb.l.ram \in Nat /\ zb.l.iend \in Nat /\ zb.l.bend \in Nat
          /\ a \in Nat
      BY <2>1, ReadyLayout, BootAssumption DEF BootOK, PhaseOK, MainOK
    <2> QED
      BY <2>2 DEF ImageLoaded, KernelLoaded, Loaded, Cleared, InRam
  <1> QED
    BY <1>1, <1>2, <1>3, PTL DEF BootSpec

-----------------------------------------------------------------------------
(* The C library's console.  A character is in one of four queues on its way out;
   moving it from the head of one to the end of the next changes nothing of what
   they hold together.                                                        *)
LEMMA HeadMoves ==
    ASSUME NEW S, NEW p \in Seq(S), NEW f \in Seq(S), f # <<>>
    PROVE  /\ Append(p, Head(f)) \in Seq(S) /\ Tail(f) \in Seq(S)
           /\ Append(p, Head(f)) \o Tail(f) = p \o f
  <1>1. Head(f) \in S /\ Tail(f) \in Seq(S) /\ <<Head(f)>> \in Seq(S)
    BY HeadTailProperties
  <1>2. <<Head(f)>> \o Tail(f) = f
    <2>1. f = SubSeq(f, 1, Len(f)) /\ Len(f) \in Nat \ {0}
      BY SubSeqFull, EmptySeq
    <2>2. f = <<f[1]>> \o SubSeq(f, 2, Len(f))
      BY <2>1, SubSeqRecursiveFirst
    <2>3. Tail(f) = SubSeq(f, 2, Len(f))
      BY TailIsSubSeq
    <2>4. Head(f) = f[1]
      <3>1. Head(SubSeq(f, 1, Len(f))) = f[1]
        BY <2>1, HeadTailOfSubSeq
      <3> QED  BY <3>1, SubSeqFull
    <2> QED  BY <2>2, <2>3, <2>4, Zenon
  <1>3. Append(p, Head(f)) = p \o <<Head(f)>>
    BY <1>1, AppendIsConcat
  <1>4. (p \o <<Head(f)>>) \o Tail(f) = p \o (<<Head(f)>> \o Tail(f))
    BY <1>1, ConcatAssociative
  <1> QED  BY <1>1, <1>2, <1>3, <1>4, AppendProperties

OutChars == KChars \cup {"sp"}
LEMMA CharMovesBehind ==
    \A a, p, f \in Seq(OutChars) :
        f # <<>> => (a \o Append(p, Head(f))) \o Tail(f) = (a \o p) \o f
  <1> SUFFICES ASSUME NEW a \in Seq(OutChars), NEW p \in Seq(OutChars), NEW f \in Seq(OutChars),
                      f # <<>>
               PROVE  (a \o Append(p, Head(f))) \o Tail(f) = (a \o p) \o f
    BY Zenon
  <1>1. PICK q \in Seq(OutChars), t \in Seq(OutChars) :
            q = Append(p, Head(f)) /\ t = Tail(f) /\ q \o t = p \o f
    BY HeadMoves, ZenonT(60)
  <1>2. (a \o q) \o t = a \o (q \o t)
    BY ConcatAssociative, SMTT(60)
  <1>3. (a \o p) \o f = a \o (p \o f)
    BY ConcatAssociative, SMTT(60)
  <1>4. (a \o q) \o t = (a \o p) \o f
    BY <1>1, <1>2, <1>3
  <1> QED  BY <1>1, <1>4, Zenon

OnItsWay(s, k) == ((k.sent \o k.pipe) \o k.fifo) \o s.out

SoftFields == {"at", "out", "written", "calls", "tx_cr", "rx_cr", "got", "len", "nr"}
PortFields == {"fifo", "pipe", "sent", "rx", "left", "used"}
ConsoleTypes ==
    /\ DOMAIN cs = SoftFields /\ DOMAIN ck = PortFields
    /\ cs.at \in {"program", "read", "exit", "down"}
    /\ \A q \in {cs.out, cs.written, cs.got, ck.fifo, ck.pipe, ck.sent} : q \in Seq(OutChars)
    /\ \A q \in {ck.rx, ck.left, ck.used} : q \in Seq(KChars)

(* What has left, what is in the port and what waits is what was written, and at the
   end the two characters behind it.                                          *)
OutKept ==
    /\ cs.at \in {"program", "read"} => OnItsWay(cs, ck) = cs.written
    /\ cs.at \in {"exit", "down"} => OnItsWay(cs, ck) = cs.written \o Final
    /\ cs.at = "down" => cs.out = <<>> /\ ck.fifo = <<>>
    /\ Len(ck.pipe) <= KPipe

(* What is remembered of the last character taken is what it was.             *)
CrKnown == cs.rx_cr <=> ck.used # <<>> /\ ck.used[Len(ck.used)] = "cr"

ConsoleInv == ConsoleTypes /\ OutKept /\ CrKnown /\ ReadsLinesTyped
SameIn(s, k) == s.got = cs.got /\ s.rx_cr = cs.rx_cr /\ k.used = ck.used

LEMMA InSame == ConsoleInv /\ SameIn(cs', ck') => CrKnown' /\ ReadsLinesTyped'
  BY DEF ConsoleInv, SameIn, CrKnown, ReadsLinesTyped

LEMMA ConsoleInvInit == ConsoleInit => ConsoleInv
  <1> SUFFICES ASSUME ConsoleInit PROVE ConsoleInv
    OBVIOUS
  <1>1. PICK t \in KTyped : ck = [fifo |-> <<>>, pipe |-> <<>>, sent |-> <<>>, rx |-> <<>>, left |-> t, used |-> <<>>]
    BY DEF ConsoleInit
  <1>2. /\ cs = [at |-> "program", out |-> <<>>, written |-> <<>>, calls |-> 0, tx_cr |-> FALSE, rx_cr |-> FALSE,
             got |-> <<>>, len |-> 0, nr |-> 0]
        /\ t \in Seq(KChars) /\ \A S : <<>> \in Seq(S) /\ Len(<<>>) = 0
    BY EmptySeq, ConsoleAssumption DEF ConsoleInit, ConsoleAssumption
  <1>3. ConsoleTypes
    BY <1>1, <1>2 DEF ConsoleTypes, SoftFields, PortFields
  <1>4. ((<<>> \o <<>>) \o <<>>) \o <<>> = <<>>
    BY <1>2, ConcatEmptySeq
  <1>5. OutKept
    BY <1>1, <1>2, <1>4, ConsoleAssumption DEF OutKept, OnItsWay, ConsoleAssumption
  <1>6. CrKnown
    BY <1>1, <1>2 DEF CrKnown
  <1>7. Kept(<<>>) = {}
    BY <1>2 DEF Kept
  <1>8. ReadsLinesTyped
    BY <1>1, <1>2, <1>7, FS_EmptySet DEF ReadsLinesTyped
  <1> QED  BY <1>3, <1>5, <1>6, <1>8 DEF ConsoleInv

(* The three moves of a character towards the line.                           *)
LEMMA MovesOut == ASSUME ConsoleInv, Push \/ PortMoves \/ PortSends PROVE ConsoleInv'
  <1>1. /\ ck.sent \in Seq(OutChars) /\ ck.pipe \in Seq(OutChars) /\ ck.fifo \in Seq(OutChars)
        /\ cs.out \in Seq(OutChars) /\ DOMAIN cs = SoftFields /\ DOMAIN ck = PortFields
    BY DEF ConsoleInv, ConsoleTypes
  <1>0. PICK s \in Seq(OutChars), p \in Seq(OutChars), f \in Seq(OutChars), o \in Seq(OutChars) :
            s = ck.sent /\ p = ck.pipe /\ f = ck.fifo /\ o = cs.out
    BY <1>1, Zenon
  <1>5. s \in Seq(OutChars) /\ p \in Seq(OutChars) /\ f \in Seq(OutChars) /\ o \in Seq(OutChars)
    BY <1>0
  <1>2. CASE Push
    <2>1. /\ o # <<>> /\ cs' = [cs EXCEPT !.out = Tail(o)]
          /\ ck' = [ck EXCEPT !.fifo = Append(f, Head(o))]
      <3>1. Len(f) \in Nat /\ KFifoLen \in Nat
        BY <1>0, <1>1, LenProperties, ConsoleAssumption DEF ConsoleAssumption
      <3> QED  BY <1>0, <1>2, <3>1 DEF Push, TXWAIT
    <2>2. /\ cs'.out = Tail(o) /\ cs'.at = cs.at /\ cs'.written = cs.written /\ cs'.got = cs.got
          /\ cs'.rx_cr = cs.rx_cr /\ DOMAIN cs' = SoftFields
      BY <1>0, <1>1, <2>1 DEF SoftFields
    <2>3. /\ ck'.fifo = Append(f, Head(o)) /\ ck'.pipe = p /\ ck'.sent = s /\ ck'.rx = ck.rx
          /\ ck'.left = ck.left /\ ck'.used = ck.used /\ DOMAIN ck' = PortFields
      BY <1>0, <1>1, <2>1 DEF PortFields
    <2>4. /\ Append(f, Head(o)) \in Seq(OutChars) /\ Tail(o) \in Seq(OutChars)
          /\ Append(f, Head(o)) \o Tail(o) = f \o o /\ s \o p \in Seq(OutChars)
      BY <1>5, <2>1, HeadMoves, ConcatProperties
    <2>5. ((s \o p) \o Append(f, Head(o))) \o Tail(o) = ((s \o p) \o f) \o o
      <3>1. PICK q \in Seq(OutChars) : q = s \o p
        BY <2>4, Zenon
      <3>2. o # <<>>
        BY <2>1
      <3>3. (q \o Append(f, Head(o))) \o Tail(o) = (q \o f) \o o
        BY <1>5, <3>2, CharMovesBehind, ZenonT(60)
      <3> QED  BY <3>1, <3>3, Zenon
    <2>6. ConsoleTypes'
      BY <2>2, <2>3, <2>4 DEF ConsoleInv, ConsoleTypes
    <2>7. cs.at # "down"
      BY <1>0, <2>1 DEF ConsoleInv, OutKept
    <2>8. OutKept'
      BY <1>0, <2>2, <2>3, <2>5, <2>7 DEF ConsoleInv, OutKept, OnItsWay
    <2> QED  BY <2>2, <2>3, <2>6, <2>8, InSame DEF ConsoleInv, SameIn
  <1>3. CASE PortMoves
    <2>1. /\ f # <<>> /\ cs' = cs /\ Len(p) < KPipe /\ cs.at # "down"
          /\ ck' = [ck EXCEPT !.fifo = Tail(f), !.pipe = Append(p, Head(f))]
      BY <1>0, <1>3 DEF PortMoves, KDown
    <2>3. /\ ck'.fifo = Tail(f) /\ ck'.pipe = Append(p, Head(f)) /\ ck'.sent = s /\ ck'.rx = ck.rx
          /\ ck'.left = ck.left /\ ck'.used = ck.used /\ DOMAIN ck' = PortFields
      BY <1>0, <1>1, <2>1 DEF PortFields
    <2>4. /\ Append(p, Head(f)) \in Seq(OutChars) /\ Tail(f) \in Seq(OutChars)
          /\ Append(p, Head(f)) \o Tail(f) = p \o f /\ Len(Append(p, Head(f))) = Len(p) + 1
      <3>1. Head(f) \in OutChars
        BY <1>0, <1>1, <2>1, HeadTailProperties
      <3>2. Len(Append(p, Head(f))) = Len(p) + 1
        BY <1>0, <1>1, <3>1, AppendProperties
      <3> QED  BY <1>5, <2>1, <3>2, HeadMoves
    <2>5. (s \o Append(p, Head(f))) \o Tail(f) = (s \o p) \o f
      <3>1. f # <<>>
        BY <2>1
      <3> QED  BY <1>5, <3>1, CharMovesBehind, ZenonT(60)
    <2>6. ConsoleTypes'
      BY <2>1, <2>3, <2>4 DEF ConsoleInv, ConsoleTypes
    <2>7. Len(ck'.pipe) <= KPipe
      <3>1. Len(p) \in Nat /\ KPipe \in Nat
        BY <1>0, <1>1, LenProperties, ConsoleAssumption DEF ConsoleAssumption
      <3> QED  BY <3>1, <2>1, <2>3, <2>4
    <2>8. OutKept'
      BY <1>0, <2>1, <2>3, <2>5, <2>7 DEF ConsoleInv, OutKept, OnItsWay
    <2> QED  BY <2>1, <2>3, <2>6, <2>8, InSame DEF ConsoleInv, SameIn
  <1>4. CASE PortSends
    <2>1. /\ p # <<>> /\ cs' = cs /\ cs.at # "down"
          /\ ck' = [ck EXCEPT !.pipe = Tail(p), !.sent = Append(s, Head(p))]
      BY <1>0, <1>4 DEF PortSends, KDown
    <2>3. /\ ck'.fifo = f /\ ck'.pipe = Tail(p) /\ ck'.sent = Append(s, Head(p)) /\ ck'.rx = ck.rx
          /\ ck'.left = ck.left /\ ck'.used = ck.used /\ DOMAIN ck' = PortFields
      BY <1>0, <1>1, <2>1 DEF PortFields
    <2>4. /\ Append(s, Head(p)) \in Seq(OutChars) /\ Tail(p) \in Seq(OutChars)
          /\ Append(s, Head(p)) \o Tail(p) = s \o p /\ Len(Tail(p)) = Len(p) - 1
      BY <1>5, <2>1, HeadMoves, HeadTailProperties
    <2>6. ConsoleTypes'
      BY <2>1, <2>3, <2>4 DEF ConsoleInv, ConsoleTypes
    <2>7. Len(ck'.pipe) <= KPipe
      <3>1. Len(p) \in Nat /\ KPipe \in Nat /\ Len(p) <= KPipe
        BY <1>0, <1>1, LenProperties, ConsoleAssumption
        DEF ConsoleAssumption, ConsoleInv, OutKept
      <3> QED  BY <3>1, <2>3, <2>4
    <2>8. OutKept'
      BY <1>0, <2>1, <2>3, <2>4, <2>7 DEF ConsoleInv, OutKept, OnItsWay
    <2> QED  BY <2>1, <2>3, <2>6, <2>8, InSame DEF ConsoleInv, SameIn
  <1> QED  BY <1>2, <1>3, <1>4

(* A call that writes: x is what its character becomes.                       *)
LEMMA WritesOut ==
    ASSUME ConsoleTypes, OutKept, cs.out = <<>>, cs.at \in {"program", "read"}, NEW x \in Seq(OutChars)
    PROVE  ((ck.sent \o ck.pipe) \o ck.fifo) \o x = cs.written \o x /\ cs.written \o x \in Seq(OutChars)
  <1> DEFINE w == (ck.sent \o ck.pipe) \o ck.fifo
  <1>1. w \in Seq(OutChars) /\ cs.written \in Seq(OutChars)
    <2>1. ck.sent \in Seq(OutChars) /\ ck.pipe \in Seq(OutChars) /\ ck.fifo \in Seq(OutChars)
      BY DEF ConsoleTypes
    <2>2. ck.sent \o ck.pipe \in Seq(OutChars)
      BY <2>1, ConcatProperties
    <2> QED  BY <2>1, <2>2, ConcatProperties DEF ConsoleTypes
  <1>2. w \o <<>> = w /\ cs.written \o x \in Seq(OutChars)
    BY <1>1, ConcatEmptySeq, ConcatProperties
  <1>3. w \o <<>> = cs.written
    BY DEF OutKept, OnItsWay
  <1> QED  BY <1>2, <1>3

LEMMA OutCharsOf ==
    /\ \A v \in KChars : OutByte(v) \in Seq(OutChars) /\ \A b : TxChr(v, b) \in Seq(OutChars)
    /\ <<>> \in Seq(OutChars) /\ Final \in Seq(OutChars) /\ Len(Final) = 2
  <1>1. \A v \in OutChars : <<v>> \in Seq(OutChars)
    OBVIOUS
  <1>2. \A v, w \in OutChars : <<v, w>> \in Seq(OutChars) /\ Len(<<v, w>>) = 2
    OBVIOUS
  <1>3. \A v \in KChars : v \in OutChars
    BY DEF OutChars
  <1>4. "cr" \in OutChars /\ "nl" \in OutChars /\ "sp" \in OutChars
    BY DEF OutChars, KChars
  <1> QED  BY <1>1, <1>2, <1>3, <1>4, EmptySeq DEF OutByte, TxChr, Final

(* One character more is taken: it is kept or not, and those before it keep their
   places.                                                                    *)
KeepsNext(u, v) == ~(v = "nl" /\ u # <<>> /\ u[Len(u)] = "cr")
LEMMA KeptNext ==
    ASSUME NEW u \in Seq(KChars), NEW v \in KChars
    PROVE  /\ IsFiniteSet(Kept(u)) /\ Kept(u) \subseteq 1 .. Len(u) /\ Len(u) \in Nat
           /\ Kept(Append(u, v)) = IF KeepsNext(u, v) THEN Kept(u) \cup {Len(u) + 1} ELSE Kept(u)
           /\ \A j \in Kept(u) : /\ KeptUpTo(Append(u, v), j) = KeptUpTo(u, j)
                                 /\ Append(u, v)[j] = u[j]
           /\ KeptUpTo(Append(u, v), Len(u) + 1) = Kept(Append(u, v))
           /\ Append(u, v)[Len(u) + 1] = v
  <1>1. PICK n \in Nat, w \in Seq(KChars) :
          /\ n = Len(u) /\ w = Append(u, v) /\ Len(w) = n + 1 /\ w[n + 1] = v
          /\ \A j \in 1 .. n : w[j] = u[j]
    <2>1. PICK n \in Nat : n = Len(u)
      BY LenProperties
    <2>2. PICK w \in Seq(KChars) : w = Append(u, v)
      BY AppendProperties
    <2>3. /\ Len(Append(u, v)) = Len(u) + 1 /\ Append(u, v)[Len(u) + 1] = v
          /\ \A j \in 1 .. Len(u) : Append(u, v)[j] = u[j]
      BY AppendProperties
    <2> QED  BY <2>1, <2>2, <2>3, Zenon
  <1>2. u # <<>> <=> n > 0
    BY <1>1, EmptySeq
  <1>3. Kept(u) \subseteq 1 .. n /\ IsFiniteSet(Kept(u))
    <2>1. Kept(u) \subseteq 1 .. n
      BY <1>1 DEF Kept
    <2>2. IsFiniteSet(1 .. n)
      BY FS_Interval
    <2> QED  BY <2>1, <2>2, FS_Subset
  <1>4. \A j \in 1 .. n : j \in Kept(w) <=> j \in Kept(u)
    <2> TAKE j \in 1 .. n
    <2>1. w[j] = u[j] /\ (j > 1 => w[j - 1] = u[j - 1]) /\ j \in 1 .. Len(w) /\ j \in 1 .. Len(u)
      BY <1>1
    <2> QED  BY <2>1 DEF Kept
  <1>5. n + 1 \in Kept(w) <=> KeepsNext(u, v)
    <2>1. n + 1 \in 1 .. Len(w) /\ (n + 1 > 1 <=> n > 0) /\ (n > 0 => w[n + 1 - 1] = u[n])
      BY <1>1
    <2> QED  BY <1>1, <1>2, <2>1 DEF Kept, KeepsNext
  <1>6. Kept(w) \subseteq 1 .. n + 1
    BY <1>1 DEF Kept
  <1>7. Kept(w) = IF KeepsNext(u, v) THEN Kept(u) \cup {n + 1} ELSE Kept(u)
    <2>1. \A j \in 1 .. n + 1 : j \in 1 .. n \/ j = n + 1
      OBVIOUS
    <2>2. n + 1 \notin 1 .. n
      OBVIOUS
    <2>3. CASE KeepsNext(u, v)
      <3>1. \A j : j \in Kept(w) <=> j \in Kept(u) \cup {n + 1}
        BY <1>3, <1>4, <1>5, <1>6, <2>1, <2>3, Zenon
      <3> QED  BY <2>3, <3>1, Zenon
    <2>4. CASE ~KeepsNext(u, v)
      <3>1. \A j : j \in Kept(w) <=> j \in Kept(u)
        BY <1>3, <1>4, <1>5, <1>6, <2>1, <2>4, Zenon
      <3> QED  BY <2>4, <3>1, Zenon
    <2> QED  BY <2>3, <2>4
  <1>8. \A j \in Kept(u) : KeptUpTo(w, j) = KeptUpTo(u, j)
    BY <1>3, <1>4, <1>6 DEF KeptUpTo
  <1>9. KeptUpTo(w, n + 1) = Kept(w)
    BY <1>6 DEF KeptUpTo
  <1> QED  BY <1>1, <1>3, <1>7, <1>8, <1>9

LinesOf(u, g) == /\ Len(g) = Cardinality(Kept(u))
                 /\ \A j \in Kept(u) : g[Cardinality(KeptUpTo(u, j))] = AppearsAs(u[j])
LEMMA LineGoesOn ==
    ASSUME NEW u \in Seq(KChars), NEW v \in KChars, NEW g \in Seq(OutChars), LinesOf(u, g)
    PROVE  IF KeepsNext(u, v) THEN LinesOf(Append(u, v), g \o <<AppearsAs(v)>>)
                              ELSE LinesOf(Append(u, v), g)
  <1> DEFINE w == Append(u, v)
  <1>1. /\ IsFiniteSet(Kept(u)) /\ Kept(u) \subseteq 1 .. Len(u) /\ Len(u) \in Nat
        /\ Kept(w) = IF KeepsNext(u, v) THEN Kept(u) \cup {Len(u) + 1} ELSE Kept(u)
        /\ \A j \in Kept(u) : KeptUpTo(w, j) = KeptUpTo(u, j) /\ w[j] = u[j]
        /\ KeptUpTo(w, Len(u) + 1) = Kept(w) /\ w[Len(u) + 1] = v
    BY KeptNext, Zenon
  <1> HIDE DEF w
  <1>2. CASE ~KeepsNext(u, v)
    BY <1>1, <1>2 DEF LinesOf, w
  <1>3. CASE KeepsNext(u, v)
    <2>1. PICK h : h = g \o <<AppearsAs(v)>>
      OBVIOUS
    <2>2. PICK c \in Nat : c = Len(g) /\ c = Cardinality(Kept(u))
      BY LenProperties DEF LinesOf
    <2>3. /\ Len(h) = c + 1 /\ h[c + 1] = AppearsAs(v)
          /\ \A k \in 1 .. c : h[k] = g[k]
      <3>1. <<AppearsAs(v)>> \in Seq(OutChars) /\ Len(<<AppearsAs(v)>>) = 1 /\ <<AppearsAs(v)>>[1] = AppearsAs(v)
        BY DEF AppearsAs, OutChars, KChars
      <3>2. PICK t : t = <<AppearsAs(v)>>
        OBVIOUS
      <3>3. /\ Len(h) = Len(g) + Len(t)
            /\ \A k \in 1 .. Len(g) + Len(t) : h[k] = IF k <= Len(g) THEN g[k] ELSE t[k - Len(g)]
        BY <2>1, <3>1, <3>2, ConcatProperties
      <3>4. Len(t) = 1 /\ t[1] = AppearsAs(v)
        BY <3>1, <3>2
      <3>5. \A k \in 1 .. c + 1 : h[k] = IF k <= c THEN g[k] ELSE t[k - c]
        BY <2>2, <3>3, <3>4
      <3>6. c + 1 \in 1 .. c + 1 /\ ~(c + 1 <= c) /\ c + 1 - c = 1
        OBVIOUS
      <3>7. h[c + 1] = t[1]
        BY <3>5, <3>6
      <3>8. \A k \in 1 .. c : h[k] = g[k]
        BY <3>5
      <3>9. Len(h) = c + 1
        BY <2>2, <3>3, <3>4
      <3> QED  BY <3>4, <3>7, <3>8, <3>9, Zenon
    <2>4. Cardinality(Kept(w)) = c + 1
      <3>1. Len(u) + 1 \notin Kept(u)
        BY <1>1
      <3>2. Kept(w) = Kept(u) \cup {Len(u) + 1} /\ IsFiniteSet(Kept(u))
        BY <1>1, <1>3
      <3>3. Cardinality(Kept(u) \cup {Len(u) + 1}) = Cardinality(Kept(u)) + 1
        BY <3>1, <3>2, FS_AddElement
      <3> QED  BY <2>2, <3>2, <3>3
    <2>5. \A j \in Kept(u) : Cardinality(KeptUpTo(u, j)) \in 1 .. c
      <3> TAKE j \in Kept(u)
      <3>1. KeptUpTo(u, j) \in SUBSET Kept(u) /\ j \in KeptUpTo(u, j)
        BY <1>1 DEF KeptUpTo
      <3>2. IsFiniteSet(KeptUpTo(u, j)) /\ Cardinality(KeptUpTo(u, j)) <= c
        BY <1>1, <2>2, <3>1, FS_Subset
      <3>3. Cardinality(KeptUpTo(u, j)) \in Nat /\ Cardinality(KeptUpTo(u, j)) # 0
        BY <3>1, <3>2, FS_CardinalityType, FS_EmptySet
      <3> QED  BY <3>2, <3>3
    <2>6. \A j \in Kept(w) : h[Cardinality(KeptUpTo(w, j))] = AppearsAs(w[j])
      <3> TAKE j \in Kept(w)
      <3>1. CASE j \in Kept(u)
        <4>1. KeptUpTo(w, j) = KeptUpTo(u, j) /\ w[j] = u[j]
          BY <1>1, <3>1
        <4>2. g[Cardinality(KeptUpTo(u, j))] = AppearsAs(u[j])
          BY <3>1 DEF LinesOf
        <4>3. h[Cardinality(KeptUpTo(u, j))] = g[Cardinality(KeptUpTo(u, j))]
          BY <2>3, <2>5, <3>1
        <4> QED  BY <4>1, <4>2, <4>3
      <3>2. CASE j = Len(u) + 1
        <4>1. KeptUpTo(w, j) = Kept(w) /\ w[j] = v
          BY <1>1, <3>2
        <4> QED  BY <2>3, <2>4, <4>1
      <3> QED  BY <1>1, <1>3, <3>1, <3>2
    <2> QED  BY <1>3, <2>1, <2>3, <2>4, <2>6 DEF LinesOf, w
  <1> QED  BY <1>2, <1>3

(* What _inbyte() makes of a character, and what it remembers.                *)
LEMMA InByteKeeps ==
    ASSUME NEW u \in Seq(KChars), NEW v \in KChars, NEW b,
           b <=> u # <<>> /\ u[Len(u)] = "cr"
    PROVE  /\ InByte(b, v).rv = IF KeepsNext(u, v) THEN <<AppearsAs(v)>> ELSE <<>>
           /\ InByte(b, v).cr <=> v = "cr"
  BY DEF InByte, KeepsNext, AppearsAs, KChars

LEMMA ReadingStep == ASSUME ConsoleInv, inbyte PROVE ConsoleInv'
  <1>1. /\ cs.at = "read" /\ cs.out = <<>> /\ DOMAIN cs = SoftFields /\ DOMAIN ck = PortFields
        /\ ck.rx \in Seq(KChars) /\ ck.used \in Seq(KChars) /\ cs.got \in Seq(OutChars)
    BY DEF inbyte, ConsoleInv, ConsoleTypes
  <1>2. CASE ck.rx = <<>>
    <2>1. cs' = [cs EXCEPT !.at = "program", !.len = 0, !.nr = 0] /\ ck' = ck
      BY <1>2 DEF inbyte
    <2>2. /\ DOMAIN cs' = SoftFields /\ cs'.at = "program" /\ cs'.out = cs.out /\ cs'.written = cs.written
          /\ cs'.got = cs.got /\ cs'.rx_cr = cs.rx_cr
      BY <1>1, <2>1 DEF SoftFields
    <2>3. ConsoleTypes' /\ OutKept'
      BY <1>1, <2>1, <2>2 DEF ConsoleInv, ConsoleTypes, OutKept, OnItsWay
    <2> QED  BY <2>1, <2>2, <2>3, InSame DEF ConsoleInv, SameIn
  <1>3. CASE ck.rx # <<>>
    <2>1. PICK v \in KChars : v = Head(ck.rx)
      BY <1>1, <1>3, HeadTailProperties
    <2>2. PICK rv, cr : rv = InByte(cs.rx_cr, v).rv /\ cr = InByte(cs.rx_cr, v).cr
      OBVIOUS
    <2>3. /\ rv = IF KeepsNext(ck.used, v) THEN <<AppearsAs(v)>> ELSE <<>>
          /\ cr <=> v = "cr"
      BY <1>1, <2>2, InByteKeeps DEF ConsoleInv, CrKnown
    <2>4. PICK echo : echo = IF rv = <<>> THEN <<>> ELSE OutByte(rv[1])
      OBVIOUS
    <2>5. echo \in Seq(OutChars) /\ rv \in Seq(OutChars)
      <3>1. AppearsAs(v) \in KChars /\ AppearsAs(v) \in OutChars
        BY DEF AppearsAs, KChars, OutChars
      <3>2. CASE KeepsNext(ck.used, v)
        <4>1. rv = <<AppearsAs(v)>> /\ rv # <<>> /\ rv[1] = AppearsAs(v)
          BY <2>3, <3>2
        <4> QED  BY <2>4, <3>1, <4>1, OutCharsOf
      <3>3. CASE ~KeepsNext(ck.used, v)
        BY <2>3, <2>4, <3>3, OutCharsOf
      <3> QED  BY <3>2, <3>3
    <2>6. /\ cs'.rx_cr = cr /\ cs'.got = cs.got \o rv /\ cs'.out = echo
          /\ cs'.written = cs.written \o echo /\ cs'.at \in {"program", "read"}
          /\ DOMAIN cs' = SoftFields
      <3> DEFINE r == InByte(cs.rx_cr, Head(ck.rx))
                 last == (r.rv = <<>> /\ cs.nr > 0) \/ (r.rv # <<>> /\ cs.nr + 1 = cs.len)
                 e == IF r.rv = <<>> THEN <<>> ELSE OutByte(r.rv[1])
      <3>1. cs' = [cs EXCEPT !.rx_cr = r.cr, !.got = @ \o r.rv, !.out = e, !.written = @ \o e,
                             !.nr = IF last THEN 0 ELSE @ + Len(r.rv),
                             !.len = IF last THEN 0 ELSE @,
                             !.at = IF last THEN "program" ELSE @]
        BY <1>3, Zenon DEF inbyte
      <3>2. r.cr = cr /\ r.rv = rv /\ e = echo
        BY <2>1, <2>2, <2>4
      <3>3. PICK at, len, nr :
              /\ at = IF last THEN "program" ELSE cs.at
              /\ len = IF last THEN 0 ELSE cs.len
              /\ nr = IF last THEN 0 ELSE cs.nr + Len(r.rv)
        BY Zenon
      <3>4. at \in {"program", "read"}
        BY <1>1, <3>3
      <3> HIDE DEF r, last, e
      <3>5. PICK got, wr : got = cs.got \o rv /\ wr = cs.written \o echo
        BY Zenon
      <3>6. cs' = [cs EXCEPT !.rx_cr = cr, !.got = got, !.out = echo, !.written = wr,
                             !.nr = nr, !.len = len, !.at = at]
        BY <3>1, <3>2, <3>3, <3>5
      <3>7. /\ cs'.rx_cr = cr /\ cs'.got = got /\ cs'.out = echo /\ cs'.written = wr /\ cs'.at = at
            /\ DOMAIN cs' = SoftFields
        BY <1>1, <3>6 DEF SoftFields
      <3> QED  BY <3>4, <3>5, <3>7
    <2>7. /\ ck'.rx = Tail(ck.rx) /\ ck'.used = Append(ck.used, v) /\ ck'.fifo = ck.fifo
          /\ ck'.pipe = ck.pipe /\ ck'.sent = ck.sent /\ ck'.left = ck.left /\ DOMAIN ck' = PortFields
      <3>1. ck' = [ck EXCEPT !.rx = Tail(ck.rx), !.used = Append(ck.used, v)]
        BY <1>3, <2>1 DEF inbyte
      <3> QED  BY <1>1, <3>1 DEF PortFields
    <2>8. /\ ((ck.sent \o ck.pipe) \o ck.fifo) \o echo = cs.written \o echo
          /\ cs.written \o echo \in Seq(OutChars)
      BY <1>1, <2>5, WritesOut DEF ConsoleInv
    <2>9. /\ cs.got \o rv \in Seq(OutChars) /\ Tail(ck.rx) \in Seq(KChars)
          /\ Append(ck.used, v) \in Seq(KChars)
      BY <1>1, <1>3, <2>5, ConcatProperties, HeadTailProperties, AppendProperties
    <2>10. ConsoleTypes'
      BY <2>5, <2>6, <2>7, <2>8, <2>9 DEF ConsoleInv, ConsoleTypes
    <2>11. OutKept'
      BY <2>6, <2>7, <2>8 DEF ConsoleInv, OutKept, OnItsWay
    <2>12. CrKnown'
      <3>1. /\ Append(ck.used, v) # <<>>
            /\ Append(ck.used, v)[Len(Append(ck.used, v))] = v
        BY <1>1, AppendProperties
      <3> QED  BY <2>3, <2>6, <2>7, <3>1 DEF CrKnown
    <2>13. ReadsLinesTyped'
      <3>1. LinesOf(ck.used, cs.got)
        BY DEF ConsoleInv, ReadsLinesTyped, LinesOf
      <3>2. CASE KeepsNext(ck.used, v)
        <4>1. LinesOf(Append(ck.used, v), cs.got \o rv)
          BY <1>1, <2>3, <3>1, <3>2, LineGoesOn
        <4> QED  BY <2>6, <2>7, <4>1 DEF ReadsLinesTyped, LinesOf
      <3>3. CASE ~KeepsNext(ck.used, v)
        <4>1. LinesOf(Append(ck.used, v), cs.got) /\ cs.got \o rv = cs.got
          BY <1>1, <2>3, <3>1, <3>3, LineGoesOn, ConcatEmptySeq
        <4> QED  BY <2>6, <2>7, <4>1 DEF ReadsLinesTyped, LinesOf
      <3> QED  BY <3>2, <3>3
    <2> QED  BY <2>10, <2>11, <2>12, <2>13 DEF ConsoleInv
  <1> QED  BY <1>2, <1>3

(* The calls that the program makes, the end of it, and what is typed.        *)
LEMMA CallSteps ==
    ASSUME ConsoleInv, write_r \/ txchr \/ read_r \/ exit \/ hw_shutdown
    PROVE  ConsoleInv'
  <1>1. /\ DOMAIN cs = SoftFields /\ ck' = ck /\ cs.out = <<>> /\ cs.written \in Seq(OutChars)
    BY DEF write_r, txchr, read_r, exit, hw_shutdown, Calls, ConsoleInv, ConsoleTypes
  <1>2. CASE write_r \/ txchr
    <2>0. \E x \in Seq(OutChars) : \E b : cs' = [Sends(x) EXCEPT !.tx_cr = b]
      <3>1. CASE write_r
        <4>1. PICK v \in KChars : cs' = Sends(OutByte(v))
          BY <3>1 DEF write_r
        <4>2. cs' = [cs' EXCEPT !.tx_cr = cs.tx_cr]
          BY <1>1, <4>1 DEF Sends, SoftFields
        <4> QED  BY <4>1, <4>2, OutCharsOf
      <3>2. CASE txchr
        <4>1. PICK v \in KChars : cs' = [Sends(TxChr(v, cs.tx_cr)) EXCEPT !.tx_cr = v = "cr"]
          BY <3>2 DEF txchr
        <4> QED  BY <4>1, OutCharsOf
      <3> QED  BY <1>2, <3>1, <3>2
    <2>1. PICK x, b : x \in Seq(OutChars) /\ cs' = [Sends(x) EXCEPT !.tx_cr = b]
      BY <2>0
    <2>2. cs.at = "program"
      BY <1>2 DEF write_r, txchr, Calls
    <2>3. PICK wr, n : wr = cs.written \o x /\ n = cs.calls + 1
      OBVIOUS
    <2>4. cs' = [cs EXCEPT !.out = x, !.written = wr, !.calls = n, !.tx_cr = b]
      BY <2>1, <2>3 DEF Sends
    <2>5. /\ cs'.out = x /\ cs'.written = cs.written \o x /\ cs'.at = "program" /\ cs'.got = cs.got
          /\ cs'.rx_cr = cs.rx_cr /\ DOMAIN cs' = SoftFields
      BY <1>1, <2>2, <2>3, <2>4 DEF SoftFields
    <2>6. /\ ((ck.sent \o ck.pipe) \o ck.fifo) \o x = cs.written \o x
          /\ cs.written \o x \in Seq(OutChars)
      BY <1>1, <2>1, <2>2, WritesOut DEF ConsoleInv
    <2>7. ConsoleTypes' /\ OutKept'
      BY <1>1, <2>1, <2>5, <2>6 DEF ConsoleInv, ConsoleTypes, OutKept, OnItsWay
    <2> QED  BY <1>1, <2>5, <2>7, InSame DEF ConsoleInv, SameIn
  <1>3. CASE read_r
    <2>1. PICK l, n : cs' = [cs EXCEPT !.at = "read", !.len = l, !.nr = 0, !.calls = n]
      BY <1>3 DEF read_r
    <2>2. cs.at = "program"
      BY <1>3 DEF read_r, Calls
    <2>3. /\ cs'.out = cs.out /\ cs'.written = cs.written /\ cs'.at = "read" /\ cs'.got = cs.got
          /\ cs'.rx_cr = cs.rx_cr /\ DOMAIN cs' = SoftFields
      BY <1>1, <2>1 DEF SoftFields
    <2>4. ConsoleTypes' /\ OutKept'
      BY <1>1, <2>2, <2>3 DEF ConsoleInv, ConsoleTypes, OutKept, OnItsWay
    <2> QED  BY <1>1, <2>3, <2>4, InSame DEF ConsoleInv, SameIn
  <1>4. CASE exit
    <2>1. cs' = [cs EXCEPT !.at = "exit", !.out = Final] /\ cs.at = "program"
      BY <1>4 DEF exit
    <2>2. /\ cs'.out = Final /\ cs'.written = cs.written /\ cs'.at = "exit" /\ cs'.got = cs.got
          /\ cs'.rx_cr = cs.rx_cr /\ DOMAIN cs' = SoftFields
      BY <1>1, <2>1 DEF SoftFields
    <2>3. ((ck.sent \o ck.pipe) \o ck.fifo) \o Final = cs.written \o Final /\ Final \in Seq(OutChars)
      BY <1>1, <2>1, WritesOut, OutCharsOf DEF ConsoleInv
    <2>4. ConsoleTypes' /\ OutKept'
      BY <1>1, <2>2, <2>3 DEF ConsoleInv, ConsoleTypes, OutKept, OnItsWay
    <2> QED  BY <1>1, <2>2, <2>4, InSame DEF ConsoleInv, SameIn
  <1>5. CASE hw_shutdown
    <2>1. cs' = [cs EXCEPT !.at = "down"] /\ cs.at = "exit" /\ ck.fifo = <<>>
      BY <1>5 DEF hw_shutdown, TXBUSY
    <2>2. /\ cs'.out = <<>> /\ cs'.written = cs.written /\ cs'.at = "down" /\ cs'.got = cs.got
          /\ cs'.rx_cr = cs.rx_cr /\ DOMAIN cs' = SoftFields
      BY <1>1, <2>1 DEF SoftFields
    <2>3. ConsoleTypes' /\ OutKept'
      BY <1>1, <2>1, <2>2 DEF ConsoleInv, ConsoleTypes, OutKept, OnItsWay
    <2> QED  BY <1>1, <2>2, <2>3, InSame DEF ConsoleInv, SameIn
  <1> QED  BY <1>2, <1>3, <1>4, <1>5

LEMMA TypesStep == ASSUME ConsoleInv, Types PROVE ConsoleInv'
  <1>1. /\ ck.rx \in Seq(KChars) /\ ck.left \in Seq(KChars) /\ ck.left # <<>>
        /\ DOMAIN ck = PortFields /\ cs' = cs
    BY DEF Types, ConsoleInv, ConsoleTypes
  <1>2. PICK rx \in Seq(KChars), left \in Seq(KChars) : rx = Append(ck.rx, Head(ck.left)) /\ left = Tail(ck.left)
    BY <1>1, HeadMoves
  <1>3. ck' = [ck EXCEPT !.left = left, !.rx = rx]
    BY <1>2 DEF Types
  <1>4. /\ ck'.rx = rx /\ ck'.left = left /\ ck'.used = ck.used /\ ck'.fifo = ck.fifo
        /\ ck'.pipe = ck.pipe /\ ck'.sent = ck.sent /\ DOMAIN ck' = PortFields
    BY <1>1, <1>3 DEF PortFields
  <1>5. ConsoleTypes' /\ OutKept'
    BY <1>1, <1>2, <1>4 DEF ConsoleInv, ConsoleTypes, OutKept, OnItsWay
  <1> QED  BY <1>1, <1>4, <1>5, InSame DEF ConsoleInv, SameIn

(* What the software has written is what the port has sent or still holds, and a
   line is read as it was typed: at every step of the C library and of the port. *)
THEOREM ConsoleInvariant == ConsoleSpec => []ConsoleInv
  <1>1. ConsoleInv /\ [ConsoleNext]_cs_vars => ConsoleInv'
    <2> SUFFICES ASSUME ConsoleInv, [ConsoleNext]_cs_vars PROVE ConsoleInv'
      OBVIOUS
    <2>1. CASE UNCHANGED cs_vars
      BY <2>1
      DEF cs_vars, ConsoleInv, ConsoleTypes, OutKept, OnItsWay, CrKnown, ReadsLinesTyped
    <2>2. CASE ConsoleNext
      BY <2>2, MovesOut, ReadingStep, CallSteps, TypesStep DEF ConsoleNext
    <2> QED  BY <2>1, <2>2
  <1> QED  BY <1>1, ConsoleInvInit, PTL DEF ConsoleSpec

(* What is left in a pipeline that holds no more than the two final characters is
   none of what the program wrote.                                            *)
LEMMA AllHasLeft ==
    ASSUME NEW s \in Seq(OutChars), NEW p \in Seq(OutChars), NEW w \in Seq(OutChars),
           s \o p = w \o Final, Len(p) <= Len(Final)
    PROVE  IsPrefix(w, s)
  <1>1. /\ Len(s \o p) = Len(s) + Len(p) /\ Len(w \o Final) = Len(w) + Len(Final)
        /\ \A i \in 1 .. Len(s) + Len(p) : (s \o p)[i] = IF i <= Len(s) THEN s[i] ELSE p[i - Len(s)]
        /\ \A i \in 1 .. Len(w) + Len(Final) : (w \o Final)[i] = IF i <= Len(w) THEN w[i] ELSE Final[i - Len(w)]
    <2>1. PICK z \in Seq(OutChars) : z = Final
      BY OutCharsOf, Zenon
    <2>2. /\ Len(w \o z) = Len(w) + Len(z)
          /\ \A i \in 1 .. Len(w) + Len(z) : (w \o z)[i] = IF i <= Len(w) THEN w[i] ELSE z[i - Len(w)]
      BY ConcatProperties
    <2>3. /\ Len(s \o p) = Len(s) + Len(p)
          /\ \A i \in 1 .. Len(s) + Len(p) : (s \o p)[i] = IF i <= Len(s) THEN s[i] ELSE p[i - Len(s)]
      BY ConcatProperties
    <2> QED  BY <2>1, <2>2, <2>3, Zenon
  <1>2. Len(s) \in Nat /\ Len(p) \in Nat /\ Len(w) \in Nat /\ Len(Final) = 2
    BY LenProperties, OutCharsOf
  <1>3. Len(w) <= Len(s)
    BY <1>1, <1>2
  <1>4. \A i \in 1 .. Len(w) : w[i] = s[i]
    <2> TAKE i \in 1 .. Len(w)
    <2>1. i \in 1 .. Len(s) + Len(p) /\ i \in 1 .. Len(w) + Len(Final) /\ i <= Len(w) /\ i <= Len(s)
      BY <1>2, <1>3
    <2> QED  BY <1>1, <2>1
  <1>5. SubSeq(w, 1, Len(w)) = SubSeq(s, 1, Len(w))
    BY <1>2, <1>3, <1>4
  <1> QED  BY <1>3, <1>5 DEF IsPrefix

(* Nothing that a program writes is lost and lines come in as they were typed, for
   any FIFO and whatever is typed; and at the end of the program everything has
   left, as long as the pipeline behind the FIFO is no longer than what _exit()
   writes after it.                                                           *)
THEOREM ConsoleIsRight == KPipe <= Len(Final) => (ConsoleSpec => []ConsoleRight)
  <1>1. ASSUME KPipe <= Len(Final), ConsoleInv PROVE ConsoleRight
    <2>1. ConsoleKeepsAll /\ ReadsLinesTyped
      BY <1>1 DEF ConsoleInv, OutKept, OnItsWay, ConsoleKeepsAll
    <2>2. ASSUME KDown PROVE IsPrefix(cs.written, ck.sent)
      <3>1. /\ ck.sent \in Seq(OutChars) /\ ck.pipe \in Seq(OutChars) /\ cs.written \in Seq(OutChars)
            /\ ((ck.sent \o ck.pipe) \o ck.fifo) \o cs.out = cs.written \o Final
            /\ ck.fifo = <<>> /\ cs.out = <<>>
        BY <1>1, <2>2 DEF KDown, ConsoleInv, ConsoleTypes, OutKept, OnItsWay
      <3>2. PICK s \in Seq(OutChars), p \in Seq(OutChars), w \in Seq(OutChars) :
                s = ck.sent /\ p = ck.pipe /\ w = cs.written
        BY <3>1
      <3>3. ((s \o p) \o <<>>) \o <<>> = w \o Final
        BY <3>1, <3>2
      <3>4. s \o p \in Seq(OutChars)
        BY <3>2, ConcatProperties
      <3>5. s \o p = w \o Final
        BY <3>3, <3>4, ConcatEmptySeq
      <3>6. Len(p) <= Len(Final)
        <4>1. Len(p) \in Nat /\ Len(Final) = 2 /\ KPipe \in Nat /\ Len(p) <= KPipe
          BY <1>1, <3>2, LenProperties, OutCharsOf, ConsoleAssumption
          DEF ConsoleInv, OutKept, ConsoleAssumption
        <4> QED  BY <1>1, <4>1
      <3> QED  BY <3>2, <3>5, <3>6, AllHasLeft
    <2> QED  BY <2>1, <2>2 DEF ConsoleRight, ExitSendsAll
  <1>2. CASE KPipe <= Len(Final)
    <2>1. ConsoleInv => ConsoleRight
      BY <1>1, <1>2
    <2> QED  BY <2>1, ConsoleInvariant, PTL
  <1> QED  BY <1>2

-----------------------------------------------------------------------------
(* The calendar.  A month is as long as the table says it is: where it ends, the
   days before the next one are those before it and its own.                  *)
Years == {y \in Nat : y >= 1970}
LeapsBefore(n) == {yy \in 1970 .. n - 1 : Leap(yy)}
LeapDay(y) == IF Leap(y) THEN 1 ELSE 0
LEMMA MonthsAdd ==
    ASSUME NEW y \in Nat, NEW m \in 1 .. 11
    PROVE  /\ DaysBefore(y, m + 1) = DaysBefore(y, m) + MonthLen(y, m)
           /\ DaysBefore(y, m) \in Nat /\ MonthLen(y, m) \in Nat
  <1>1. m = 1 \/ m = 2 \/ m = 3 \/ m = 4 \/ m = 5 \/ m = 6 \/ m = 7 \/ m = 8 \/ m = 9 \/ m = 10 \/ m = 11
    OBVIOUS
  <1>2. CASE m = 1
    BY <1>2 DEF DaysBefore, MonthLen
  <1>3. CASE m = 2
    BY <1>3 DEF DaysBefore, MonthLen
  <1>4. CASE m \in {3, 4, 5}
    BY <1>4 DEF DaysBefore, MonthLen
  <1>5. CASE m \in {6, 7, 8}
    BY <1>5 DEF DaysBefore, MonthLen
  <1>6. CASE m \in {9, 10, 11}
    BY <1>6 DEF DaysBefore, MonthLen
  <1> QED  BY <1>1, <1>2, <1>3, <1>4, <1>5, <1>6

LEMMA YearsAdd ==
    ASSUME NEW y \in Years
    PROVE  /\ YearDays(y + 1) = YearDays(y) + DaysBefore(y, 12) + 31
           /\ YearDays(y) \in Int /\ DaysBefore(y + 1, 1) = 0
  <1>0. y \in Nat /\ y >= 1970
    BY DEF Years
  <1>1. IsFiniteSet(LeapsBefore(y)) /\ Cardinality(LeapsBefore(y)) \in Nat
    <2>1. PICK S : S = 1970 .. y - 1
      OBVIOUS
    <2>2. LeapsBefore(y) \in SUBSET S /\ IsFiniteSet(S)
      BY <1>0, <2>1, FS_Interval DEF LeapsBefore
    <2>3. IsFiniteSet(LeapsBefore(y))
      BY <2>2, FS_Subset
    <2> QED  BY <2>3, FS_CardinalityType
  <1>2. CASE Leap(y)
    <2>1. LeapsBefore(y + 1) = LeapsBefore(y) \cup {y}
      <3>1. \A k : k \in 1970 .. y + 1 - 1 <=> k \in 1970 .. y - 1 \/ k = y
        BY <1>0
      <3> QED  BY <1>0, <1>2, <3>1 DEF LeapsBefore, Leap
    <2>2. y \notin LeapsBefore(y)
      BY <1>0 DEF LeapsBefore
    <2>3. Cardinality(LeapsBefore(y) \cup {y}) = Cardinality(LeapsBefore(y)) + 1
      BY <1>1, <2>2, FS_AddElement
    <2> QED  BY <2>1, <2>3, <1>0, <1>1, <1>2 DEF YearDays, LeapsBefore, DaysBefore
  <1>3. CASE ~Leap(y)
    <2>1. LeapsBefore(y + 1) = LeapsBefore(y)
      <3>1. \A k : k \in 1970 .. y + 1 - 1 <=> k \in 1970 .. y - 1 \/ k = y
        BY <1>0
      <3> QED  BY <1>0, <1>3, <3>1 DEF LeapsBefore, Leap
    <2> QED  BY <2>1, <1>0, <1>1, <1>3 DEF YearDays, LeapsBefore, DaysBefore
  <1> QED  BY <1>2, <1>3

DateOK(c) == c \in [y : Years, m : 1 .. 12, d : Nat] /\ 1 <= c.d /\ c.d <= MonthLen(c.y, c.m)

LEMMA DayStep ==
    ASSUME DateOK(cd), DayPasses
    PROVE  DateOK(cd') /\ days_since_epoch(cd') = days_since_epoch(cd) + 1
  <1>1. PICK y \in Years, m \in 1 .. 12, d \in Nat :
          cd = [y |-> y, m |-> m, d |-> d] /\ 1 <= d /\ d <= MonthLen(y, m)
    BY DEF DateOK
  <1>2. /\ MonthLen(y, m) \in Nat /\ 28 <= MonthLen(y, m) /\ DaysBefore(y, m) \in Nat /\ y \in Nat
        /\ MonthLen(y, 12) = 31 /\ \A yy \in Nat : MonthLen(yy, 1) = 31
    BY DEF MonthLen, DaysBefore, Years
  <1>3. days_since_epoch(cd) = d + DaysBefore(y, m) + YearDays(y) /\ YearDays(y) \in Int
    BY <1>1, YearsAdd DEF days_since_epoch
  <1>4. CASE d < MonthLen(y, m)
    <2>1. cd' = [y |-> y, m |-> m, d |-> d + 1]
      BY <1>1, <1>4 DEF DayPasses
    <2>2. DateOK(cd')
      BY <1>1, <1>2, <1>4, <2>1 DEF DateOK
    <2>3. days_since_epoch(cd') = d + 1 + DaysBefore(y, m) + YearDays(y)
      BY <2>1 DEF days_since_epoch
    <2> QED  BY <1>2, <1>3, <2>2, <2>3
  <1>5. CASE ~(d < MonthLen(y, m)) /\ m < 12
    <2>1. cd' = [y |-> y, m |-> m + 1, d |-> 1] /\ d = MonthLen(y, m) /\ m \in 1 .. 11
      <3>1. PICK n \in Nat : n = m + 1
        BY <1>1
      <3>2. cd' = [cd EXCEPT !.d = 1, !.m = n]
        BY <1>1, <1>5, <3>1 DEF DayPasses
      <3>3. d = MonthLen(y, m)
        BY <1>1, <1>2, <1>5
      <3>4. cd' = [y |-> y, m |-> n, d |-> 1]
        BY <1>1, <3>2
      <3>5. m \in 1 .. 11
        BY <1>1, <1>5
      <3> QED  BY <3>1, <3>3, <3>4, <3>5
    <2>2. DateOK(cd')
      <3>1. m + 1 \in 1 .. 12 /\ 1 <= MonthLen(y, m + 1)
        BY <2>1 DEF MonthLen
      <3> QED  BY <1>1, <2>1, <3>1 DEF DateOK
    <2>3. days_since_epoch(cd') = 1 + DaysBefore(y, m + 1) + YearDays(y)
      BY <2>1 DEF days_since_epoch
    <2>4. DaysBefore(y, m + 1) = DaysBefore(y, m) + MonthLen(y, m)
      BY <1>2, <2>1, MonthsAdd
    <2> QED  BY <1>2, <1>3, <2>1, <2>2, <2>3, <2>4
  <1>6. CASE ~(d < MonthLen(y, m)) /\ m = 12
    <2>1. cd' = [y |-> y + 1, m |-> 1, d |-> 1] /\ d = 31
      BY <1>1, <1>2, <1>6 DEF DayPasses
    <2>2. DateOK(cd')
      BY <1>2, <2>1 DEF DateOK, Years
    <2>3. days_since_epoch(cd') = 1 + DaysBefore(y + 1, 1) + YearDays(y + 1)
      BY <2>1 DEF days_since_epoch
    <2> QED  BY <1>2, <1>3, <1>6, <2>1, <2>2, <2>3, YearsAdd
  <1> QED  BY <1>1, <1>4, <1>5, <1>6

LEMMA CalendarBegins == ConsoleInit => DateOK(cd)
  <1>1. KYears \in SUBSET Nat /\ KYears # {} /\ KYears \subseteq Years
    BY ConsoleAssumption DEF ConsoleAssumption, Years
  <1>2. PICK y \in KYears : y = CHOOSE e \in KYears : \A f \in KYears : e <= f
    BY <1>1, FirstOf
  <1>3. ConsoleInit => cd = [y |-> y, m |-> 1, d |-> 1]
    BY <1>2 DEF ConsoleInit
  <1> QED  BY <1>1, <1>3 DEF DateOK, MonthLen

(* The time of day goes up by one day from each day to the next, over every end of a
   month and of a year, whatever the years: _gettimeofday_r() with the leap years
   of rtcdate.v.                                                              *)
THEOREM CalendarCountsDays == CalendarSpec => DayAfterDay
  <1>1. DateOK(cd) /\ [DayPasses]_cs_vars => DateOK(cd)'
    BY DayStep DEF cs_vars
  <1>2. /\ DateOK(cd) /\ [DayPasses]_cs_vars
        => [cd' # cd => days_since_epoch(cd') = days_since_epoch(cd) + 1]_cs_vars
    BY DayStep DEF cs_vars
  <1> QED  BY <1>1, <1>2, CalendarBegins, PTL DEF CalendarSpec, DayAfterDay

-----------------------------------------------------------------------------
(* testb.h: init(12308), init(40000), init(40000) and init(10000).  The first edge
   comes a unit early, and no two edges may be only one unit apart.           *)
FarApart == \A c \in Clocks : INCREMENT[c] % 2 = 0 /\ INCREMENT[c] > 2

-----------------------------------------------------------------------------
(* The clocks: how long ago its last callback was is told by a clock's phase, and
   after the first edge all the edges are at even times.                      *)
TbFields == {"ph", "since", "ok", "eth"}
ClocksTold ==
    /\ DOMAIN tb = TbFields /\ tb.ph \in [Clocks -> Nat] /\ DOMAIN tb.since = Clocks
    /\ \A c \in Clocks :
        /\ tb.ph[c] < 2 * INCREMENT[c]
        /\ tb.since[c] = IF tb.ph[c] >= INCREMENT[c] THEN tb.ph[c] - INCREMENT[c] ELSE tb.ph[c] + INCREMENT[c]
EvenPhases ==
    \/ \A c \in Clocks : tb.ph[c] = INCREMENT[c] + 1
    \/ \A c \in Clocks : tb.ph[c] % 2 = 0
ClockInv == ClocksTold /\ EvenPhases /\ tb.ok = TRUE

LEMMA LeastOf ==
    ASSUME NEW T \in SUBSET Nat, T # {}
    PROVE  Min(T) \in T /\ \A y \in T : Min(T) <= y
  <1>1. \A y, x : <<y, x>> \in OpToRel(<, Nat) <=> (y \in Nat /\ x \in Nat /\ y < x)
    BY Zenon DEF OpToRel
  <1>2. PICK x \in T : \A y \in T : ~(<<y, x>> \in OpToRel(<, Nat))
    BY NatLessThanWellFounded, WFMin
  <1>3. \A y \in T : ~(y < x)
    BY <1>1, <1>2
  <1>4. \A y \in T : x <= y
    BY <1>3
  <1> QED  BY <1>4 DEF Min

(* The step is to the nearest edge.                                           *)
LEMMA NearestEdge ==
    ASSUME NEW ph \in [Clocks -> Nat], \A c \in Clocks : ph[c] < 2 * INCREMENT[c]
    PROVE  /\ \E c \in Clocks : mintime(ph) = time_to_edge(INCREMENT[c], ph[c])
           /\ \A c \in Clocks : mintime(ph) <= time_to_edge(INCREMENT[c], ph[c])
           /\ mintime(ph) \in Nat \ {0}
  <1>1. \A c \in Clocks : INCREMENT[c] \in Nat \ {0} /\ ph[c] \in Nat
    BY MainTbAssumption
  <1>2. \A c \in Clocks : time_to_edge(INCREMENT[c], ph[c]) \in Nat \ {0}
    BY <1>1 DEF time_to_edge
  <1>3. PICK T : T = {time_to_edge(INCREMENT[c], ph[c]) : c \in Clocks}
    OBVIOUS
  <1>4. T \in SUBSET Nat /\ T # {}
    <2>1. "clk" \in Clocks
      BY DEF Clocks
    <2> QED  BY <1>2, <1>3, <2>1
  <1>5. Min(T) \in T /\ \A y \in T : Min(T) <= y
    BY <1>4, LeastOf
  <1> QED  BY <1>2, <1>3, <1>5 DEF mintime

(* What a tick is for one clock: it comes to its next edge, or towards it.    *)
LEMMA ClockAdvances ==
    ASSUME NEW inc \in Nat \ {0}, NEW ph \in Nat, ph < 2 * inc, NEW t \in Nat \ {0}, t <= time_to_edge(inc, ph),
           NEW s, s = IF ph >= inc THEN ph - inc ELSE ph + inc,
           NEW p, p = AdvancePhase(inc, ph, t)
    PROVE  /\ p \in Nat /\ p < 2 * inc /\ t <= inc
           /\ (IF falling_edge(inc, p) THEN 0 ELSE s + t) = IF p >= inc THEN p - inc ELSE p + inc
  BY DEF time_to_edge, AdvancePhase, falling_edge

LEMMA EvenStep ==
    ASSUME NEW inc \in Nat \ {0}, inc % 2 = 0, inc > 2, NEW ph \in Nat, ph < 2 * inc, NEW t \in Nat
    PROVE  /\ time_to_edge(inc, ph) % 2 = ph % 2
           /\ ph = inc + 1 => time_to_edge(inc, ph) > 1 /\ ph % 2 = 1
           /\ t % 2 = ph % 2 => AdvancePhase(inc, ph, t) % 2 = 0
  BY DEF time_to_edge, AdvancePhase

LEMMA ClockInit == FarApart /\ MainTbInit => ClockInv
  BY MainTbAssumption
  DEF FarApart, MainTbInit, ClockInv, ClocksTold, EvenPhases, InitPhase, TbFields

LEMMA ClockStep == ASSUME FarApart, ClockInv, Tick PROVE ClockInv'
  <1>1. PICK t \in Nat \ {0} :
          /\ t = mintime(tb.ph) /\ \A c \in Clocks : t <= time_to_edge(INCREMENT[c], tb.ph[c])
          /\ \E c \in Clocks : t = time_to_edge(INCREMENT[c], tb.ph[c])
    BY NearestEdge DEF ClockInv, ClocksTold
  <1>2. PICK p : p = [c \in Clocks |-> AdvancePhase(INCREMENT[c], tb.ph[c], t)]
    OBVIOUS
  <1>3. /\ tb'.ph = p
        /\ tb'.since = [c \in Clocks |-> IF falling_edge(INCREMENT[c], p[c]) THEN 0 ELSE tb.since[c] + t]
        /\ tb'.ok = (/\ t > 1 /\ \A c \in Clocks : ClockOk(INCREMENT[c], tb.ph[c]) /\ t <= INCREMENT[c])
        /\ DOMAIN tb' = TbFields
    BY <1>1, <1>2, Zenon DEF Tick, ClockInv, ClocksTold, TbFields
  <1>4. \A c \in Clocks :
          /\ INCREMENT[c] \in Nat \ {0} /\ tb.ph[c] \in Nat /\ tb.ph[c] < 2 * INCREMENT[c]
          /\ INCREMENT[c] % 2 = 0 /\ INCREMENT[c] > 2
    BY MainTbAssumption DEF FarApart, ClockInv, ClocksTold
  <1>5. \A c \in Clocks :
          /\ p[c] \in Nat /\ p[c] < 2 * INCREMENT[c] /\ t <= INCREMENT[c]
          /\ tb'.since[c] = IF p[c] >= INCREMENT[c] THEN p[c] - INCREMENT[c] ELSE p[c] + INCREMENT[c]
    <2> TAKE c \in Clocks
    <2>1. PICK s : s = tb.since[c]
      OBVIOUS
    <2>2. s = IF tb.ph[c] >= INCREMENT[c] THEN tb.ph[c] - INCREMENT[c] ELSE tb.ph[c] + INCREMENT[c]
      BY <2>1 DEF ClockInv, ClocksTold
    <2>3. p[c] = AdvancePhase(INCREMENT[c], tb.ph[c], t)
      BY <1>2
    <2>4. tb'.since[c] = IF falling_edge(INCREMENT[c], p[c]) THEN 0 ELSE s + t
      BY <1>3, <2>1
    <2> QED  BY <1>1, <1>4, <2>2, <2>3, <2>4, ClockAdvances
  <1>6. ClocksTold'
    <2>1. p \in [Clocks -> Nat]
      BY <1>2, <1>5
    <2> QED  BY <1>3, <1>5, <2>1 DEF ClocksTold
  <1>7. EvenPhases' /\ t > 1
    <2>1. PICK k \in Clocks : t = time_to_edge(INCREMENT[k], tb.ph[k])
      BY <1>1
    <2>2. t % 2 = tb.ph[k] % 2 /\ (tb.ph[k] = INCREMENT[k] + 1 => t > 1)
      BY <1>4, <2>1, EvenStep
    <2>3. \A c \in Clocks : tb.ph[c] % 2 = tb.ph[k] % 2
      <3>1. CASE \A c \in Clocks : tb.ph[c] = INCREMENT[c] + 1
        <4>1. \A c \in Clocks : tb.ph[c] % 2 = 1
          BY <1>4, <3>1, EvenStep
        <4> QED  BY <4>1
      <3>2. CASE \A c \in Clocks : tb.ph[c] % 2 = 0
        BY <3>2
      <3> QED  BY <3>1, <3>2 DEF ClockInv, EvenPhases
    <2>4. \A c \in Clocks : p[c] % 2 = 0
      BY <1>1, <1>2, <1>4, <2>2, <2>3, EvenStep
    <2>5. t > 1
      <3>1. CASE \A c \in Clocks : tb.ph[c] = INCREMENT[c] + 1
        BY <2>2, <3>1
      <3>2. CASE \A c \in Clocks : tb.ph[c] % 2 = 0
        BY <1>1, <2>2, <3>2
      <3> QED  BY <3>1, <3>2 DEF ClockInv, EvenPhases
    <2> QED  BY <1>3, <2>4, <2>5 DEF EvenPhases
  <1>8. tb'.ok = TRUE
    BY <1>3, <1>4, <1>5, <1>7 DEF ClockOk
  <1> QED  BY <1>6, <1>7, <1>8 DEF ClockInv

LEMMA ClockNext == FarApart /\ ClockInv /\ [MainTbNext]_tb_vars => ClockInv'
  <1> SUFFICES ASSUME FarApart, ClockInv, [MainTbNext]_tb_vars PROVE ClockInv'
    OBVIOUS
  <1>1. CASE tb' = tb
    BY <1>1 DEF ClockInv, ClocksTold, EvenPhases
  <1>2. CASE Tick
    BY <1>2, ClockStep
  <1> QED  BY <1>1, <1>2 DEF MainTbNext, MainTbBuild, tb_vars

(* No step of the simulation jumps over an edge of one of the clocks, and no
   assertion of testb.h or tbclock.h fails: TESTB::tick(), TBCLOCK::advance().  *)
THEOREM ClocksInStep == FarApart => (MainTbSpec => []NoEdgeSkipped)
  <1>1. ClockInv => NoEdgeSkipped
    BY MainTbAssumption DEF ClockInv, ClocksTold, NoEdgeSkipped, falling_edge
  <1>2. FarApart => (MainTbInit => ClockInv)
    BY ClockInit
  <1>3. FarApart => (ClockInv /\ [MainTbNext]_tb_vars => ClockInv')
    BY ClockNext
  <1>4. CASE FarApart
    <2>1. MainTbInit => ClockInv
      BY <1>2, <1>4
    <2>2. ClockInv /\ [MainTbNext]_tb_vars => ClockInv'
      BY <1>3, <1>4
    <2> QED  BY <1>1, <2>1, <2>2, PTL DEF MainTbSpec
  <1> QED  BY <1>4

-----------------------------------------------------------------------------
(* The Ethernet loop.  Both of its clocks have the same period and begin together:
   testb.h, init(40000).  Between their falling edge and the next rising one the
   nibble that was sent is at the input.                                      *)
OnePeriod == INCREMENT["eth_rx"] = INCREMENT["eth_tx"]
EthFields == {"o_eth_txd", "i_eth_rxd", "got", "was", "n"}
NibbleInv ==
    /\ DOMAIN tb = TbFields /\ DOMAIN tb.ph = Clocks /\ DOMAIN tb.eth = EthFields
    /\ tb.eth.o_eth_txd \in 0 .. 2 /\ tb.eth.n \in 0 .. 2
    /\ tb.ph["eth_rx"] = tb.ph["eth_tx"]
    /\ tb.ph["eth_rx"] >= INCREMENT["eth_rx"] => tb.eth.i_eth_rxd = tb.eth.o_eth_txd
    /\ tb.eth.n > 0 => tb.eth.o_eth_txd = (tb.eth.got + 1) % NIBBLES
    /\ NibblesComeBack

LEMMA NibbleInit == OnePeriod /\ MainTbInit => NibbleInv
  BY
  DEF OnePeriod, MainTbInit, NibbleInv, NibblesComeBack, InitPhase, TbFields,
      EthFields, Clocks, NIBBLES

LEMMA NibbleStep ==
    ASSUME OnePeriod, FarApart, ClockInv, NibbleInv, Tick PROVE NibbleInv'
  <1>1. PICK t \in Nat \ {0} :
          t = mintime(tb.ph) /\ \A c \in Clocks : t <= time_to_edge(INCREMENT[c], tb.ph[c])
    BY NearestEdge DEF ClockInv, ClocksTold
  <1>2. PICK inc \in Nat \ {0}, h \in Nat :
          /\ inc = INCREMENT["eth_rx"] /\ h = tb.ph["eth_rx"] /\ h < 2 * inc /\ t <= time_to_edge(inc, h)
          /\ inc = INCREMENT["eth_tx"] /\ h = tb.ph["eth_tx"]
    BY <1>1, MainTbAssumption DEF OnePeriod, NibbleInv, ClockInv, ClocksTold, Clocks
  <1>3. PICK g : g = AdvancePhase(inc, h, t)
    OBVIOUS
  <1>4. PICK p : p = [c \in Clocks |-> AdvancePhase(INCREMENT[c], tb.ph[c], t)]
    OBVIOUS
  <1>5. p["eth_rx"] = g /\ p["eth_tx"] = g
    BY <1>2, <1>3, <1>4 DEF Clocks
  <1>6. PICK e : e = DesignEth(tb.eth, p)
    OBVIOUS
  <1>7. /\ tb'.ph = p /\ DOMAIN tb' = TbFields
        /\ tb'.eth = IF falling_edge(inc, g) THEN sim_eth_rx_clk_tick(e) ELSE e
    <2>1. tb'.eth = IF falling_edge(INCREMENT["eth_rx"], p["eth_rx"]) THEN sim_eth_rx_clk_tick(e) ELSE e
      BY <1>1, <1>4, <1>6, Zenon DEF Tick, NibbleInv, TbFields
    <2>2. tb'.ph = p /\ DOMAIN tb' = TbFields
      BY <1>1, <1>4, Zenon DEF Tick, NibbleInv, TbFields
    <2> QED  BY <1>2, <1>5, <2>1, <2>2
  <1>8. /\ g \in Nat
        /\ g = 0 => h >= inc
        /\ g >= inc /\ ~falling_edge(inc, g) => h >= inc /\ ~rising_edge(g)
    BY <1>1, <1>2, <1>3 DEF AdvancePhase, time_to_edge, falling_edge, rising_edge
  <1>9. PICK o, i, got, was, n :
          o = tb.eth.o_eth_txd /\ i = tb.eth.i_eth_rxd /\ got = tb.eth.got /\ was = tb.eth.was /\ n = tb.eth.n
    OBVIOUS
  <1>10. o \in 0 .. 2 /\ n \in 0 .. 2
    BY <1>9 DEF NibbleInv
  <1>11. /\ e.o_eth_txd = (IF rising_edge(g) THEN (o + 1) % NIBBLES ELSE o)
         /\ e.i_eth_rxd = i /\ DOMAIN e = EthFields
         /\ e.got = (IF rising_edge(g) THEN i ELSE got)
         /\ e.was = (IF rising_edge(g) THEN got ELSE was)
         /\ e.n = (IF rising_edge(g) /\ n < 2 THEN n + 1 ELSE n)
    BY <1>5, <1>6, <1>9 DEF DesignEth, NibbleInv, EthFields
  <1>12. /\ tb'.eth.o_eth_txd = e.o_eth_txd /\ tb'.eth.got = e.got /\ tb'.eth.was = e.was /\ tb'.eth.n = e.n
         /\ tb'.eth.i_eth_rxd = (IF falling_edge(inc, g) THEN e.o_eth_txd ELSE i) /\ DOMAIN tb'.eth = EthFields
    BY <1>7, <1>11 DEF sim_eth_rx_clk_tick, EthFields
  <1>13. /\ h >= inc => i = o
         /\ n > 0 => o = (got + 1) % NIBBLES
         /\ n = 2 => got = (was + 1) % NIBBLES
    BY <1>2, <1>9 DEF NibbleInv, NibblesComeBack
  <1>14. CASE rising_edge(g)
    <2>1. g = 0 /\ i = o /\ ~falling_edge(inc, g) /\ ~(g >= inc)
      BY <1>2, <1>8, <1>13, <1>14 DEF rising_edge, falling_edge
    <2>2. /\ tb'.eth.o_eth_txd = (o + 1) % NIBBLES /\ tb'.eth.got = o /\ tb'.eth.was = got
          /\ tb'.eth.n = IF n < 2 THEN n + 1 ELSE n
      BY <1>11, <1>12, <1>14, <2>1
    <2>3. NibblesComeBack'
      BY <1>10, <1>13, <2>2 DEF NibblesComeBack
    <2>4. tb'.eth.n \in 0 .. 2 /\ tb'.eth.o_eth_txd \in 0 .. 2
      BY <1>10, <2>2 DEF NIBBLES
    <2> QED  BY <1>2, <1>4, <1>5, <1>7, <1>12, <2>1, <2>2, <2>3, <2>4 DEF NibbleInv
  <1>15. CASE ~rising_edge(g)
    <2>1. /\ tb'.eth.o_eth_txd = o /\ tb'.eth.got = got /\ tb'.eth.was = was /\ tb'.eth.n = n
          /\ tb'.eth.i_eth_rxd = IF falling_edge(inc, g) THEN o ELSE i
      BY <1>11, <1>12, <1>15
    <2>2. NibblesComeBack'
      BY <1>13, <2>1 DEF NibblesComeBack
    <2> QED  BY <1>2, <1>4, <1>5, <1>7, <1>8, <1>10, <1>12, <1>13, <2>1, <2>2
      DEF NibbleInv
  <1> QED  BY <1>14, <1>15

-----------------------------------------------------------------------------
(* The simulated SDRAM.  The places of the ring by their distance from the head. *)
Behind(h, L) == [a \in 0 .. L - 1 |-> (h - a) % L]

LEMMA BehindFacts ==
    ASSUME NEW L \in Nat \ {0}, NEW h \in 0 .. L - 1
    PROVE  /\ (h + 1) % L \in 0 .. L - 1
           /\ Behind(h, L) \in [0 .. L - 1 -> 0 .. L - 1]
           /\ Behind((h + 1) % L, L)[0] = (h + 1) % L
           /\ \A a \in 1 .. L - 1 : /\ Behind((h + 1) % L, L)[a] = Behind(h, L)[a - 1]
                                    /\ Behind((h + 1) % L, L)[a] # (h + 1) % L
           /\ \A a \in 1 .. L : (h + 1 - a) % L = Behind(h, L)[a - 1]
  <1>1. (h + 1) % L = IF h = L - 1 THEN 0 ELSE h + 1
    OBVIOUS
  <1>2. \A g \in 0 .. L - 1, a \in 0 .. L - 1 : Behind(g, L)[a] = IF g >= a THEN g - a ELSE g - a + L
    <2>1. \A g \in 0 .. L - 1, a \in 0 .. L - 1 : (g - a) % L = IF g >= a THEN g - a ELSE g - a + L
      OBVIOUS
    <2> QED  BY <2>1 DEF Behind
  <1>3. \A a \in 1 .. L : (h + 1 - a) % L = Behind(h, L)[a - 1]
    <2> TAKE a \in 1 .. L
    <2>1. h + 1 - a = h - (a - 1) /\ a - 1 \in 0 .. L - 1
      OBVIOUS
    <2> QED  BY <2>1, Zenon DEF Behind
  <1>4. PICK g \in 0 .. L - 1 : g = (h + 1) % L
    BY <1>1
  <1>5. \A a \in 0 .. L - 1 : (h - a) % L \in 0 .. L - 1
    OBVIOUS
  <1>6. Behind(h, L) \in [0 .. L - 1 -> 0 .. L - 1]
    BY <1>5 DEF Behind
  <1>7. Behind(g, L)[0] = g
    BY <1>2
  <1>8. \A a \in 1 .. L - 1 : Behind(g, L)[a] = Behind(h, L)[a - 1] /\ Behind(g, L)[a] # g
    <2> TAKE a \in 1 .. L - 1
    <2>1. a \in 0 .. L - 1 /\ a - 1 \in 0 .. L - 1
      OBVIOUS
    <2>2. g = IF h = L - 1 THEN 0 ELSE h + 1
      BY <1>1, <1>4
    <2>3. Behind(g, L)[a] = IF g >= a THEN g - a ELSE g - a + L
      BY <1>2, <2>1
    <2>4. Behind(h, L)[a - 1] = IF h >= a - 1 THEN h - (a - 1) ELSE h - (a - 1) + L
      BY <1>2, <2>1
    <2> QED  BY <2>2, <2>3, <2>4
  <1> QED  BY <1>3, <1>4, <1>6, <1>7, <1>8

(* The ring holds the answers of the requests q that wait: each as far behind the
   head as it has waited, and no other.                                       *)
Item == [age : Nat, rd : BOOLEAN, v : MVALS]
Right(item, x) == item.rd => x = item.v
Holds(B, d, acks, data, q) ==
    /\ \A i \in 1 .. Len(q) : q[i].age < d /\ B[q[i].age] \in acks /\ Right(q[i], data[B[q[i].age]])
    /\ \A a \in 0 .. d - 1 : B[a] \in acks => \E i \in 1 .. Len(q) : q[i].age = a
    /\ \A i, j \in 1 .. Len(q) : i < j => q[i].age > q[j].age

LEMMA AgedFacts ==
    ASSUME NEW q \in Seq(Item)
    PROVE  /\ Aged(q) \in Seq(Item) /\ Len(Aged(q)) = Len(q)
           /\ \A i \in 1 .. Len(q) : /\ q[i] \in Item /\ q[i].age \in Nat /\ Aged(q)[i].age = q[i].age + 1
                                     /\ \A x : Right(Aged(q)[i], x) <=> Right(q[i], x)
  <1>1. PICK n \in Nat : n = Len(q)
    BY LenProperties
  <1>2. \A i \in 1 .. n : q[i] \in Item
    BY <1>1, ElementOfSeq
  <1>3. PICK p : p = Aged(q)
    OBVIOUS
  <1>4. p = [i \in 1 .. n |-> [q[i] EXCEPT !.age = @ + 1]]
    BY <1>1, <1>3 DEF Aged
  <1>5. ASSUME NEW i \in 1 .. n
        PROVE  /\ p[i] \in Item /\ p[i].age = q[i].age + 1 /\ q[i].age \in Nat
               /\ \A x : Right(p[i], x) <=> Right(q[i], x)
    <2>1. PICK r \in Item : r = q[i]
      BY <1>2
    <2>2. p[i] = [r EXCEPT !.age = r.age + 1]
      BY <1>4, <2>1
    <2>3. /\ p[i] \in Item /\ p[i].age = r.age + 1 /\ r.age \in Nat /\ p[i].rd = r.rd /\ p[i].v = r.v
      BY <2>2, SMTT(60) DEF Item
    <2> QED  BY <2>1, <2>3, Zenon DEF Right
  <1>6. p \in Seq(Item) /\ Len(p) = n
    <2>1. PICK f \in [1 .. n -> Item] : f = p
      <3>1. p \in [1 .. n -> Item]
        BY <1>4, <1>5, Zenon
      <3> QED  BY <3>1
    <2> QED  BY <2>1
  <1> QED  BY <1>1, <1>2, <1>3, <1>5, <1>6

(* The head goes on to g, where a request that there is now is put.            *)
Turned(B, C, g, L) ==
    /\ B \in [0 .. L - 1 -> 0 .. L - 1] /\ C \in [0 .. L - 1 -> 0 .. L - 1] /\ C[0] = g
    /\ \A a \in 1 .. L - 1 : C[a] = B[a - 1] /\ C[a] # g
Changes(g, L, acks, acks2, data, data2) ==
    \A k \in 0 .. L - 1 : k # g => (k \in acks2 <=> k \in acks) /\ data2[k] = data[k]
Asked(new, g, acks2, data2) == new.age = 0 /\ (g \in acks2 => Right(new, data2[g]))

Grown(p, q, new, g, acks2) == p = IF g \in acks2 THEN Append(Aged(q), new) ELSE Aged(q)

(* What one clock of a cycle turns the ring into; last is where the answer comes
   from.                                                                      *)
Turning(d, L, B, C, g, acks, acks2, data, data2, q, new, p, last) ==
    /\ d \in Nat \ {0} /\ L \in Nat /\ d <= L /\ Turned(B, C, g, L) /\ last = B[d - 1]
    /\ Changes(g, L, acks, acks2, data, data2)
    /\ q \in Seq(Item) /\ Holds(B, d, acks, data, q)
    /\ new \in Item /\ Asked(new, g, acks2, data2) /\ Grown(p, q, new, g, acks2)
MemAnswered(last, d, C, acks, acks2, data, data2, p) ==
    /\ p \in Seq(Item)
    /\ last \in acks => /\ p # <<>> /\ p[1].age = d /\ Right(p[1], data[last])
                        /\ Tail(p) \in Seq(Item) /\ Holds(C, d, acks2, data2, Tail(p))
    /\ last \notin acks => Holds(C, d, acks2, data2, p)
(* One clock of a cycle: what is in the ring where the answer comes from is the
   answer of the oldest request, if that one has waited long enough.          *)
LEMMA RingStep ==
    ASSUME NEW d, NEW L, NEW B, NEW C, NEW g, NEW acks, NEW acks2, NEW data, NEW data2,
           NEW q, NEW new, NEW p, NEW last,
           Turning(d, L, B, C, g, acks, acks2, data, data2, q, new, p, last)
    PROVE  MemAnswered(last, d, C, acks, acks2, data, data2, p)
  <1> SUFFICES ASSUME d \in Nat \ {0}, L \in Nat, d <= L, Turned(B, C, g, L),
                      Changes(g, L, acks, acks2, data, data2),
                      q \in Seq(Item), Holds(B, d, acks, data, q),
                      new \in Item, Asked(new, g, acks2, data2), Grown(p, q, new, g, acks2)
               PROVE  /\ p \in Seq(Item)
                      /\ B[d - 1] \in acks =>
                           /\ p # <<>> /\ p[1].age = d /\ Right(p[1], data[B[d - 1]])
                           /\ Tail(p) \in Seq(Item) /\ Holds(C, d, acks2, data2, Tail(p))
                      /\ B[d - 1] \notin acks => Holds(C, d, acks2, data2, p)
    BY DEF Turning, MemAnswered
  <1>1. /\ L \in Nat \ {0} /\ g \in 0 .. L - 1 /\ d - 1 \in 0 .. L - 1
        /\ \A a \in 0 .. L - 1 : B[a] \in 0 .. L - 1
        /\ C[0] = g /\ \A a \in 1 .. L - 1 : C[a] = B[a - 1] /\ C[a] # g
    <2>1. 0 \in 0 .. L - 1 /\ d - 1 \in 0 .. L - 1 /\ L \in Nat \ {0}
      OBVIOUS
    <2> QED  BY <2>1 DEF Turned
  <1>2. PICK n \in Nat : n = Len(q)
    BY LenProperties
  <1>3. PICK w \in Seq(Item) : w = Aged(q)
    BY AgedFacts
  <1>4. /\ Len(w) = n
        /\ \A i \in 1 .. n : /\ q[i] \in Item /\ q[i].age \in Nat /\ w[i].age = q[i].age + 1
                             /\ \A x : Right(w[i], x) <=> Right(q[i], x)
    BY <1>2, <1>3, AgedFacts
  <1>5. PICK m \in Nat : m = IF g \in acks2 THEN n + 1 ELSE n
    OBVIOUS
  <1>6. /\ p \in Seq(Item) /\ Len(p) = m
        /\ \A i \in 1 .. n : p[i] = w[i]
        /\ g \in acks2 => p[n + 1] = new
    BY <1>3, <1>4, <1>5, AppendProperties DEF Grown
  <1>7. \A i \in 1 .. n : /\ q[i].age \in 0 .. d - 1 /\ B[q[i].age] \in acks
                          /\ Right(q[i], data[B[q[i].age]])
    BY <1>2, <1>4 DEF Holds
  <1>8. \A i, j \in 1 .. n : i < j => q[i].age > q[j].age
    BY <1>2 DEF Holds
  <1>9. \A a \in 0 .. d - 1 : B[a] \in acks => \E i \in 1 .. n : q[i].age = a
    BY <1>2 DEF Holds
  <1>10. /\ \A i \in 1 .. m : p[i].age \in Nat
         /\ \A i, j \in 1 .. m : i < j => p[i].age > p[j].age
    <2>1. \A i \in 1 .. n : p[i].age = q[i].age + 1 /\ q[i].age \in Nat
      BY <1>4, <1>6
    <2>2. \A i \in 1 .. m : i \notin 1 .. n => i = n + 1 /\ p[i].age = 0
      BY <1>5, <1>6 DEF Asked
    <2>3. \A i \in 1 .. m : p[i].age \in Nat
      <3> TAKE i \in 1 .. m
      <3>1. CASE i \in 1 .. n
        BY <2>1, <3>1, SMTT(60)
      <3>2. CASE i \notin 1 .. n
        BY <2>2, <3>2
      <3> QED  BY <3>1, <3>2
    <2>4. ASSUME NEW i \in 1 .. m, NEW j \in 1 .. m, i < j PROVE p[i].age > p[j].age
      <3>1. i \in 1 .. n
        BY <1>5, <2>4
      <3>2. CASE j \in 1 .. n
        <4>1. q[i].age > q[j].age /\ q[i].age \in Nat /\ q[j].age \in Nat
          BY <1>8, <2>1, <2>4, <3>1, <3>2
        <4> QED  BY <2>1, <3>1, <3>2, <4>1, SMTT(60)
      <3>3. CASE j \notin 1 .. n
        <4>1. p[j].age = 0 /\ p[i].age = q[i].age + 1 /\ q[i].age \in Nat
          BY <2>1, <2>2, <3>1, <3>3
        <4> QED  BY <4>1
      <3> QED  BY <3>2, <3>3
    <2> QED  BY <2>3, <2>4
  <1>11. \A i \in 1 .. m : p[i].age < d =>
           /\ C[p[i].age] \in acks2
           /\ Right(p[i], data2[C[p[i].age]])
    <2> SUFFICES ASSUME NEW i \in 1 .. m, p[i].age < d
                 PROVE  /\ C[p[i].age] \in acks2
                        /\ Right(p[i], data2[C[p[i].age]])
      OBVIOUS
    <2>1. CASE i \in 1 .. n
      <3>1. PICK a \in 0 .. d - 2 : a = q[i].age
        <4>1. q[i].age \in 0 .. d - 1 /\ p[i].age = q[i].age + 1 /\ q[i].age + 1 < d
          BY <1>4, <1>6, <1>7, <2>1
        <4> QED  BY <4>1
      <3>2. p[i].age = a + 1 /\ \A x : Right(p[i], x) <=> Right(q[i], x)
        BY <1>4, <1>6, <2>1, <3>1
      <3>3. a + 1 \in 1 .. L - 1 /\ a \in 0 .. L - 1
        OBVIOUS
      <3>4. PICK k \in 0 .. L - 1 : k = B[a] /\ k = C[a + 1] /\ k # g
        <4>1. C[a + 1] = B[(a + 1) - 1] /\ C[a + 1] # g /\ (a + 1) - 1 = a
          BY <1>1, <3>3
        <4>2. B[a] \in 0 .. L - 1
          BY <1>1, <3>3
        <4> QED  BY <4>1, <4>2
      <3>5. k \in acks /\ Right(q[i], data[k])
        BY <1>7, <2>1, <3>1, <3>4
      <3>6. k \in acks2 /\ data2[k] = data[k]
        BY <3>4, <3>5 DEF Changes
      <3> QED  BY <3>2, <3>4, <3>5, <3>6
    <2>2. CASE i \notin 1 .. n
      <3>1. g \in acks2 /\ i = n + 1 /\ p[i] = new
        BY <1>5, <1>6, <2>2
      <3>2. g \in acks2 /\ Right(new, data2[g]) /\ new.age = 0
        BY <3>1 DEF Asked
      <3> QED  BY <1>1, <3>1, <3>2
    <2> QED  BY <2>1, <2>2
  <1>12. \A a \in 0 .. d - 1 : C[a] \in acks2 => \E i \in 1 .. m : p[i].age = a
    <2> SUFFICES ASSUME NEW a \in 0 .. d - 1, C[a] \in acks2 PROVE \E i \in 1 .. m : p[i].age = a
      OBVIOUS
    <2>1. CASE a = 0
      <3>1. g \in acks2
        BY <1>1, <2>1
      <3>2. n + 1 \in 1 .. m /\ p[n + 1].age = 0
        BY <1>5, <1>6, <3>1 DEF Asked
      <3> QED  BY <2>1, <3>2
    <2>2. CASE a # 0
      <3>1. a \in 1 .. L - 1 /\ a - 1 \in 0 .. d - 1 /\ a - 1 \in 0 .. L - 1
        BY <2>2
      <3>2. PICK k \in 0 .. L - 1 : k = B[a - 1] /\ k = C[a] /\ k # g
        BY <1>1, <3>1
      <3>3. k \in acks
        BY <3>2 DEF Changes
      <3>4. PICK i \in 1 .. n : q[i].age = a - 1
        BY <1>9, <3>1, <3>2, <3>3
      <3>5. i \in 1 .. m /\ p[i].age = a
        <4>1. i \in 1 .. m
          BY <1>5
        <4>2. p[i].age = q[i].age + 1
          BY <1>4, <1>6
        <4>3. (a - 1) + 1 = a
          OBVIOUS
        <4> QED  BY <3>4, <4>1, <4>2, <4>3
      <3> QED  BY <3>5
    <2> QED  BY <2>1, <2>2
  <1>13. CASE B[d - 1] \in acks
    <2>1. PICK k \in 1 .. n : q[k].age = d - 1
      <3>1. d - 1 \in 0 .. d - 1
        OBVIOUS
      <3> QED  BY <1>9, <1>13, <3>1
    <2>2. k = 1
      <3>1. CASE k > 1
        <4>1. q[1].age > q[k].age /\ q[1].age \in 0 .. d - 1
          BY <1>7, <1>8, <2>1, <3>1
        <4> QED  BY <2>1, <4>1
      <3> QED  BY <2>1, <3>1
    <2>3. 1 \in 1 .. n /\ 1 \in 1 .. m /\ m >= 1 /\ p[1] = w[1]
      BY <1>5, <1>6, <2>1, <2>2
    <2>4. p[1].age = d /\ Right(p[1], data[B[d - 1]])
      <3>1. q[1].age = d - 1 /\ w[1].age = q[1].age + 1 /\ q[1].age \in Nat
        BY <1>4, <2>1, <2>2, <2>3
      <3>2. Right(q[1], data[B[q[1].age]]) /\ (Right(p[1], data[B[d - 1]]) <=> Right(q[1], data[B[d - 1]]))
        BY <1>4, <1>7, <2>3
      <3> QED  BY <2>3, <3>1, <3>2
    <2>5. p # <<>>
      <3>1. Len(p) # 0
        BY <1>6, <2>3
      <3> QED  BY <3>1, EmptySeq
    <2>6. PICK r \in Seq(Item) : r = Tail(p)
      BY <1>6, <2>5, HeadTailProperties
    <2>7. Len(r) = m - 1 /\ \A i \in 1 .. m - 1 : r[i] = p[i + 1]
      BY <1>6, <2>5, <2>6, HeadTailProperties
    <2>8. \A i \in 1 .. m - 1 : i + 1 \in 1 .. m
      OBVIOUS
    <2>9. \A i \in 1 .. m - 1 : r[i].age < d
      <3> TAKE i \in 1 .. m - 1
      <3>1. i + 1 \in 1 .. m /\ 1 < i + 1 /\ r[i] = p[i + 1]
        BY <2>7, <2>8
      <3>2. p[1].age > p[i + 1].age /\ p[i + 1].age \in Nat
        BY <1>10, <2>3, <3>1
      <3> QED  BY <2>4, <3>1, <3>2
    <2>10. \A i \in 1 .. m - 1 : /\ C[r[i].age] \in acks2
                                 /\ Right(r[i], data2[C[r[i].age]])
      BY <1>11, <2>7, <2>8, <2>9
    <2>11. \A i, j \in 1 .. m - 1 : i < j => r[i].age > r[j].age
      <3> TAKE i, j \in 1 .. m - 1
      <3>1. i + 1 \in 1 .. m /\ j + 1 \in 1 .. m /\ (i < j => i + 1 < j + 1)
        BY <2>8
      <3>2. r[i] = p[i + 1] /\ r[j] = p[j + 1]
        BY <2>7
      <3> QED  BY <1>10, <3>1, <3>2
    <2>12. \A a \in 0 .. d - 1 : C[a] \in acks2 => \E i \in 1 .. m - 1 : r[i].age = a
      <3> SUFFICES ASSUME NEW a \in 0 .. d - 1, C[a] \in acks2 PROVE \E i \in 1 .. m - 1 : r[i].age = a
        OBVIOUS
      <3>1. PICK i \in 1 .. m : p[i].age = a
        BY <1>12
      <3>2. i # 1
        BY <2>4, <3>1
      <3>3. i - 1 \in 1 .. m - 1 /\ r[i - 1] = p[i]
        <4>1. i - 1 \in 1 .. m - 1 /\ (i - 1) + 1 = i
          BY <3>2
        <4>2. r[i - 1] = p[(i - 1) + 1]
          BY <2>7, <4>1
        <4> QED  BY <4>1, <4>2
      <3> QED  BY <3>1, <3>3
    <2>13. Holds(C, d, acks2, data2, r)
      BY <2>7, <2>9, <2>10, <2>11, <2>12 DEF Holds
    <2> QED  BY <1>6, <1>13, <2>4, <2>5, <2>6, <2>13
  <1>14. CASE B[d - 1] \notin acks
    <2>1. \A i \in 1 .. m : p[i].age < d
      <3> TAKE i \in 1 .. m
      <3>1. CASE i \in 1 .. n
        <4>1. q[i].age # d - 1
          BY <1>1, <1>7, <1>14, <3>1
        <4>2. p[i].age = q[i].age + 1 /\ q[i].age \in 0 .. d - 1
          BY <1>4, <1>6, <1>7, <3>1
        <4> QED  BY <4>1, <4>2
      <3>2. CASE i \notin 1 .. n
        <4>1. p[i] = new /\ new.age = 0
          BY <1>5, <1>6, <3>2 DEF Asked
        <4> QED  BY <4>1
      <3> QED  BY <3>1, <3>2
    <2> QED  BY <1>6, <1>10, <1>11, <1>12, <1>14, <2>1 DEF Holds
  <1> QED  BY <1>13, <1>14

(* What is true of the memory, once it is built, and of the master's requests. *)
MbFields == {"mem", "due", "ok"}
MemFields == {"m_delay", "m_head", "m_fifo_ack", "m_fifo_data", "m_mem", "o_ack", "o_data"}
Ring(m) == 0 .. RingLen(m.m_delay) - 1
MemTypes(m) ==
    /\ DOMAIN m = MemFields /\ m.m_delay \in MDELAYS /\ m.m_head \in Ring(m)
    /\ m.m_fifo_ack \in [Ring(m) -> BOOLEAN] /\ m.m_fifo_data \in [Ring(m) -> MVALS]
    /\ m.m_mem \in [MADDRS -> MVALS]
Acks(m) == {k \in Ring(m) : m.m_fifo_ack[k] = TRUE}
MemHolds(m, q) ==
    /\ MemTypes(m) /\ q \in Seq(Item)
    /\ Holds(Behind(m.m_head, RingLen(m.m_delay)), m.m_delay, Acks(m), m.m_fifo_data, q)
MemInv ==
    /\ DOMAIN mb = MbFields /\ mb.ok = TRUE
    /\ IF mb.mem = <<>> THEN mb.due = <<>> ELSE MemHolds(mb.mem, mb.due)

LEMMA RequestFacts ==
    ASSUME NEW rq \in Requests
    PROVE  /\ rq.cyc \in BOOLEAN /\ rq.stb \in BOOLEAN
           /\ rq.stb => /\ rq.cyc /\ rq.addr \in MADDRS /\ rq.we \in BOOLEAN
                        /\ rq.we => rq.data \in MVALS
  <1>1. CASE rq \in {[cyc |-> FALSE, stb |-> FALSE]} \cup {[cyc |-> TRUE, stb |-> FALSE]}
    <2>1. PICK b \in BOOLEAN : rq = [cyc |-> b, stb |-> FALSE]
      BY <1>1
    <2>2. rq.cyc = b /\ rq.stb = FALSE
      BY <2>1
    <2> QED  BY <2>2
  <1>2. CASE rq \in {[cyc |-> TRUE, stb |-> TRUE, we |-> FALSE, addr |-> a] : a \in MADDRS}
    <2>1. PICK a \in MADDRS : rq = [cyc |-> TRUE, stb |-> TRUE, we |-> FALSE, addr |-> a]
      BY <1>2
    <2> QED  BY <2>1
  <1>3. CASE rq \in {[cyc |-> TRUE, stb |-> TRUE, we |-> TRUE, addr |-> a, data |-> v] :
                        a \in MADDRS, v \in MVALS}
    <2>1. PICK a \in MADDRS, v \in MVALS : rq = [cyc |-> TRUE, stb |-> TRUE, we |-> TRUE, addr |-> a, data |-> v]
      BY <1>3
    <2> QED  BY <2>1
  <1> QED  BY <1>1, <1>2, <1>3 DEF Requests

LEMMA RingTailAt ==
    ASSUME NEW h, NEW d, NEW L, RingLen(d) = L, NEW x, (h - d) % L = x
    PROVE  RingTail(h, d) = x
  BY Zenon DEF RingTail

(* An empty ring and nobody who waits.                                        *)
LEMMA NothingHeld ==
    ASSUME NEW m, MemTypes(m), Acks(m) = {}
    PROVE  MemHolds(m, <<>>)
  <1>1. PICK d, L : d = m.m_delay /\ L = RingLen(d)
    OBVIOUS
  <1>2. d \in Nat \ {0} /\ L \in Nat /\ d <= L
    BY <1>1, MainTbAssumption, MemSimAssumption DEF MemTypes
  <1>3. <<>> \in Seq(Item) /\ Len(<<>>) = 0
    BY EmptySeq
  <1> QED  BY <1>1, <1>2, <1>3 DEF MemHolds, Holds

(* MEMSIM::apply() without a cycle, and with one.                             *)
LEMMA CycleDropped ==
    ASSUME NEW m, NEW q, MemHolds(m, q), NEW rq \in Requests, ~rq.cyc
    PROVE  MemApply(m, rq).o_ack = FALSE /\ MemHolds(MemApply(m, rq), <<>>)
  <1>1. PICK m2 : m2 = MemApply(m, rq)
    OBVIOUS
  <1>2. m2 = [m EXCEPT !.o_ack = FALSE, !.m_head = 0, !.m_fifo_ack = [i \in DOMAIN m.m_fifo_ack |-> FALSE]]
    BY <1>1 DEF MemApply
  <1>3. /\ m2.o_ack = FALSE /\ m2.m_head = 0 /\ m2.m_fifo_ack = [i \in DOMAIN m.m_fifo_ack |-> FALSE]
        /\ m2.m_delay = m.m_delay /\ m2.m_fifo_data = m.m_fifo_data /\ m2.m_mem = m.m_mem /\ DOMAIN m2 = MemFields
    BY <1>2 DEF MemHolds, MemTypes, MemFields
  <1>4. DOMAIN m.m_fifo_ack = Ring(m) /\ Ring(m2) = Ring(m) /\ 0 \in Ring(m)
    <2>1. m.m_head \in Ring(m) /\ m.m_delay \in MDELAYS
      BY DEF MemHolds, MemTypes
    <2>2. RingLen(m.m_delay) \in Nat
      BY <2>1, MemSimAssumption
    <2>3. 0 \in Ring(m)
      BY <2>1, <2>2 DEF Ring
    <2> QED  BY <1>3, <2>3 DEF MemHolds, MemTypes, Ring
  <1>5. m2.m_fifo_ack = [i \in Ring(m) |-> FALSE]
    BY <1>3, <1>4
  <1>6. MemTypes(m2) /\ Acks(m2) = {}
    BY <1>3, <1>4, <1>5 DEF MemHolds, MemTypes, Acks
  <1> QED  BY <1>1, <1>3, <1>6, NothingHeld

(* A cycle that goes on: m2 is the memory after the clock, p what its master
   waits for.                                                                 *)
Applied(m, q, rq, new, m2, p) ==
    /\ MemHolds(m, q) /\ rq \in Requests /\ rq.cyc /\ m2 = MemApply(m, rq)
    /\ rq.stb => new = [age |-> 0, rd |-> ~rq.we, v |-> IF rq.we THEN rq.data ELSE m.m_mem[rq.addr]]
    /\ p = IF rq.stb THEN Append(Aged(q), new) ELSE Aged(q)
LEMMA CycleGoesOn ==
    ASSUME NEW m, NEW q, NEW rq, NEW new, NEW m2, NEW p, Applied(m, q, rq, new, m2, p)
    PROVE  /\ m2.o_ack \in BOOLEAN
           /\ m2.o_ack => /\ p # <<>> /\ p[1].age = m.m_delay /\ (p[1].rd => m2.o_data = p[1].v)
                          /\ MemHolds(m2, Tail(p))
           /\ ~m2.o_ack => MemHolds(m2, p)
  <1> SUFFICES ASSUME MemHolds(m, q), rq \in Requests, rq.cyc, m2 = MemApply(m, rq),
                      rq.stb => new = [age |-> 0, rd |-> ~rq.we, v |-> IF rq.we THEN rq.data ELSE m.m_mem[rq.addr]],
                      p = IF rq.stb THEN Append(Aged(q), new) ELSE Aged(q)
               PROVE  /\ m2.o_ack \in BOOLEAN
                      /\ m2.o_ack => /\ p # <<>> /\ p[1].age = m.m_delay /\ (p[1].rd => m2.o_data = p[1].v)
                                     /\ MemHolds(m2, Tail(p))
                      /\ ~m2.o_ack => MemHolds(m2, p)
    BY Zenon DEF Applied
  <1>1. PICK d, h, ack, data, mem :
          d = m.m_delay /\ h = m.m_head /\ ack = m.m_fifo_ack /\ data = m.m_fifo_data /\ mem = m.m_mem
    OBVIOUS
  <1>2. PICK L : L = RingLen(d)
    OBVIOUS
  <1>3. d \in MDELAYS /\ d \in Nat \ {0} /\ L \in Nat \ {0} /\ d <= L
    <2>1. d \in MDELAYS
      BY <1>1 DEF MemHolds, MemTypes
    <2>2. d \in Nat \ {0} /\ L \in Nat /\ d <= L
      BY <1>2, <2>1, MainTbAssumption, MemSimAssumption
    <2> QED  BY <2>1, <2>2
  <1>4. /\ DOMAIN m = MemFields /\ h \in 0 .. L - 1 /\ ack \in [0 .. L - 1 -> BOOLEAN]
        /\ data \in [0 .. L - 1 -> MVALS] /\ mem \in [MADDRS -> MVALS] /\ q \in Seq(Item)
    BY <1>1, <1>2 DEF MemHolds, MemTypes, Ring
  <1>5. PICK g, B, C : g = (h + 1) % L /\ B = Behind(h, L) /\ C = Behind(g, L)
    OBVIOUS
  <1>6. /\ g \in 0 .. L - 1 /\ B \in [0 .. L - 1 -> 0 .. L - 1] /\ Turned(B, C, g, L)
        /\ (h + 1 - d) % L = B[d - 1]
    <2>1. C \in [0 .. L - 1 -> 0 .. L - 1] /\ g \in 0 .. L - 1
      BY <1>3, <1>4, <1>5, BehindFacts
    <2>2. /\ B \in [0 .. L - 1 -> 0 .. L - 1] /\ C[0] = g
          /\ \A a \in 1 .. L - 1 : C[a] = B[a - 1] /\ C[a] # g
          /\ \A a \in 1 .. L : (h + 1 - a) % L = B[a - 1]
      <3>1. L \in Nat \ {0} /\ h \in 0 .. L - 1
        BY <1>3, <1>4
      <3> QED  BY <1>5, <3>1, BehindFacts, Zenon
    <2>3. d \in 1 .. L
      BY <1>3
    <2> QED  BY <2>1, <2>2, <2>3 DEF Turned
  <1>6a. PICK last : last = B[d - 1]
    OBVIOUS
  <1>7. PICK ack2 \in [0 .. L - 1 -> BOOLEAN], data2 \in [0 .. L - 1 -> MVALS], mem2 \in [MADDRS -> MVALS] :
          /\ ack2 = [ack EXCEPT ![g] = rq.stb]
          /\ data2 = [data EXCEPT ![g] = IF rq.stb /\ ~rq.we THEN mem[rq.addr] ELSE data[g]]
          /\ mem2 = IF rq.stb /\ rq.we THEN [mem EXCEPT ![rq.addr] = rq.data] ELSE mem
    <2>1. [ack EXCEPT ![g] = rq.stb] \in [0 .. L - 1 -> BOOLEAN]
      BY <1>4, RequestFacts
    <2>2. (IF rq.stb /\ ~rq.we THEN mem[rq.addr] ELSE data[g]) \in MVALS
      BY <1>4, <1>6, RequestFacts
    <2>3. [data EXCEPT ![g] = IF rq.stb /\ ~rq.we THEN mem[rq.addr] ELSE data[g]] \in [0 .. L - 1 -> MVALS]
      BY <1>4, <2>2
    <2>4. (IF rq.stb /\ rq.we THEN [mem EXCEPT ![rq.addr] = rq.data] ELSE mem) \in [MADDRS -> MVALS]
      BY <1>4, RequestFacts
    <2> QED  BY <2>1, <2>3, <2>4
  <1>8. /\ m2.m_delay = d /\ m2.m_head = g /\ m2.m_fifo_ack = ack2 /\ m2.m_fifo_data = data2 /\ m2.m_mem = mem2
        /\ m2.o_ack = ack[last] /\ m2.o_data = data[last] /\ DOMAIN m2 = MemFields
    <2>1. m2 = [m EXCEPT !.m_head = g, !.o_ack = ack[last], !.o_data = data[last],
                         !.m_fifo_ack = ack2, !.m_fifo_data = data2, !.m_mem = mem2]
      <3>1. (m.m_head + 1) % RingLen(m.m_delay) = g /\ RingTail(m.m_head + 1, m.m_delay) = last
        <4>1. m.m_head = h /\ m.m_delay = d /\ RingLen(d) = L
          BY <1>1, <1>2
        <4>2. (h + 1) % L = g /\ (h + 1 - d) % L = last
          BY <1>5, <1>6, <1>6a, Zenon
        <4>3. h + 1 - d = (h + 1) - d
          BY <1>3, <1>4
        <4>4. RingTail(h + 1, d) = last
          BY <4>1, <4>2, <4>3, RingTailAt, Zenon
        <4> QED  BY <4>1, <4>2, <4>4, Zenon
      <3>2. m2 = [m EXCEPT !.m_head = g, !.o_ack = ack[last], !.o_data = data[last],
                           !.m_fifo_ack = [ack EXCEPT ![g] = rq.stb],
                           !.m_fifo_data = [data EXCEPT ![g] = IF rq.stb /\ ~rq.we THEN mem[rq.addr] ELSE data[g]],
                           !.m_mem = IF rq.stb /\ rq.we THEN [mem EXCEPT ![rq.addr] = rq.data] ELSE mem]
        BY <1>1, <3>1, Zenon DEF MemApply
      <3> QED  BY <1>7, <3>2, Zenon
    <2> QED  BY <1>1, <1>4, <2>1 DEF MemFields
  <1>9. MemTypes(m2)
    BY <1>2, <1>3, <1>6, <1>7, <1>8 DEF MemTypes, Ring
  <1>10. PICK acks, acks2 : acks = {k \in 0 .. L - 1 : ack[k] = TRUE} /\ acks2 = {k \in 0 .. L - 1 : ack2[k] = TRUE}
    OBVIOUS
  <1>11. acks = Acks(m) /\ acks2 = Acks(m2)
    BY <1>1, <1>2, <1>8, <1>10 DEF Acks, Ring
  <1>12. Changes(g, L, acks, acks2, data, data2) /\ (g \in acks2 <=> rq.stb)
    BY <1>4, <1>6, <1>7, <1>10, RequestFacts DEF Changes
  <1>13. PICK item \in Item : Asked(item, g, acks2, data2) /\ (rq.stb => item = new)
    <2>1. CASE rq.stb
      <3>1. PICK v \in MVALS : v = IF rq.we THEN rq.data ELSE mem[rq.addr]
        BY <1>4, <2>1, RequestFacts
      <3>2. new = [age |-> 0, rd |-> ~rq.we, v |-> v]
        BY <1>1, <2>1, <3>1
      <3>3. new \in Item /\ new.age = 0 /\ new.v = v /\ new.rd = ~rq.we
        BY <3>2 DEF Item
      <3>4. ~rq.we => data2[g] = v
        BY <1>4, <1>6, <1>7, <2>1, <3>1
      <3> QED  BY <3>3, <3>4 DEF Asked, Right
    <2>2. CASE ~rq.stb
      <3>1. PICK v \in MVALS : TRUE
        BY MemSimAssumption
      <3>2. PICK item \in Item : item.age = 0
        <4>1. [age |-> 0, rd |-> FALSE, v |-> v] \in Item /\ [age |-> 0, rd |-> FALSE, v |-> v].age = 0
          BY <3>1 DEF Item
        <4> QED  BY <4>1
      <3> QED  BY <1>12, <2>2, <3>2 DEF Asked
    <2> QED  BY <2>1, <2>2
  <1>14. Grown(p, q, item, g, acks2)
    BY <1>12, <1>13 DEF Grown
  <1>15. Holds(B, d, acks, data, q)
    BY <1>1, <1>2, <1>5, <1>11 DEF MemHolds
  <1>16. /\ p \in Seq(Item)
         /\ last \in acks => /\ p # <<>> /\ p[1].age = d /\ Right(p[1], data[last])
                                 /\ Tail(p) \in Seq(Item) /\ Holds(C, d, acks2, data2, Tail(p))
         /\ last \notin acks => Holds(C, d, acks2, data2, p)
    <2>1. d \in Nat \ {0} /\ L \in Nat /\ d <= L /\ Turned(B, C, g, L) /\ q \in Seq(Item) /\ item \in Item
      BY <1>3, <1>4, <1>6, <1>13
    <2>2. Changes(g, L, acks, acks2, data, data2) /\ Asked(item, g, acks2, data2)
      BY <1>12, <1>13
    <2>3. Turned(B, C, g, L)
      BY <1>6
    <2>4. MemAnswered(last, d, C, acks, acks2, data, data2, p)
      <3>1. Turning(d, L, B, C, g, acks, acks2, data, data2, q, item, p, last)
        BY <1>14, <1>15, <1>6a, <2>1, <2>2, <2>3, Zenon DEF Turning
      <3> QED  BY <3>1, RingStep, Zenon
    <2> QED  BY <2>4 DEF MemAnswered
  <1>17. m2.o_ack \in BOOLEAN /\ (m2.o_ack <=> last \in acks)
    <2>1. d - 1 \in 0 .. L - 1
      BY <1>3
    <2>2. last \in 0 .. L - 1
      BY <1>6, <1>6a, <2>1
    <2> QED  BY <1>4, <1>8, <1>10, <2>2
  <1>18. \A r : r \in Seq(Item) /\ Holds(C, d, acks2, data2, r) => MemHolds(m2, r)
    BY <1>2, <1>5, <1>8, <1>9, <1>11 DEF MemHolds
  <1> QED  BY <1>1, <1>8, <1>16, <1>17, <1>18 DEF Right

LEMMA MemInit == MainTbInit => MemInv
  BY DEF MainTbInit, MemInv, MbFields

LEMMA MemBuild == ASSUME MemInv, MainTbBuild PROVE MemInv'
  <1>1. PICK d \in MDELAYS : mb' = [mb EXCEPT !.mem = Init_MEMSIM(d)]
    BY DEF MainTbBuild
  <1>2. PICK m : m = Init_MEMSIM(d)
    OBVIOUS
  <1>3. mb.due = <<>> /\ mb.ok = TRUE /\ DOMAIN mb = MbFields
    BY DEF MemInv, MainTbBuild
  <1>4. mb'.mem = m /\ mb'.due = <<>> /\ mb'.ok = TRUE /\ DOMAIN mb' = MbFields
    BY <1>1, <1>2, <1>3 DEF MbFields
  <1>5. PICK v \in MVALS : v = CHOOSE x \in MVALS : TRUE
    BY MemSimAssumption
  <1>6. PICK L \in Nat \ {0} : L = RingLen(d)
    BY MainTbAssumption, MemSimAssumption
  <1>7. /\ DOMAIN m = MemFields /\ m.m_delay = d /\ m.m_head = 0
        /\ m.m_fifo_ack = [i \in 0 .. RingLen(d) - 1 |-> FALSE]
        /\ m.m_fifo_data = [i \in 0 .. RingLen(d) - 1 |-> v] /\ m.m_mem = [a \in MADDRS |-> v]
    BY <1>2, <1>5, Zenon DEF Init_MEMSIM, MemFields
  <1>8. Ring(m) = 0 .. L - 1 /\ 0 \in 0 .. L - 1
    BY <1>6, <1>7 DEF Ring
  <1>9. /\ m.m_fifo_ack = [i \in 0 .. L - 1 |-> FALSE] /\ m.m_fifo_data = [i \in 0 .. L - 1 |-> v]
    BY <1>6, <1>7
  <1>10. MemTypes(m) /\ Acks(m) = {}
    <2>1. /\ m.m_fifo_ack \in [0 .. L - 1 -> BOOLEAN] /\ m.m_fifo_data \in [0 .. L - 1 -> MVALS]
          /\ m.m_mem \in [MADDRS -> MVALS]
      BY <1>7, <1>9
    <2>2. MemTypes(m)
      BY <1>7, <1>8, <2>1 DEF MemTypes
    <2>3. \A k \in 0 .. L - 1 : m.m_fifo_ack[k] = FALSE
      BY <1>9
    <2>4. Acks(m) = {}
      BY <1>8, <2>3 DEF Acks
    <2> QED  BY <2>2, <2>4
  <1>11. MemHolds(m, <<>>)
    BY <1>10, NothingHeld
  <1>12. m # <<>>
    <2>1. "m_head" \in DOMAIN m
      BY <1>7 DEF MemFields
    <2> QED  BY <2>1
  <1> QED  BY <1>4, <1>11, <1>12 DEF MemInv

MbBecomes(b, x, y, z, c) == DOMAIN b = MbFields /\ c = [b EXCEPT !.mem = x, !.due = y, !.ok = z]
LEMMA MbChanged ==
    ASSUME NEW b, NEW x, NEW y, NEW z, NEW c, MbBecomes(b, x, y, z, c)
    PROVE  DOMAIN c = MbFields /\ c.mem = x /\ c.due = y /\ c.ok = z
  BY DEF MbBecomes, MbFields

(* What the bus master sees of a clock: the answer is the one it waits for.   *)
Expected(p, m, m2) ==
    m2.o_ack => /\ p # <<>>
                /\ p[1].age = m.m_delay
                /\ p[1].rd => m2.o_data = p[1].v
LEMMA MemTick == ASSUME MemInv, mb.mem # <<>>, sim_clk_tick PROVE MemInv'
  <1>1. PICK rq \in Requests :
          LET m2 == MemApply(mb.mem, rq)
              p  == IF rq.stb THEN Append(Aged(mb.due), Owed(rq)) ELSE Aged(mb.due)
          IN  mb' = [mb EXCEPT !.mem = m2,
                               !.due = IF ~rq.cyc THEN <<>> ELSE IF m2.o_ack /\ p # <<>> THEN Tail(p) ELSE p,
                               !.ok = @ /\ Expected(p, mb.mem, m2)]
    BY Zenon DEF sim_clk_tick, Expected
  <1>2. PICK m, q, m2 : m = mb.mem /\ q = mb.due /\ m2 = MemApply(m, rq)
    OBVIOUS
  <1>3. PICK new, p : new = Owed(rq) /\ p = IF rq.stb THEN Append(Aged(q), new) ELSE Aged(q)
    OBVIOUS
  <1>4. PICK due2, ok2 : /\ due2 = (IF ~rq.cyc THEN <<>> ELSE IF m2.o_ack /\ p # <<>> THEN Tail(p) ELSE p)
                         /\ ok2 = (mb.ok /\ Expected(p, m, m2))
    OBVIOUS
  <1>5. mb' = [mb EXCEPT !.mem = m2, !.due = due2, !.ok = ok2]
    BY <1>1, <1>2, <1>3, <1>4, Zenon
  <1>6. DOMAIN mb = MbFields /\ mb.ok = TRUE /\ MemHolds(m, q)
    BY <1>2 DEF MemInv
  <1>7. DOMAIN mb' = MbFields /\ mb'.mem = m2 /\ mb'.due = due2 /\ mb'.ok = ok2
    <2>1. PICK b, c : b = mb /\ c = mb'
      OBVIOUS
    <2>2. MbBecomes(b, m2, due2, ok2, c)
      BY <1>5, <1>6, <2>1, Zenon DEF MbBecomes
    <2>3. DOMAIN c = MbFields /\ c.mem = m2 /\ c.due = due2 /\ c.ok = ok2
      BY <2>2, MbChanged, SMT
    <2> QED  BY <2>1, <2>3, Zenon
  <1>8. Expected(p, m, m2) /\ MemHolds(m2, due2) => MemInv'
    <2> SUFFICES ASSUME Expected(p, m, m2), MemHolds(m2, due2) PROVE MemInv'
      OBVIOUS
    <2>1. ok2 = TRUE
      BY <1>4, <1>6, Zenon
    <2>2. m2 # <<>>
      <3>1. "m_head" \in DOMAIN m2
        BY DEF MemHolds, MemTypes, MemFields
      <3> QED  BY <3>1
    <2> QED  BY <1>7, <2>1, <2>2, Zenon DEF MemInv
  <1>9. CASE ~rq.cyc
    <2>1. m2.o_ack = FALSE /\ MemHolds(m2, <<>>)
      BY <1>2, <1>6, <1>9, CycleDropped
    <2>2. due2 = <<>> /\ Expected(p, m, m2)
      BY <1>4, <1>9, <2>1, Zenon DEF Expected
    <2> QED  BY <1>8, <2>1, <2>2, Zenon
  <1>10. CASE rq.cyc
    <2>1. rq.stb => new = [age |-> 0, rd |-> ~rq.we, v |-> IF rq.we THEN rq.data ELSE m.m_mem[rq.addr]]
      BY <1>2, <1>3, Zenon DEF Owed
    <2>2. /\ m2.o_ack \in BOOLEAN
          /\ m2.o_ack => /\ p # <<>> /\ p[1].age = m.m_delay /\ (p[1].rd => m2.o_data = p[1].v)
                         /\ MemHolds(m2, Tail(p))
          /\ ~m2.o_ack => MemHolds(m2, p)
      <3>1. Applied(m, q, rq, new, m2, p)
        BY <1>1, <1>2, <1>3, <1>6, <1>10, <2>1, Zenon DEF Applied
      <3> QED  BY <3>1, CycleGoesOn, Zenon
    <2>3. CASE m2.o_ack
      <3>1. due2 = Tail(p) /\ Expected(p, m, m2) /\ MemHolds(m2, Tail(p))
        BY <1>4, <1>10, <2>2, <2>3, Zenon DEF Expected
      <3> QED  BY <1>8, <3>1, Zenon
    <2>4. CASE ~m2.o_ack
      <3>1. due2 = p /\ Expected(p, m, m2) /\ MemHolds(m2, p)
        BY <1>4, <1>10, <2>2, <2>4, Zenon DEF Expected
      <3> QED  BY <1>8, <3>1, Zenon
    <2> QED  BY <2>3, <2>4
  <1> QED  BY <1>9, <1>10

LEMMA MemNext == MemInv /\ [MainTbNext]_tb_vars => MemInv'
  <1> SUFFICES ASSUME MemInv, [MainTbNext]_tb_vars PROVE MemInv'
    OBVIOUS
  <1>1. CASE UNCHANGED mb
    BY <1>1, Zenon DEF MemInv
  <1>2. CASE mb.mem # <<>> /\ Tick
    <2>1. sim_clk_tick \/ UNCHANGED mb
      BY <1>2, Zenon DEF Tick
    <2> QED  BY <1>1, <1>2, <2>1, MemTick, Zenon
  <1>3. CASE MainTbBuild
    BY <1>3, MemBuild
  <1> QED  BY <1>1, <1>2, <1>3, Zenon DEF MainTbNext, tb_vars

LEMMA MemInvIsRight == MemInv => MemAnswersRight
  <1> SUFFICES ASSUME MemInv PROVE MemAnswersRight
    OBVIOUS
  <1>1. ASSUME mb.mem # <<>>, NEW i \in 1 .. Len(mb.due) PROVE mb.due[i].age < mb.mem.m_delay
    BY <1>1 DEF MemInv, MemHolds, Holds
  <1> QED  BY <1>1 DEF MemInv, MemAnswersRight

-----------------------------------------------------------------------------
LEMMA NibbleNext ==
    OnePeriod /\ FarApart /\ ClockInv /\ NibbleInv /\ [MainTbNext]_tb_vars => NibbleInv'
  <1> SUFFICES ASSUME OnePeriod, FarApart, ClockInv, NibbleInv, [MainTbNext]_tb_vars PROVE NibbleInv'
    OBVIOUS
  <1>1. CASE tb' = tb
    BY <1>1 DEF NibbleInv, NibblesComeBack
  <1>2. CASE Tick
    BY <1>2, NibbleStep
  <1> QED  BY <1>1, <1>2 DEF MainTbNext, MainTbBuild, tb_vars

(* What the design is given back is what it sent: MEMSIM::apply() answers the
   requests of a cycle in order and after exactly m_delay clocks, a read with what
   the word held when it was asked for, and what a dropped cycle asked for is
   never answered; the nibbles of the Ethernet loop come back once each and in
   order (main_tb.cpp, sim_eth_rx_clk_tick()).                                *)
THEOREM SimulationAnswersRight == OnePeriod /\ FarApart => (MainTbSpec => []SimAnswersRight)
  <1>1. OnePeriod /\ FarApart /\ MainTbInit => ClockInv /\ NibbleInv /\ MemInv
    BY ClockInit, NibbleInit, MemInit, Zenon
  <1>2. OnePeriod /\ FarApart /\ (ClockInv /\ NibbleInv /\ MemInv) /\ [MainTbNext]_tb_vars
          => (ClockInv /\ NibbleInv /\ MemInv)'
    BY ClockNext, NibbleNext, MemNext, Zenon
  <1>3. ClockInv /\ NibbleInv /\ MemInv => SimAnswersRight
    BY MemInvIsRight, Zenon DEF SimAnswersRight, NibbleInv
  <1>4. CASE OnePeriod /\ FarApart
    <2>1. MainTbInit => ClockInv /\ NibbleInv /\ MemInv
      BY <1>1, <1>4
    <2>2. (ClockInv /\ NibbleInv /\ MemInv) /\ [MainTbNext]_tb_vars => (ClockInv /\ NibbleInv /\ MemInv)'
      BY <1>2, <1>4
    <2> QED  BY <1>3, <2>1, <2>2, PTL DEF MainTbSpec
  <1> QED  BY <1>4

-----------------------------------------------------------------------------
(* The simulated SD card.  What a block is on the wire: byte j of it, and what is left from
   byte j on; and what has been read of it.                                   *)
SdFields == {"m_reset_state", "m_powerup_busy", "m_altcmd_flag", "m_reading_data", "m_have_token",
             "m_cmdidx", "m_cmdbuf", "m_rspbuf", "m_rspdly", "m_rspidx", "m_blkdly", "block", "rx",
             "m_dev", "pos", "m_dat_out", "ok"}
SmFields == {"pc", "c", "arg", "got", "disk"}
SdList(d) == Len(d) \in Nat /\ d = [i \in 1 .. Len(d) |-> d[i]]
ByteAt(d, j) == IF j = 0 THEN Token ELSE IF j <= Len(d) THEN SdByte("data", d[j]) ELSE blockcrc(d)
From(d, j) == [i \in 1 .. Len(d) + 2 - j |-> ByteAt(d, j + i - 1)]
Pre(d, j) == [i \in 1 .. j |-> d[i]]

LEMMA Bytes ==
    /\ Token # FFbyte /\ \A v : Reply(v) # FFbyte /\ Reply(v) # Token
    /\ \A v : SdByte("data", v) # FFbyte /\ SdByte("data", v) # Token /\ SdByte("data", v).k # "crc" /\ SdByte("data", v).v = v
    /\ \A d : blockcrc(d).k = "crc" /\ blockcrc(d) # FFbyte /\ blockcrc(d) # Token
    /\ \A v : SdByte("cmd", v).k = "cmd" /\ SdByte("cmd", v).v = v
    /\ \A v, w : Reply(v) = Reply(w) => v = w
    /\ Token.k # "crc"
  BY DEF Token, FFbyte, Reply, SdByte, blockcrc

LEMMA FromFacts ==
    ASSUME NEW d, Len(d) \in Nat, NEW j \in 0 .. Len(d) + 1
    PROVE  /\ From(d, j) # <<>> /\ Head(From(d, j)) = ByteAt(d, j) /\ Tail(From(d, j)) = From(d, j + 1)
  <1>1. PICK n \in Nat : n = Len(d)
    OBVIOUS
  <1>2. From(d, j) = [i \in 1 .. n + 2 - j |-> ByteAt(d, j + i - 1)] /\ n + 2 - j \in Nat \ {0}
    BY <1>1 DEF From
  <1>3. From(d, j + 1) = [i \in 1 .. (n + 2 - j) - 1 |-> ByteAt(d, (j + 1) + i - 1)]
    <2>1. Len(d) + 2 - (j + 1) = (n + 2 - j) - 1
      BY <1>1
    <2> QED  BY <2>1 DEF From
  <1>4. Len(From(d, j)) = n + 2 - j
    BY <1>2
  <1>5. Head(From(d, j)) = ByteAt(d, j)
    <2>1. From(d, j)[1] = ByteAt(d, j)
      <3>1. 1 \in 1 .. n + 2 - j /\ j + 1 - 1 = j
        BY <1>1, <1>2
      <3> QED  BY <1>2, <3>1
    <2> QED  BY <1>2, <1>4, <2>1
  <1>6. Tail(From(d, j)) = From(d, j + 1)
    <2>1. Tail(From(d, j)) = [i \in 1 .. (n + 2 - j) - 1 |-> From(d, j)[i + 1]]
      BY <1>2, <1>4
    <2>2. ASSUME NEW i \in 1 .. (n + 2 - j) - 1 PROVE From(d, j)[i + 1] = ByteAt(d, (j + 1) + i - 1)
      <3>1. i + 1 \in 1 .. n + 2 - j /\ j + (i + 1) - 1 = (j + 1) + i - 1
        BY <1>1
      <3> QED  BY <1>2, <3>1
    <2> QED  BY <1>3, <2>1, <2>2
  <1>7. From(d, j) # <<>>
    <2>1. Len(From(d, j)) # 0
      BY <1>2, <1>4
    <2> QED  BY <2>1
  <1> QED  BY <1>5, <1>6, <1>7

LEMMA PreFacts ==
    ASSUME NEW d, Len(d) \in Nat
    PROVE  /\ Pre(d, 0) = <<>> /\ (SdList(d) => Pre(d, Len(d)) = d)
           /\ \A j \in 0 .. Len(d) - 1 : Append(Pre(d, j), d[j + 1]) = Pre(d, j + 1)
  <1>1. Pre(d, 0) = <<>>
    BY DEF Pre
  <1>2. SdList(d) => Pre(d, Len(d)) = d
    BY DEF Pre, SdList
  <1>3. ASSUME NEW j \in 0 .. Len(d) - 1 PROVE Append(Pre(d, j), d[j + 1]) = Pre(d, j + 1)
    <2>1. j \in Nat /\ Len(Pre(d, j)) = j
      BY <1>3 DEF Pre
    <2>2. Append(Pre(d, j), d[j + 1]) = [i \in 1 .. j + 1 |-> IF i <= j THEN Pre(d, j)[i] ELSE d[j + 1]]
      BY <2>1 DEF Pre
    <2> QED  BY <2>1, <2>2 DEF Pre
  <1> QED  BY <1>1, <1>2, <1>3

LEMMA ListGrows ==
    ASSUME NEW d, SdList(d), NEW v
    PROVE  SdList(Append(d, v)) /\ Len(Append(d, v)) = Len(d) + 1
  <1>1. PICK n \in Nat : n = Len(d) /\ d = [i \in 1 .. n |-> d[i]]
    BY DEF SdList
  <1>2. Append(d, v) = [i \in 1 .. n + 1 |-> IF i <= n THEN d[i] ELSE v]
    BY <1>1
  <1> QED  BY <1>1, <1>2 DEF SdList

LEMMA BlockIs ==
    ASSUME NEW d, Len(d) \in Nat
    PROVE  <<Token>> \o [i \in 1 .. Len(d) |-> SdByte("data", d[i])] \o <<blockcrc(d)>> = From(d, 0)
  <1>1. PICK n \in Nat : n = Len(d)
    OBVIOUS
  <1>2. PICK a, b, c : a = <<Token>> /\ b = [i \in 1 .. n |-> SdByte("data", d[i])] /\ c = <<blockcrc(d)>>
    OBVIOUS
  <1>3. Len(a) = 1 /\ Len(b) = n /\ Len(c) = 1
    BY <1>2
  <1>4. a \o b = [i \in 1 .. n + 1 |-> IF i <= 1 THEN a[i] ELSE b[i - 1]]
    BY <1>2, <1>3
  <1>5. Len(a \o b) = n + 1
    BY <1>4
  <1>6. (a \o b) \o c = [i \in 1 .. n + 2 |-> IF i <= n + 1 THEN (a \o b)[i] ELSE c[i - (n + 1)]]
    BY <1>3, <1>4, <1>5
  <1>7. From(d, 0) = [i \in 1 .. n + 2 |-> ByteAt(d, i - 1)]
    BY <1>1 DEF From
  <1>8. ASSUME NEW i \in 1 .. n + 2 PROVE (IF i <= n + 1 THEN (a \o b)[i] ELSE c[i - (n + 1)]) = ByteAt(d, i - 1)
    <2>1. CASE i = 1
      BY <1>1, <1>2, <1>4, <2>1 DEF ByteAt
    <2>2. CASE i > 1 /\ i <= n + 1
      <3>1. (a \o b)[i] = b[i - 1] /\ i - 1 \in 1 .. n
        BY <1>4, <2>2
      <3> QED  BY <1>1, <1>2, <2>2, <3>1 DEF ByteAt
    <2>3. CASE i = n + 2
      <3>1. i - (n + 1) = 1 /\ ~(i <= n + 1) /\ i - 1 = n + 1
        BY <2>3
      <3>2. ByteAt(d, n + 1) = blockcrc(d)
        BY <1>1 DEF ByteAt
      <3>3. c[1] = blockcrc(d)
        BY <1>2
      <3>4. c[i - (n + 1)] = blockcrc(d)
        BY <3>1, <3>3
      <3>5. ByteAt(d, i - 1) = blockcrc(d)
        BY <3>1, <3>2
      <3> QED  BY <3>1, <3>4, <3>5
    <2>4. i = 1 \/ (i > 1 /\ i <= n + 1) \/ i = n + 2
      OBVIOUS
    <2> QED  BY <2>1, <2>2, <2>3, <2>4, Zenon
  <1> QED  BY <1>1, <1>2, <1>6, <1>7, <1>8

(* What a byte does to the card: the first of a command, the last of it, one that
   is clocked in while the card answers, and one of a block that is written.  *)
CardOK(f) ==
    /\ DOMAIN f = SdFields /\ f.ok = TRUE
    /\ f.m_reading_data \in BOOLEAN /\ f.m_altcmd_flag \in BOOLEAN /\ f.m_have_token \in BOOLEAN
    /\ f.m_rspdly \in Nat /\ f.m_blkdly \in Nat /\ f.m_rspidx \in Nat

LEMMA FirstByte ==
    ASSUME NEW f, CardOK(f), f.m_reading_data = FALSE, f.m_cmdidx = 0, NEW v
    PROVE  RxByte(f, SdByte("cmd", v)) = [f EXCEPT !.m_dat_out = FFbyte, !.m_cmdidx = 6, !.m_cmdbuf = v]
  <1>1. PICK b : b = SdByte("cmd", v) /\ b.k = "cmd" /\ b.v = v
    BY Bytes
  <1>2. RxByte(f, b) = [[f EXCEPT !.m_dat_out = FFbyte] EXCEPT !.m_cmdidx = 6, !.m_cmdbuf = b.v, !.ok = @ /\ b.k = "cmd"]
    BY DEF RxByte, CardOK
  <1>3. PICK x, y : x = [[f EXCEPT !.m_dat_out = FFbyte] EXCEPT !.m_cmdidx = 6, !.m_cmdbuf = b.v, !.ok = @ /\ b.k = "cmd"]
                    /\ y = [f EXCEPT !.m_dat_out = FFbyte, !.m_cmdidx = 6, !.m_cmdbuf = v]
    OBVIOUS
  <1>4. x = y
    BY <1>1, <1>3 DEF CardOK, SdFields
  <1> QED  BY <1>1, <1>2, <1>3, <1>4

SdCleared(f) == [f EXCEPT !.m_dat_out = FFbyte, !.m_rspidx = 0, !.m_blkdly = 0, !.block = <<>>,
                        !.m_rspbuf = IF f.m_altcmd_flag THEN @ ELSE <<>>]
LEMMA LastByte ==
    ASSUME NEW f, CardOK(f), f.m_reading_data = FALSE, f.m_cmdidx = 6
    PROVE  RxByte(f, FFbyte) =
             [(IF f.m_altcmd_flag THEN AltCommand(SdCleared(f)) ELSE SdCommand(SdCleared(f))) EXCEPT !.m_cmdidx = 7]
  <1>1. PICK g : g = [f EXCEPT !.m_dat_out = FFbyte]
    OBVIOUS
  <1>2. RxByte(f, FFbyte) = Respond(g)
    BY <1>1 DEF RxByte, CardOK
  <1>3. g.m_altcmd_flag = f.m_altcmd_flag
    BY <1>1 DEF CardOK, SdFields
  <1>4. [g EXCEPT !.m_rspidx = 0, !.m_blkdly = 0, !.block = <<>>,
                  !.m_rspbuf = IF g.m_altcmd_flag THEN @ ELSE <<>>] = SdCleared(f)
    BY <1>1, <1>3 DEF SdCleared, CardOK, SdFields
  <1> QED  BY <1>2, <1>3, <1>4 DEF Respond

Streaming(f) == f.m_rspdly = 0 /\ ~(f.m_rspidx < RSPLEN) /\ f.m_blkdly = 0
LEMMA NextByte ==
    ASSUME NEW f, CardOK(f), f.m_reading_data = FALSE, f.m_cmdidx = 7
    PROVE  \/ /\ f.m_rspdly > 0
              /\ RxByte(f, FFbyte) = [f EXCEPT !.m_dat_out = FFbyte, !.m_rspdly = f.m_rspdly - 1]
           \/ /\ f.m_rspdly = 0 /\ f.m_rspidx < RSPLEN
              /\ RxByte(f, FFbyte) = [f EXCEPT !.m_rspidx = f.m_rspidx + 1,
                                               !.m_dat_out = IF f.m_rspidx < Len(f.m_rspbuf)
                                                             THEN f.m_rspbuf[f.m_rspidx + 1] ELSE FFbyte]
           \/ /\ ~(f.m_rspidx < RSPLEN) /\ f.m_blkdly > 0
              /\ RxByte(f, FFbyte) = [f EXCEPT !.m_dat_out = FFbyte, !.m_blkdly = f.m_blkdly - 1]
           \/ /\ Streaming(f) /\ f.block # <<>>
              /\ RxByte(f, FFbyte) = [f EXCEPT !.m_dat_out = Head(f.block), !.block = Tail(f.block)]
           \/ /\ Streaming(f) /\ f.block = <<>>
              /\ RxByte(f, FFbyte) = [f EXCEPT !.m_dat_out = FFbyte]
  <1>1. PICK h : h = [[f EXCEPT !.m_dat_out = FFbyte] EXCEPT !.ok = @ /\ FFbyte = FFbyte]
    OBVIOUS
  <1>2. h = [f EXCEPT !.m_dat_out = FFbyte]
    BY <1>1 DEF CardOK, SdFields
  <1>3. RxByte(f, FFbyte) =
              IF f.m_rspdly > 0 THEN [h EXCEPT !.m_rspdly = @ - 1]
              ELSE IF f.m_rspidx < RSPLEN
              THEN [h EXCEPT !.m_rspidx = @ + 1,
                             !.m_dat_out = IF f.m_rspidx < Len(f.m_rspbuf)
                                           THEN f.m_rspbuf[f.m_rspidx + 1] ELSE FFbyte]
              ELSE IF f.m_blkdly > 0 THEN [h EXCEPT !.m_blkdly = @ - 1]
              ELSE IF f.block # <<>> THEN [h EXCEPT !.m_dat_out = Head(f.block), !.block = Tail(@)]
              ELSE h
    BY <1>1 DEF RxByte, CardOK
  <1>4. f.m_rspdly \in Nat /\ f.m_blkdly \in Nat
    BY DEF CardOK
  <1>5. CASE f.m_rspdly > 0
    BY <1>2, <1>3, <1>5 DEF CardOK, SdFields
  <1>6. CASE ~(f.m_rspdly > 0) /\ f.m_rspidx < RSPLEN
    <2>1. PICK e : e = IF f.m_rspidx < Len(f.m_rspbuf) THEN f.m_rspbuf[f.m_rspidx + 1] ELSE FFbyte
      OBVIOUS
    <2>2. RxByte(f, FFbyte) = [h EXCEPT !.m_rspidx = @ + 1, !.m_dat_out = e]
      BY <1>3, <1>6, <2>1, Zenon
    <2>3. [h EXCEPT !.m_rspidx = @ + 1, !.m_dat_out = e] = [f EXCEPT !.m_rspidx = f.m_rspidx + 1, !.m_dat_out = e]
      BY <1>2 DEF CardOK, SdFields
    <2> QED  BY <1>4, <1>6, <2>1, <2>2, <2>3
  <1>7. CASE ~(f.m_rspdly > 0) /\ ~(f.m_rspidx < RSPLEN) /\ f.m_blkdly > 0
    BY <1>2, <1>3, <1>7 DEF CardOK, SdFields
  <1>8. CASE ~(f.m_rspdly > 0) /\ ~(f.m_rspidx < RSPLEN) /\ ~(f.m_blkdly > 0)
    <2>1. Streaming(f)
      BY <1>4, <1>8 DEF Streaming
    <2>2. CASE f.block # <<>>
      BY <1>2, <1>3, <1>8, <2>1, <2>2 DEF CardOK, SdFields
    <2>3. CASE f.block = <<>>
      BY <1>2, <1>3, <1>8, <2>1, <2>3
    <2> QED  BY <2>2, <2>3
  <1> QED  BY <1>5, <1>6, <1>7, <1>8

LEMMA TokenByte ==
    ASSUME NEW f, CardOK(f), f.m_reading_data = TRUE, f.m_have_token = FALSE
    PROVE  RxByte(f, Token) = [f EXCEPT !.m_dat_out = FFbyte, !.m_have_token = TRUE, !.rx = <<>>]
  <1>1. RxByte(f, Token) = [[f EXCEPT !.m_dat_out = FFbyte] EXCEPT !.m_have_token = TRUE, !.rx = <<>>]
    BY DEF RxByte, CardOK
  <1> QED  BY <1>1 DEF CardOK, SdFields

LEMMA DataByte ==
    ASSUME NEW f, CardOK(f), f.m_reading_data = TRUE, f.m_have_token = TRUE, NEW b, Len(f.rx) < SDBYTES
    PROVE  RxByte(f, b) = [f EXCEPT !.m_dat_out = FFbyte, !.rx = Append(f.rx, b.v)]
  <1>1. PICK g : g = [f EXCEPT !.m_dat_out = FFbyte]
    OBVIOUS
  <1>2. RxByte(f, b) = Store(g, b)
    BY <1>1 DEF RxByte, CardOK
  <1>3. g.rx = f.rx
    BY <1>1 DEF CardOK, SdFields
  <1>4. Store(g, b) = [g EXCEPT !.rx = Append(@, b.v)]
    BY <1>3 DEF Store
  <1> QED  BY <1>1, <1>2, <1>3, <1>4 DEF CardOK, SdFields

LEMMA CrcByte ==
    ASSUME NEW f, CardOK(f), f.m_reading_data = TRUE, f.m_have_token = TRUE, ~(Len(f.rx) < SDBYTES)
    PROVE  RxByte(f, blockcrc(f.rx)) =
             [f EXCEPT !.m_reading_data = FALSE, !.m_have_token = FALSE, !.rx = <<>>, !.m_dat_out = Reply(5),
                       !.m_dev = IF f.m_dev = <<>> THEN f.m_dev ELSE [f.m_dev EXCEPT ![f.pos + 1] = f.rx],
                       !.pos = f.pos + 1]
  <1>1. PICK g : g = [f EXCEPT !.m_dat_out = FFbyte]
    OBVIOUS
  <1>2. PICK b : b = blockcrc(f.rx)
    OBVIOUS
  <1>3. RxByte(f, b) = Store(g, b)
    BY <1>1 DEF RxByte, CardOK
  <1>4. DOMAIN g = SdFields /\ g.rx = f.rx /\ g.pos = f.pos /\ g.m_dev = f.m_dev /\ g.ok = TRUE
    BY <1>1 DEF CardOK, SdFields
  <1>5. Store(g, b) = [g EXCEPT !.m_reading_data = FALSE, !.m_have_token = FALSE, !.rx = <<>>,
                   !.m_dat_out = Reply(IF b = blockcrc(g.rx) THEN 5 ELSE 11),
                   !.m_dev = IF @ = <<>> \/ b # blockcrc(g.rx) THEN @
                             ELSE [@ EXCEPT ![g.pos + 1] = g.rx],
                   !.pos = IF b = blockcrc(g.rx) THEN @ + 1 ELSE @,
                   !.ok = @ /\ b = blockcrc(g.rx)]
    BY <1>4 DEF Store
  <1>6. b = blockcrc(g.rx)
    BY <1>2, <1>4
  <1>7. Store(g, b) = [g EXCEPT !.m_reading_data = FALSE, !.m_have_token = FALSE, !.rx = <<>>,
                   !.m_dat_out = Reply(5),
                   !.m_dev = IF f.m_dev = <<>> THEN f.m_dev ELSE [f.m_dev EXCEPT ![f.pos + 1] = f.rx],
                   !.pos = f.pos + 1]
    <2>1. PICK dev, x, y : /\ dev = IF f.m_dev = <<>> THEN f.m_dev ELSE [f.m_dev EXCEPT ![f.pos + 1] = f.rx]
                           /\ x = Reply(5) /\ y = f.pos + 1
      OBVIOUS
    <2>2. (IF g.m_dev = <<>> \/ b # blockcrc(g.rx) THEN g.m_dev ELSE [g.m_dev EXCEPT ![g.pos + 1] = g.rx]) = dev
      BY <1>4, <1>6, <2>1
    <2>3. Reply(IF b = blockcrc(g.rx) THEN 5 ELSE 11) = x
      BY <1>6, <2>1, Zenon
    <2>4. (IF b = blockcrc(g.rx) THEN g.pos + 1 ELSE g.pos) = y
      BY <1>4, <1>6, <2>1
    <2>5. (g.ok /\ b = blockcrc(g.rx)) = TRUE
      BY <1>4, <1>6
    <2>6. Store(g, b) = [g EXCEPT !.m_reading_data = FALSE, !.m_have_token = FALSE, !.rx = <<>>,
                           !.m_dat_out = x, !.m_dev = dev, !.pos = y, !.ok = TRUE]
      BY <1>4, <1>5, <2>2, <2>3, <2>4, <2>5 DEF SdFields
    <2> QED  BY <1>4, <2>1, <2>6 DEF SdFields
  <1>8. PICK dev, x, y :
          /\ dev = IF f.m_dev = <<>> THEN f.m_dev ELSE [f.m_dev EXCEPT ![f.pos + 1] = f.rx]
          /\ x = Reply(5) /\ y = f.pos + 1
    OBVIOUS
  <1>9. [g EXCEPT !.m_reading_data = FALSE, !.m_have_token = FALSE, !.rx = <<>>, !.m_dat_out = x,
                  !.m_dev = dev, !.pos = y]
          = [f EXCEPT !.m_reading_data = FALSE, !.m_have_token = FALSE, !.rx = <<>>,
                      !.m_dat_out = x, !.m_dev = dev, !.pos = y]
    <2>1. DOMAIN f = SdFields
      BY DEF CardOK
    <2> QED  BY <1>1, <2>1 DEF SdFields
  <1>10. Store(g, b) = [g EXCEPT !.m_reading_data = FALSE, !.m_have_token = FALSE, !.rx = <<>>,
                                 !.m_dat_out = x, !.m_dev = dev, !.pos = y]
    BY <1>7, <1>8, Zenon
  <1> QED  BY <1>2, <1>3, <1>8, <1>9, <1>10, Zenon

(* The commands of the master, and those that it reads a block with; what a block
   is that it asked for; and what state of the card it sends a command in.    *)
SdCmds == {0, 1, 8, 9, 10, 13, 17, 24, 41, 51, 55, 58}
SdReads == {9, 10, 17, 51}
SdIdlePc == {"reset", "ifcond", "app", "opcond", "ocr", "scr", "ready"}
DiskOK(d) == d = <<>> \/ (DOMAIN d = 1 .. SDBLOCKS /\ \A b \in 1 .. SDBLOCKS : SdList(d[b]))
MasterOK(m) == DOMAIN m = SmFields /\ DiskOK(m.disk)
CmdOK(m) == m.c \in SdCmds /\ (m.c \in {17, 24} => m.arg \in Blocks)
Zeros == [i \in 1 .. SDBYTES |-> 0]
SdData(m) == IF m.c = 17 THEN IF m.disk = <<>> THEN Zeros ELSE m.disk[m.arg + 1]
             ELSE IF m.c = 9 THEN <<"csd">> ELSE IF m.c = 10 THEN <<"cid">> ELSE <<"scr">>

ComesIn(c, r) ==
    /\ c = 8 => r = "CMD0_IDLE"
    /\ c = 41 => r \in {"RCVD_CMD8", "RCVD_ACMD41"}
    /\ c = 55 => r \in {"RCVD_CMD8", "RCVD_ACMD41", "IN_OPERATION"}
    /\ c = 58 => r = "RESET_COMPLETE"
    /\ c \in {1, 9, 10, 13, 17, 24, 51} => r = "IN_OPERATION"
GoesOut(c, r, v) ==
    /\ c = 0 => r = "CMD0_IDLE"
    /\ c = 8 => r = "RCVD_CMD8"
    /\ c = 41 => (v = 0 /\ r = "RESET_COMPLETE") \/ (v = 1 /\ r = "RCVD_ACMD41")
    /\ c = 55 => v = 0 /\ r \in {"RCVD_CMD8", "RCVD_ACMD41", "IN_OPERATION"}
    /\ c \in {1, 9, 10, 13, 17, 24, 51, 58} => r = "IN_OPERATION"

(* The command is with the card; the card answers it; the card takes a block.  *)
Sent(f, m) ==
    /\ f.m_reading_data = FALSE /\ f.m_cmdidx = 6 /\ f.m_dat_out = FFbyte
    /\ f.m_cmdbuf = [c |-> m.c, arg |-> m.arg] /\ m.got = <<>>
    /\ f.m_altcmd_flag = (m.c \in {41, 51}) /\ (f.m_altcmd_flag => f.m_rspbuf = <<Reply(0)>>)
    /\ ComesIn(m.c, f.m_reset_state)
Responds(f, v, r, alt) ==
    /\ DOMAIN f = SdFields /\ f.ok = TRUE
    /\ f.m_reading_data = FALSE /\ f.m_cmdidx = 7 /\ f.m_altcmd_flag = alt
    /\ f.m_rspbuf = <<Reply(v)>> /\ f.m_reset_state = r
    /\ (f.m_dat_out = FFbyte /\ f.m_rspidx = 0) \/ f.m_dat_out = Reply(v)
Answers(f, m) ==
    /\ m.c # 24 /\ m.got = <<>>
    /\ \E v, r : Responds(f, v, r, m.c = 55) /\ GoesOut(m.c, r, v)
    /\ m.c \in SdReads => f.block = From(SdData(m), 0)
Takes(f, m) ==
    /\ f.m_reading_data = TRUE /\ f.m_have_token = FALSE /\ f.m_cmdidx = 7 /\ f.m_altcmd_flag = FALSE
    /\ m.c = 24 /\ f.pos = m.arg /\ f.m_reset_state = "IN_OPERATION" /\ m.got = <<>>
    /\ f.m_dat_out = Reply(0)

LEMMA DataIs ==
    ASSUME NEW m, MasterOK(m), CmdOK(m)
    PROVE  SdList(SdData(m))
  <1>1. SdList(Zeros)
    <2>1. Len(Zeros) = SDBYTES /\ SDBYTES \in Nat
      BY SdAssumption DEF Zeros
    <2> QED  BY <2>1 DEF SdList, Zeros
  <1>2. SdList(<<"csd">>) /\ SdList(<<"cid">>) /\ SdList(<<"scr">>)
    BY DEF SdList
  <1>3. ASSUME m.c = 17, m.disk # <<>> PROVE SdList(m.disk[m.arg + 1])
    <2>1. m.arg + 1 \in 1 .. SDBLOCKS
      BY <1>3, SdAssumption DEF CmdOK, Blocks
    <2> QED  BY <1>3, <2>1, Zenon DEF MasterOK, DiskOK
  <1> QED  BY <1>1, <1>2, <1>3 DEF SdData

(* A command that is answered with a number, and one that is answered with a block. *)
LEMMA AnsweredIs ==
    ASSUME NEW e, DOMAIN e = SdFields, NEW v, NEW n \in Nat
    PROVE  Answered(e, <<Reply(v)>>, n) = [e EXCEPT !.m_rspbuf = <<Reply(v)>>, !.m_rspdly = n, !.block = <<>>]
  BY DEF Answered

LEMMA SendBlockIs ==
    ASSUME NEW e, DOMAIN e = SdFields, e.ok = TRUE, e.m_reset_state = "IN_OPERATION", NEW d, Len(d) \in Nat
    PROVE  SendBlock(e, d) = [e EXCEPT !.m_rspbuf = <<Reply(0)>>, !.m_blkdly = BLKDLY, !.block = From(d, 0)]
  <1>1. SendBlock(e, d) = [e EXCEPT !.m_rspbuf = <<Reply(0)>>, !.m_blkdly = BLKDLY, !.ok = @ /\ Operating(e),
                                    !.block = From(d, 0)]
    BY BlockIs DEF SendBlock
  <1>2. (e.ok /\ Operating(e)) = TRUE
    BY DEF Operating
  <1>3. SendBlock(e, d) = [e EXCEPT !.m_rspbuf = <<Reply(0)>>, !.m_blkdly = BLKDLY, !.ok = TRUE,
                                    !.block = From(d, 0)]
    BY <1>1, <1>2 DEF SdFields
  <1> QED  BY <1>3 DEF SdFields

LEMMA ClearedIs ==
    ASSUME NEW f, CardOK(f)
    PROVE  /\ CardOK(SdCleared(f)) /\ SdCleared(f).m_dat_out = FFbyte /\ SdCleared(f).m_rspidx = 0
           /\ SdCleared(f).m_cmdbuf = f.m_cmdbuf /\ SdCleared(f).m_reset_state = f.m_reset_state
           /\ SdCleared(f).m_reading_data = f.m_reading_data /\ SdCleared(f).m_altcmd_flag = f.m_altcmd_flag
           /\ SdCleared(f).m_dev = f.m_dev /\ SdCleared(f).pos = f.pos
           /\ (f.m_altcmd_flag => SdCleared(f).m_rspbuf = f.m_rspbuf)
  <1>1. PICK g : g = [f EXCEPT !.m_dat_out = FFbyte, !.m_rspidx = 0, !.m_blkdly = 0, !.block = <<>>,
                        !.m_rspbuf = IF f.m_altcmd_flag THEN f.m_rspbuf ELSE <<>>]
    OBVIOUS
  <1>2. SdCleared(f) = g
    BY <1>1 DEF SdCleared, CardOK, SdFields
  <1>3. /\ DOMAIN g = SdFields /\ g.ok = TRUE
        /\ g.m_reading_data \in BOOLEAN /\ g.m_altcmd_flag \in BOOLEAN /\ g.m_have_token \in BOOLEAN
        /\ g.m_rspdly \in Nat /\ g.m_blkdly \in Nat /\ g.m_rspidx \in Nat
    BY <1>1 DEF CardOK, SdFields
  <1>4. /\ g.m_dat_out = FFbyte /\ g.m_rspidx = 0
        /\ g.m_cmdbuf = f.m_cmdbuf /\ g.m_reset_state = f.m_reset_state
        /\ g.m_reading_data = f.m_reading_data /\ g.m_altcmd_flag = f.m_altcmd_flag
        /\ g.m_dev = f.m_dev /\ g.pos = f.pos
        /\ (f.m_altcmd_flag => g.m_rspbuf = f.m_rspbuf)
    BY <1>1 DEF CardOK, SdFields
  <1> QED  BY <1>2, <1>3, <1>4 DEF CardOK

(* What the card is before the command is carried out (e), and after it (k).   *)
Ready6(e, m) ==
    /\ CardOK(e) /\ e.m_dat_out = FFbyte /\ e.m_rspidx = 0 /\ e.m_reading_data = FALSE
    /\ e.m_cmdbuf = [c |-> m.c, arg |-> m.arg] /\ m.got = <<>>
    /\ e.m_altcmd_flag = (m.c \in {41, 51}) /\ (e.m_altcmd_flag => e.m_rspbuf = <<Reply(0)>>)
    /\ ComesIn(m.c, e.m_reset_state)
    /\ MasterOK(m) /\ CmdOK(m) /\ e.m_dev = m.disk
Ends(k, m) == CardOK(k) /\ k.m_dev = m.disk /\ (IF m.c = 24 THEN Takes(k, m) ELSE Answers(k, m))

Number(e, q, n, r, a) == [e EXCEPT !.m_rspbuf = q, !.m_rspdly = n, !.block = <<>>, !.m_reset_state = r,
                                    !.m_altcmd_flag = a]
NumberOK(m, v, n, r, a) ==
    /\ n \in Nat /\ a \in BOOLEAN /\ m.c \notin SdReads /\ m.c # 24 /\ GoesOut(m.c, r, v)
    /\ a = (IF m.c = 55 THEN TRUE ELSE FALSE)
Counted(x) == [x EXCEPT !.m_cmdidx = 7]
LEMMA NumberAnswer ==
    ASSUME NEW e, NEW m, Ready6(e, m), NEW v, NEW n, NEW r, NEW a, NumberOK(m, v, n, r, a)
    PROVE  Ends(Counted(Number(e, <<Reply(v)>>, n, r, a)), m)
  <1>0. /\ n \in Nat /\ a \in BOOLEAN /\ m.c \notin SdReads /\ m.c # 24 /\ GoesOut(m.c, r, v)
        /\ a = (IF m.c = 55 THEN TRUE ELSE FALSE)
    BY DEF NumberOK
  <1>1. PICK k : k = [[e EXCEPT !.m_rspbuf = <<Reply(v)>>, !.m_rspdly = n, !.block = <<>>,
                           !.m_reset_state = r, !.m_altcmd_flag = a] EXCEPT !.m_cmdidx = 7]
    OBVIOUS
  <1>2. DOMAIN e = SdFields /\ CardOK(e)
    BY DEF Ready6, CardOK
  <1>3. /\ DOMAIN k = SdFields /\ k.ok = e.ok /\ k.m_dev = e.m_dev
        /\ k.m_reading_data = e.m_reading_data /\ k.m_altcmd_flag = a /\ k.m_have_token = e.m_have_token
        /\ k.m_rspdly = n /\ k.m_blkdly = e.m_blkdly /\ k.m_rspidx = e.m_rspidx
        /\ k.m_cmdidx = 7 /\ k.m_rspbuf = <<Reply(v)>> /\ k.m_reset_state = r /\ k.m_dat_out = e.m_dat_out
    BY <1>1, <1>2 DEF SdFields
  <1>4. CardOK(k)
    BY <1>0, <1>2, <1>3 DEF CardOK
  <1>5. k.m_dev = m.disk /\ e.m_reading_data = FALSE /\ e.m_dat_out = FFbyte /\ e.m_rspidx = 0 /\ m.got = <<>>
    BY <1>3 DEF Ready6
  <1>a. a = (m.c = 55)
    BY <1>0
  <1>6. Responds(k, v, r, m.c = 55)
    <2>1. DOMAIN k = SdFields /\ k.ok = TRUE /\ k.m_reading_data = FALSE
      BY <1>2, <1>3, <1>5 DEF CardOK
    <2>2. k.m_cmdidx = 7 /\ k.m_rspbuf = <<Reply(v)>> /\ k.m_reset_state = r
      BY <1>3
    <2>3. k.m_altcmd_flag = (m.c = 55)
      BY <1>3, <1>a, Zenon
    <2>4. (k.m_dat_out = FFbyte /\ k.m_rspidx = 0) \/ k.m_dat_out = Reply(v)
      BY <1>3, <1>5
    <2> QED  BY <2>1, <2>2, <2>3, <2>4, Zenon DEF Responds
  <1>7. m.c # 24 /\ ~(m.c \in SdReads)
    BY <1>0
  <1>8. Answers(k, m)
    BY <1>0, <1>5, <1>6, <1>7, Zenon DEF Answers
  <1> QED  BY <1>1, <1>4, <1>5, <1>7, <1>8, Zenon DEF Ends, Number, Counted

LEMMA BlockAnswer ==
    ASSUME NEW e, NEW m, Ready6(e, m), NEW n \in Nat, NEW p, NEW o, o \in {FFbyte, Reply(0)},
           m.c \in SdReads, NEW d, d = SdData(m)
    PROVE  Ends([[e EXCEPT !.m_rspbuf = <<Reply(0)>>, !.m_blkdly = n, !.block = From(d, 0), !.pos = p,
                           !.m_dat_out = o, !.m_altcmd_flag = FALSE] EXCEPT !.m_cmdidx = 7], m)
  <1>1. PICK k, b : b = From(d, 0) /\
                 k = [[e EXCEPT !.m_rspbuf = <<Reply(0)>>, !.m_blkdly = n, !.block = b, !.pos = p,
                           !.m_dat_out = o, !.m_altcmd_flag = FALSE] EXCEPT !.m_cmdidx = 7]
    OBVIOUS
  <1>2. DOMAIN e = SdFields /\ CardOK(e)
    BY DEF Ready6, CardOK
  <1>3. /\ DOMAIN k = SdFields /\ k.ok = e.ok /\ k.m_dev = e.m_dev
        /\ k.m_reading_data = e.m_reading_data /\ k.m_altcmd_flag = FALSE /\ k.m_have_token = e.m_have_token
        /\ k.m_rspdly = e.m_rspdly /\ k.m_blkdly = n /\ k.m_rspidx = e.m_rspidx /\ k.block = b
        /\ k.m_cmdidx = 7 /\ k.m_rspbuf = <<Reply(0)>> /\ k.m_reset_state = e.m_reset_state /\ k.m_dat_out = o
    BY <1>1, <1>2 DEF SdFields
  <1>4. CardOK(k)
    BY <1>2, <1>3 DEF CardOK
  <1>5. k.m_dev = m.disk /\ e.m_reading_data = FALSE /\ e.m_rspidx = 0 /\ m.got = <<>>
    BY <1>3 DEF Ready6
  <1>6. m.c # 24 /\ m.c # 55 /\ m.c \in {1, 9, 10, 13, 17, 24, 51} /\ m.c \in {1, 9, 10, 13, 17, 24, 51, 58}
        /\ m.c # 0 /\ m.c # 8 /\ m.c # 41
    BY DEF SdReads
  <1>7. ComesIn(m.c, e.m_reset_state)
    BY DEF Ready6
  <1>8. e.m_reset_state = "IN_OPERATION"
    BY <1>6, <1>7, Zenon DEF ComesIn
  <1>9. GoesOut(m.c, "IN_OPERATION", 0)
    BY <1>6, Zenon DEF GoesOut
  <1>10. (m.c = 55) = FALSE
    BY <1>6
  <1>11. Responds(k, 0, "IN_OPERATION", m.c = 55)
    <2>1. (k.m_dat_out = FFbyte /\ k.m_rspidx = 0) \/ k.m_dat_out = Reply(0)
      BY <1>3, <1>5
    <2>2. DOMAIN k = SdFields /\ k.ok = TRUE /\ k.m_reading_data = FALSE
      BY <1>2, <1>3, <1>5 DEF CardOK
    <2>3. k.m_cmdidx = 7 /\ k.m_rspbuf = <<Reply(0)>> /\ k.m_reset_state = "IN_OPERATION"
      BY <1>3, <1>8
    <2>4. k.m_altcmd_flag = (m.c = 55)
      BY <1>3, <1>10, Zenon
    <2> QED  BY <2>1, <2>2, <2>3, <2>4, Zenon DEF Responds
  <1>12. Answers(k, m)
    <2>1. k.block = From(SdData(m), 0)
      BY <1>1, <1>3
    <2>2. \E v, r : Responds(k, v, r, m.c = 55) /\ GoesOut(m.c, r, v)
      BY <1>9, <1>11, Zenon
    <2>3. m.c # 24 /\ m.got = <<>>
      BY <1>5, <1>6
    <2> QED  BY <2>1, <2>2, <2>3, Zenon DEF Answers
  <1> QED  BY <1>1, <1>4, <1>5, <1>6, <1>12, Zenon DEF Ends

InState(x, r) == [x EXCEPT !.m_reset_state = r]
InAlt(x, a) == [x EXCEPT !.m_altcmd_flag = a]
Asserts(x, b) == [x EXCEPT !.ok = b]
LEMMA AnsweredFields ==
    ASSUME NEW e, DOMAIN e = SdFields, e.ok = TRUE, NEW q, NEW n
    PROVE  /\ DOMAIN Answered(e, q, n) = SdFields /\ Answered(e, q, n).ok = TRUE
           /\ Answered(e, q, n).m_reset_state = e.m_reset_state
  BY DEF Answered, SdFields
LEMMA AnsweredInPlace ==
    ASSUME NEW e, DOMAIN e = SdFields, NEW q, NEW n
    PROVE  Answered(e, q, n) = Number(e, q, n, e.m_reset_state, e.m_altcmd_flag)
  BY DEF Answered, Number, SdFields
LEMMA AnsweredInState ==
    ASSUME NEW e, DOMAIN e = SdFields, NEW q, NEW n, NEW r
    PROVE  InState(Answered(e, q, n), r) = Number(e, q, n, r, e.m_altcmd_flag)
  BY DEF Answered, Number, InState, SdFields
LEMMA AnsweredInAlt ==
    ASSUME NEW e, DOMAIN e = SdFields, NEW q, NEW n, NEW a
    PROVE  InAlt(Answered(e, q, n), a) = Number(e, q, n, e.m_reset_state, a)
  BY DEF Answered, Number, InAlt, SdFields

LEMMA NumberCommands ==
    ASSUME NEW e, NEW m, Ready6(e, m), m.c \in {0, 1, 8, 13, 55, 58}
    PROVE  Ends([SdCommand(e) EXCEPT !.m_cmdidx = 7], m)
  <1>1. /\ DOMAIN e = SdFields /\ e.ok = TRUE /\ e.m_cmdbuf.c = m.c /\ e.m_altcmd_flag \in BOOLEAN
        /\ ComesIn(m.c, e.m_reset_state)
    BY DEF Ready6, CardOK
  <1>2. e.m_altcmd_flag = FALSE
    <2>1. e.m_altcmd_flag = (m.c \in {41, 51})
      BY DEF Ready6
    <2>2. (m.c \in {41, 51}) = FALSE
      OBVIOUS
    <2> QED  BY <2>1, <2>2
  <1>3. PICK r : r = e.m_reset_state
    OBVIOUS
  <1>4. m.c \notin SdReads /\ m.c # 24 /\ 2 \in Nat /\ 4 \in Nat /\ TRUE \in BOOLEAN /\ FALSE \in BOOLEAN
    BY DEF SdReads
  <1>5. CASE m.c = 0
    <2>1. SdCommand(e) = [Answered(e, <<Reply(1)>>, 4) EXCEPT !.m_reset_state = "CMD0_IDLE"]
      BY <1>1, <1>5 DEF SdCommand
    <2>2. SdCommand(e) = Number(e, <<Reply(1)>>, 4, "CMD0_IDLE", FALSE)
      <3>1. SdCommand(e) = InState(Answered(e, <<Reply(1)>>, 4), "CMD0_IDLE")
        BY <2>1 DEF InState
      <3>2. SdCommand(e) = Number(e, <<Reply(1)>>, 4, "CMD0_IDLE", e.m_altcmd_flag)
        BY <1>1, <3>1, AnsweredInState
      <3> QED  BY <1>2, <3>2
    <2>3. NumberOK(m, 1, 4, "CMD0_IDLE", FALSE)
      BY <1>4, <1>5 DEF NumberOK, GoesOut
    <2>5. Ends(Counted(Number(e, <<Reply(1)>>, 4, "CMD0_IDLE", FALSE)), m)
      BY <2>3, NumberAnswer, ZenonT(40)
    <2> QED  BY <2>2, <2>5 DEF Counted
  <1>6. CASE m.c = 1
    <2>1. SdCommand(e) = Answered(e, <<Reply(2)>>, 4)
      BY <1>1, <1>6 DEF SdCommand
    <2>2. SdCommand(e) = Number(e, <<Reply(2)>>, 4, r, FALSE)
      <3>1. SdCommand(e) = Number(e, <<Reply(2)>>, 4, e.m_reset_state, e.m_altcmd_flag)
        BY <1>1, <2>1, AnsweredInPlace
      <3> QED  BY <1>2, <1>3, <3>1
    <2>3. NumberOK(m, 2, 4, r, FALSE)
      BY <1>4, <1>1, <1>3, <1>6 DEF NumberOK, GoesOut, ComesIn
    <2>5. Ends(Counted(Number(e, <<Reply(2)>>, 4, r, FALSE)), m)
      BY <2>3, NumberAnswer, ZenonT(40)
    <2> QED  BY <2>2, <2>5 DEF Counted
  <1>7. CASE m.c = 8
    <2>1. SdCommand(e) = [Answered(e, <<Reply(0)>>, 4) EXCEPT
                               !.m_reset_state = "RCVD_CMD8",
                               !.ok = @ /\ e.m_reset_state \in {"CMD0_IDLE", "RCVD_CMD8"}]
      BY <1>1, <1>7 DEF SdCommand
    <2>2. e.m_reset_state = "CMD0_IDLE"
      BY <1>1, <1>7 DEF ComesIn
    <2>3. SdCommand(e) = Number(e, <<Reply(0)>>, 4, "RCVD_CMD8", FALSE)
      <3>1. PICK x : x = Answered(e, <<Reply(0)>>, 4)
        OBVIOUS
      <3>2. DOMAIN x = SdFields /\ x.ok = TRUE
        BY <1>1, <3>1, AnsweredFields
      <3>3. (x.ok /\ e.m_reset_state \in {"CMD0_IDLE", "RCVD_CMD8"}) = TRUE
        BY <2>2, <3>2
      <3>4. SdCommand(e) = [x EXCEPT !.m_reset_state = "RCVD_CMD8", !.ok = TRUE]
        BY <2>1, <3>1, <3>2, <3>3 DEF SdFields
      <3>5. SdCommand(e) = Asserts(InState(x, "RCVD_CMD8"), TRUE)
        BY <3>2, <3>4 DEF InState, Asserts, SdFields
      <3>6. SdCommand(e) = Number(e, <<Reply(0)>>, 4, "RCVD_CMD8", e.m_altcmd_flag)
        <4>1. Asserts(InState(x, "RCVD_CMD8"), TRUE) = InState(x, "RCVD_CMD8")
          <5>1. PICK z : z = InState(x, "RCVD_CMD8")
            OBVIOUS
          <5>2. DOMAIN z = SdFields /\ z.ok = TRUE /\ z = [x EXCEPT !.m_reset_state = "RCVD_CMD8"]
            BY <3>2, <5>1 DEF InState, SdFields
          <5>3. Asserts(z, TRUE) = z
            BY <5>2 DEF Asserts, SdFields
          <5> QED  BY <5>1, <5>3
        <4>2. InState(x, "RCVD_CMD8") = Number(e, <<Reply(0)>>, 4, "RCVD_CMD8", e.m_altcmd_flag)
          BY <1>1, <3>1, AnsweredInState
        <4> QED  BY <3>5, <4>1, <4>2
      <3> QED  BY <1>2, <3>6
    <2>4. NumberOK(m, 0, 4, "RCVD_CMD8", FALSE)
      BY <1>4, <1>7 DEF NumberOK, GoesOut
    <2>5. Ends(Counted(Number(e, <<Reply(0)>>, 4, "RCVD_CMD8", FALSE)), m)
      BY <2>4, NumberAnswer, ZenonT(40)
    <2> QED  BY <2>3, <2>5 DEF Counted
  <1>8. CASE m.c = 13
    <2>1. SdCommand(e) = [Answered(e, <<Reply(0)>>, 4) EXCEPT !.ok = @ /\ Operating(e)]
      BY <1>1, <1>8 DEF SdCommand
    <2>2. r = "IN_OPERATION"
      BY <1>1, <1>3, <1>8 DEF ComesIn
    <2>3. SdCommand(e) = Number(e, <<Reply(0)>>, 4, r, FALSE)
      <3>1. PICK x : x = Answered(e, <<Reply(0)>>, 4)
        OBVIOUS
      <3>2. DOMAIN x = SdFields /\ x.ok = TRUE
        BY <1>1, <3>1, AnsweredFields
      <3>3. (x.ok /\ Operating(e)) = TRUE
        BY <1>3, <2>2, <3>2 DEF Operating
      <3>4. SdCommand(e) = Asserts(x, TRUE)
        BY <2>1, <3>1, <3>2, <3>3 DEF Asserts, SdFields
      <3>5. SdCommand(e) = Number(e, <<Reply(0)>>, 4, e.m_reset_state, e.m_altcmd_flag)
        <4>1. Asserts(x, TRUE) = x
          <5>1. PICK y : y = [e EXCEPT !.m_rspbuf = <<Reply(0)>>, !.m_rspdly = 4, !.block = <<>>]
            OBVIOUS
          <5>2. x = y
            BY <3>1, <5>1 DEF Answered
          <5>3. DOMAIN y = SdFields /\ y.ok = TRUE
            BY <3>2, <5>2
          <5>4. Asserts(y, TRUE) = y
            BY <5>1, <5>3 DEF Asserts, SdFields
          <5> QED  BY <5>2, <5>4
        <4>2. x = Number(e, <<Reply(0)>>, 4, e.m_reset_state, e.m_altcmd_flag)
          BY <1>1, <3>1, AnsweredInPlace
        <4> QED  BY <3>4, <4>1, <4>2
      <3> QED  BY <1>2, <1>3, <3>5
    <2>4. NumberOK(m, 0, 4, r, FALSE)
      BY <1>4, <1>8, <2>2 DEF NumberOK, GoesOut
    <2>5. Ends(Counted(Number(e, <<Reply(0)>>, 4, r, FALSE)), m)
      BY <2>4, NumberAnswer, ZenonT(40)
    <2> QED  BY <2>3, <2>5 DEF Counted
  <1>9. CASE m.c = 55
    <2>1. SdCommand(e) = [Answered(e, <<Reply(0)>>, 2) EXCEPT !.m_altcmd_flag = TRUE]
      BY <1>1, <1>9 DEF SdCommand
    <2>2. SdCommand(e) = Number(e, <<Reply(0)>>, 2, r, TRUE)
      <3>1. SdCommand(e) = InAlt(Answered(e, <<Reply(0)>>, 2), TRUE)
        BY <2>1 DEF InAlt
      <3>2. SdCommand(e) = Number(e, <<Reply(0)>>, 2, e.m_reset_state, TRUE)
        <4>1. PICK a : a = TRUE
          OBVIOUS
        <4>2. InAlt(Answered(e, <<Reply(0)>>, 2), a) = Number(e, <<Reply(0)>>, 2, e.m_reset_state, a)
          BY <1>1, AnsweredInAlt
        <4> QED  BY <3>1, <4>1, <4>2
      <3> QED  BY <1>3, <3>2
    <2>3. NumberOK(m, 0, 2, r, TRUE)
      BY <1>4, <1>1, <1>3, <1>9 DEF NumberOK, GoesOut, ComesIn
    <2>5. Ends(Counted(Number(e, <<Reply(0)>>, 2, r, TRUE)), m)
      BY <2>3, NumberAnswer, ZenonT(40)
    <2> QED  BY <2>2, <2>5 DEF Counted
  <1>10. CASE m.c = 58
    <2>1. SdCommand(e) = [Answered(e, <<Reply(0)>>, 4) EXCEPT !.m_reset_state =
                               IF @ = "RESET_COMPLETE" THEN "IN_OPERATION" ELSE @]
      BY <1>1, <1>10 DEF SdCommand
    <2>2. e.m_reset_state = "RESET_COMPLETE"
      BY <1>1, <1>10 DEF ComesIn
    <2>3. SdCommand(e) = Number(e, <<Reply(0)>>, 4, "IN_OPERATION", FALSE)
      <3>1. PICK x : x = Answered(e, <<Reply(0)>>, 4)
        OBVIOUS
      <3>2. DOMAIN x = SdFields /\ x.m_reset_state = "RESET_COMPLETE"
        BY <1>1, <2>2, <3>1, AnsweredFields
      <3>3. SdCommand(e) = InState(x, "IN_OPERATION")
        BY <2>1, <3>1, <3>2 DEF SdFields, InState
      <3>4. SdCommand(e) = Number(e, <<Reply(0)>>, 4, "IN_OPERATION", e.m_altcmd_flag)
        BY <1>1, <3>1, <3>3, AnsweredInState
      <3> QED  BY <1>2, <3>4
    <2>4. NumberOK(m, 0, 4, "IN_OPERATION", FALSE)
      BY <1>4, <1>10 DEF NumberOK, GoesOut
    <2>5. Ends(Counted(Number(e, <<Reply(0)>>, 4, "IN_OPERATION", FALSE)), m)
      BY <2>4, NumberAnswer, ZenonT(40)
    <2> QED  BY <2>3, <2>5 DEF Counted
  <1> QED  BY <1>5, <1>6, <1>7, <1>8, <1>9, <1>10

LEMMA BlockCommands ==
    ASSUME NEW e, NEW m, Ready6(e, m), m.c \in {9, 10, 17}
    PROVE  Ends([SdCommand(e) EXCEPT !.m_cmdidx = 7], m)
  <1>1. /\ DOMAIN e = SdFields /\ e.ok = TRUE /\ e.m_cmdbuf.c = m.c /\ e.m_cmdbuf.arg = m.arg
        /\ ComesIn(m.c, e.m_reset_state) /\ e.m_dat_out = FFbyte /\ e.m_dev = m.disk
        /\ MasterOK(m) /\ CmdOK(m)
    BY DEF Ready6, CardOK
  <1>2. e.m_altcmd_flag = FALSE
    <2>1. e.m_altcmd_flag = (m.c \in {41, 51})
      BY DEF Ready6
    <2>2. (m.c \in {41, 51}) = FALSE
      OBVIOUS
    <2> QED  BY <2>1, <2>2
  <1>3. e.m_reset_state = "IN_OPERATION"
    BY <1>1 DEF ComesIn
  <1>4. PICK d : d = SdData(m)
    OBVIOUS
  <1>5. Len(d) \in Nat
    BY <1>1, <1>4, DataIs DEF SdList
  <1>6. PICK b : b = From(d, 0)
    OBVIOUS
  <1>7. m.c \in SdReads /\ BLKDLY \in Nat /\ FFbyte \in {FFbyte, Reply(0)}
    BY SdAssumption DEF SdReads
  <1>8. \A p : Ends([[e EXCEPT !.m_rspbuf = <<Reply(0)>>, !.m_blkdly = BLKDLY, !.block = From(d, 0), !.pos = p,
                           !.m_dat_out = FFbyte, !.m_altcmd_flag = FALSE] EXCEPT !.m_cmdidx = 7], m)
    BY <1>4, <1>7, BlockAnswer
  <1>9. SendBlock(e, d) = [e EXCEPT !.m_rspbuf = <<Reply(0)>>, !.m_blkdly = BLKDLY, !.block = b]
    BY <1>1, <1>3, <1>5, <1>6, SendBlockIs
  <1>10. SendBlock(e, d) = [e EXCEPT !.m_rspbuf = <<Reply(0)>>, !.m_blkdly = BLKDLY, !.block = b, !.pos = e.pos,
                           !.m_dat_out = FFbyte, !.m_altcmd_flag = FALSE]
    <2>1. PICK q, o : q = <<Reply(0)>> /\ o = FFbyte
      OBVIOUS
    <2>2. [e EXCEPT !.m_rspbuf = q, !.m_blkdly = BLKDLY, !.block = b]
            = [e EXCEPT !.m_rspbuf = q, !.m_blkdly = BLKDLY, !.block = b, !.pos = e.pos, !.m_dat_out = o,
                        !.m_altcmd_flag = FALSE]
      BY <1>1, <1>2, <2>1 DEF SdFields
    <2> QED  BY <1>9, <2>1, <2>2
  <1>11. Ends([SendBlock(e, d) EXCEPT !.m_cmdidx = 7], m)
    BY <1>6, <1>8, <1>10
  <1>12. CASE m.c = 9
    <2>1. SdCommand(e) = SendBlock(e, <<"csd">>) /\ d = <<"csd">>
      BY <1>1, <1>4, <1>12 DEF SdCommand, SdData
    <2> QED  BY <1>11, <2>1
  <1>13. CASE m.c = 10
    <2>1. SdCommand(e) = SendBlock(e, <<"cid">>) /\ d = <<"cid">>
      BY <1>1, <1>4, <1>13 DEF SdCommand, SdData
    <2> QED  BY <1>11, <2>1
  <1>14. CASE m.c = 17
    <2>1. SdCommand(e) = CMD17(e)
      BY <1>1, <1>14 DEF SdCommand
    <2>2. CASE m.disk = <<>>
      <3>1. d = [i \in 1 .. SDBYTES |-> 0]
        BY <1>4, <1>14, <2>2 DEF SdData, Zeros
      <3>2. CMD17(e) = SendBlock(e, d)
        BY <1>1, <2>2, <3>1 DEF CMD17
      <3> QED  BY <1>11, <2>1, <3>2
    <2>3. CASE m.disk # <<>>
      <3>1. d = m.disk[m.arg + 1]
        BY <1>4, <1>14, <2>3 DEF SdData
      <3>2. CMD17(e) = SendBlock(Seek(e), d)
        BY <1>1, <2>3, <3>1 DEF CMD17
      <3>3. (e.ok /\ e.m_cmdbuf.arg \in Blocks) = TRUE
        BY <1>1, <1>14 DEF CmdOK
      <3>4. PICK g : g = [e EXCEPT !.pos = m.arg]
        OBVIOUS
      <3>5. Seek(e) = g
        BY <1>1, <3>3, <3>4 DEF Seek, SdFields
      <3>6. DOMAIN g = SdFields /\ g.ok = TRUE /\ g.m_reset_state = "IN_OPERATION"
        BY <1>1, <1>3, <3>4 DEF SdFields
      <3>7. SendBlock(g, d) = [g EXCEPT !.m_rspbuf = <<Reply(0)>>, !.m_blkdly = BLKDLY, !.block = b]
        BY <1>5, <1>6, <3>6, SendBlockIs
      <3>8. SendBlock(g, d) = [e EXCEPT !.m_rspbuf = <<Reply(0)>>, !.m_blkdly = BLKDLY, !.block = b, !.pos = m.arg,
                           !.m_dat_out = FFbyte, !.m_altcmd_flag = FALSE]
        <4>1. PICK q, o : q = <<Reply(0)>> /\ o = FFbyte
          OBVIOUS
        <4>2. [g EXCEPT !.m_rspbuf = q, !.m_blkdly = BLKDLY, !.block = b]
                = [e EXCEPT !.m_rspbuf = q, !.m_blkdly = BLKDLY, !.block = b, !.pos = m.arg, !.m_dat_out = o,
                            !.m_altcmd_flag = FALSE]
          BY <1>1, <1>2, <3>4, <4>1 DEF SdFields
        <4> QED  BY <3>7, <4>1, <4>2
      <3>9. Ends([SendBlock(g, d) EXCEPT !.m_cmdidx = 7], m)
        BY <1>6, <1>8, <3>8
      <3> QED  BY <2>1, <3>2, <3>5, <3>9
    <2> QED  BY <2>2, <2>3
  <1> QED  BY <1>12, <1>13, <1>14

LEMMA WriteCommand ==
    ASSUME NEW e, NEW m, Ready6(e, m), m.c = 24
    PROVE  Ends([SdCommand(e) EXCEPT !.m_cmdidx = 7], m)
  <1>1. /\ DOMAIN e = SdFields /\ e.ok = TRUE /\ e.m_cmdbuf.c = m.c /\ e.m_cmdbuf.arg = m.arg
        /\ ComesIn(m.c, e.m_reset_state) /\ e.m_dev = m.disk /\ CardOK(e)
        /\ CmdOK(m) /\ m.got = <<>>
    BY DEF Ready6, CardOK
  <1>2. e.m_altcmd_flag = FALSE
    <2>1. e.m_altcmd_flag = (m.c \in {41, 51})
      BY DEF Ready6
    <2>2. (m.c \in {41, 51}) = FALSE
      OBVIOUS
    <2> QED  BY <2>1, <2>2
  <1>3. e.m_reset_state = "IN_OPERATION"
    BY <1>1 DEF ComesIn
  <1>4. (e.ok /\ e.m_cmdbuf.arg \in Blocks) = TRUE
    BY <1>1 DEF CmdOK
  <1>5. SdCommand(e) = CMD24(e)
    BY <1>1 DEF SdCommand
  <1>6. Seek(e) = [e EXCEPT !.pos = m.arg]
    BY <1>1, <1>4 DEF Seek, SdFields
  <1>7. PICK k : k = [SdCommand(e) EXCEPT !.m_cmdidx = 7]
    OBVIOUS
  <1>8. k = [e EXCEPT !.pos = m.arg, !.m_reading_data = TRUE, !.m_have_token = FALSE, !.m_dat_out = Reply(0),
                      !.m_cmdidx = 7]
    BY <1>1, <1>5, <1>6, <1>7 DEF CMD24, SdFields
  <1>9. /\ DOMAIN k = SdFields /\ k.ok = e.ok /\ k.m_dev = e.m_dev
        /\ k.m_reading_data = TRUE /\ k.m_altcmd_flag = e.m_altcmd_flag /\ k.m_have_token = FALSE
        /\ k.m_rspdly = e.m_rspdly /\ k.m_blkdly = e.m_blkdly /\ k.m_rspidx = e.m_rspidx /\ k.pos = m.arg
        /\ k.m_cmdidx = 7 /\ k.m_reset_state = e.m_reset_state /\ k.m_dat_out = Reply(0)
    BY <1>1, <1>8 DEF SdFields
  <1>10. CardOK(k)
    BY <1>1, <1>9 DEF CardOK
  <1>11. Takes(k, m)
    BY <1>1, <1>2, <1>3, <1>9 DEF Takes
  <1> QED  BY <1>1, <1>7, <1>9, <1>10, <1>11 DEF Ends

(* The application commands, which leave m_rspbuf as the answer of CMD55.       *)
LEMMA AltCommands ==
    ASSUME NEW e, NEW m, Ready6(e, m), m.c \in {41, 51}
    PROVE  Ends([AltCommand(e) EXCEPT !.m_cmdidx = 7], m)
  <1>1. /\ DOMAIN e = SdFields /\ e.ok = TRUE /\ e.m_cmdbuf.c = m.c
        /\ ComesIn(m.c, e.m_reset_state) /\ e.m_dat_out = FFbyte
    BY DEF Ready6, CardOK
  <1>2. e.m_rspbuf = <<Reply(0)>>
    <2>1. e.m_altcmd_flag = (m.c \in {41, 51})
      BY DEF Ready6
    <2> QED  BY <2>1 DEF Ready6
  <1>3. CASE m.c = 41
    <2>1. AltCommand(e) = [ACMD41(e) EXCEPT !.m_altcmd_flag = FALSE]
      BY <1>1, <1>3 DEF AltCommand
    <2>2. PICK b : b = IF e.m_powerup_busy = "never" THEN "counting" ELSE e.m_powerup_busy
      OBVIOUS
    <2>3. (e.ok /\ e.m_reset_state \in {"RCVD_CMD8", "RCVD_ACMD41", "RESET_COMPLETE"}) = TRUE
      BY <1>1, <1>3 DEF ComesIn
    <2>4. PICK g : g = [e EXCEPT !.m_powerup_busy = b]
      OBVIOUS
    <2>5. [e EXCEPT !.m_powerup_busy = IF @ = "never" THEN "counting" ELSE @,
                    !.ok = @ /\ e.m_reset_state \in {"RCVD_CMD8", "RCVD_ACMD41", "RESET_COMPLETE"}] = g
      BY <1>1, <2>2, <2>3, <2>4 DEF SdFields
    <2>6. PICK v, r : v = (IF Busy(g) THEN 1 ELSE 0) /\ r = IF Busy(g) THEN "RCVD_ACMD41" ELSE "RESET_COMPLETE"
      OBVIOUS
    <2>7. ACMD41(e) = [Answered(g, <<Reply(IF Busy(g) THEN 1 ELSE 0)>>, 2)
                        EXCEPT !.m_reset_state = IF Busy(g) THEN "RCVD_ACMD41" ELSE "RESET_COMPLETE"]
      BY <2>5 DEF ACMD41
    <2>8. DOMAIN g = SdFields
      BY <1>1, <2>4
    <2>9. ACMD41(e) = [Answered(g, <<Reply(v)>>, 2) EXCEPT !.m_reset_state = r]
      BY <2>6, <2>7, <2>8 DEF SdFields, Answered
    <2>10. AltCommand(e) = Number(g, <<Reply(v)>>, 2, r, FALSE)
      BY <2>1, <2>8, <2>9 DEF SdFields, Answered, Number
    <2>11. GoesOut(m.c, r, v)
      <3>1. (v = 0 /\ r = "RESET_COMPLETE") \/ (v = 1 /\ r = "RCVD_ACMD41")
        BY <2>6
      <3> QED  BY <1>3, <3>1 DEF GoesOut
    <2>12. Ready6(g, m)
      <3>1. /\ DOMAIN g = SdFields /\ g.ok = e.ok /\ g.m_dev = e.m_dev
            /\ g.m_reading_data = e.m_reading_data /\ g.m_altcmd_flag = e.m_altcmd_flag
            /\ g.m_have_token = e.m_have_token /\ g.m_cmdbuf = e.m_cmdbuf
            /\ g.m_rspdly = e.m_rspdly /\ g.m_blkdly = e.m_blkdly /\ g.m_rspidx = e.m_rspidx
            /\ g.m_rspbuf = e.m_rspbuf /\ g.m_reset_state = e.m_reset_state /\ g.m_dat_out = e.m_dat_out
        BY <1>1, <2>4 DEF SdFields
      <3>2. CardOK(g)
        BY <3>1 DEF CardOK, Ready6
      <3> QED  BY <3>1, <3>2, Zenon DEF Ready6
    <2>13. NumberOK(m, v, 2, r, FALSE)
      BY <1>3, <2>11 DEF NumberOK, SdReads
    <2>14. Ends(Counted(Number(g, <<Reply(v)>>, 2, r, FALSE)), m)
      BY <2>12, <2>13, NumberAnswer, ZenonT(40)
    <2> QED  BY <2>10, <2>14 DEF Counted
  <1>4. CASE m.c = 51
    <2>1. AltCommand(e) = [[SendBlock(e, <<"scr">>) EXCEPT !.m_blkdly = 0, !.m_rspbuf = e.m_rspbuf, !.ok = e.ok,
                                   !.m_dat_out = Reply(0)] EXCEPT !.m_altcmd_flag = FALSE]
      BY <1>1, <1>4 DEF AltCommand
    <2>2. PICK d : d = <<"scr">>
      OBVIOUS
    <2>3. Len(d) \in Nat /\ d = SdData(m)
      BY <1>4, <2>2 DEF SdData
    <2>4. e.m_reset_state = "IN_OPERATION"
      BY <1>1, <1>4 DEF ComesIn
    <2>5. PICK b : b = From(d, 0)
      OBVIOUS
    <2>6. SendBlock(e, d) = [e EXCEPT !.m_rspbuf = <<Reply(0)>>, !.m_blkdly = BLKDLY, !.block = b]
      BY <1>1, <2>3, <2>4, <2>5, SendBlockIs
    <2>7. AltCommand(e) = [e EXCEPT !.m_rspbuf = <<Reply(0)>>, !.m_blkdly = 0, !.block = b, !.pos = e.pos,
                           !.m_dat_out = Reply(0), !.m_altcmd_flag = FALSE]
      <3>1. PICK q, o : q = <<Reply(0)>> /\ o = Reply(0)
        OBVIOUS
      <3>2. PICK x : x = [e EXCEPT !.m_rspbuf = q, !.m_blkdly = BLKDLY, !.block = b]
        OBVIOUS
      <3>3. SendBlock(e, <<"scr">>) = x
        BY <2>2, <2>6, <3>1, <3>2
      <3>4. AltCommand(e) = [[x EXCEPT !.m_blkdly = 0, !.m_rspbuf = q, !.ok = e.ok,
                                       !.m_dat_out = o] EXCEPT !.m_altcmd_flag = FALSE]
        BY <1>2, <2>1, <3>1, <3>3
      <3>5. AltCommand(e) = [e EXCEPT !.m_rspbuf = q, !.m_blkdly = 0, !.block = b, !.pos = e.pos,
                                      !.m_dat_out = o, !.m_altcmd_flag = FALSE]
        BY <1>1, <3>2, <3>4 DEF SdFields
      <3> QED  BY <3>1, <3>5
    <2>8. m.c \in SdReads /\ 0 \in Nat /\ Reply(0) \in {FFbyte, Reply(0)}
      BY <1>4 DEF SdReads
    <2>9. \A p : Ends([[e EXCEPT !.m_rspbuf = <<Reply(0)>>, !.m_blkdly = 0, !.block = From(d, 0), !.pos = p,
                           !.m_dat_out = Reply(0), !.m_altcmd_flag = FALSE] EXCEPT !.m_cmdidx = 7], m)
      BY <2>3, <2>8, BlockAnswer
    <2> QED  BY <2>5, <2>7, <2>9
  <1> QED  BY <1>3, <1>4

LEMMA CommandDone ==
    ASSUME NEW f, NEW m, CardOK(f), MasterOK(m), CmdOK(m), f.m_dev = m.disk, Sent(f, m)
    PROVE  Ends(RxByte(f, FFbyte), m)
  <1>1. PICK e : e = SdCleared(f)
    OBVIOUS
  <1>2. f.m_reading_data = FALSE /\ f.m_cmdidx = 6 /\ f.m_altcmd_flag = (m.c \in {41, 51})
    BY DEF Sent
  <1>3. Ready6(e, m)
    <2>1. /\ CardOK(e) /\ e.m_dat_out = FFbyte /\ e.m_rspidx = 0 /\ e.m_cmdbuf = f.m_cmdbuf
          /\ e.m_reset_state = f.m_reset_state /\ e.m_reading_data = f.m_reading_data
          /\ e.m_altcmd_flag = f.m_altcmd_flag /\ e.m_dev = f.m_dev
      BY <1>1, ClearedIs, Zenon
    <2>2. f.m_altcmd_flag => e.m_rspbuf = f.m_rspbuf
      BY <1>1, ClearedIs, Zenon
    <2>3. /\ f.m_cmdbuf = [c |-> m.c, arg |-> m.arg] /\ m.got = <<>>
          /\ (f.m_altcmd_flag => f.m_rspbuf = <<Reply(0)>>) /\ ComesIn(m.c, f.m_reset_state)
      BY Zenon DEF Sent
    <2>4. e.m_altcmd_flag = (m.c \in {41, 51}) /\ e.m_reading_data = FALSE
      BY <1>2, <2>1, Zenon
    <2>5. e.m_altcmd_flag => e.m_rspbuf = <<Reply(0)>>
      BY <2>1, <2>2, <2>3, Zenon
    <2>6. /\ e.m_cmdbuf = [c |-> m.c, arg |-> m.arg] /\ ComesIn(m.c, e.m_reset_state)
          /\ e.m_dev = m.disk
      BY <2>1, <2>3, Zenon
    <2> QED  BY <2>1, <2>3, <2>4, <2>5, <2>6, Zenon DEF Ready6
  <1>4. RxByte(f, FFbyte) = [(IF f.m_altcmd_flag THEN AltCommand(e) ELSE SdCommand(e)) EXCEPT !.m_cmdidx = 7]
    BY <1>1, <1>2, LastByte
  <1>5. CASE m.c \in {41, 51}
    <2>1. f.m_altcmd_flag = TRUE
      <3>1. (m.c \in {41, 51}) = TRUE
        BY <1>5
      <3> QED  BY <1>2, <3>1
    <2> QED  BY <1>3, <1>4, <1>5, <2>1, AltCommands
  <1>6. CASE m.c \in {0, 1, 8, 13, 55, 58}
    <2>1. f.m_altcmd_flag = FALSE
      <3>1. (m.c \in {41, 51}) = FALSE
        BY <1>6
      <3> QED  BY <1>2, <3>1
    <2> QED  BY <1>3, <1>4, <1>6, <2>1, NumberCommands
  <1>7. CASE m.c \in {9, 10, 17}
    <2>1. f.m_altcmd_flag = FALSE
      <3>1. (m.c \in {41, 51}) = FALSE
        BY <1>7
      <3> QED  BY <1>2, <3>1
    <2> QED  BY <1>3, <1>4, <1>7, <2>1, BlockCommands
  <1>8. CASE m.c = 24
    <2>1. f.m_altcmd_flag = FALSE
      <3>1. (m.c \in {41, 51}) = FALSE
        BY <1>8
      <3> QED  BY <1>2, <3>1
    <2> QED  BY <1>3, <1>4, <1>8, <2>1, WriteCommand
  <1>9. m.c \in {41, 51} \/ m.c \in {0, 1, 8, 13, 55, 58} \/ m.c \in {9, 10, 17} \/ m.c = 24
    BY DEF CmdOK, SdCmds
  <1> QED  BY <1>5, <1>6, <1>7, <1>8, <1>9, Zenon

(* Where a block is: still to start, being read, read; and where one that is
   written is: being taken, stored.                                           *)
InRead(f, m) ==
    /\ m.c \in SdReads /\ f.m_reading_data = FALSE /\ f.m_altcmd_flag = FALSE
    /\ f.m_cmdidx = 7 /\ f.m_reset_state = "IN_OPERATION"
Starts(f, m) ==
    /\ InRead(f, m) /\ m.got = <<>> /\ (\E v : f.m_rspbuf = <<Reply(v)>>)
    /\ \/ f.m_dat_out # Token /\ f.block = From(SdData(m), 0)
       \/ f.m_dat_out = Token /\ f.block = From(SdData(m), 1) /\ Streaming(f)
ReadTo(f, m, j) ==
    /\ f.m_dat_out = ByteAt(SdData(m), j) /\ f.block = From(SdData(m), j + 1)
    /\ m.got = Pre(SdData(m), j - 1)
Reads(f, m) ==
    /\ InRead(f, m) /\ Streaming(f)
    /\ \E j \in 1 .. Len(SdData(m)) + 1 : ReadTo(f, m, j)
ReadOut(f, m) == InRead(f, m) /\ m.got = SdData(m)
InWrite(f, m) == m.c = 24 /\ f.m_altcmd_flag = FALSE /\ f.m_reset_state = "IN_OPERATION"
Fills(f, m) ==
    /\ InWrite(f, m) /\ f.m_reading_data = TRUE /\ f.pos = m.arg
    /\ \/ f.m_have_token = FALSE /\ m.got = <<>>
       \/ f.m_have_token = TRUE /\ f.rx = m.got /\ SdList(m.got) /\ Len(m.got) <= SDBYTES
Written(m) == IF m.disk = <<>> THEN m.disk ELSE [m.disk EXCEPT ![m.arg + 1] = m.got]
Stored(f, m) ==
    /\ InWrite(f, m) /\ f.m_reading_data = FALSE /\ f.m_dat_out = Reply(5)
    /\ f.m_dev = Written(m) /\ SdList(m.got)
Rests(f, m) ==
    /\ f.m_reading_data = FALSE /\ f.m_cmdidx = 0
    /\ f.m_altcmd_flag = (m.pc \in {"opcond", "scr"}) /\ (f.m_altcmd_flag => f.m_rspbuf = <<Reply(0)>>)
    /\ m.pc = "ifcond" => f.m_reset_state = "CMD0_IDLE"
    /\ m.pc \in {"app", "opcond"} => f.m_reset_state \in {"RCVD_CMD8", "RCVD_ACMD41"}
    /\ m.pc = "ocr" => f.m_reset_state = "RESET_COMPLETE"
    /\ m.pc \in {"scr", "ready"} => f.m_reset_state = "IN_OPERATION"

SdHolds(f, m) ==
    /\ CardOK(f) /\ MasterOK(m) /\ CmdOK(m)
    /\ m.pc # "stored" => f.m_dev = m.disk
    /\ m.pc \in SdIdlePc => Rests(f, m)
    /\ m.pc = "answer" => Sent(f, m) \/ Takes(f, m) \/ Answers(f, m)
    /\ m.pc = "token" => Starts(f, m)
    /\ m.pc = "data" => Reads(f, m)
    /\ m.pc = "check" => ReadOut(f, m)
    /\ m.pc = "write" => Fills(f, m)
    /\ m.pc = "stored" => Stored(f, m)

LEMMA SdHoldsAt ==
    ASSUME NEW f, NEW m, CardOK(f), MasterOK(m), CmdOK(m),
           \/ m.pc \in SdIdlePc /\ Rests(f, m) /\ f.m_dev = m.disk
           \/ m.pc = "answer" /\ (Sent(f, m) \/ Takes(f, m) \/ Answers(f, m)) /\ f.m_dev = m.disk
           \/ m.pc = "token" /\ Starts(f, m) /\ f.m_dev = m.disk
           \/ m.pc = "data" /\ Reads(f, m) /\ f.m_dev = m.disk
           \/ m.pc = "check" /\ ReadOut(f, m) /\ f.m_dev = m.disk
           \/ m.pc = "write" /\ Fills(f, m) /\ f.m_dev = m.disk
           \/ m.pc = "stored" /\ Stored(f, m)
    PROVE  SdHolds(f, m)
  BY DEF SdHolds, SdIdlePc

LEMMA DeselectedIs ==
    ASSUME NEW f, CardOK(f)
    PROVE  LET g == SdDeselected(f) IN
           /\ CardOK(g) /\ g.m_dev = f.m_dev /\ g.m_reading_data = f.m_reading_data
           /\ g.m_altcmd_flag = f.m_altcmd_flag /\ g.m_rspbuf = f.m_rspbuf
           /\ g.m_reset_state = f.m_reset_state /\ g.m_cmdidx = 0
  <1>1. PICK g : g = [f EXCEPT !.m_cmdidx = 0, !.m_rspidx = 0, !.m_dat_out = FFbyte]
    OBVIOUS
  <1>2. /\ DOMAIN g = SdFields /\ g.ok = f.ok /\ g.m_have_token = f.m_have_token
        /\ g.m_rspdly = f.m_rspdly /\ g.m_blkdly = f.m_blkdly /\ g.m_rspidx = 0
        /\ g.m_dev = f.m_dev /\ g.m_reading_data = f.m_reading_data
        /\ g.m_altcmd_flag = f.m_altcmd_flag /\ g.m_rspbuf = f.m_rspbuf
        /\ g.m_reset_state = f.m_reset_state /\ g.m_cmdidx = 0
    BY <1>1 DEF CardOK, SdFields
  <1>3. CardOK(g)
    BY <1>2 DEF CardOK
  <1> QED  BY <1>1, <1>2, <1>3 DEF SdDeselected

LEMMA MasterMoves ==
    ASSUME NEW m, MasterOK(m), NEW p
    PROVE  LET n == [m EXCEPT !.pc = p] IN
           /\ MasterOK(n) /\ n.pc = p /\ n.c = m.c /\ n.arg = m.arg /\ n.got = m.got /\ n.disk = m.disk
           /\ SdData(n) = SdData(m) /\ (CmdOK(m) => CmdOK(n))
  <1>1. PICK n : n = [m EXCEPT !.pc = p]
    OBVIOUS
  <1>2. DOMAIN n = SmFields /\ n.pc = p /\ n.c = m.c /\ n.arg = m.arg /\ n.got = m.got /\ n.disk = m.disk
    BY <1>1 DEF MasterOK, SmFields
  <1>3. MasterOK(n) /\ (CmdOK(m) => CmdOK(n))
    BY <1>2 DEF MasterOK, CmdOK
  <1>4. SdData(n) = SdData(m)
    BY <1>2 DEF SdData
  <1> QED  BY <1>1, <1>2, <1>3, <1>4

LEMMA Begins ==
    ASSUME NEW f, NEW m, SdHolds(f, m), m.pc \in SdIdlePc, NEW c, NEW a,
           c \in SdCmds, c \in {17, 24} => a \in Blocks,
           f.m_altcmd_flag = (IF c \in {41, 51} THEN TRUE ELSE FALSE), ComesIn(c, f.m_reset_state)
    PROVE  SdHolds(RxByte(f, SdByte("cmd", [c |-> c, arg |-> a])),
                 [m EXCEPT !.pc = "answer", !.c = c, !.arg = a, !.got = <<>>])
  <1>1. /\ CardOK(f) /\ MasterOK(m) /\ Rests(f, m) /\ f.m_dev = m.disk /\ DOMAIN f = SdFields
        /\ f.m_reading_data = FALSE /\ f.m_cmdidx = 0
        /\ DOMAIN m = SmFields
    BY DEF SdHolds, SdIdlePc, Rests, CardOK, MasterOK
  <1>2. PICK v : v = [c |-> c, arg |-> a]
    OBVIOUS
  <1>3. PICK g : g = [f EXCEPT !.m_dat_out = FFbyte, !.m_cmdidx = 6, !.m_cmdbuf = v]
    OBVIOUS
  <1>4. RxByte(f, SdByte("cmd", v)) = g
    BY <1>1, <1>3, FirstByte
  <1>5. PICK n : n = [m EXCEPT !.pc = "answer", !.c = c, !.arg = a, !.got = <<>>]
    OBVIOUS
  <1>6. /\ DOMAIN g = SdFields /\ g.ok = f.ok /\ g.m_have_token = f.m_have_token
        /\ g.m_rspdly = f.m_rspdly /\ g.m_blkdly = f.m_blkdly /\ g.m_rspidx = f.m_rspidx
        /\ g.m_dev = f.m_dev /\ g.m_reading_data = f.m_reading_data
        /\ g.m_altcmd_flag = f.m_altcmd_flag /\ g.m_rspbuf = f.m_rspbuf
        /\ g.m_reset_state = f.m_reset_state /\ g.m_cmdidx = 6 /\ g.m_cmdbuf = v /\ g.m_dat_out = FFbyte
    BY <1>1, <1>3 DEF SdFields
  <1>7. DOMAIN n = SmFields /\ n.pc = "answer" /\ n.c = c /\ n.arg = a /\ n.got = <<>> /\ n.disk = m.disk
    BY <1>1, <1>5 DEF SmFields
  <1>8. CardOK(g)
    BY <1>1, <1>6 DEF CardOK
  <1>9. MasterOK(n) /\ CmdOK(n)
    BY <1>1, <1>7 DEF MasterOK, CmdOK
  <1>10. Sent(g, n)
    <2>1. g.m_altcmd_flag = (n.c \in {41, 51})
      <3>1. CASE c \in {41, 51}
        <4>1. (n.c \in {41, 51}) = TRUE
          BY <1>7, <3>1
        <4> QED  BY <1>6, <3>1, <4>1
      <3>2. CASE c \notin {41, 51}
        <4>1. (n.c \in {41, 51}) = FALSE
          BY <1>7, <3>2
        <4> QED  BY <1>6, <3>2, <4>1
      <3> QED  BY <3>1, <3>2
    <2>2. g.m_altcmd_flag => g.m_rspbuf = <<Reply(0)>>
      BY <1>1, <1>6, Zenon DEF Rests
    <2> QED  BY <1>1, <1>2, <1>6, <1>7, <2>1, <2>2, Zenon DEF Sent
  <1>11. SdHolds(g, n)
    BY <1>1, <1>6, <1>7, <1>8, <1>9, <1>10, SdHoldsAt
  <1> QED  BY <1>2, <1>4, <1>5, <1>11

LEMMA AnswersOn ==
    ASSUME NEW f, NEW m, CardOK(f), Answers(f, m), f.m_dat_out = FFbyte
    PROVE  LET g == RxByte(f, FFbyte) IN CardOK(g) /\ Answers(g, m) /\ g.m_dev = f.m_dev
  <1>1. PICK v, r : Responds(f, v, r, m.c = 55) /\ GoesOut(m.c, r, v)
    BY DEF Answers
  <1>2. /\ DOMAIN f = SdFields /\ f.ok = TRUE /\ f.m_reading_data = FALSE /\ f.m_cmdidx = 7
        /\ f.m_altcmd_flag = (m.c = 55) /\ f.m_rspbuf = <<Reply(v)>> /\ f.m_reset_state = r
        /\ f.m_dat_out = FFbyte /\ f.m_rspidx = 0
    <2>1. Reply(v) # FFbyte
      BY Bytes
    <2> QED  BY <1>1, <2>1, Zenon DEF Responds
  <1>3. PICK g : g = RxByte(f, FFbyte)
    OBVIOUS
  <1>4. PICK q : q = Reply(v)
    OBVIOUS
  <1>5. \/ f.m_rspdly > 0 /\ g = [f EXCEPT !.m_dat_out = FFbyte, !.m_rspdly = f.m_rspdly - 1]
        \/ g = [f EXCEPT !.m_rspidx = f.m_rspidx + 1, !.m_dat_out = q]
    <2>1. f.m_rspidx < RSPLEN
      BY <1>2, SdAssumption
    <2>2. ~Streaming(f)
      BY <2>1 DEF Streaming
    <2>3. (IF f.m_rspidx < Len(f.m_rspbuf) THEN f.m_rspbuf[f.m_rspidx + 1] ELSE FFbyte) = q
      BY <1>2, <1>4
    <2>4. \/ f.m_rspdly > 0 /\ g = [f EXCEPT !.m_dat_out = FFbyte, !.m_rspdly = f.m_rspdly - 1]
          \/ g = [f EXCEPT !.m_rspidx = f.m_rspidx + 1,
                           !.m_dat_out = IF f.m_rspidx < Len(f.m_rspbuf)
                                         THEN f.m_rspbuf[f.m_rspidx + 1] ELSE FFbyte]
      BY <1>2, <1>3, <2>1, <2>2, NextByte, Zenon
    <2> QED  BY <2>3, <2>4
  <1>6. /\ DOMAIN g = SdFields /\ g.ok = TRUE /\ g.m_reading_data = FALSE /\ g.m_cmdidx = 7
        /\ g.m_altcmd_flag = f.m_altcmd_flag /\ g.m_rspbuf = f.m_rspbuf /\ g.m_reset_state = r
        /\ g.m_have_token = f.m_have_token /\ g.m_dev = f.m_dev /\ g.m_blkdly = f.m_blkdly
        /\ g.block = f.block /\ g.m_rspdly \in Nat /\ g.m_rspidx \in Nat
        /\ ((g.m_dat_out = FFbyte /\ g.m_rspidx = 0) \/ g.m_dat_out = q)
    <2>1. CASE f.m_rspdly > 0 /\ g = [f EXCEPT !.m_dat_out = FFbyte, !.m_rspdly = f.m_rspdly - 1]
      <3>1. f.m_rspdly \in Nat
        BY DEF CardOK
      <3> QED  BY <1>2, <2>1, <3>1 DEF SdFields
    <2>2. CASE g = [f EXCEPT !.m_rspidx = f.m_rspidx + 1, !.m_dat_out = q]
      <3>1. f.m_rspdly \in Nat
        BY DEF CardOK
      <3> QED  BY <1>2, <2>2, <3>1 DEF SdFields
    <2> QED  BY <1>5, <2>1, <2>2, Zenon
  <1>7. CardOK(g)
    BY <1>6 DEF CardOK
  <1>8. Responds(g, v, r, m.c = 55)
    BY <1>2, <1>4, <1>6, Zenon DEF Responds
  <1>9. Answers(g, m)
    BY <1>1, <1>6, <1>8, Zenon DEF Answers
  <1> QED  BY <1>3, <1>6, <1>7, <1>9

(* A command is answered, or taken.                                           *)
LEMMA PollAnswer ==
    ASSUME NEW f, NEW m, SdHolds(f, m), m.pc = "answer", f.m_dat_out = FFbyte
    PROVE  SdHolds(RxByte(f, FFbyte), m)
  <1>1. /\ CardOK(f) /\ MasterOK(m) /\ CmdOK(m) /\ f.m_dev = m.disk
        /\ (Sent(f, m) \/ Takes(f, m) \/ Answers(f, m))
    BY DEF SdHolds
  <1>2. PICK g : g = RxByte(f, FFbyte)
    OBVIOUS
  <1>3. CASE Sent(f, m)
    <2>1. Ends(g, m)
      BY <1>1, <1>2, <1>3, CommandDone
    <2>2. CardOK(g) /\ g.m_dev = m.disk /\ (Takes(g, m) \/ Answers(g, m))
      BY <2>1, Zenon DEF Ends
    <2> QED  BY <1>1, <1>2, <2>2, SdHoldsAt
  <1>4. CASE Takes(f, m)
    <2>1. Reply(0) # FFbyte
      BY Bytes
    <2> QED  BY <1>4, <2>1 DEF Takes
  <1>5. CASE Answers(f, m)
    <2>1. CardOK(g) /\ Answers(g, m) /\ g.m_dev = f.m_dev
      BY <1>1, <1>2, <1>5, AnswersOn
    <2> QED  BY <1>1, <1>2, <2>1, SdHoldsAt
  <1> QED  BY <1>1, <1>3, <1>4, <1>5, Zenon

LEMMA NotReads ==
    ASSUME NEW f, NEW m, Answers(f, m), f.m_dat_out # FFbyte, CardOK(f), MasterOK(m), CmdOK(m), f.m_dev = m.disk,
           m.c \notin SdReads, NEW p,
           p = IF m.c = 0 THEN "ifcond" ELSE IF m.c = 8 THEN "app"
               ELSE IF m.c = 55 THEN (IF Operating(f) THEN "scr" ELSE "opcond")
               ELSE IF m.c = 41 THEN (IF f.m_dat_out = Reply(0) THEN "ocr" ELSE "app") ELSE "ready"
    PROVE  p \in SdIdlePc /\ SdHolds(SdDeselected(f), [m EXCEPT !.pc = p])
  <1>1. PICK v, r : Responds(f, v, r, m.c = 55) /\ GoesOut(m.c, r, v)
    BY DEF Answers
  <1>2. /\ f.m_reading_data = FALSE /\ f.m_altcmd_flag = (m.c = 55)
        /\ f.m_rspbuf = <<Reply(v)>> /\ f.m_reset_state = r /\ f.m_dat_out = Reply(v)
    BY <1>1, Zenon DEF Responds
  <1>3. PICK g : g = SdDeselected(f)
    OBVIOUS
  <1>4. PICK n : n = [m EXCEPT !.pc = p]
    OBVIOUS
  <1>5. /\ CardOK(g) /\ g.m_dev = m.disk /\ g.m_reading_data = FALSE /\ g.m_altcmd_flag = (m.c = 55)
        /\ g.m_rspbuf = <<Reply(v)>> /\ g.m_reset_state = r /\ g.m_cmdidx = 0
    BY <1>2, <1>3, DeselectedIs
  <1>6. MasterOK(n) /\ CmdOK(n) /\ n.pc = p /\ n.disk = m.disk
    BY <1>4, MasterMoves
  <1>7. m.c \in {0, 1, 8, 13, 41, 55, 58}
    BY DEF Answers, CmdOK, SdCmds, SdReads
  <1>8. p \in SdIdlePc /\ Rests(g, n)
    <2>1. CASE m.c = 0
      <3>1. p = "ifcond" /\ r = "CMD0_IDLE" /\ (m.c = 55) = FALSE /\ (p \in {"opcond", "scr"}) = FALSE
        BY <1>1, <2>1 DEF GoesOut
      <3> QED  BY <1>5, <1>6, <3>1 DEF Rests, SdIdlePc
    <2>2. CASE m.c = 8
      <3>1. p = "app" /\ r = "RCVD_CMD8" /\ (m.c = 55) = FALSE /\ (p \in {"opcond", "scr"}) = FALSE
        BY <1>1, <2>2 DEF GoesOut
      <3> QED  BY <1>5, <1>6, <3>1 DEF Rests, SdIdlePc
    <2>3. CASE m.c = 55
      <3>1. v = 0 /\ r \in {"RCVD_CMD8", "RCVD_ACMD41", "IN_OPERATION"} /\ (m.c = 55) = TRUE
        BY <1>1, <2>3 DEF GoesOut
      <3>2. p = (IF Operating(f) THEN "scr" ELSE "opcond")
        BY <2>3
      <3>3. CASE r = "IN_OPERATION"
        <4>1. p = "scr" /\ (p \in {"opcond", "scr"}) = TRUE
          BY <1>2, <3>2, <3>3 DEF Operating
        <4> QED  BY <1>5, <1>6, <3>1, <3>3, <4>1 DEF Rests, SdIdlePc
      <3>4. CASE r # "IN_OPERATION"
        <4>1. p = "opcond" /\ (p \in {"opcond", "scr"}) = TRUE /\ r \in {"RCVD_CMD8", "RCVD_ACMD41"}
          BY <1>2, <3>1, <3>2, <3>4 DEF Operating
        <4> QED  BY <1>5, <1>6, <3>1, <4>1 DEF Rests, SdIdlePc
      <3> QED  BY <3>3, <3>4
    <2>4. CASE m.c = 41
      <3>1. ((v = 0 /\ r = "RESET_COMPLETE") \/ (v = 1 /\ r = "RCVD_ACMD41")) /\ (m.c = 55) = FALSE
        BY <1>1, <2>4 DEF GoesOut
      <3>2. p = (IF f.m_dat_out = Reply(0) THEN "ocr" ELSE "app")
        BY <2>4
      <3>3. CASE v = 0
        <4>1. p = "ocr" /\ r = "RESET_COMPLETE" /\ (p \in {"opcond", "scr"}) = FALSE
          BY <1>2, <3>1, <3>2, <3>3
        <4> QED  BY <1>5, <1>6, <3>1, <4>1 DEF Rests, SdIdlePc
      <3>4. CASE v = 1
        <4>1. Reply(1) # Reply(0)
          BY Bytes
        <4>2. p = "app" /\ r = "RCVD_ACMD41" /\ (p \in {"opcond", "scr"}) = FALSE
          BY <1>2, <3>1, <3>2, <3>4, <4>1
        <4> QED  BY <1>5, <1>6, <3>1, <4>2 DEF Rests, SdIdlePc
      <3> QED  BY <3>1, <3>3, <3>4
    <2>5. CASE m.c \in {1, 13, 58}
      <3>1. p = "ready" /\ r = "IN_OPERATION" /\ (m.c = 55) = FALSE /\ (p \in {"opcond", "scr"}) = FALSE
        BY <1>1, <2>5 DEF GoesOut
      <3> QED  BY <1>5, <1>6, <3>1 DEF Rests, SdIdlePc
    <2> QED  BY <1>7, <2>1, <2>2, <2>3, <2>4, <2>5
  <1>9. SdHolds(g, n)
    BY <1>5, <1>6, <1>8, SdHoldsAt
  <1> QED  BY <1>3, <1>4, <1>8, <1>9

LEMMA AnswerTaken ==
    ASSUME sm.pc = "answer", SdHolds(sd, sm), sd.m_dat_out # FFbyte
    PROVE  SdHolds(IF SdDone(AfterAnswer) THEN SdDeselected(sd) ELSE sd, [sm EXCEPT !.pc = AfterAnswer])
  <1>1. PICK f, m : f = sd /\ m = sm
    OBVIOUS
  <1>2. /\ CardOK(f) /\ MasterOK(m) /\ CmdOK(m) /\ f.m_dev = m.disk
        /\ (Takes(f, m) \/ Answers(f, m))
    BY <1>1 DEF SdHolds, Sent
  <1>3. CASE Takes(f, m)
    <2>1. m.c = 24
      BY <1>3 DEF Takes
    <2>2. AfterAnswer = "write"
      BY <1>1, <2>1 DEF AfterAnswer
    <2>3. ~SdDone(AfterAnswer)
      BY <2>2 DEF SdDone
    <2>4. PICK n : n = [m EXCEPT !.pc = "write"]
      OBVIOUS
    <2>5. MasterOK(n) /\ CmdOK(n) /\ n.pc = "write" /\ n.disk = m.disk /\ n.c = m.c /\ n.arg = m.arg /\ n.got = m.got
      BY <1>2, <2>4, MasterMoves
    <2>6. Fills(f, n)
      BY <1>3, <2>5 DEF Takes, Fills, InWrite
    <2>7. SdHolds(f, n)
      BY <1>2, <2>5, <2>6, SdHoldsAt
    <2> QED  BY <1>1, <2>2, <2>3, <2>4, <2>7
  <1>4. CASE Answers(f, m) /\ m.c \in SdReads
    <2>1. AfterAnswer = "token"
      BY <1>1, <1>4 DEF AfterAnswer, SdReads
    <2>2. ~SdDone(AfterAnswer)
      BY <2>1 DEF SdDone
    <2>3. PICK n : n = [m EXCEPT !.pc = "token"]
      OBVIOUS
    <2>4. MasterOK(n) /\ CmdOK(n) /\ n.pc = "token" /\ n.disk = m.disk /\ n.c = m.c /\ n.got = m.got
          /\ SdData(n) = SdData(m)
      BY <1>2, <2>3, MasterMoves
    <2>5. PICK v, r : Responds(f, v, r, m.c = 55) /\ GoesOut(m.c, r, v)
      BY <1>4 DEF Answers
    <2>6. (m.c = 55) = FALSE /\ m.c \in {1, 9, 10, 13, 17, 24, 51, 58}
      BY <1>4 DEF SdReads
    <2>7. r = "IN_OPERATION"
      BY <2>5, <2>6, Zenon DEF GoesOut
    <2>8. /\ f.m_reading_data = FALSE /\ f.m_altcmd_flag = FALSE /\ f.m_cmdidx = 7
          /\ f.m_rspbuf = <<Reply(v)>> /\ f.m_reset_state = "IN_OPERATION" /\ f.m_dat_out = Reply(v)
      BY <1>1, <2>5, <2>6, <2>7, Zenon DEF Responds
    <2>9. Reply(v) # Token
      BY Bytes
    <2>10. m.got = <<>> /\ f.block = From(SdData(m), 0)
      BY <1>4, Zenon DEF Answers
    <2>11. Starts(f, n)
      BY <1>4, <2>4, <2>8, <2>9, <2>10, Zenon DEF Starts, InRead
    <2>12. SdHolds(f, n)
      BY <1>2, <2>4, <2>11, SdHoldsAt
    <2> QED  BY <1>1, <2>1, <2>2, <2>3, <2>12
  <1>5. CASE Answers(f, m) /\ m.c \notin SdReads
    <2>1. PICK p : p = IF m.c = 0 THEN "ifcond" ELSE IF m.c = 8 THEN "app"
               ELSE IF m.c = 55 THEN (IF Operating(f) THEN "scr" ELSE "opcond")
               ELSE IF m.c = 41 THEN (IF f.m_dat_out = Reply(0) THEN "ocr" ELSE "app") ELSE "ready"
      OBVIOUS
    <2>2. p \in SdIdlePc /\ SdHolds(SdDeselected(f), [m EXCEPT !.pc = p])
      BY <1>1, <1>2, <1>5, <2>1, NotReads
    <2>3. m.c \in {0, 1, 8, 13, 41, 55, 58}
      BY <1>2, <1>5 DEF Answers, CmdOK, SdCmds, SdReads
    <2>4. AfterAnswer = p
      <3>1. CASE m.c = 0
        BY <1>1, <2>1, <3>1 DEF AfterAnswer
      <3>2. CASE m.c = 8
        BY <1>1, <2>1, <3>2 DEF AfterAnswer
      <3>3. CASE m.c = 55
        BY <1>1, <2>1, <3>3 DEF AfterAnswer
      <3>4. CASE m.c = 41
        BY <1>1, <2>1, <3>4 DEF AfterAnswer
      <3>5. CASE m.c \in {1, 13, 58}
        BY <1>1, <2>1, <3>5 DEF AfterAnswer
      <3> QED  BY <2>3, <3>1, <3>2, <3>3, <3>4, <3>5
    <2>5. SdDone(AfterAnswer)
      BY <2>2, <2>4 DEF SdDone, SdIdlePc
    <2> QED  BY <1>1, <2>2, <2>4, <2>5
  <1> QED  BY <1>2, <1>3, <1>4, <1>5

(* A byte of a block that the card sends.                                     *)
LEMMA Streams ==
    ASSUME NEW f, NEW m, CardOK(f), InRead(f, m), Streaming(f), NEW j \in 0 .. Len(SdData(m)), Len(SdData(m)) \in Nat,
           f.block = From(SdData(m), j + 1)
    PROVE  LET g == RxByte(f, FFbyte) IN
           /\ CardOK(g) /\ InRead(g, m) /\ Streaming(g) /\ g.m_dev = f.m_dev
           /\ g.m_dat_out = ByteAt(SdData(m), j + 1) /\ g.block = From(SdData(m), j + 2)
  <1>1. PICK g, d : g = RxByte(f, FFbyte) /\ d = SdData(m)
    OBVIOUS
  <1>2. j + 1 \in 0 .. Len(d) + 1 /\ (j + 1) + 1 = j + 2
    BY <1>1
  <1>3. f.block # <<>> /\ Head(f.block) = ByteAt(d, j + 1) /\ Tail(f.block) = From(d, j + 2)
    BY <1>1, <1>2, FromFacts
  <1>4. g = [f EXCEPT !.m_dat_out = Head(f.block), !.block = Tail(f.block)]
    <2>1. f.m_reading_data = FALSE /\ f.m_cmdidx = 7
      BY DEF InRead
    <2>2. f.m_rspdly = 0 /\ ~(f.m_rspidx < RSPLEN) /\ f.m_blkdly = 0
      BY DEF Streaming
    <2>3. ~(f.m_rspdly > 0) /\ ~(f.m_blkdly > 0)
      BY <2>2
    <2> QED  BY <1>1, <1>3, <2>1, <2>2, <2>3, NextByte, Zenon
  <1>5. PICK b, t : b = ByteAt(d, j + 1) /\ t = From(d, j + 2)
    OBVIOUS
  <1>6. g = [f EXCEPT !.m_dat_out = b, !.block = t] /\ DOMAIN f = SdFields
    BY <1>3, <1>4, <1>5 DEF CardOK
  <1>7. /\ DOMAIN g = SdFields /\ g.ok = f.ok /\ g.m_reading_data = f.m_reading_data /\ g.m_cmdidx = f.m_cmdidx
        /\ g.m_altcmd_flag = f.m_altcmd_flag /\ g.m_reset_state = f.m_reset_state
        /\ g.m_have_token = f.m_have_token /\ g.m_dev = f.m_dev /\ g.m_blkdly = f.m_blkdly
        /\ g.m_rspdly = f.m_rspdly /\ g.m_rspidx = f.m_rspidx /\ g.block = t /\ g.m_dat_out = b
    BY <1>6 DEF SdFields
  <1>8. CardOK(g)
    BY <1>7 DEF CardOK
  <1>9. InRead(g, m) /\ Streaming(g)
    BY <1>7, Zenon DEF InRead, Streaming
  <1> QED  BY <1>1, <1>5, <1>7, <1>8, <1>9

Waits(g, m, f, d) ==
    /\ CardOK(g) /\ InRead(g, m) /\ g.m_rspbuf = f.m_rspbuf /\ g.m_dev = f.m_dev
    /\ \/ g.m_dat_out # Token /\ g.block = From(d, 0)
       \/ g.m_dat_out = Token /\ g.block = From(d, 1) /\ Streaming(g)
LEMMA PollToken ==
    ASSUME NEW f, NEW m, SdHolds(f, m), m.pc = "token", f.m_dat_out # Token
    PROVE  SdHolds(RxByte(f, FFbyte), m)
  <1>1. CardOK(f) /\ MasterOK(m) /\ CmdOK(m) /\ f.m_dev = m.disk /\ Starts(f, m)
    BY DEF SdHolds
  <1>2. PICK d : d = SdData(m) /\ Len(d) \in Nat
    BY <1>1, DataIs DEF SdList
  <1>3. PICK v : f.m_rspbuf = <<Reply(v)>>
    BY <1>1 DEF Starts
  <1>4. InRead(f, m) /\ m.got = <<>> /\ f.block = From(d, 0)
    BY <1>1, <1>2, Zenon DEF Starts
  <1>5. PICK g, q, t : g = RxByte(f, FFbyte) /\ q = Reply(v) /\ t = From(d, 0)
    OBVIOUS
  <1>6. f.m_reading_data = FALSE /\ f.m_cmdidx = 7 /\ DOMAIN f = SdFields
    BY <1>1, <1>4 DEF InRead, CardOK
  <1>7. f.m_rspdly \in Nat /\ f.m_blkdly \in Nat /\ f.m_rspidx \in Nat
    BY <1>1 DEF CardOK
  <1>8. q # Token /\ FFbyte # Token
    BY <1>5, Bytes
  <1>9. 0 \in 0 .. Len(d) + 1 /\ 0 + 1 = 1
    BY <1>2
  <1>10. f.block # <<>> /\ Head(f.block) = Token /\ Tail(f.block) = From(d, 1)
    <2>1. f.block # <<>> /\ Head(f.block) = ByteAt(d, 0) /\ Tail(f.block) = From(d, 1)
      BY <1>2, <1>4, <1>9, FromFacts
    <2> QED  BY <2>1 DEF ByteAt
  <1>11. ASSUME NEW o, o # Token, NEW x \in Nat, NEW y \in Nat, NEW z \in Nat,
                g = [f EXCEPT !.m_dat_out = o, !.m_rspdly = x, !.m_rspidx = y, !.m_blkdly = z]
         PROVE  Waits(g, m, f, d)
    <2>1. /\ DOMAIN g = SdFields /\ g.ok = f.ok /\ g.m_reading_data = f.m_reading_data /\ g.m_cmdidx = f.m_cmdidx
          /\ g.m_altcmd_flag = f.m_altcmd_flag /\ g.m_reset_state = f.m_reset_state
          /\ g.m_have_token = f.m_have_token /\ g.m_dev = f.m_dev /\ g.m_blkdly = z
          /\ g.m_rspdly = x /\ g.m_rspidx = y /\ g.block = f.block /\ g.m_dat_out = o /\ g.m_rspbuf = f.m_rspbuf
      BY <1>6, <1>11 DEF SdFields
    <2>2. CardOK(g)
      BY <1>1, <2>1 DEF CardOK
    <2>3. InRead(g, m)
      BY <1>4, <2>1, Zenon DEF InRead
    <2> QED  BY <1>4, <1>5, <1>11, <2>1, <2>2, <2>3 DEF Waits
  <1>12. ASSUME f.m_rspdly > 0 /\ g = [f EXCEPT !.m_dat_out = FFbyte, !.m_rspdly = f.m_rspdly - 1]
         PROVE  Waits(g, m, f, d)
    <2>1. PICK x : x = f.m_rspdly - 1 /\ x \in Nat
      BY <1>7, <1>12
    <2>2. PICK o : o = FFbyte
      OBVIOUS
    <2>3. g = [f EXCEPT !.m_dat_out = o, !.m_rspdly = x, !.m_rspidx = f.m_rspidx, !.m_blkdly = f.m_blkdly]
      BY <1>6, <1>12, <2>1, <2>2 DEF SdFields
    <2>4. o # Token
      BY <1>8, <2>2
    <2> QED  BY <1>7, <1>11, <2>1, <2>3, <2>4, Zenon
  <1>13. ASSUME g = [f EXCEPT !.m_rspidx = f.m_rspidx + 1,
                            !.m_dat_out = IF f.m_rspidx < Len(f.m_rspbuf)
                                          THEN f.m_rspbuf[f.m_rspidx + 1] ELSE FFbyte]
         PROVE  Waits(g, m, f, d)
    <2>1. PICK x : x = f.m_rspidx + 1 /\ x \in Nat
      BY <1>7
    <2>2. PICK o : o = IF f.m_rspidx < Len(f.m_rspbuf) THEN f.m_rspbuf[f.m_rspidx + 1] ELSE FFbyte
      OBVIOUS
    <2>3. o # Token
      <3>1. CASE f.m_rspidx < Len(f.m_rspbuf)
        <4>1. Len(f.m_rspbuf) = 1 /\ f.m_rspbuf[1] = q
          BY <1>3, <1>5
        <4>2. f.m_rspidx = 0 /\ f.m_rspidx + 1 = 1
          BY <1>7, <3>1, <4>1
        <4> QED  BY <1>8, <2>2, <3>1, <4>1, <4>2
      <3>2. CASE ~(f.m_rspidx < Len(f.m_rspbuf))
        BY <1>8, <2>2, <3>2
      <3> QED  BY <3>1, <3>2
    <2>4. g = [f EXCEPT !.m_dat_out = o, !.m_rspdly = f.m_rspdly, !.m_rspidx = x, !.m_blkdly = f.m_blkdly]
      BY <1>6, <1>13, <2>1, <2>2 DEF SdFields
    <2> QED  BY <1>7, <1>11, <2>1, <2>3, <2>4, Zenon
  <1>14. ASSUME f.m_blkdly > 0 /\ g = [f EXCEPT !.m_dat_out = FFbyte, !.m_blkdly = f.m_blkdly - 1]
         PROVE  Waits(g, m, f, d)
    <2>1. PICK x : x = f.m_blkdly - 1 /\ x \in Nat
      BY <1>7, <1>14
    <2>2. PICK o : o = FFbyte
      OBVIOUS
    <2>3. g = [f EXCEPT !.m_dat_out = o, !.m_rspdly = f.m_rspdly, !.m_rspidx = f.m_rspidx, !.m_blkdly = x]
      BY <1>6, <1>14, <2>1, <2>2 DEF SdFields
    <2>4. o # Token
      BY <1>8, <2>2
    <2> QED  BY <1>7, <1>11, <2>1, <2>3, <2>4, Zenon
  <1>15. ASSUME Streaming(f) /\ g = [f EXCEPT !.m_dat_out = Head(f.block), !.block = Tail(f.block)]
         PROVE  Waits(g, m, f, d)
    <2>1. PICK o, b : o = Token /\ b = From(d, 1)
      OBVIOUS
    <2>2. g = [f EXCEPT !.m_dat_out = o, !.block = b]
      BY <1>10, <1>15, <2>1
    <2>3. /\ DOMAIN g = SdFields /\ g.ok = f.ok /\ g.m_reading_data = f.m_reading_data /\ g.m_cmdidx = f.m_cmdidx
          /\ g.m_altcmd_flag = f.m_altcmd_flag /\ g.m_reset_state = f.m_reset_state
          /\ g.m_have_token = f.m_have_token /\ g.m_dev = f.m_dev /\ g.m_blkdly = f.m_blkdly
          /\ g.m_rspdly = f.m_rspdly /\ g.m_rspidx = f.m_rspidx /\ g.block = b /\ g.m_dat_out = o
          /\ g.m_rspbuf = f.m_rspbuf
      BY <1>6, <2>2 DEF SdFields
    <2>4. CardOK(g)
      BY <1>1, <2>3 DEF CardOK
    <2>5. InRead(g, m) /\ Streaming(g)
      BY <1>4, <1>15, <2>3, Zenon DEF InRead, Streaming
    <2> QED  BY <2>1, <2>3, <2>4, <2>5, Zenon DEF Waits
  <1>16. Waits(g, m, f, d)
    <2>1. \/ f.m_rspdly > 0 /\ g = [f EXCEPT !.m_dat_out = FFbyte, !.m_rspdly = f.m_rspdly - 1]
          \/ g = [f EXCEPT !.m_rspidx = f.m_rspidx + 1,
                           !.m_dat_out = IF f.m_rspidx < Len(f.m_rspbuf)
                                         THEN f.m_rspbuf[f.m_rspidx + 1] ELSE FFbyte]
          \/ f.m_blkdly > 0 /\ g = [f EXCEPT !.m_dat_out = FFbyte, !.m_blkdly = f.m_blkdly - 1]
          \/ Streaming(f) /\ g = [f EXCEPT !.m_dat_out = Head(f.block), !.block = Tail(f.block)]
      <3>1. g = RxByte(f, FFbyte)
        BY <1>5
      <3> QED  BY <1>1, <1>6, <1>10, <3>1, NextByte, Zenon
    <2> QED  BY <1>12, <1>13, <1>14, <1>15, <2>1, Zenon
  <1>17. Starts(g, m)
    BY <1>2, <1>3, <1>4, <1>5, <1>16, Zenon DEF Starts, Waits
  <1>18. SdHolds(g, m)
    BY <1>1, <1>16, <1>17, SdHoldsAt DEF Waits
  <1> QED  BY <1>5, <1>18

LEMMA TokenCame ==
    ASSUME NEW f, NEW m, SdHolds(f, m), m.pc = "token", f.m_dat_out = Token
    PROVE  SdHolds(RxByte(f, FFbyte), [m EXCEPT !.pc = "data"])
  <1>1. CardOK(f) /\ MasterOK(m) /\ CmdOK(m) /\ f.m_dev = m.disk /\ Starts(f, m)
    BY DEF SdHolds
  <1>2. PICK d : d = SdData(m) /\ Len(d) \in Nat
    BY <1>1, DataIs DEF SdList
  <1>3. InRead(f, m) /\ m.got = <<>> /\ f.block = From(d, 1) /\ Streaming(f)
    BY <1>1, <1>2, Zenon DEF Starts
  <1>4. PICK g, n : g = RxByte(f, FFbyte) /\ n = [m EXCEPT !.pc = "data"]
    OBVIOUS
  <1>5. PICK j \in 0 .. Len(d) : j = 0 /\ j + 1 = 1 /\ j + 2 = 2
    BY <1>2
  <1>5a. f.block = From(d, j + 1)
    BY <1>3, <1>5
  <1>5b. /\ CardOK(g) /\ InRead(g, m) /\ Streaming(g) /\ g.m_dev = f.m_dev
         /\ g.m_dat_out = ByteAt(d, j + 1) /\ g.block = From(d, j + 2)
    BY <1>1, <1>2, <1>3, <1>4, <1>5a, Streams
  <1>6. /\ CardOK(g) /\ InRead(g, m) /\ Streaming(g) /\ g.m_dev = f.m_dev
        /\ g.m_dat_out = ByteAt(d, 1) /\ g.block = From(d, 2)
    BY <1>5, <1>5b
  <1>7. /\ MasterOK(n) /\ n.pc = "data" /\ n.c = m.c /\ n.got = m.got /\ n.disk = m.disk
        /\ SdData(n) = d /\ CmdOK(n)
    BY <1>1, <1>2, <1>4, MasterMoves
  <1>8. InRead(g, n)
    BY <1>6, <1>7 DEF InRead
  <1>9. 1 \in 1 .. Len(d) + 1 /\ 1 + 1 = 2 /\ 1 - 1 = 0
    BY <1>2
  <1>10. n.got = Pre(d, 0)
    BY <1>2, <1>3, <1>7, PreFacts
  <1>11. ReadTo(g, n, 1)
    BY <1>6, <1>7, <1>9, <1>10 DEF ReadTo
  <1>12. Reads(g, n)
    BY <1>6, <1>7, <1>8, <1>9, <1>11 DEF Reads
  <1>13. SdHolds(g, n)
    BY <1>1, <1>6, <1>7, <1>12, SdHoldsAt
  <1> QED  BY <1>4, <1>13

LEMMA ByteRead ==
    ASSUME NEW f, NEW m, SdHolds(f, m), m.pc = "data"
    PROVE  IF f.m_dat_out.k = "crc" THEN SdHolds(f, [m EXCEPT !.pc = "check"])
           ELSE SdHolds(RxByte(f, FFbyte), [m EXCEPT !.got = Append(@, f.m_dat_out.v)])
  <1>1. CardOK(f) /\ MasterOK(m) /\ CmdOK(m) /\ f.m_dev = m.disk /\ Reads(f, m)
    BY DEF SdHolds
  <1>2. PICK d : d = SdData(m) /\ Len(d) \in Nat /\ SdList(d)
    BY <1>1, DataIs DEF SdList
  <1>3. PICK j \in 1 .. Len(d) + 1 : ReadTo(f, m, j)
    BY <1>1, <1>2 DEF Reads
  <1>4. InRead(f, m) /\ Streaming(f) /\ f.m_dat_out = ByteAt(d, j) /\ f.block = From(d, j + 1) /\ m.got = Pre(d, j - 1)
    BY <1>1, <1>2, <1>3 DEF Reads, ReadTo
  <1>5. CASE j = Len(d) + 1
    <2>1. ByteAt(d, j) = blockcrc(d) /\ j - 1 = Len(d)
      BY <1>2, <1>5 DEF ByteAt
    <2>2. f.m_dat_out.k = "crc"
      BY <1>4, <2>1, Bytes
    <2>3. m.got = d
      BY <1>2, <1>4, <2>1, PreFacts
    <2>4. PICK n : n = [m EXCEPT !.pc = "check"]
      OBVIOUS
    <2>5. /\ MasterOK(n) /\ n.pc = "check" /\ n.c = m.c /\ n.got = m.got /\ n.disk = m.disk
          /\ SdData(n) = d /\ CmdOK(n)
      BY <1>1, <1>2, <2>4, MasterMoves
    <2>6. ReadOut(f, n)
      BY <1>4, <2>3, <2>5 DEF ReadOut, InRead
    <2>7. SdHolds(f, n)
      BY <1>1, <2>5, <2>6, SdHoldsAt
    <2> QED  BY <2>2, <2>4, <2>7
  <1>6. CASE j # Len(d) + 1
    <2>1. PICK i : i = j - 1 /\ i \in 0 .. Len(d) - 1 /\ j = i + 1 /\ j \in 0 .. Len(d) /\ j # 0 /\ j <= Len(d)
      BY <1>2, <1>6
    <2>2. ByteAt(d, j) = SdByte("data", d[j])
      BY <2>1 DEF ByteAt
    <2>3. f.m_dat_out.k # "crc" /\ f.m_dat_out.v = d[j]
      BY <1>4, <2>2, Bytes
    <2>4. PICK n : n = [m EXCEPT !.got = Append(@, f.m_dat_out.v)]
      OBVIOUS
    <2>5. /\ DOMAIN n = SmFields /\ n.pc = "data" /\ n.c = m.c /\ n.arg = m.arg /\ n.disk = m.disk
          /\ n.got = Append(m.got, d[j])
      BY <1>1, <2>3, <2>4 DEF MasterOK, SmFields
    <2>6. MasterOK(n) /\ CmdOK(n) /\ SdData(n) = d
      BY <1>1, <1>2, <2>5 DEF MasterOK, CmdOK, SdData
    <2>7. n.got = Pre(d, j)
      <3>1. Append(Pre(d, i), d[i + 1]) = Pre(d, i + 1)
        BY <1>2, <2>1, PreFacts
      <3>2. m.got = Pre(d, i)
        BY <1>4, <2>1
      <3>3. d[j] = d[i + 1] /\ Pre(d, j) = Pre(d, i + 1)
        BY <2>1
      <3> QED  BY <2>5, <3>1, <3>2, <3>3
    <2>8. PICK g : g = RxByte(f, FFbyte)
      OBVIOUS
    <2>9. /\ CardOK(g) /\ InRead(g, m) /\ Streaming(g) /\ g.m_dev = f.m_dev
          /\ g.m_dat_out = ByteAt(d, j + 1) /\ g.block = From(d, j + 2)
      BY <1>1, <1>2, <1>4, <2>1, <2>8, Streams
    <2>10. InRead(g, n)
      BY <2>5, <2>9 DEF InRead
    <2>11. j + 1 \in 1 .. Len(d) + 1 /\ (j + 1) + 1 = j + 2 /\ (j + 1) - 1 = j
      BY <1>2, <2>1
    <2>12. ReadTo(g, n, j + 1)
      BY <2>6, <2>7, <2>9, <2>11 DEF ReadTo
    <2>13. Reads(g, n)
      BY <2>6, <2>9, <2>10, <2>11, <2>12 DEF Reads
    <2>14. SdHolds(g, n)
      BY <1>1, <2>5, <2>6, <2>9, <2>13, SdHoldsAt
    <2> QED  BY <2>3, <2>4, <2>8, <2>14
  <1> QED  BY <1>5, <1>6

LEMMA BlockRead ==
    ASSUME NEW f, NEW m, SdHolds(f, m), m.pc = "check"
    PROVE  SdHolds(SdDeselected(f), [m EXCEPT !.pc = "ready"])
  <1>1. CardOK(f) /\ MasterOK(m) /\ CmdOK(m) /\ f.m_dev = m.disk /\ InRead(f, m)
    BY DEF SdHolds, ReadOut
  <1>2. PICK g, n : g = SdDeselected(f) /\ n = [m EXCEPT !.pc = "ready"]
    OBVIOUS
  <1>3. /\ CardOK(g) /\ g.m_dev = f.m_dev /\ g.m_reading_data = FALSE /\ g.m_altcmd_flag = FALSE
        /\ g.m_reset_state = "IN_OPERATION" /\ g.m_cmdidx = 0
    BY <1>1, <1>2, DeselectedIs DEF InRead
  <1>4. MasterOK(n) /\ n.pc = "ready" /\ n.disk = m.disk /\ CmdOK(n)
    BY <1>1, <1>2, MasterMoves
  <1>5. Rests(g, n)
    <2>1. (n.pc \in {"opcond", "scr"}) = FALSE
      BY <1>4
    <2> QED  BY <1>3, <1>4, <2>1 DEF Rests
  <1>6. SdHolds(g, n)
    BY <1>1, <1>3, <1>4, <1>5, SdHoldsAt DEF SdIdlePc
  <1> QED  BY <1>2, <1>6

(* A block that the card takes.                                               *)
LEMMA TokenSent ==
    ASSUME NEW f, NEW m, SdHolds(f, m), m.pc = "write", ~f.m_have_token
    PROVE  SdHolds(RxByte(f, Token), m)
  <1>1. CardOK(f) /\ MasterOK(m) /\ CmdOK(m) /\ f.m_dev = m.disk /\ Fills(f, m) /\ DOMAIN f = SdFields
    BY DEF SdHolds, CardOK
  <1>2. f.m_reading_data = TRUE /\ f.m_have_token = FALSE /\ m.got = <<>> /\ InWrite(f, m) /\ f.pos = m.arg
    BY <1>1 DEF Fills
  <1>3. PICK g : g = [f EXCEPT !.m_dat_out = FFbyte, !.m_have_token = TRUE, !.rx = <<>>]
    OBVIOUS
  <1>4. RxByte(f, Token) = g
    BY <1>1, <1>2, <1>3, TokenByte
  <1>5. /\ DOMAIN g = SdFields /\ g.ok = f.ok /\ g.m_reading_data = f.m_reading_data
        /\ g.m_altcmd_flag = f.m_altcmd_flag /\ g.m_reset_state = f.m_reset_state
        /\ g.m_have_token = TRUE /\ g.m_dev = f.m_dev /\ g.m_blkdly = f.m_blkdly
        /\ g.m_rspdly = f.m_rspdly /\ g.m_rspidx = f.m_rspidx /\ g.rx = <<>> /\ g.pos = f.pos
    BY <1>1, <1>3 DEF SdFields
  <1>6. CardOK(g)
    BY <1>1, <1>5 DEF CardOK
  <1>7. SdList(m.got) /\ Len(m.got) <= SDBYTES
    BY <1>2, SdAssumption DEF SdList
  <1>8. InWrite(g, m)
    BY <1>2, <1>5 DEF InWrite
  <1>9. Fills(g, m)
    BY <1>2, <1>5, <1>7, <1>8 DEF Fills
  <1>10. SdHolds(g, m)
    BY <1>1, <1>5, <1>6, <1>9, SdHoldsAt
  <1> QED  BY <1>4, <1>10

LEMMA ByteSent ==
    ASSUME NEW f, NEW m, SdHolds(f, m), m.pc = "write", f.m_have_token, Len(m.got) < SDBYTES, NEW v
    PROVE  SdHolds(RxByte(f, SdByte("data", v)), [m EXCEPT !.got = Append(@, v)])
  <1>1. CardOK(f) /\ MasterOK(m) /\ CmdOK(m) /\ f.m_dev = m.disk /\ Fills(f, m) /\ DOMAIN f = SdFields
    BY DEF SdHolds, CardOK
  <1>2. f.m_reading_data = TRUE /\ f.m_have_token = TRUE /\ InWrite(f, m) /\ f.pos = m.arg /\ f.rx = m.got /\ SdList(m.got)
    BY <1>1 DEF Fills, CardOK
  <1>3. PICK b : b = SdByte("data", v) /\ b.v = v
    BY Bytes
  <1>4. PICK x : x = Append(m.got, v)
    OBVIOUS
  <1>5. SdList(x) /\ Len(x) = Len(m.got) + 1 /\ Len(m.got) \in Nat
    BY <1>2, <1>4, ListGrows DEF SdList
  <1>6. PICK g : g = RxByte(f, b)
    OBVIOUS
  <1>7. g = [f EXCEPT !.m_dat_out = FFbyte, !.rx = x]
    <2>1. Len(f.rx) < SDBYTES
      BY <1>2
    <2>2. g = [f EXCEPT !.m_dat_out = FFbyte, !.rx = Append(f.rx, b.v)]
      BY <1>1, <1>2, <1>6, <2>1, DataByte
    <2>3. Append(f.rx, b.v) = x
      BY <1>2, <1>3, <1>4
    <2> QED  BY <2>2, <2>3
  <1>8. /\ DOMAIN g = SdFields /\ g.ok = f.ok /\ g.m_reading_data = f.m_reading_data
        /\ g.m_altcmd_flag = f.m_altcmd_flag /\ g.m_reset_state = f.m_reset_state
        /\ g.m_have_token = f.m_have_token /\ g.m_dev = f.m_dev /\ g.m_blkdly = f.m_blkdly
        /\ g.m_rspdly = f.m_rspdly /\ g.m_rspidx = f.m_rspidx /\ g.rx = x /\ g.pos = f.pos
    BY <1>1, <1>7 DEF SdFields
  <1>9. CardOK(g)
    BY <1>1, <1>8 DEF CardOK
  <1>10. PICK n : n = [m EXCEPT !.got = Append(@, v)]
    OBVIOUS
  <1>11. /\ DOMAIN n = SmFields /\ n.pc = "write" /\ n.c = m.c /\ n.arg = m.arg /\ n.disk = m.disk
         /\ n.got = x
    BY <1>1, <1>4, <1>10 DEF MasterOK, SmFields
  <1>12. MasterOK(n) /\ CmdOK(n)
    BY <1>1, <1>11 DEF MasterOK, CmdOK
  <1>13. InWrite(g, n)
    BY <1>2, <1>8, <1>11 DEF InWrite
  <1>14. Len(x) <= SDBYTES
    BY <1>5, SdAssumption
  <1>15. Fills(g, n)
    BY <1>2, <1>5, <1>8, <1>11, <1>13, <1>14 DEF Fills
  <1>16. SdHolds(g, n)
    BY <1>1, <1>8, <1>9, <1>11, <1>12, <1>15, SdHoldsAt
  <1> QED  BY <1>3, <1>6, <1>10, <1>16

LEMMA CrcSent ==
    ASSUME NEW f, NEW m, SdHolds(f, m), m.pc = "write", Len(m.got) = SDBYTES
    PROVE  SdHolds(RxByte(f, blockcrc(m.got)), [m EXCEPT !.pc = "stored"])
  <1>1. CardOK(f) /\ MasterOK(m) /\ CmdOK(m) /\ f.m_dev = m.disk /\ Fills(f, m) /\ DOMAIN f = SdFields
    BY DEF SdHolds, CardOK
  <1>2. m.got # <<>>
    BY SdAssumption
  <1>3. f.m_reading_data = TRUE /\ f.m_have_token = TRUE /\ InWrite(f, m) /\ f.pos = m.arg /\ f.rx = m.got /\ SdList(m.got)
    BY <1>1, <1>2 DEF Fills
  <1>4. ~(Len(f.rx) < SDBYTES)
    BY <1>3, SdAssumption
  <1>5. PICK g, dev, y : g = RxByte(f, blockcrc(f.rx)) /\ y = f.pos + 1
                         /\ dev = IF f.m_dev = <<>> THEN f.m_dev ELSE [f.m_dev EXCEPT ![f.pos + 1] = f.rx]
    OBVIOUS
  <1>6. g = [f EXCEPT !.m_reading_data = FALSE, !.m_have_token = FALSE, !.rx = <<>>, !.m_dat_out = Reply(5),
                      !.m_dev = dev, !.pos = y]
    BY <1>1, <1>3, <1>4, <1>5, CrcByte
  <1>7. /\ DOMAIN g = SdFields /\ g.ok = f.ok /\ g.m_reading_data = FALSE
        /\ g.m_altcmd_flag = f.m_altcmd_flag /\ g.m_reset_state = f.m_reset_state
        /\ g.m_have_token = FALSE /\ g.m_dev = dev /\ g.m_blkdly = f.m_blkdly
        /\ g.m_rspdly = f.m_rspdly /\ g.m_rspidx = f.m_rspidx /\ g.m_dat_out = Reply(5)
    BY <1>1, <1>6 DEF SdFields
  <1>8. CardOK(g)
    BY <1>1, <1>7 DEF CardOK
  <1>9. PICK n : n = [m EXCEPT !.pc = "stored"]
    OBVIOUS
  <1>10. MasterOK(n) /\ n.pc = "stored" /\ n.c = m.c /\ n.arg = m.arg /\ n.got = m.got /\ n.disk = m.disk /\ CmdOK(n)
    BY <1>1, <1>9, MasterMoves
  <1>11. dev = Written(n)
    BY <1>1, <1>3, <1>5, <1>10 DEF Written
  <1>12. InWrite(g, n)
    BY <1>3, <1>7, <1>10 DEF InWrite
  <1>13. Stored(g, n)
    BY <1>3, <1>7, <1>10, <1>11, <1>12 DEF Stored
  <1>14. SdHolds(g, n)
    BY <1>8, <1>10, <1>13, SdHoldsAt
  <1> QED  BY <1>3, <1>5, <1>9, <1>14

LEMMA BlockWritten ==
    ASSUME NEW f, NEW m, SdHolds(f, m), m.pc = "stored"
    PROVE  /\ f.m_dat_out # FFbyte
           /\ SdHolds(SdDeselected(f), [m EXCEPT !.pc = "ready", !.disk =
                               IF @ = <<>> THEN @ ELSE [@ EXCEPT ![m.arg + 1] = m.got]])
  <1>1. CardOK(f) /\ MasterOK(m) /\ CmdOK(m) /\ Stored(f, m) /\ DOMAIN m = SmFields
    BY DEF SdHolds, MasterOK
  <1>2. /\ m.c = 24 /\ f.m_altcmd_flag = FALSE /\ f.m_reset_state = "IN_OPERATION" /\ f.m_reading_data = FALSE
        /\ f.m_dat_out = Reply(5) /\ f.m_dev = Written(m) /\ SdList(m.got)
    BY <1>1 DEF Stored, InWrite
  <1>3. PICK g, d : g = SdDeselected(f) /\ d = Written(m)
    OBVIOUS
  <1>4. /\ CardOK(g) /\ g.m_dev = d /\ g.m_reading_data = FALSE /\ g.m_altcmd_flag = FALSE
        /\ g.m_reset_state = "IN_OPERATION" /\ g.m_cmdidx = 0
    BY <1>1, <1>2, <1>3, DeselectedIs
  <1>5. PICK n : n = [m EXCEPT !.pc = "ready", !.disk = IF @ = <<>> THEN @ ELSE [@ EXCEPT ![m.arg + 1] = m.got]]
    OBVIOUS
  <1>6. n = [m EXCEPT !.pc = "ready", !.disk = d]
    BY <1>1, <1>3, <1>5 DEF Written, SmFields
  <1>7. DOMAIN n = SmFields /\ n.pc = "ready" /\ n.disk = d /\ n.c = m.c /\ n.arg = m.arg
    BY <1>1, <1>6 DEF SmFields
  <1>8. DiskOK(d)
    <2>1. CASE m.disk = <<>>
      BY <1>3, <2>1 DEF Written, DiskOK
    <2>2. CASE m.disk # <<>>
      <3>1. DOMAIN m.disk = 1 .. SDBLOCKS /\ \A b \in 1 .. SDBLOCKS : SdList(m.disk[b])
        BY <1>1, <2>2 DEF MasterOK, DiskOK
      <3>2. d = [m.disk EXCEPT ![m.arg + 1] = m.got]
        BY <1>3, <2>2 DEF Written
      <3>3. DOMAIN d = 1 .. SDBLOCKS
        BY <3>1, <3>2
      <3>4. ASSUME NEW b \in 1 .. SDBLOCKS PROVE SdList(d[b])
        <4>1. d[b] = m.got \/ d[b] = m.disk[b]
          BY <3>1, <3>2
        <4> QED  BY <1>2, <3>1, <4>1
      <3> QED  BY <3>3, <3>4 DEF DiskOK
    <2> QED  BY <2>1, <2>2
  <1>9. MasterOK(n) /\ CmdOK(n)
    BY <1>1, <1>7, <1>8 DEF MasterOK, CmdOK
  <1>10. Rests(g, n)
    <2>1. (n.pc \in {"opcond", "scr"}) = FALSE
      BY <1>7
    <2> QED  BY <1>4, <1>7, <2>1 DEF Rests
  <1>11. SdHolds(g, n)
    BY <1>4, <1>7, <1>9, <1>10, SdHoldsAt DEF SdIdlePc
  <1>12. Reply(5) # FFbyte
    BY Bytes
  <1> QED  BY <1>2, <1>3, <1>5, <1>11, <1>12

LEMMA GivesUp ==
    ASSUME NEW f, NEW m, SdHolds(f, m), m.pc \in {"answer", "token", "data"}, m.c # 24, ~f.m_altcmd_flag
    PROVE  SdHolds(SdDeselected(f), [m EXCEPT !.pc = "reset"])
  <1>1. CardOK(f) /\ MasterOK(m) /\ CmdOK(m) /\ f.m_dev = m.disk
    BY DEF SdHolds
  <1>2. f.m_altcmd_flag = FALSE
    BY <1>1 DEF CardOK
  <1>3. f.m_reading_data = FALSE
    <2>1. CASE m.pc = "answer"
      <3>1. Sent(f, m) \/ Answers(f, m)
        BY <2>1 DEF SdHolds, Takes
      <3>2. CASE Sent(f, m)
        BY <3>2 DEF Sent
      <3>3. CASE Answers(f, m)
        BY <3>3 DEF Answers, Responds
      <3> QED  BY <3>1, <3>2, <3>3
    <2>2. CASE m.pc \in {"token", "data"}
      BY <2>2 DEF SdHolds, Starts, Reads, InRead
    <2> QED  BY <2>1, <2>2
  <1>4. PICK g, n : g = SdDeselected(f) /\ n = [m EXCEPT !.pc = "reset"]
    OBVIOUS
  <1>5. /\ CardOK(g) /\ g.m_dev = f.m_dev /\ g.m_reading_data = FALSE /\ g.m_altcmd_flag = FALSE
        /\ g.m_cmdidx = 0
    BY <1>1, <1>2, <1>3, <1>4, DeselectedIs
  <1>6. MasterOK(n) /\ n.pc = "reset" /\ n.disk = m.disk /\ CmdOK(n)
    BY <1>1, <1>4, MasterMoves
  <1>7. Rests(g, n)
    <2>1. (n.pc \in {"opcond", "scr"}) = FALSE
      BY <1>6
    <2> QED  BY <1>5, <1>6, <2>1 DEF Rests
  <1>8. SdHolds(g, n)
    BY <1>1, <1>5, <1>6, <1>7, SdHoldsAt DEF SdIdlePc
  <1> QED  BY <1>4, <1>8

LEMMA PowersUp ==
    ASSUME NEW f, NEW m, SdHolds(f, m)
    PROVE  SdHolds(PoweredUp(f), m)
  <1>1. PICK g : g = [f EXCEPT !.m_powerup_busy = "done"]
    OBVIOUS
  <1>2. DOMAIN f = SdFields
    BY DEF SdHolds, CardOK
  <1>3. /\ DOMAIN g = SdFields /\ g.ok = f.ok /\ g.m_reading_data = f.m_reading_data
        /\ g.m_altcmd_flag = f.m_altcmd_flag /\ g.m_reset_state = f.m_reset_state
        /\ g.m_have_token = f.m_have_token /\ g.m_dev = f.m_dev /\ g.m_blkdly = f.m_blkdly
        /\ g.m_rspdly = f.m_rspdly /\ g.m_rspidx = f.m_rspidx /\ g.m_dat_out = f.m_dat_out
        /\ g.m_cmdidx = f.m_cmdidx /\ g.m_cmdbuf = f.m_cmdbuf /\ g.m_rspbuf = f.m_rspbuf
        /\ g.block = f.block /\ g.rx = f.rx /\ g.pos = f.pos
    BY <1>1, <1>2 DEF SdFields
  <1>4. CardOK(f) => CardOK(g)
    BY <1>3 DEF CardOK
  <1>5. (Sent(f, m) => Sent(g, m)) /\ (Takes(f, m) => Takes(g, m))
    BY <1>3, Zenon DEF Sent, Takes
  <1>6. Answers(f, m) => Answers(g, m)
    <2>1. \A v, r : Responds(f, v, r, m.c = 55) => Responds(g, v, r, m.c = 55)
      <3> SUFFICES ASSUME NEW v, NEW r, Responds(f, v, r, m.c = 55)
                   PROVE  Responds(g, v, r, m.c = 55)
        OBVIOUS
      <3>1. /\ f.ok = TRUE /\ f.m_reading_data = FALSE /\ f.m_cmdidx = 7
            /\ f.m_altcmd_flag = (m.c = 55) /\ f.m_rspbuf = <<Reply(v)>> /\ f.m_reset_state = r
            /\ ((f.m_dat_out = FFbyte /\ f.m_rspidx = 0) \/ f.m_dat_out = Reply(v))
        BY Zenon DEF Responds
      <3>2. DOMAIN g = SdFields /\ g.ok = TRUE /\ g.m_reading_data = FALSE /\ g.m_cmdidx = 7
        BY <1>3, <3>1
      <3>3. g.m_rspbuf = <<Reply(v)>> /\ g.m_reset_state = r
        BY <1>3, <3>1
      <3>4. g.m_altcmd_flag = (m.c = 55)
        BY <1>3, <3>1, Zenon
      <3>5. (g.m_dat_out = FFbyte /\ g.m_rspidx = 0) \/ g.m_dat_out = Reply(v)
        BY <1>3, <3>1
      <3> QED  BY <3>2, <3>3, <3>4, <3>5, Zenon DEF Responds
    <2> QED  BY <1>3, <2>1, Zenon DEF Answers
  <1>7. (InRead(f, m) => InRead(g, m)) /\ (InWrite(f, m) => InWrite(g, m)) /\ (Streaming(f) => Streaming(g))
    BY <1>3, Zenon DEF InRead, InWrite, Streaming
  <1>8. (Starts(f, m) => Starts(g, m)) /\ (ReadOut(f, m) => ReadOut(g, m))
    BY <1>3, <1>7, Zenon DEF Starts, ReadOut
  <1>9. Reads(f, m) => Reads(g, m)
    <2>1. \A j : ReadTo(f, m, j) => ReadTo(g, m, j)
      BY <1>3, Zenon DEF ReadTo
    <2> QED  BY <1>7, <2>1, Zenon DEF Reads
  <1>10. (Fills(f, m) => Fills(g, m)) /\ (Stored(f, m) => Stored(g, m)) /\ (Rests(f, m) => Rests(g, m))
    BY <1>3, <1>7, Zenon DEF Fills, Stored, Rests
  <1>11. SdHolds(g, m)
    BY <1>3, <1>4, <1>5, <1>6, <1>8, <1>9, <1>10, Zenon DEF SdHolds
  <1> QED  BY <1>1, <1>11 DEF PoweredUp

SdInv == SdHolds(sd, sm)

LEMMA SdStart == SdInit => SdInv
  <1> SUFFICES ASSUME SdInit PROVE SdInv
    OBVIOUS
  <1>1. PICK file \in {<<>>, [b \in 1 .. SDBLOCKS |-> [i \in 1 .. SDBYTES |-> 0]]} :
          sd = Init_SDSPISIM(file) /\ sm = [pc |-> "reset", c |-> 0, arg |-> 0, got |-> <<>>, disk |-> file]
    BY DEF SdInit
  <1>2. /\ DOMAIN sd = SdFields /\ sd.ok = TRUE /\ sd.m_reading_data = FALSE /\ sd.m_altcmd_flag = FALSE
        /\ sd.m_have_token = FALSE /\ sd.m_rspdly = 0 /\ sd.m_blkdly = 0 /\ sd.m_rspidx = 0
        /\ sd.m_cmdidx = 0 /\ sd.m_dev = file
    BY <1>1 DEF Init_SDSPISIM, SdFields
  <1>3. DOMAIN sm = SmFields /\ sm.pc = "reset" /\ sm.c = 0 /\ sm.disk = file
    BY <1>1 DEF SmFields
  <1>4. DiskOK(file)
    <2>1. CASE file = <<>>
      BY <2>1 DEF DiskOK
    <2>2. CASE file = [b \in 1 .. SDBLOCKS |-> [i \in 1 .. SDBYTES |-> 0]]
      <3>1. PICK z : z = [i \in 1 .. SDBYTES |-> 0]
        OBVIOUS
      <3>2. SdList(z)
        <4>1. Len(z) = SDBYTES /\ SDBYTES \in Nat
          BY <3>1, SdAssumption
        <4> QED  BY <3>1, <4>1 DEF SdList
      <3>3. file = [b \in 1 .. SDBLOCKS |-> z]
        BY <2>2, <3>1
      <3>4. DOMAIN file = 1 .. SDBLOCKS /\ \A b \in 1 .. SDBLOCKS : SdList(file[b])
        BY <3>2, <3>3
      <3> QED  BY <3>4 DEF DiskOK
    <2> QED  BY <2>1, <2>2
  <1>5. CardOK(sd)
    <2>1. sd.m_reading_data \in BOOLEAN /\ sd.m_altcmd_flag \in BOOLEAN /\ sd.m_have_token \in BOOLEAN
      BY <1>2, Zenon
    <2>2. sd.m_rspdly \in Nat /\ sd.m_blkdly \in Nat /\ sd.m_rspidx \in Nat
      BY <1>2
    <2> QED  BY <1>2, <2>1, <2>2, Zenon DEF CardOK
  <1>6. MasterOK(sm) /\ CmdOK(sm)
    BY <1>3, <1>4 DEF MasterOK, CmdOK, SdCmds
  <1>7. Rests(sd, sm)
    <2>1. (sm.pc \in {"opcond", "scr"}) = FALSE
      BY <1>3
    <2> QED  BY <1>2, <1>3, <2>1 DEF Rests
  <1> QED  BY <1>2, <1>3, <1>5, <1>6, <1>7, SdHoldsAt DEF SdInv, SdIdlePc

LEMMA BringsUp == SdInv /\ (SdBringUp \/ SdUse) => SdInv'
  <1> SUFFICES ASSUME SdInv, SdBringUp \/ SdUse PROVE SdInv'
    OBVIOUS
  <1>1. SdHolds(sd, sm)
    BY DEF SdInv
  <1>2. ASSUME NEW c, NEW a, NEW next, SdBegin(c, a, next), next \in SdIdlePc,
               c \in SdCmds, c \in {17, 24} => a \in Blocks,
               sd.m_altcmd_flag = (IF c \in {41, 51} THEN TRUE ELSE FALSE), ComesIn(c, sd.m_reset_state)
        PROVE  SdInv'
    <2>1. sm.pc \in SdIdlePc
      BY <1>2 DEF SdBegin
    <2>2. SdHolds(RxByte(sd, SdByte("cmd", [c |-> c, arg |-> a])),
                [sm EXCEPT !.pc = "answer", !.c = c, !.arg = a, !.got = <<>>])
      BY <1>1, <1>2, <2>1, Begins
    <2> QED  BY <1>2, <2>2 DEF SdBegin, SdSend, SdInv
  <1>3. ASSUME sm.pc \in SdIdlePc PROVE Rests(sd, sm) /\ sd.m_altcmd_flag = (sm.pc \in {"opcond", "scr"})
    BY <1>1, <1>3 DEF SdHolds, Rests
  <1>4. CASE SdBegin(0, 0, "reset")
    <2>1. sm.pc = "reset" /\ (sm.pc \in {"opcond", "scr"}) = FALSE
      BY <1>4 DEF SdBegin
    <2>2. sd.m_altcmd_flag = FALSE /\ ComesIn(0, sd.m_reset_state)
      <3>1. sm.pc \in SdIdlePc
        BY <2>1 DEF SdIdlePc
      <3>2. Rests(sd, sm) /\ sd.m_altcmd_flag = (sm.pc \in {"opcond", "scr"})
        BY <1>3, <3>1
      <3>3. sd.m_altcmd_flag = FALSE
        BY <2>1, <3>2, Zenon
      <3>4. ComesIn(0, sd.m_reset_state)
        BY <2>1, <3>2 DEF ComesIn, Rests
      <3> QED  BY <3>3, <3>4
    <2>3. "reset" \in SdIdlePc /\ 0 \in SdCmds /\ 0 \notin {17, 24} /\ 0 \notin {41, 51}
      BY DEF SdIdlePc, SdCmds
    <2> QED  BY <1>2, <1>4, <2>2, <2>3
  <1>5. CASE SdBegin(8, 0, "ifcond")
    <2>1. sm.pc = "ifcond" /\ (sm.pc \in {"opcond", "scr"}) = FALSE
      BY <1>5 DEF SdBegin
    <2>2. sd.m_altcmd_flag = FALSE /\ ComesIn(8, sd.m_reset_state)
      <3>1. sm.pc \in SdIdlePc
        BY <2>1 DEF SdIdlePc
      <3>2. Rests(sd, sm) /\ sd.m_altcmd_flag = (sm.pc \in {"opcond", "scr"})
        BY <1>3, <3>1
      <3>3. sd.m_altcmd_flag = FALSE
        BY <2>1, <3>2, Zenon
      <3>4. ComesIn(8, sd.m_reset_state)
        BY <2>1, <3>2 DEF ComesIn, Rests
      <3> QED  BY <3>3, <3>4
    <2>3. "ifcond" \in SdIdlePc /\ 8 \in SdCmds /\ 8 \notin {17, 24} /\ 8 \notin {41, 51}
      BY DEF SdIdlePc, SdCmds
    <2> QED  BY <1>2, <1>5, <2>2, <2>3
  <1>6. CASE SdBegin(55, 0, "app")
    <2>1. sm.pc = "app" /\ (sm.pc \in {"opcond", "scr"}) = FALSE
      BY <1>6 DEF SdBegin
    <2>2. sd.m_altcmd_flag = FALSE /\ ComesIn(55, sd.m_reset_state)
      <3>1. sm.pc \in SdIdlePc
        BY <2>1 DEF SdIdlePc
      <3>2. Rests(sd, sm) /\ sd.m_altcmd_flag = (sm.pc \in {"opcond", "scr"})
        BY <1>3, <3>1
      <3>3. sd.m_altcmd_flag = FALSE
        BY <2>1, <3>2, Zenon
      <3>4. ComesIn(55, sd.m_reset_state)
        BY <2>1, <3>2 DEF ComesIn, Rests
      <3> QED  BY <3>3, <3>4
    <2>3. "app" \in SdIdlePc /\ 55 \in SdCmds /\ 55 \notin {17, 24} /\ 55 \notin {41, 51}
      BY DEF SdIdlePc, SdCmds
    <2> QED  BY <1>2, <1>6, <2>2, <2>3
  <1>7. CASE SdBegin(41, 0, "opcond")
    <2>1. sm.pc = "opcond" /\ (sm.pc \in {"opcond", "scr"}) = TRUE
      BY <1>7 DEF SdBegin
    <2>2. sd.m_altcmd_flag = TRUE /\ ComesIn(41, sd.m_reset_state)
      <3>1. sm.pc \in SdIdlePc
        BY <2>1 DEF SdIdlePc
      <3>2. Rests(sd, sm) /\ sd.m_altcmd_flag = (sm.pc \in {"opcond", "scr"})
        BY <1>3, <3>1
      <3>3. sd.m_altcmd_flag = TRUE
        BY <2>1, <3>2, Zenon
      <3>4. ComesIn(41, sd.m_reset_state)
        BY <2>1, <3>2 DEF ComesIn, Rests
      <3> QED  BY <3>3, <3>4
    <2>3. "opcond" \in SdIdlePc /\ 41 \in SdCmds /\ 41 \notin {17, 24} /\ 41 \in {41, 51}
      BY DEF SdIdlePc, SdCmds
    <2> QED  BY <1>2, <1>7, <2>2, <2>3
  <1>8. CASE SdBegin(58, 0, "ocr")
    <2>1. sm.pc = "ocr" /\ (sm.pc \in {"opcond", "scr"}) = FALSE
      BY <1>8 DEF SdBegin
    <2>2. sd.m_altcmd_flag = FALSE /\ ComesIn(58, sd.m_reset_state)
      <3>1. sm.pc \in SdIdlePc
        BY <2>1 DEF SdIdlePc
      <3>2. Rests(sd, sm) /\ sd.m_altcmd_flag = (sm.pc \in {"opcond", "scr"})
        BY <1>3, <3>1
      <3>3. sd.m_altcmd_flag = FALSE
        BY <2>1, <3>2, Zenon
      <3>4. ComesIn(58, sd.m_reset_state)
        BY <2>1, <3>2 DEF ComesIn, Rests
      <3> QED  BY <3>3, <3>4
    <2>3. "ocr" \in SdIdlePc /\ 58 \in SdCmds /\ 58 \notin {17, 24} /\ 58 \notin {41, 51}
      BY DEF SdIdlePc, SdCmds
    <2> QED  BY <1>2, <1>8, <2>2, <2>3
  <1>9. CASE SdBegin(51, 0, "scr")
    <2>1. sm.pc = "scr" /\ (sm.pc \in {"opcond", "scr"}) = TRUE
      BY <1>9 DEF SdBegin
    <2>2. sd.m_altcmd_flag = TRUE /\ ComesIn(51, sd.m_reset_state)
      <3>1. sm.pc \in SdIdlePc
        BY <2>1 DEF SdIdlePc
      <3>2. Rests(sd, sm) /\ sd.m_altcmd_flag = (sm.pc \in {"opcond", "scr"})
        BY <1>3, <3>1
      <3>3. sd.m_altcmd_flag = TRUE
        BY <2>1, <3>2, Zenon
      <3>4. ComesIn(51, sd.m_reset_state)
        BY <2>1, <3>2 DEF ComesIn, Rests
      <3> QED  BY <3>3, <3>4
    <2>3. "scr" \in SdIdlePc /\ 51 \in SdCmds /\ 51 \notin {17, 24} /\ 51 \in {41, 51}
      BY DEF SdIdlePc, SdCmds
    <2> QED  BY <1>2, <1>9, <2>2, <2>3
  <1>10. ASSUME NEW c \in {0, 1, 9, 10, 13, 17, 24, 55}, NEW a, SdBegin(c, a, "ready"), c \in {17, 24} => a \in Blocks
         PROVE  SdInv'
    <2>1. sm.pc = "ready" /\ (sm.pc \in {"opcond", "scr"}) = FALSE
      BY <1>10 DEF SdBegin
    <2>2. sd.m_altcmd_flag = FALSE /\ sd.m_reset_state = "IN_OPERATION"
      BY <1>3, <2>1 DEF SdIdlePc, Rests
    <2>3. ComesIn(c, sd.m_reset_state)
      BY <2>2 DEF ComesIn
    <2>4. "ready" \in SdIdlePc /\ c \in SdCmds /\ c \notin {41, 51}
      BY DEF SdIdlePc, SdCmds
    <2> QED  BY <1>2, <1>10, <2>2, <2>3, <2>4
  <1>11. CASE SdUse
    BY <1>10, <1>11 DEF SdUse
  <1> QED  BY <1>4, <1>5, <1>6, <1>7, <1>8, <1>9, <1>11 DEF SdBringUp

LEMMA Polls == SdInv /\ SdPoll => SdInv'
  <1> SUFFICES ASSUME SdInv, SdPoll PROVE SdInv'
    OBVIOUS
  <1>1. SdHolds(sd, sm) /\ sm.pc \in {"answer", "token", "stored"}
    BY DEF SdInv, SdPoll
  <1>2. CASE sm.pc = "answer" /\ sd.m_dat_out = FFbyte
    <2>1. sd' = RxByte(sd, FFbyte) /\ sm' = sm
      BY <1>2 DEF SdPoll, SdSend
    <2>2. SdHolds(RxByte(sd, FFbyte), sm)
      BY <1>1, <1>2, PollAnswer
    <2> QED  BY <2>1, <2>2 DEF SdInv
  <1>3. CASE sm.pc = "answer" /\ sd.m_dat_out # FFbyte
    <2>1. /\ sm' = [sm EXCEPT !.pc = AfterAnswer]
          /\ sd' = IF SdDone(AfterAnswer) THEN SdDeselected(sd) ELSE sd
      BY <1>3 DEF SdPoll
    <2>2. SdHolds(IF SdDone(AfterAnswer) THEN SdDeselected(sd) ELSE sd, [sm EXCEPT !.pc = AfterAnswer])
      BY <1>1, <1>3, AnswerTaken
    <2> QED  BY <2>1, <2>2 DEF SdInv
  <1>4. CASE sm.pc = "token" /\ sd.m_dat_out # Token
    <2>1. sd' = RxByte(sd, FFbyte) /\ sm' = sm
      BY <1>4 DEF SdPoll, SdSend
    <2>2. SdHolds(RxByte(sd, FFbyte), sm)
      BY <1>1, <1>4, PollToken
    <2> QED  BY <2>1, <2>2 DEF SdInv
  <1>5. CASE sm.pc = "token" /\ sd.m_dat_out = Token
    <2>1. Token # FFbyte
      BY Bytes
    <2>2. sd' = RxByte(sd, FFbyte) /\ sm' = [sm EXCEPT !.pc = "data"]
      BY <1>5, <2>1 DEF SdPoll, SdSend
    <2>3. SdHolds(RxByte(sd, FFbyte), [sm EXCEPT !.pc = "data"])
      BY <1>1, <1>5, TokenCame
    <2> QED  BY <2>2, <2>3 DEF SdInv
  <1>6. CASE sm.pc = "stored"
    <2>1. /\ sd.m_dat_out # FFbyte
          /\ SdHolds(SdDeselected(sd), [sm EXCEPT !.pc = "ready", !.disk =
                               IF @ = <<>> THEN @ ELSE [@ EXCEPT ![sm.arg + 1] = sm.got]])
      BY <1>1, <1>6, BlockWritten
    <2>2. /\ sm' = [sm EXCEPT !.pc = "ready", !.disk = IF @ = <<>> THEN @ ELSE [@ EXCEPT ![sm.arg + 1] = sm.got]]
          /\ sd' = SdDeselected(sd)
      BY <1>6, <2>1 DEF SdPoll
    <2> QED  BY <2>1, <2>2 DEF SdInv
  <1> QED  BY <1>1, <1>2, <1>3, <1>4, <1>5, <1>6

LEMMA SdSteps == SdInv /\ [SdNext]_sd_vars => SdInv'
  <1> SUFFICES ASSUME SdInv, [SdNext]_sd_vars PROVE SdInv'
    OBVIOUS
  <1>1. SdHolds(sd, sm)
    BY DEF SdInv
  <1>2. CASE SdBringUp \/ SdUse
    BY <1>2, BringsUp
  <1>3. CASE SdPoll
    BY <1>3, Polls
  <1>4. CASE SdRead
    <2>1. sm.pc = "data"
      BY <1>4 DEF SdRead
    <2>2. IF sd.m_dat_out.k = "crc" THEN SdHolds(sd, [sm EXCEPT !.pc = "check"])
           ELSE SdHolds(RxByte(sd, FFbyte), [sm EXCEPT !.got = Append(@, sd.m_dat_out.v)])
      BY <1>1, <2>1, ByteRead
    <2>3. CASE sd.m_dat_out.k = "crc"
      BY <1>4, <2>2, <2>3 DEF SdRead, SdInv
    <2>4. CASE sd.m_dat_out.k # "crc"
      BY <1>4, <2>2, <2>4 DEF SdRead, SdSend, SdInv
    <2> QED  BY <2>3, <2>4
  <1>5. CASE SdCheck
    <2>1. SdHolds(SdDeselected(sd), [sm EXCEPT !.pc = "ready"])
      BY <1>1, <1>5, BlockRead DEF SdCheck
    <2> QED  BY <1>5, <2>1 DEF SdCheck, SdInv
  <1>6. CASE SdWrite
    <2>1. sm.pc = "write"
      BY <1>6 DEF SdWrite
    <2>2. CASE ~sd.m_have_token /\ SdSend(Token) /\ UNCHANGED sm
      <3>1. SdHolds(RxByte(sd, Token), sm)
        BY <1>1, <2>1, <2>2, TokenSent
      <3> QED  BY <2>2, <3>1 DEF SdSend, SdInv
    <2>3. CASE /\ sd.m_have_token /\ Len(sm.got) < SDBYTES
               /\ \E v \in SDDATA : SdSend(SdByte("data", v)) /\ sm' = [sm EXCEPT !.got = Append(@, v)]
      <3>1. PICK v \in SDDATA : SdSend(SdByte("data", v)) /\ sm' = [sm EXCEPT !.got = Append(@, v)]
        BY <2>3
      <3>2. SdHolds(RxByte(sd, SdByte("data", v)), [sm EXCEPT !.got = Append(@, v)])
        BY <1>1, <2>1, <2>3, ByteSent
      <3> QED  BY <3>1, <3>2 DEF SdSend, SdInv
    <2>4. CASE /\ Len(sm.got) = SDBYTES /\ SdSend(blockcrc(sm.got)) /\ sm' = [sm EXCEPT !.pc = "stored"]
      <3>1. SdHolds(RxByte(sd, blockcrc(sm.got)), [sm EXCEPT !.pc = "stored"])
        BY <1>1, <2>1, <2>4, CrcSent
      <3> QED  BY <2>4, <3>1 DEF SdSend, SdInv
    <2> QED  BY <1>6, <2>2, <2>3, <2>4 DEF SdWrite
  <1>7. CASE SdGiveUp
    <2>1. SdHolds(SdDeselected(sd), [sm EXCEPT !.pc = "reset"])
      BY <1>1, <1>7, GivesUp DEF SdGiveUp
    <2> QED  BY <1>7, <2>1 DEF SdGiveUp, SdInv
  <1>8. CASE SdPowerUp
    <2>1. SdHolds(PoweredUp(sd), sm)
      BY <1>1, PowersUp
    <2> QED  BY <1>8, <2>1 DEF SdPowerUp, SdInv
  <1>9. CASE UNCHANGED sd_vars
    BY <1>1, <1>9 DEF sd_vars, SdInv
  <1> QED  BY <1>2, <1>3, <1>4, <1>5, <1>6, <1>7, <1>8, <1>9 DEF SdNext, SdMaster

LEMMA SdIsRight == SdInv => SdCardRight
  <1> SUFFICES ASSUME SdInv PROVE SdCardRight
    OBVIOUS
  <1>1. CardOK(sd) /\ (sm.pc = "check" => ReadOut(sd, sm)) /\ (sm.pc = "ready" => sd.m_dev = sm.disk)
    BY DEF SdInv, SdHolds
  <1>2. SdNeverAsserts
    BY <1>1 DEF CardOK, SdNeverAsserts
  <1>3. sm.pc = "check" /\ sm.c = 17 =>
          sm.got = IF sm.disk = <<>> THEN [i \in 1 .. SDBYTES |-> 0] ELSE sm.disk[sm.arg + 1]
    BY <1>1 DEF ReadOut, SdData, Zeros
  <1> QED  BY <1>1, <1>2, <1>3 DEF SdCardRight, SdBlocksRight

(* The simulated SD card serves a master that may give up and start over anywhere
   (sdspisim.cpp): no assert of its operator() fails, a block that was read is the
   block that was asked for, and what was written is in the file where it belongs,
   for every number and length of blocks, of answer bytes and of delays.       *)
THEOREM SdCardIsRight == SdSpec => []SdCardRight
  <1>1. SdInit => SdInv
    BY SdStart
  <1>2. SdInv /\ [SdNext]_sd_vars => SdInv'
    BY SdSteps
  <1>3. SdInv => SdCardRight
    BY SdIsRight
  <1> QED  BY <1>1, <1>2, <1>3, PTL DEF SdSpec
=============================================================================
