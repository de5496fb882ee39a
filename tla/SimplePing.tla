------------------------------ MODULE SimplePing ------------------------------
(* sw/board/simple_ping.c with arp.c: a supervisor that pings once a second and
   serves the system calls, and a user task that receives, answers and keeps the
   ARP table; with the interrupt controller (icontrol.v) and the packet interface
   as the program sees them, and a network of two peers that may lose packets.

   The record `np` is the board, `nw` the network.  A MAC address is the name of
   its owner, "0" none.                                                      *)
EXTENDS Integers, Sequences, FiniteSets

CONSTANTS
    NARP,                           \* NUM_ARP_ENTRIES: 8
    PINGIP,                         \* ping_ip_addr
    ARPEV,                          \* where *ev of arp_table_add may point: see below
    NREQUESTS                       \* bound: echo requests that peers send

ASSUME PingAssumption == NARP \in Nat \ {0} /\ PINGIP \in {"router", "host"}

VARIABLES np, nw
np_vars == <<np, nw>>

Peers == {"router", "host"}             \* my_ip_router, and one on the subnet
NPkt(kind, mac, ip, id) == [kind |-> kind, mac |-> mac, ip |-> ip, id |-> id]
NoPkt == NPkt("none", "0", "0", 0)
NothingSeen == [st |-> {}, en |-> {}]

-----------------------------------------------------------------------------
(* The interrupt controller: state bits latch, and those of the packet interface
   are levels, so that clearing one that is still there sets it again.       *)
Levels(b) == (IF b.rx # NoPkt THEN {"RX"} ELSE {}) \cup (IF b.tx = NoPkt THEN {"TX"} ELSE {})
Latch(b) == [b EXCEPT !.int_state = @ \cup Levels(b)]
EINT(b, s) == [b EXCEPT !.int_enable = @ \cup s, !.mie = TRUE]
DINT(b, s) == [b EXCEPT !.int_enable = @ \ s]
INTNOW(b) == b.int_state \cap b.int_enable # {}
ClearInts(b, s) == Latch([b EXCEPT !.int_state = @ \ s])

-----------------------------------------------------------------------------
(* arp.c.                                                                    *)
NoEntry == [valid |-> FALSE, age |-> 0, ipaddr |-> "0", mac |-> "0"]
ArpFind(b, ip) == {e \in 1 .. NARP : b.arp_table[e].valid /\ b.arp_table[e].ipaddr = ip}
AgeCap == NARP - 1                      \* bound: older entries count as this old

(* arp_lookup(): the router's own variable, else the table, whose other entries
   that come before grow older.                                              *)
ArpKnown(b, ip) == (ip = "router" /\ b.router_mac_addr # "0") \/ ArpFind(b, ip) # {}
ArpMac(b, ip) == IF ip = "router" /\ b.router_mac_addr # "0" THEN b.router_mac_addr
                 ELSE b.arp_table[CHOOSE e \in ArpFind(b, ip) : \A f \in ArpFind(b, ip) : e <= f].mac
ArpOlder(t, last) ==
    [e \in 1 .. NARP |-> IF e < last /\ t[e].valid /\ t[e].age < AgeCap
                         THEN [t[e] EXCEPT !.age = t[e].age + 1]
                         ELSE IF e = last THEN [t[e] EXCEPT !.age = 0] ELSE t[e]]
ArpAged(b, ip) ==
    IF ip = "router" /\ b.router_mac_addr # "0" THEN b
    ELSE LET hit == ArpFind(b, ip)
             last == IF hit = {} THEN NARP + 1 ELSE CHOOSE e \in hit : \A f \in hit : e <= f
         IN  [b EXCEPT !.arp_table = ArpOlder(b.arp_table, last)]

get_next_arp_index(b) ==
    LET unused == {e \in 1 .. NARP : ~b.arp_table[e].valid}
        eldest == {e \in 1 .. NARP : \A f \in 1 .. NARP : b.arp_table[f].age <= b.arp_table[e].age}
        s == IF unused # {} THEN unused ELSE eldest
    IN  CHOOSE e \in s : \A f \in s : e <= f

(* arp_table_add() of an address that the table does not have.  The pointer ev is
   taken from eid before eid has a value: it may point at the entry meant, at
   another, or (0) at no entry at all.                                       *)
ArpFill(b, ip, mac, ev) ==
    LET eid == get_next_arp_index(b)
        filled == [b.arp_table EXCEPT ![eid].age = 0, ![eid].ipaddr = ip, ![eid].mac = mac]
        at == CASE ev = "meant" -> {eid} [] ev = "other" -> 1 .. NARP \ {eid} [] OTHER -> {}
    IN  {[b EXCEPT !.arp_table = IF at = {} THEN filled ELSE [filled EXCEPT ![k].valid = TRUE]] :
            k \in IF at = {} THEN {1} ELSE at}
ArpUpdate(b, ip, mac) ==
    [b EXCEPT !.arp_table = [e \in 1 .. NARP |->
        IF e \in ArpFind(b, ip) THEN [@[e] EXCEPT !.age = 0, !.mac = mac] ELSE @[e]]]

-----------------------------------------------------------------------------
(* The user task.  A system call stops it, with the packet to send, until the
   supervisor has taken it.                                                  *)
Runs(at) == np.sup = "user" /\ np.trap = NoPkt /\ np.user = at
Syscall(b, pkt, at) == [b EXCEPT !.trap = pkt, !.user = at]
arp_request(ip) == NPkt("arpreq", "all", ip, 0)

(* What is pinged, and then the router: of what the first lookup changes, the
   second reads only the table.                                              *)
lookup_router(b) == IF ArpKnown(b, "router") THEN [ArpAged(b, "router") EXCEPT !.user = "wait"]
                    ELSE Syscall(ArpAged(b, "router"), arp_request("router"), "wait")
user_lookup ==
    /\ Runs("lookup")
    /\ np' = IF ArpKnown(np, PINGIP)
             THEN lookup_router([ArpAged(np, PINGIP) EXCEPT !.ping_mac_addr = ArpMac(np, PINGIP)])
             ELSE Syscall(ArpAged(np, PINGIP), arp_request(PINGIP), "wait")
    /\ UNCHANGED nw
(* No packet until the clock has moved on.                                   *)
user_wait ==
    /\ Runs("wait") /\ np.rx = NoPkt
    /\ np' = [np EXCEPT !.user = "lookup"]
    /\ UNCHANGED nw

uping_replyBug(b, p) == IF ArpKnown(b, p.ip)      \* sent back to where the ping goes
                        THEN Syscall(ArpAged(b, p.ip), NPkt("reply", b.ping_mac_addr, p.ip, p.id), "lookup")
                        ELSE Syscall(ArpAged(b, p.ip), arp_request(p.ip), "lookup")
uping_reply(b, p) == IF ArpKnown(b, p.ip)
                     THEN Syscall(ArpAged(b, p.ip), NPkt("reply", ArpMac(b, p.ip), p.ip, p.id), "lookup")
                     ELSE Syscall(ArpAged(b, p.ip), arp_request(p.ip), "lookup")

(* arp_table_add(): its lookup of an address that is not there asks for it.  *)
arp_table_add(b, ip, mac) ==
    IF ip = "router" THEN {[b EXCEPT !.router_mac_addr = mac, !.user = "lookup"]}
    ELSE IF ArpFind(b, ip) # {} THEN {[ArpUpdate(ArpAged(b, ip), ip, mac) EXCEPT !.user = "lookup"]}
    ELSE {Syscall(c, arp_request(ip), "lookup") :
             c \in UNION {ArpFill(ArpAged(b, ip), ip, mac, ev) : ev \in ARPEV}}

(* A packet: it is copied, the interface is cleared for the next, and what it is
   decides.  The steps between touch nothing that another reads.             *)
user_handle ==
    /\ Runs("wait") /\ np.rx # NoPkt
    /\ LET p == np.rx
           b == [np EXCEPT !.rx = NoPkt]
       IN  CASE p.kind = "echo"   -> np' = uping_reply(b, p)
             [] p.kind = "arpreq" -> np' = Syscall(b, NPkt("arprep", p.mac, p.ip, 0), "lookup")
             [] p.kind = "arprep" ->
                  np' \in arp_table_add([b EXCEPT !.ping_mac_addr = IF p.ip = PINGIP THEN p.mac ELSE @],
                                        p.ip, p.mac)
             [] OTHER -> np' = [b EXCEPT !.user = "lookup"]
    /\ UNCHANGED nw
UserTask == user_lookup \/ user_wait \/ user_handle

-----------------------------------------------------------------------------
(* The supervisor: ping, then serve the user until it is time for the next.  An
   interrupt that comes while it runs only adds to int_state, so that a stretch
   from one reading of the controller to the next is one step.               *)
Transmit(b, pkt) == [b EXCEPT !.tx = pkt]
SetPic(b) == EINT([b EXCEPT !.sup = "loop", !.int_enable = {}, !.mie = FALSE], {"TMA", "PPS", "RX"})
send_ping ==
    /\ np.sup = "top" /\ np.ping_mac_addr # "0" /\ np.tx = NoPkt
    /\ np' = SetPic(Transmit(np, NPkt("echo", np.ping_mac_addr, PINGIP, 0)))
    /\ UNCHANGED nw
(* No address for it yet, or (an input: it may be so at any time) no link.      *)
no_ping ==
    /\ np.sup = "top"
    /\ \E link \in BOOLEAN : np.ping_mac_addr = "0" \/ ~link
    /\ np' = SetPic(np)
    /\ UNCHANGED nw

(* The end of the loop: what was seen as picv is taken off, or armed.          *)
SeenOrArmed(b, picv, i) == IF i \in picv.st
                           THEN IF i \in picv.en THEN DINT(b, {i}) ELSE b
                           ELSE EINT(b, {i})
Rearm(b, picv) == EINT(SeenOrArmed(SeenOrArmed(b, picv, "RX"), picv, "TX"), {"TMA", "PPS"})
Counts(b, picv) == "TMA" \in picv.st /\ b.lastpps = 1
DueBug(b, picv) == Counts(b, picv)      \* only a timer after a PPS ends the loop
Due(b, picv) == Counts(b, picv) \/ "PPS" \in picv.st
tail(b, picv) ==
    [Rearm(b, picv) EXCEPT
        !.picv = NothingSeen,
        !.sup = IF Due(b, picv) THEN "top" ELSE "loop",
        !.lastpps = CASE "PPS" \in picv.st -> 1
                      [] "PPS" \notin picv.st /\ Counts(b, picv) -> 2
                      [] "PPS" \notin picv.st /\ "TMA" \in picv.st /\ ~Counts(b, picv) -> 0
                      [] OTHER -> @]

(* Back from the user, or not gone there: what was seen is cleared; a call of the
   user comes first, then the reasons to give up.                            *)
FromUser(b) ==
    LET picv == [st |-> b.int_state, en |-> b.int_enable]
        c == ClearInts(b, b.int_state)
    IN  CASE b.trap # NoPkt -> [c EXCEPT !.sup = "serve", !.picv = picv]
          [] b.trap = NoPkt /\ (~INTNOW(b) \/ ~({"TMA", "PPS"} \subseteq picv.en)) ->
                 [c EXCEPT !.sup = "halted"]
          [] OTHER -> tail(c, picv)
loop ==
    /\ np.sup = "loop"
    /\ np' = IF INTNOW(np) THEN FromUser(np) ELSE [np EXCEPT !.sup = "user"]
    /\ UNCHANGED nw
from_user ==
    /\ np.sup = "user" /\ (np.trap # NoPkt \/ (np.mie /\ INTNOW(np)))
    /\ np' = FromUser(np)
    /\ UNCHANGED nw
serve ==
    /\ np.sup = "serve" /\ np.tx = NoPkt
    /\ np' = tail(EINT([Transmit(np, np.trap) EXCEPT !.trap = NoPkt], {"TX", "RX"}), np.picv)
    /\ UNCHANGED nw
Supervisor == send_ping \/ no_ping \/ loop \/ from_user \/ serve

-----------------------------------------------------------------------------
(* The packet interface and the network.  A packet that was sent reaches the peer
   that it is addressed to, or is lost; the peer's answer waits on the wire; a
   packet that finds the receiver full is lost.  Echo requests that no reply was
   sent to are nw.open, for an observer.                                     *)
Answer(p) == IF p.kind = "arpreq" THEN NPkt("arprep", p.ip, p.ip, 0)
             ELSE IF p.kind = "echo" THEN NPkt("reply", p.ip, p.ip, 0) ELSE NoPkt
TxDone ==
    /\ np.tx # NoPkt
    /\ np' = Latch([np EXCEPT !.tx = NoPkt])
    /\ \E lost \in BOOLEAN :
          nw' = [nw EXCEPT !.wire = IF Answer(np.tx) # NoPkt /\ @ = NoPkt /\ ~lost THEN Answer(np.tx) ELSE @,
                           !.open = @ \ {<<np.tx.ip, np.tx.id>>}]
RxArrives ==
    /\ nw.wire # NoPkt
    /\ np' = IF np.rx = NoPkt THEN Latch([np EXCEPT !.rx = nw.wire]) ELSE np
    /\ nw' = [nw EXCEPT !.wire = NoPkt]
PeerAsks ==                             \* an echo request, or for the board's address
    /\ nw.wire = NoPkt /\ nw.asked < NREQUESTS
    /\ \/ \E p \in Peers : nw' = [nw EXCEPT !.asked = @ + 1, !.open = @ \cup {<<p, nw.asked + 1>>},
                                         !.wire = NPkt("echo", p, p, nw.asked + 1)]
       \/ nw' = [nw EXCEPT !.asked = @ + 1,
                           !.wire = NPkt("arpreq", "router", "router", 0)]
    /\ UNCHANGED np
SecondPasses(i) ==
    /\ i \notin np.int_state
    /\ np' = [np EXCEPT !.int_state = @ \cup {i}]
    /\ UNCHANGED nw

PingInit ==
    /\ \E garbage \in {0, 1} :            \* lastpps has no value at first
       np = [sup |-> "top", user |-> "lookup", trap |-> NoPkt,
             rx |-> NoPkt, tx |-> NoPkt, int_state |-> {"TX"}, int_enable |-> {}, mie |-> FALSE,
             picv |-> NothingSeen, lastpps |-> garbage,
             arp_table |-> [e \in 1 .. NARP |-> NoEntry],
             router_mac_addr |-> "0", ping_mac_addr |-> "0"]
    /\ nw = [wire |-> NoPkt, asked |-> 0, open |-> {}]
PingNext == \/ UserTask \/ Supervisor \/ TxDone \/ RxArrives \/ PeerAsks
            \/ SecondPasses("PPS") \/ SecondPasses("TMA")
PingSpec == PingInit /\ [][PingNext]_np_vars

-----------------------------------------------------------------------------
(* The supervisor never takes one of the ways out that end in zip_halt(): each
   time it comes back from the user there is an interrupt or a call to serve, and
   the two timers' interrupts are on.                                        *)
SupervisorNeverHalts == np.sup # "halted"

(* Each echo reply goes to the MAC of the peer that sent the request, and no
   request is answered twice, whatever the ARP table did meanwhile.          *)
RepliesRight ==
    np.tx.kind = "reply" => np.tx.mac = np.tx.ip /\ <<np.tx.ip, np.tx.id>> \in nw.open

(* "Pinging another system, at 1PPS": while the seconds pass, the supervisor comes
   back to its ping again and again, however busy the user keeps it; and what the
   user wants to send gets sent.                                             *)
PingsKeepComing == []<>(np.sup = "top") /\ ((np.trap # NoPkt) ~> (np.trap = NoPkt))

(* simple_ping answers a request to the one who asked, and its supervisor never
   takes a way out that ends in zip_halt().                                  *)
PingRight == RepliesRight /\ SupervisorNeverHalts
=============================================================================
