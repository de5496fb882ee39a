------------------------------- MODULE NetUart -------------------------------
(* netuart: a command client and a console client share the board's serial line.
   What goes to and comes from the command channel has the top bit set.  The
   proxy is one loop around poll(): what poll() said is used after the clients
   have gone on.                                                             *)
EXTENDS Integers, Sequences, FiniteSets
CONSTANTS NTexts,   \* what the clients may want to send: channel -> characters
          NBoard,   \* what the board sends, commands marked
          NTop,     \* the top bit
          NSockLen, \* bound: characters that a socket or the line takes
          NBufLen,  \* sizeof(m_buf), sizeof(rawbuf)
          NMaxCuts  \* bound: clients that hang up

NChans == {"cmd", "con"}

(* Clients send characters of seven bits, and the top bit is the eighth.      *)
ASSUME NetUartAssumption ==
    /\ NTop \in Nat \ {0} /\ NSockLen \in Nat \ {0} /\ NBufLen \in Nat \ {0}
    /\ NTexts \subseteq [NChans -> Seq(0 .. NTop - 1)]
    /\ NBoard \in Seq(0 .. 2 * NTop - 1)

VARIABLES nu,       \* the proxy
          nt        \* the sockets, the serial line, the clients and the board

nu_vars == <<nu, nt>>

Nothing == [c \in NChans |-> <<>>]
NMin(a, b) == IF a < b THEN a ELSE b
Take(s, n) == SubSeq(s, 1, NMin(n, Len(s)))
Drop(s, n) == SubSeq(s, NMin(n, Len(s)) + 1, Len(s))

-----------------------------------------------------------------------------
(* The top bit: which channel a character of the line belongs to, what it is.  The
   k-th of a channel's characters stands where k of them are, itself included. *)
InChan(x, c) == (x >= NTop) = (c = "cmd")
Places(s, c) == {i \in 1 .. Len(s) : InChan(s[i], c)}
PlaceOf(P, k) == CHOOSE i \in P : Cardinality({j \in P : j <= i}) = k
OfChan(s, c) == [k \in 1 .. Cardinality(Places(s, c)) |-> s[PlaceOf(Places(s, c), k)]]
Unmark(s) == [i \in 1 .. Len(s) |-> s[i] % NTop]
Mark(s, c) == IF c = "cmd" THEN [i \in 1 .. Len(s) |-> IF s[i] < NTop THEN s[i] + NTop ELSE s[i]] ELSE s

SortedBug(raw, c) == Unmark(IF c = "con" THEN raw ELSE OfChan(raw, c))   \* the console sees all
Sorted(raw, c) == Unmark(OfChan(raw, c))

(* poll(): for a channel without a client the listening socket, else its own.  *)
Ready(c) == IF nu.fd[c] THEN nt.in[c] # <<>> \/ nt.gone[c] ELSE nt.calling[c]
PollTty ==
    /\ nu.at = "poll" /\ (nt.rx # <<>> \/ \E c \in NChans : Ready(c))
    /\ nu' = [nu EXCEPT !.at = IF nt.rx # <<>> THEN "tty" ELSE "cmd",
                        !.ev = [c \in NChans |-> IF ~Ready(c) THEN "none"
                                                ELSE IF nu.fd[c] THEN "client" ELSE "listener"]]
    /\ UNCHANGED nt

(* The line first, until nothing more is there: the characters are sorted, and
   those without a client are dropped.                                       *)
ReadTty ==
    /\ nu.at = "tty"
    /\ LET raw == Take(nt.rx, NBufLen)
       IN  nu' = IF raw = <<>> THEN [nu EXCEPT !.at = "cmd"]
                 ELSE [nu EXCEPT !.at = "wcmd",
                                 !.buf = [c \in NChans |-> IF nu.fd[c] THEN Sorted(raw, c) ELSE <<>>]]
    /\ nt' = [nt EXCEPT !.rx = Drop(@, NBufLen)]

(* LINBUFS::write() to a client blocks while its socket is full; a client that is
   gone is noticed, or not yet.                                              *)
After(at) == CASE at = "wcmd" -> "wcon" [] at = "wcon" -> "tty" [] at = "cmd" -> "con" [] OTHER -> "poll"
WriteClient(c) ==
    /\ nu.at = (IF c = "cmd" THEN "wcmd" ELSE "wcon")
    /\ LET room == NSockLen - Len(nt.out[c])
           rest == Drop(nu.buf[c], room)
       IN  \/ /\ nu.buf[c] = <<>>
              /\ nu' = [nu EXCEPT !.at = After(nu.at)] /\ UNCHANGED nt
           \/ /\ nu.buf[c] # <<>> /\ ~nt.gone[c] /\ room > 0
              /\ nu' = [nu EXCEPT !.buf[c] = rest, !.at = IF rest = <<>> THEN After(@) ELSE @]
              /\ nt' = [nt EXCEPT !.out[c] = @ \o Take(nu.buf[c], room)]
           \/ /\ nu.buf[c] # <<>> /\ nt.gone[c]            \* an error: close()
              /\ nu' = [nu EXCEPT !.buf[c] = <<>>, !.fd[c] = FALSE, !.at = After(@)]
              /\ nt' = [nt EXCEPT !.gone[c] = FALSE, !.in[c] = <<>>]
           \/ /\ nu.buf[c] # <<>> /\ nt.gone[c]            \* taken, and lost
              /\ nu' = [nu EXCEPT !.buf[c] = <<>>, !.at = After(@)] /\ UNCHANGED nt

(* Then the clients, by what poll() has seen of them.                        *)
Seen(c) == [nu EXCEPT !.ev[c] = "none"]
Serve(c) ==
    /\ nu.at = c
    /\ \/ /\ nu.ev[c] = "none" \/ (nu.ev[c] = "client" /\ ~nu.fd[c])     \* nothing, or read() of no file
          /\ nu' = [Seen(c) EXCEPT !.at = After(@)] /\ UNCHANGED nt
       \/ /\ nu.ev[c] = "listener"                         \* accept()
          /\ nu' = [Seen(c) EXCEPT !.fd[c] = TRUE, !.at = After(@)]
          /\ nt' = [nt EXCEPT !.calling[c] = FALSE, !.out[c] = <<>>]
       \/ /\ nu.ev[c] = "client" /\ nu.fd[c] /\ nt.in[c] = <<>>     \* the end
          /\ nu' = [Seen(c) EXCEPT !.fd[c] = FALSE, !.at = After(@)]
          /\ nt' = [nt EXCEPT !.gone[c] = FALSE]
       \/ /\ nu.ev[c] = "client" /\ nu.fd[c] /\ nt.in[c] # <<>>
          /\ nu' = [Seen(c) EXCEPT !.at = IF c = "cmd" THEN "tcmd" ELSE "tcon",
                              !.tbuf = Mark(Take(nt.in[c], NBufLen), c)]
          /\ nt' = [nt EXCEPT !.in[c] = Drop(@, NBufLen)]

(* LINBUFS::write() to the line: what it does not take now (EAGAIN, or only some
   of it) is tried again.  Then print_out(), with its assertion.             *)
RestBug(s, room) == <<>>                \* a short write is the end of it
Rest(s, room) == Drop(s, room)
WriteTty(c) ==
    /\ nu.at = (IF c = "cmd" THEN "tcmd" ELSE "tcon")
    /\ LET room == NSockLen - Len(nt.tx)
           rest == Rest(nu.tbuf, room)
       IN  /\ room > 0
           /\ nu' = [nu EXCEPT !.tbuf = rest, !.nul = @ \/ (\E i \in 1 .. NMin(room, Len(nu.tbuf)) : nu.tbuf[i] = 0),
                               !.at = IF rest # <<>> THEN @
                                      ELSE IF nu.nul \/ \E i \in 1 .. Len(nu.tbuf) : nu.tbuf[i] = 0 THEN "assert"
                                      ELSE After(c)]
           /\ nt' = [nt EXCEPT !.tx = @ \o Take(nu.tbuf, room)]

ProxyStep == \/ PollTty \/ ReadTty
             \/ \E c \in NChans : WriteClient(c) \/ Serve(c) \/ WriteTty(c)

-----------------------------------------------------------------------------
(* The clients and the board.                                                *)
Connected(c) == nu.fd[c] /\ ~nt.gone[c]
NCalls(c) == /\ ~Connected(c) /\ ~nt.calling[c] /\ nt.left[c] # <<>>
             /\ nt' = [nt EXCEPT !.calling[c] = TRUE]
             /\ UNCHANGED nu
NWrites(c) == /\ Connected(c) /\ nt.left[c] # <<>> /\ Len(nt.in[c]) < NSockLen
              /\ nt' = [nt EXCEPT !.in[c] = Append(@, Head(nt.left[c])), !.left[c] = Tail(@)]
              /\ UNCHANGED nu
NReads(c) == /\ Connected(c) /\ nt.out[c] # <<>>
             /\ nt' = [nt EXCEPT !.out[c] = Tail(@)]
             /\ UNCHANGED nu
NHangsUp(c) == /\ Connected(c) /\ nt.cuts < NMaxCuts
               /\ nt' = [nt EXCEPT !.gone[c] = TRUE, !.cuts = @ + 1]
               /\ UNCHANGED nu
NBoardSends == /\ nt.bleft # <<>> /\ Len(nt.rx) < NSockLen
               /\ nt' = [nt EXCEPT !.rx = Append(@, Head(nt.bleft)), !.bleft = Tail(@)]
               /\ UNCHANGED nu
NBoardTakes == /\ nt.tx # <<>>
               /\ nt' = [nt EXCEPT !.tx = Tail(@), !.bgot = Append(@, Head(nt.tx))]
               /\ UNCHANGED nu

NetUartInit ==
    /\ nu = [at |-> "poll", ev |-> [c \in NChans |-> "none"], fd |-> [c \in NChans |-> FALSE],
             buf |-> Nothing, tbuf |-> <<>>, nul |-> FALSE]
    /\ \E t \in NTexts : nt = [in |-> Nothing, out |-> Nothing, calling |-> [c \in NChans |-> FALSE],
                              gone |-> [c \in NChans |-> FALSE], left |-> t, text |-> t, cuts |-> 0,
                              rx |-> <<>>, tx |-> <<>>, bleft |-> NBoard, bgot |-> <<>>]
NetUartNext == \/ ProxyStep
               \/ \E c \in NChans : NCalls(c) \/ NWrites(c) \/ NReads(c) \/ NHangsUp(c)
               \/ NBoardSends \/ NBoardTakes
NetUartSpec == NetUartInit /\ [][NetUartNext]_nu_vars

-----------------------------------------------------------------------------
(* The two channels, as they are spread over sockets, buffers and the line.  What
   a client that hung up has not read does not belong to its channel any more.  *)
Writing(c) == IF nu.at = (IF c = "cmd" THEN "tcmd" ELSE "tcon") THEN Unmark(nu.tbuf) ELSE <<>>
Up == [c \in NChans |-> Unmark(OfChan(nt.tx, c)) \o Writing(c) \o nt.in[c]]
Down == [c \in NChans |-> (IF Connected(c) THEN nt.out[c] ELSE <<>>) \o nu.buf[c] \o Unmark(OfChan(nt.rx, c))]
Abstract == INSTANCE Channels WITH Chan <- NChans, Char <- 0 .. NTop - 1,
                                   up <- Up, down <- Down, open <- [c \in NChans |-> Connected(c)]

(* netuart implements the two channels: whatever the clients and the board do, no
   character of a connected client is lost, doubled, changed, overtaken, or given
   to the other channel (main(): the sorting, the partial writes and the use of
   what poll() has said).                                                    *)
ChannelsKept == Abstract!Spec

(* What clients that stay have to say reaches the board, unless a NUL on the
   console has tripped the assertion of print_out().                         *)
EachClientHeard == <>[](\/ nu.at = "assert" \/ nt.cuts > 0
                        \/ \A c \in NChans : Unmark(OfChan(nt.bgot, c)) = nt.text[c])
=============================================================================
