----------------------------- MODULE LinkProofs -----------------------------
(* The debug link keeps its promises for every size of its tables, for every
   memory and for any number of words under way.  What is under way is told by
   running it: the words that are going down lead the board from where it is to
   where the host believes it will be, and the words that are coming up lead the
   host from what it has heard to what the board has said.                    *)
EXTENDS MCLink, WellFoundedInduction, SequenceTheorems, TLAPS

-----------------------------------------------------------------------------
(* Running a sequence of words: from a state of S, each word takes one to
   another as the relation R allows.                                          *)
Chain(R, S, x, s, y) ==
    \E D \in [1 .. Len(s) + 1 -> S] :
        /\ D[1] = x /\ D[Len(s) + 1] = y
        /\ \A i \in 1 .. Len(s) : <<D[i], s[i], D[i + 1]>> \in R

(* What the board will have done: its address, the words of the running read
   that it has taken on, the words written in full, the memory, is its address
   new, and has the running read's address been confirmed.                    *)
Line == [a : Address, p : Nat, h : Seq(Values), m : [Address -> Values], f : Bits, t : Bits]

(* What the host will have heard: words of the running read, has its address
   been confirmed, the words sent in full, and did it fail.                   *)
Heard == [g : Nat, t : Bits, q : Seq(Values), f : Bits]

Kinds == {"abs", "rel", "write", "wref", "eow", "read", "raw", "ref", "addr", "ack", "err", "nl"}
Words == [t : Kinds, v : Nat \cup Values, i : Nat]

(* k increments of i.                                                         *)
Times(k, i) == IF i = 1 THEN k ELSE 0

Stored(m, a, v) == IF a \in ErrAddrs THEN m ELSE [m EXCEPT ![a] = v]

-----------------------------------------------------------------------------
(* The three kinds of setting in which the link's promises hold: every address
   a call names answers; nothing is ever read; or nothing is written.  Of a
   program that only reads, and may meet an address that does not answer, one
   read command is under way at a time, and it ends with an error.            *)
OneCommand == READAHEAD = 0 \/ \A n \in Lens : n <= READBLOCK
Settings == {"safe", "writes", "readers"}
Failing(md) == md = "readers" /\ ErrAddrs # {}
Setting(md) == md \in Settings /\ (Failing(md) => Retries = FALSE /\ OneCommand)
Allowed(md) ==
    /\ md = "safe" /\ pc \in {"reading", "writing"} =>
          \A j \in 0 .. call.n - 1 : call.a + Times(j, call.inc) \notin ErrAddrs
    /\ md = "writes" => pc # "reading"
    /\ md = "readers" => pc # "writing"

AddressObeyed(x, w, y) ==
    /\ w.t \in {"abs", "rel"} /\ x.p = 0
    /\ w.t = "abs" => w.v = y.a
    /\ w.t = "rel" => w.v \in Nat /\ w.i \in 1 .. 5 /\ y.a = x.a + SignExtend(w.v, w.i)
    /\ y.p = 0 /\ y.h = x.h /\ y.m = x.m /\ y.f = 1 /\ y.t = x.t

WriteObeyed(md, x, w, y) ==
    /\ w.t \in {"write", "wref"} /\ x.p = 0 /\ md # "readers"
    /\ w.i \in Bits /\ y.a = x.a + w.i
    /\ md = "safe" => x.a \notin ErrAddrs
    /\ IF w.t = "write"
       THEN /\ w.v \in Values /\ y.h = Append(x.h, w.v)
            /\ y.m = Stored(x.m, x.a, w.v)
       ELSE /\ w.v \in 1 .. WRTBL - 1 /\ w.v <= Len(x.h) /\ y.h = x.h
            /\ y.m = Stored(x.m, x.a, x.h[Len(x.h) - w.v + 1])
    /\ y.p = 0 /\ y.f = 0 /\ y.t = x.t

EndObeyed(x, w, y) == w.t = "eow" /\ x.p = 0 /\ y = x

ReadObeyed(md, a, inc, lim, x, w, y) ==
    /\ w.t = "read" /\ w.v \in Nat \ {0} /\ w.i = inc /\ md # "writes"
    /\ x.f = 1 \/ x.t = 1
    /\ x.a = a + Times(x.p, inc)
    /\ y.p = x.p + w.v /\ y.p <= lim
    /\ Failing(md) => y.p = lim
    /\ md = "readers" => (x.f = 1 => x.t = 0)
    /\ y.a = a + Times(y.p, inc)
    /\ y.h = x.h /\ y.m = x.m /\ y.f = 0 /\ y.t = 1

Obeys(md, a, inc, lim, x, w, y) ==
    \/ AddressObeyed(x, w, y)
    \/ WriteObeyed(md, x, w, y)
    \/ EndObeyed(x, w, y)
    \/ ReadObeyed(md, a, inc, lim, x, w, y)

Obeying(md, a, inc, lim) ==
    {e \in Line \X Words \X Line : Obeys(md, a, inc, lim, e[1], e[2], e[3])}

(* What the host hears.  Of a setting that only reads, mm is the memory.      *)
NothingHeard(md, x, w, y) ==
    (w.t = "nl" \/ (w.t = "ack" /\ md # "readers")) /\ y = x

AddressHeard(md, a, lim, x, w, y) ==
    /\ w.t = "addr" /\ w.v = a /\ x.f = 0 /\ x.g = 0 /\ lim > 0
    /\ md = "readers" => x.t = 0
    /\ y.g = 0 /\ y.t = 1 /\ y.q = <<>> /\ y.f = 0

WordHeard(md, mm, a, inc, lim, x, w, y) ==
    /\ w.t \in {"raw", "ref"} /\ w.i = inc /\ x.f = 0 /\ x.t = 1 /\ x.g < lim
    /\ IF w.t = "raw"
       THEN /\ w.v \in Values /\ y.q = Append(x.q, w.v)
            /\ md = "readers" => w.v = mm[Plus(a, Times(x.g, inc))]
       ELSE /\ w.v \in 1 .. MAXD /\ y.q = x.q
            /\ md = "readers" => /\ w.v <= Len(x.q)
                                 /\ x.q[Len(x.q) - w.v + 1] = mm[Plus(a, Times(x.g, inc))]
    /\ y.g = x.g + 1 /\ y.t = 1 /\ y.f = 0

ErrorHeard(md, lim, x, w, y) ==
    /\ w.t = "err" /\ Failing(md) /\ x.f = 0 /\ x.g < lim
    /\ y.g = x.g /\ y.t = x.t /\ y.q = x.q /\ y.f = 1

Hears(md, mm, a, inc, lim, x, w, y) ==
    \/ NothingHeard(md, x, w, y)
    \/ AddressHeard(md, a, lim, x, w, y)
    \/ WordHeard(md, mm, a, inc, lim, x, w, y)
    \/ ErrorHeard(md, lim, x, w, y)

Hearing(md, mm, a, inc, lim) ==
    {e \in Heard \X Words \X Heard : Hears(md, mm, a, inc, lim, e[1], e[2], e[3])}

-----------------------------------------------------------------------------
(* A table of N words, written round and round: d words back from its pointer
   is the d-th last word of h, for the last r words of h at most.             *)
Ring(tbl, at, h, r, N, D) ==
    /\ at \in 0 .. N - 1 /\ r \in 0 .. Len(h)
    /\ \A d \in 1 .. D : d <= r => tbl[(at - d) % N] = h[Len(h) - d + 1]

(* What the pointer and its flag say of how many words are in the table.      *)
Reach(at, full, r, N) == at <= r /\ (full = TRUE => r >= N - 1)

TypeOK ==
    /\ m_addr_set \in BOOLEAN /\ m_wrloaded \in BOOLEAN /\ tbl_filled \in BOOLEAN
    /\ m_lastaddr \in Int
    /\ m_rdaddr \in 0 .. RDTBL - 1 /\ m_readtbl \in [0 .. RDTBL - 1 -> Values \cup {Junk}]
    /\ m_wraddr \in 0 .. WRTBL - 1 /\ m_writetbl \in [0 .. WRTBL - 1 -> Values \cup {Junk}]
    /\ pc \in {"idle", "reading", "returned", "writing", "drain1", "look1", "drain2", "look2", "ended"}
    /\ call \in [a : Address, inc : Bits, n : Nat, cmdrd : Nat]
    /\ got \in Seq(Values \cup {Junk})
    /\ down \in Seq(Words) /\ up \in Seq(Words)
    /\ o_wb_addr \in Address /\ r_new_addr \in Bits /\ r_inc \in Bits /\ rdleft \in Nat
    /\ wr_addr \in 0 .. WRTBL - 1 /\ wr_tbl \in [0 .. WRTBL - 1 -> Values \cup {Junk}]
    /\ tbl_addr \in 0 .. RDTBL - 1 /\ rd_tbl \in [0 .. RDTBL - 1 -> Values \cup {Junk}]
    /\ mem \in [Address -> Values] /\ meant \in [Address -> Values]

(* The read that is running, if one is, and the memory that only readers see. *)
FromOf == IF pc = "reading" THEN call.a ELSE 0
IncOf  == IF pc = "reading" THEN call.inc ELSE 0
LimOf  == IF pc = "reading" THEN call.cmdrd ELSE 0
Shown(md) == IF md = "readers" THEN mem ELSE <<>>

PcOf(md) ==
    /\ md = "writes" => pc \notin {"reading", "returned"}
    /\ md = "readers" => pc \in {"idle", "reading", "returned", "ended"}

(* The board is at x.                                                         *)
BoardAt(x) ==
    /\ x.m = mem /\ x.f = r_new_addr
    /\ x.a = o_wb_addr + Times(rdleft, r_inc)
    /\ Ring(wr_tbl, wr_addr, x.h, Len(x.h), WRTBL, WRTBL - 1)

(* The host takes the board to come to y: when it knows of an address, it is
   that one, and its own table of written words is the board's.               *)
HostAt(y) ==
    /\ y.m = meant
    /\ m_addr_set = TRUE /\ pc \notin {"reading", "ended"} => y.a = m_lastaddr
    /\ \E r \in Nat : /\ Ring(m_writetbl, m_wraddr, y.h, r, WRTBL, WRTBL - 1)
                      /\ Reach(m_wraddr, m_wrloaded, r, WRTBL)

Writing(md) ==
    pc = "writing" =>
        /\ m_addr_set = TRUE /\ call.n >= 1
        /\ m_lastaddr + Times(call.n, call.inc) < NADDR
        /\ md = "safe" => \A j \in 0 .. call.n - 1 : m_lastaddr + Times(j, call.inc) \notin ErrAddrs

GotRight == \A i \in 1 .. Len(got) : got[i] = mem[Plus(call.a, Times(i - 1, call.inc))]

(* The words read, and the host's table of them, are what z says.             *)
HostReading(md, z) ==
    pc = "reading" =>
        /\ call.cmdrd >= 1 /\ call.cmdrd <= call.n
        /\ call.a + Times(call.n, call.inc) < NADDR
        /\ md = "safe" => \A j \in 0 .. call.n - 1 : call.a + Times(j, call.inc) \notin ErrAddrs
        /\ z.f = 0 /\ z.g = Len(got) /\ z.g <= call.cmdrd
        /\ z.t = 1 => m_addr_set = TRUE /\ m_lastaddr = call.a + Times(z.g, call.inc)
        /\ z.t = 0 => z.g = 0 /\ m_rdaddr = 0
        /\ Failing(md) => call.cmdrd = call.n \/ READAHEAD = 0
        /\ md = "readers" =>
              /\ GotRight
              /\ z.t = 1 => Ring(m_readtbl, m_rdaddr, z.q, Len(z.q), RDTBL, MAXD)

(* The board's place in the read, and its table, are what x and u say; its
   commands end where the host takes them to end.                             *)
BoardTable(u) ==
    /\ Ring(rd_tbl, tbl_addr, u.q, Len(u.q), RDTBL, MAXD)
    /\ Reach(tbl_addr, tbl_filled, Len(u.q), RDTBL)

BoardReading(md, x, y, u) ==
    pc = "reading" /\ u.f = 0 =>
        /\ y.p = call.cmdrd /\ y.a = call.a + Times(call.cmdrd, call.inc) /\ y.f = 0 /\ y.t = 1
        /\ x.t = u.t /\ x.p = u.g + rdleft /\ x.p <= call.cmdrd /\ (x.f = 1 => x.p = 0)
        /\ rdleft > 0 => /\ r_inc = call.inc /\ o_wb_addr = call.a + Times(u.g, call.inc)
                         /\ x.t = 1 /\ x.f = 0
        /\ Failing(md) => (rdleft > 0 => x.p = call.cmdrd)
        /\ md = "readers" => (u.t = 1 => BoardTable(u))

(* A read that failed has left nothing behind it.                             *)
Failed(md, u) ==
    pc = "reading" /\ u.f = 1 =>
        Failing(md) /\ down = <<>> /\ rdleft = 0 /\ u.g < call.cmdrd

(* Between reads the two tables of read words agree, if a program that only
   reads knows the board's address.                                           *)
Resting(md, u) ==
    pc # "reading" =>
        /\ rdleft = 0
        /\ md = "readers" =>
              /\ down = <<>>
              /\ m_addr_set = TRUE /\ pc # "ended" =>
                    /\ r_new_addr = 0
                    /\ Ring(m_readtbl, m_rdaddr, u.q, Len(u.q), RDTBL, MAXD)
                    /\ BoardTable(u)
              /\ pc = "returned" => Len(got) = call.n /\ GotRight

Under(md, x, y, z, u) ==
    /\ Chain(Obeying(md, FromOf, IncOf, LimOf), Line, x, down, y)
    /\ md # "writes" => Chain(Hearing(md, Shown(md), FromOf, IncOf, LimOf), Heard, z, up, u)

Linked(md, x, y, z, u) ==
    /\ Under(md, x, y, z, u)
    /\ BoardAt(x) /\ HostAt(y)
    /\ PcOf(md) /\ Writing(md) /\ HostReading(md, z) /\ BoardReading(md, x, y, u)
    /\ Failed(md, u) /\ Resting(md, u)

LinkInv(md) == TypeOK /\ \E x \in Line, y \in Line, z \in Heard, u \in Heard : Linked(md, x, y, z, u)

-----------------------------------------------------------------------------
(* Chains: of no words, of one, one after the other, from the second word on,
   and through a map of the states.                                           *)
LEMMA ChainEmpty ==
    ASSUME NEW R, NEW S, NEW x \in S, NEW y \in S
    PROVE  Chain(R, S, x, <<>>, y) <=> x = y
  <1>1. Len(<<>>) + 1 = 1 /\ 1 .. 1 = {1} /\ 1 .. 0 = {} /\ Len(<<>>) = 0
    OBVIOUS
  <1>2. ASSUME x = y PROVE Chain(R, S, x, <<>>, y)
    <2>1. PICK D : D = [i \in 1 .. 1 |-> x]
      OBVIOUS
    <2>2. D \in [1 .. 1 -> S] /\ D[1] = x /\ \A i \in 1 .. 0 : <<D[i], <<>>[i], D[i + 1]>> \in R
      BY <2>1
    <2> QED  BY <1>1, <1>2, <2>2, Zenon DEF Chain
  <1>3. ASSUME Chain(R, S, x, <<>>, y) PROVE x = y
    <2>1. PICK D : D[1] = x /\ D[Len(<<>>) + 1] = y
      BY <1>3, Zenon DEF Chain
    <2> QED  BY <2>1, <1>1, Zenon
  <1> QED  BY <1>2, <1>3

LEMMA ChainOne ==
    ASSUME NEW R, NEW S, NEW x \in S, NEW y \in S, NEW w, <<x, w, y>> \in R
    PROVE  Chain(R, S, x, <<w>>, y)
  <1>1. PICK D : D = [i \in 1 .. 2 |-> IF i = 1 THEN x ELSE y]
    OBVIOUS
  <1>2. D \in [1 .. 2 -> S] /\ D[1] = x /\ D[2] = y
    BY <1>1
  <1>3. Len(<<w>>) + 1 = 2 /\ Len(<<w>>) = 1 /\ <<w>>[1] = w /\ 1 + 1 = 2
    OBVIOUS
  <1>4. \A i \in 1 .. 1 : <<D[i], <<w>>[i], D[i + 1]>> \in R
    <2>1. <<D[1], <<w>>[1], D[1 + 1]>> \in R
      BY <1>2, <1>3, Zenon
    <2>2. \A i \in 1 .. 1 : i = 1
      OBVIOUS
    <2> QED  BY <2>1, <2>2, Zenon
  <1> QED  BY <1>2, <1>3, <1>4, Zenon DEF Chain

LEMMA ChainConcat ==
    ASSUME NEW R, NEW S, NEW W, NEW s \in Seq(W), NEW r \in Seq(W), NEW x, NEW y, NEW z,
           Chain(R, S, x, s, y), Chain(R, S, y, r, z)
    PROVE  Chain(R, S, x, s \o r, z)
  <1>1. PICK D \in [1 .. Len(s) + 1 -> S] :
          /\ D[1] = x /\ D[Len(s) + 1] = y
          /\ \A i \in 1 .. Len(s) : <<D[i], s[i], D[i + 1]>> \in R
    BY Zenon DEF Chain
  <1>2. PICK E \in [1 .. Len(r) + 1 -> S] :
          /\ E[1] = y /\ E[Len(r) + 1] = z
          /\ \A i \in 1 .. Len(r) : <<E[i], r[i], E[i + 1]>> \in R
    BY Zenon DEF Chain
  <1>3. PICK n \in Nat, k \in Nat : n = Len(s) /\ k = Len(r)
    OBVIOUS
  <1>4. /\ s \o r \in Seq(W) /\ Len(s \o r) = n + k
        /\ \A i \in 1 .. n : (s \o r)[i] = s[i]
        /\ \A i \in n + 1 .. n + k : (s \o r)[i] = r[i - n]
    BY <1>3
  <1>5. PICK q : q = s \o r
    OBVIOUS
  <1>6. PICK F : F = [i \in 1 .. n + k + 1 |-> IF i <= n THEN D[i] ELSE E[i - n]]
    OBVIOUS
  <1>7. /\ F \in [1 .. n + k + 1 -> S]
        /\ \A i \in 1 .. n + 1 : F[i] = D[i]
        /\ \A i \in n + 1 .. n + k + 1 : F[i] = E[i - n]
    <2>1. ASSUME NEW i \in 1 .. n + k + 1 PROVE F[i] \in S
      <3>1. CASE i <= n
        <4>1. i \in 1 .. Len(s) + 1
          BY <1>3, <3>1
        <4> QED  BY <1>6, <3>1, <4>1
      <3>2. CASE ~(i <= n)
        <4>1. i - n \in 1 .. Len(r) + 1
          BY <1>3, <3>2
        <4> QED  BY <1>6, <3>2, <4>1
      <3> QED  BY <3>1, <3>2
    <2>2. ASSUME NEW i \in n + 1 .. n + k + 1 PROVE F[i] = E[i - n]
      BY <1>6
    <2>3. ASSUME NEW i \in 1 .. n PROVE F[i] = D[i]
      BY <1>6
    <2>4. F[n + 1] = D[n + 1]
      <3>1. n + 1 \in n + 1 .. n + k + 1 /\ (n + 1) - n = 1
        OBVIOUS
      <3> QED  BY <1>1, <1>2, <1>3, <2>2, <3>1
    <2>5. \A i \in 1 .. n + 1 : i \in 1 .. n \/ i = n + 1
      OBVIOUS
    <2> QED  BY <1>6, <2>1, <2>2, <2>3, <2>4, <2>5
  <1>8. F[1] = x /\ F[n + k + 1] = z
    <2>1. 1 \in 1 .. n + 1 /\ n + k + 1 \in n + 1 .. n + k + 1 /\ (n + k + 1) - n = k + 1
      OBVIOUS
    <2> QED  BY <1>1, <1>2, <1>3, <1>7, <2>1
  <1>9. ASSUME NEW i \in 1 .. n + k PROVE <<F[i], q[i], F[i + 1]>> \in R
    <2>1. CASE i <= n
      <3>1. i \in 1 .. Len(s) /\ i \in 1 .. n + 1 /\ i + 1 \in 1 .. n + 1 /\ i \in 1 .. n
        BY <1>3, <2>1
      <3>2. F[i] = D[i] /\ F[i + 1] = D[i + 1] /\ q[i] = s[i]
        BY <1>4, <1>5, <1>7, <3>1
      <3> QED  BY <1>1, <3>1, <3>2
    <2>2. CASE i > n
      <3>1. /\ i - n \in 1 .. Len(r) /\ i \in n + 1 .. n + k + 1 /\ i + 1 \in n + 1 .. n + k + 1
            /\ i \in n + 1 .. n + k /\ (i + 1) - n = (i - n) + 1
        BY <1>3, <2>2
      <3>2. F[i] = E[i - n] /\ F[i + 1] = E[(i - n) + 1]
        BY <1>7, <3>1
      <3>3. q[i] = r[i - n]
        BY <1>4, <1>5, <3>1
      <3> QED  BY <1>2, <3>1, <3>2, <3>3
    <2> QED  BY <2>1, <2>2
  <1>10. Len(q) + 1 = n + k + 1 /\ Len(q) = n + k
    BY <1>4, <1>5
  <1>11. Chain(R, S, x, q, z)
    BY <1>7, <1>8, <1>9, <1>10, Zenon DEF Chain
  <1> QED  BY <1>5, <1>11

LEMMA ChainAppend ==
    ASSUME NEW R, NEW S, NEW W, NEW s \in Seq(W), NEW w \in W, NEW x, NEW y \in S, NEW z \in S,
           Chain(R, S, x, s, y), <<y, w, z>> \in R
    PROVE  Chain(R, S, x, Append(s, w), z)
  <1>1. Chain(R, S, y, <<w>>, z)
    BY ChainOne
  <1>2. <<w>> \in Seq(W) /\ Append(s, w) = s \o <<w>>
    OBVIOUS
  <1>3. Chain(R, S, x, s \o <<w>>, z)
    BY <1>1, <1>2, ChainConcat
  <1> QED  BY <1>2, <1>3

LEMMA ChainHead ==
    ASSUME NEW R, NEW S, NEW W, NEW s \in Seq(W), s # <<>>, NEW x, NEW z, Chain(R, S, x, s, z)
    PROVE  \E y \in S : <<x, Head(s), y>> \in R /\ Chain(R, S, y, Tail(s), z)
  <1>1. PICK D \in [1 .. Len(s) + 1 -> S] :
          /\ D[1] = x /\ D[Len(s) + 1] = z
          /\ \A i \in 1 .. Len(s) : <<D[i], s[i], D[i + 1]>> \in R
    BY Zenon DEF Chain
  <1>2. PICK n \in Nat : n = Len(s) - 1
    OBVIOUS
  <1>3. /\ Head(s) = s[1] /\ Len(Tail(s)) = n /\ Len(s) = n + 1
        /\ \A i \in 1 .. n : Tail(s)[i] = s[i + 1]
    BY <1>2
  <1>4. PICK t : t = Tail(s)
    OBVIOUS
  <1>5. PICK F : F = [i \in 1 .. n + 1 |-> D[i + 1]]
    OBVIOUS
  <1>6. F \in [1 .. n + 1 -> S] /\ F[1] = D[2] /\ F[n + 1] = z
    BY <1>1, <1>3, <1>5
  <1>7. ASSUME NEW i \in 1 .. n PROVE <<F[i], t[i], F[i + 1]>> \in R
    <2>1. i + 1 \in 1 .. Len(s) /\ i \in 1 .. n + 1 /\ i + 1 \in 1 .. n + 1
      BY <1>3
    <2>2. F[i] = D[i + 1] /\ F[i + 1] = D[(i + 1) + 1] /\ t[i] = s[i + 1]
      BY <1>3, <1>4, <1>5, <2>1
    <2> QED  BY <1>1, <2>1, <2>2
  <1>8. Len(t) = n /\ Len(t) + 1 = n + 1
    BY <1>3, <1>4
  <1>9. Chain(R, S, D[2], t, z)
    BY <1>6, <1>7, <1>8, Zenon DEF Chain
  <1>10. D[2] \in S /\ <<x, s[1], D[2]>> \in R
    <2>1. 1 \in 1 .. Len(s) /\ 2 \in 1 .. Len(s) + 1 /\ 1 + 1 = 2
      BY <1>3
    <2>2. <<D[1], s[1], D[1 + 1]>> \in R
      BY <1>1, <2>1, Zenon
    <2> QED  BY <1>1, <2>1, <2>2
  <1> QED  BY <1>3, <1>4, <1>9, <1>10, Zenon

LEMMA ChainMap ==
    ASSUME NEW R, NEW S, NEW T, NEW W, NEW s \in Seq(W), NEW x, NEW y, Chain(R, S, x, s, y),
           NEW F \in [S -> S],
           \A a \in S, b \in S, w \in W : <<a, w, b>> \in R => <<F[a], w, F[b]>> \in T
    PROVE  Chain(T, S, F[x], s, F[y])
  <1>1. PICK D \in [1 .. Len(s) + 1 -> S] :
          /\ D[1] = x /\ D[Len(s) + 1] = y
          /\ \A i \in 1 .. Len(s) : <<D[i], s[i], D[i + 1]>> \in R
    BY Zenon DEF Chain
  <1>2. PICK n \in Nat : n = Len(s)
    OBVIOUS
  <1>3. PICK E : E = [i \in 1 .. n + 1 |-> F[D[i]]]
    OBVIOUS
  <1>4. E \in [1 .. n + 1 -> S] /\ \A i \in 1 .. n + 1 : E[i] = F[D[i]]
    <2>1. \A i \in 1 .. n + 1 : D[i] \in S
      BY <1>1, <1>2
    <2>2. \A i \in 1 .. n + 1 : F[D[i]] \in S
      BY <2>1
    <2> QED  BY <1>3, <2>2
  <1>5. E[1] = F[x] /\ E[n + 1] = F[y]
    <2>1. 1 \in 1 .. n + 1 /\ n + 1 \in 1 .. n + 1
      OBVIOUS
    <2> QED  BY <1>1, <1>2, <1>4, <2>1
  <1>6. ASSUME NEW i \in 1 .. n PROVE <<E[i], s[i], E[i + 1]>> \in T
    <2>1. i \in 1 .. Len(s) /\ i \in 1 .. n + 1 /\ i + 1 \in 1 .. n + 1 /\ i + 1 \in 1 .. Len(s) + 1
      BY <1>2
    <2>2. D[i] \in S /\ D[i + 1] \in S /\ s[i] \in W
      BY <1>1, <1>2, <2>1, SMTT(60)
    <2>3. <<F[D[i]], s[i], F[D[i + 1]]>> \in T
      BY <1>1, <2>1, <2>2, Zenon
    <2> QED  BY <1>4, <2>1, <2>3
  <1> QED  BY <1>2, <1>4, <1>5, <1>6, Zenon DEF Chain

(* A state that no word of R leaves, whatever is under way; and any other state
   that T lets the same words leave alone.                                    *)
LEMMA ChainSettled ==
    ASSUME NEW R, NEW S, NEW T, NEW W, NEW s \in Seq(W), NEW x \in S, NEW y, Chain(R, S, x, s, y),
           NEW c \in S, \A b \in S, w \in W : <<x, w, b>> \in R => b = x /\ <<c, w, c>> \in T
    PROVE  y = x /\ Chain(T, S, c, s, c)
  <1>1. PICK D \in [1 .. Len(s) + 1 -> S] :
          /\ D[1] = x /\ D[Len(s) + 1] = y
          /\ \A i \in 1 .. Len(s) : <<D[i], s[i], D[i + 1]>> \in R
    BY Zenon DEF Chain
  <1>2. PICK n \in Nat : n = Len(s)
    OBVIOUS
  <1>3. PICK A : A = {i \in 1 .. n + 1 : D[i] # x}
    OBVIOUS
  <1>4. A = {}
    <2>1. SUFFICES ASSUME A # {} PROVE FALSE
      OBVIOUS
    <2>2. A \in SUBSET Nat
      BY <1>3
    <2>3. PICK k \in A : \A i \in A : k <= i
      <3>1. \A i, j : <<i, j>> \in OpToRel(<, Nat) <=> (i \in Nat /\ j \in Nat /\ i < j)
        BY Zenon DEF OpToRel
      <3>2. PICK k \in A : \A i \in A : ~(<<i, k>> \in OpToRel(<, Nat))
        BY <2>1, <2>2, NatLessThanWellFounded, WFMin
      <3>3. \A i \in A : ~(i < k)
        BY <2>2, <3>1, <3>2
      <3> QED  BY <2>2, <3>3
    <2>4. k \in 1 .. n + 1 /\ D[k] # x
      BY <1>3
    <2>5. k # 1
      BY <1>1, <2>4
    <2>6. k - 1 \in 1 .. n + 1 /\ k - 1 \in 1 .. Len(s) /\ (k - 1) + 1 = k /\ k - 1 < k
      BY <1>2, <2>4, <2>5
    <2>7. D[k - 1] = x
      BY <1>3, <2>2, <2>3, <2>6
    <2>8. <<D[k - 1], s[k - 1], D[(k - 1) + 1]>> \in R
      BY <1>1, <2>6, Zenon
    <2>9. <<x, s[k - 1], D[k]>> \in R /\ D[k] \in S /\ s[k - 1] \in W
      BY <1>1, <1>2, <2>4, <2>6, <2>7, <2>8
    <2> QED  BY <2>4, <2>9, Zenon
  <1>5. \A i \in 1 .. n + 1 : D[i] = x
    BY <1>3, <1>4
  <1>6. y = x
    BY <1>1, <1>2, <1>5
  <1>7. ASSUME NEW i \in 1 .. n PROVE <<c, s[i], c>> \in T
    <2>1. i \in 1 .. Len(s) /\ i \in 1 .. n + 1 /\ i + 1 \in 1 .. n + 1
      BY <1>2
    <2>2. <<x, s[i], x>> \in R /\ s[i] \in W
      BY <1>1, <1>2, <1>5, <2>1
    <2> QED  BY <2>2, Zenon
  <1>8. PICK E : E = [i \in 1 .. n + 1 |-> c]
    OBVIOUS
  <1>9. E \in [1 .. n + 1 -> S] /\ \A i \in 1 .. n + 1 : E[i] = c
    BY <1>8
  <1>10. ASSUME NEW i \in 1 .. n PROVE <<E[i], s[i], E[i + 1]>> \in T
    <2>1. i \in 1 .. n + 1 /\ i + 1 \in 1 .. n + 1
      OBVIOUS
    <2> QED  BY <1>7, <1>9, <2>1
  <1>11. E[1] = c /\ E[n + 1] = c
    <2>1. 1 \in 1 .. n + 1 /\ n + 1 \in 1 .. n + 1
      OBVIOUS
    <2> QED  BY <1>9, <2>1
  <1> QED  BY <1>2, <1>6, <1>9, <1>10, <1>11, Zenon DEF Chain

-----------------------------------------------------------------------------
(* Rings.                                                                     *)
LEMMA PlaceFacts ==
    ASSUME NEW N \in Nat \ {0}, NEW at \in 0 .. N - 1, NEW d \in 1 .. N
    PROVE  /\ (at - d) % N = (IF at >= d THEN at - d ELSE at - d + N)
           /\ (at - d) % N \in 0 .. N - 1
           /\ d < N => (at - d) % N # at
           /\ (at + 1) % N = (IF at = N - 1 THEN 0 ELSE at + 1)
           /\ (at + 1) % N \in 0 .. N - 1
  OBVIOUS

LEMMA PlaceBehind ==
    ASSUME NEW N \in Nat \ {0}, NEW at \in 0 .. N - 1
    PROVE  /\ (((at + 1) % N) - 1) % N = at
           /\ \A d \in 2 .. N - 1 : (((at + 1) % N) - d) % N = (at - (d - 1)) % N
  <1>1. PICK b \in 0 .. N - 1 : b = (at + 1) % N /\ b = (IF at = N - 1 THEN 0 ELSE at + 1)
    <2>1. 1 \in 1 .. N
      OBVIOUS
    <2> QED  BY <2>1, PlaceFacts
  <1>2. (b - 1) % N = at
    <2>1. 1 \in 1 .. N
      OBVIOUS
    <2>2. (b - 1) % N = (IF b >= 1 THEN b - 1 ELSE b - 1 + N)
      BY <2>1, PlaceFacts
    <2> QED  BY <1>1, <2>2
  <1>3. ASSUME NEW d \in 2 .. N - 1 PROVE (b - d) % N = (at - (d - 1)) % N
    <2>1. d \in 1 .. N /\ d - 1 \in 1 .. N
      OBVIOUS
    <2>2. (b - d) % N = (IF b >= d THEN b - d ELSE b - d + N)
      BY <2>1, PlaceFacts, ZenonT(60)
    <2>3. (at - (d - 1)) % N = (IF at >= d - 1 THEN at - (d - 1) ELSE at - (d - 1) + N)
      BY <2>1, PlaceFacts, ZenonT(60)
    <2> QED  BY <1>1, <2>2, <2>3
  <1> QED  BY <1>1, <1>2, <1>3

(* What is put where the pointer is can be seen by nobody.                    *)
LEMMA RingKept ==
    ASSUME NEW N \in Nat \ {0}, NEW D \in Nat, D < N, NEW V, NEW tbl \in [0 .. N - 1 -> V], NEW at, NEW v,
           NEW r, NEW U, NEW h \in Seq(U), Ring(tbl, at, h, r, N, D)
    PROVE  Ring([tbl EXCEPT ![at] = v], at, h, r, N, D)
  <1>1. at \in 0 .. N - 1 /\ r \in 0 .. Len(h) /\ \A d \in 1 .. D : d <= r => tbl[(at - d) % N] = h[Len(h) - d + 1]
    BY DEF Ring
  <1>2. PICK e : e = [tbl EXCEPT ![at] = v]
    OBVIOUS
  <1>3. \A k \in 0 .. N - 1 : k # at => e[k] = tbl[k]
    BY <1>2
  <1>4. ASSUME NEW d \in 1 .. D, d <= r PROVE e[(at - d) % N] = h[Len(h) - d + 1]
    <2>1. d \in 1 .. N /\ d < N
      OBVIOUS
    <2>2. (at - d) % N \in 0 .. N - 1 /\ (at - d) % N # at
      BY <1>1, <2>1, PlaceFacts, ZenonT(60)
    <2> QED  BY <1>1, <1>3, <1>4, <2>2
  <1>5. Ring(e, at, h, r, N, D)
    BY <1>1, <1>4, Zenon DEF Ring
  <1> QED  BY <1>2, <1>5

LEMMA RingPushed ==
    ASSUME NEW N \in Nat \ {0}, NEW D \in Nat, D < N, NEW V, NEW tbl \in [0 .. N - 1 -> V], NEW at, NEW v,
           NEW r, NEW U, NEW h \in Seq(U), v \in U, Ring(tbl, at, h, r, N, D)
    PROVE  Ring([tbl EXCEPT ![at] = v], (at + 1) % N, Append(h, v), r + 1, N, D)
  <1>1. at \in 0 .. N - 1 /\ r \in 0 .. Len(h) /\ \A d \in 1 .. D : d <= r => tbl[(at - d) % N] = h[Len(h) - d + 1]
    BY DEF Ring
  <1>2. PICK e : e = [tbl EXCEPT ![at] = v]
    OBVIOUS
  <1>3. \A k \in 0 .. N - 1 : e[k] = IF k = at THEN v ELSE tbl[k]
    BY <1>2
  <1>4. PICK b \in 0 .. N - 1 : b = (at + 1) % N
    <2>1. 1 \in 1 .. N
      OBVIOUS
    <2> QED  BY <1>1, <2>1, PlaceFacts
  <1>5. PICK g \in Seq(U), n \in Nat :
          /\ g = Append(h, v) /\ n = Len(h) /\ Len(g) = n + 1 /\ g[n + 1] = v
          /\ \A i \in 1 .. n : g[i] = h[i]
    OBVIOUS
  <1>6. ASSUME NEW d \in 1 .. D, d <= r + 1 PROVE e[(b - d) % N] = g[Len(g) - d + 1]
    <2>1. CASE d = 1
      <3>1. (b - d) % N = at
        BY <1>1, <1>4, <2>1, PlaceBehind
      <3>2. Len(g) - d + 1 = n + 1
        BY <1>5, <2>1
      <3> QED  BY <1>1, <1>3, <1>5, <3>1, <3>2
    <2>2. CASE d # 1
      <3>1. PICK c \in 1 .. D : c = d - 1 /\ c <= r /\ c \in 1 .. N /\ c < N /\ d \in 2 .. N - 1
        BY <1>1, <1>6, <2>2
      <3>2. (b - d) % N = (at - c) % N
        BY <1>1, <1>4, <3>1, PlaceBehind
      <3>3. (at - c) % N \in 0 .. N - 1 /\ (at - c) % N # at
        BY <1>1, <3>1, PlaceFacts, ZenonT(60)
      <3>4. tbl[(at - c) % N] = h[n - c + 1]
        BY <1>1, <1>5, <3>1
      <3>5. Len(g) - d + 1 = n - c + 1 /\ n - c + 1 \in 1 .. n
        BY <1>1, <1>5, <3>1
      <3>6. e[(at - c) % N] = tbl[(at - c) % N]
        BY <1>3, <3>3
      <3>7. g[n - c + 1] = h[n - c + 1]
        BY <1>5, <3>5
      <3> QED  BY <3>2, <3>4, <3>5, <3>6, <3>7, Zenon
    <2> QED  BY <2>1, <2>2
  <1>7. r + 1 \in 0 .. Len(g)
    BY <1>1, <1>5
  <1>8. Ring(e, b, g, r + 1, N, D)
    BY <1>4, <1>6, <1>7, Zenon DEF Ring
  <1> QED  BY <1>2, <1>4, <1>5, <1>8, Zenon

(* An empty history is in every table.                                        *)
LEMMA RingEmpty ==
    ASSUME NEW N \in Nat \ {0}, NEW D \in Nat, NEW tbl, NEW at \in 0 .. N - 1, NEW U, NEW h \in Seq(U)
    PROVE  Ring(tbl, at, h, 0, N, D)
  BY DEF Ring

(* A reference is read back.                                                  *)
LEMMA RingRead ==
    ASSUME NEW N \in Nat \ {0}, NEW D \in Nat, D < N, NEW tbl, NEW at, NEW r, NEW U, NEW h \in Seq(U),
           Ring(tbl, at, h, r, N, D), NEW full \in BOOLEAN, Reach(at, full, r, N), NEW d \in 1 .. D,
           full = TRUE \/ d <= at
    PROVE  d \in 1 .. Len(h) /\ tbl[(at - d) % N] = h[Len(h) - d + 1] /\ h[Len(h) - d + 1] \in U
  <1>1. at \in 0 .. N - 1 /\ r \in 0 .. Len(h) /\ \A k \in 1 .. D : k <= r => tbl[(at - k) % N] = h[Len(h) - k + 1]
    BY DEF Ring
  <1>2. d <= r
    BY <1>1 DEF Reach
  <1>3. d \in 1 .. Len(h) /\ Len(h) - d + 1 \in 1 .. Len(h)
    BY <1>1, <1>2
  <1> QED  BY <1>1, <1>2, <1>3, SMTT(60)

-----------------------------------------------------------------------------
(* What the link's constants are.                                             *)
LEMMA Constants ==
    /\ NADDR \in Nat \ {0} /\ RDTBL \in Nat \ {0} /\ WRTBL \in Nat \ {0} /\ MAXD \in Nat /\ MAXD < RDTBL
    /\ WRTBL - 1 \in Nat /\ WRTBL - 1 < WRTBL
    /\ READBLOCK \in Nat \ {0} /\ READAHEAD \in Nat /\ Bits = {0, 1}
    /\ \A k \in 1 .. 5 : B ^ k \in Nat
    /\ \A a : a \in Address <=> (a \in Nat /\ a < NADDR)
  <1>1. B ^ 5 \in Nat
    BY LinkAssumption
  <1>2. NADDR \in Nat \ {0}
    BY <1>1, LinkAssumption
  <1> QED  BY <1>2, LinkAssumption DEF Bits, Address

LEMMA PlusFacts ==
    ASSUME NEW a \in Int, NEW d \in Int
    PROVE  Plus(a, d) \in Address /\ (a + d \in Address => Plus(a, d) = a + d)
  BY Constants DEF Plus, Address

LEMMA TimesFacts ==
    ASSUME NEW i \in Bits, NEW k \in Int
    PROVE  /\ Times(k, i) = i * k /\ Times(k, i) = k * i /\ Times(k, i) \in Int
           /\ (k \in Nat => Times(k, i) \in Nat /\ Times(k, i) <= k)
           /\ Times(0, i) = 0 /\ Times(1, i) = i
           /\ \A j \in Int : Times(k + j, i) = Times(k, i) + Times(j, i)
  BY DEF Times, Bits

LEMMA LeastOf ==
    ASSUME NEW T \in SUBSET Nat, T # {}
    PROVE  Min(T) \in T /\ \A y \in T : Min(T) <= y
  <1>1. \A y, x : <<y, x>> \in OpToRel(<, Nat) <=> (y \in Nat /\ x \in Nat /\ y < x)
    BY Zenon DEF OpToRel
  <1>2. PICK x \in T : \A y \in T : ~(<<y, x>> \in OpToRel(<, Nat))
    BY NatLessThanWellFounded, WFMin
  <1>3. \A y \in T : ~(y < x)
    BY <1>1, <1>2
  <1>4. \A y \in T : x <= y
    BY <1>3
  <1> QED  BY <1>4 DEF Min

LEMMA MinOfTwo == ASSUME NEW i \in Nat, NEW j \in Nat PROVE Min({i, j}) = IF i <= j THEN i ELSE j
  <1>1. {i, j} \in SUBSET Nat /\ {i, j} # {}
    OBVIOUS
  <1>2. Min({i, j}) \in {i, j} /\ \A y \in {i, j} : Min({i, j}) <= y
    BY <1>1, LeastOf
  <1> QED  BY <1>2

LEMMA WordFields ==
    ASSUME NEW t, NEW v, NEW i
    PROVE  /\ Word(t, v, i).t = t /\ Word(t, v, i).v = v /\ Word(t, v, i).i = i
           /\ (t \in Kinds /\ v \in Nat \cup Values /\ i \in Nat => Word(t, v, i) \in Words)
  BY DEF Word, Words

LEMMA ObeyingFacts ==
    ASSUME NEW md, NEW a, NEW inc, NEW lim, NEW x, NEW w, NEW y
    PROVE  <<x, w, y>> \in Obeying(md, a, inc, lim) <=>
               x \in Line /\ w \in Words /\ y \in Line /\ Obeys(md, a, inc, lim, x, w, y)
  BY DEF Obeying

LEMMA HearingFacts ==
    ASSUME NEW md, NEW mm, NEW a, NEW inc, NEW lim, NEW x, NEW w, NEW y
    PROVE  <<x, w, y>> \in Hearing(md, mm, a, inc, lim) <=>
               x \in Heard /\ w \in Words /\ y \in Heard /\ Hears(md, mm, a, inc, lim, x, w, y)
  BY DEF Hearing

-----------------------------------------------------------------------------
(* An address that is sent leads the board there, and one that is not sent was
   where the board will be.                                                   *)
Knows(y) ==
    /\ y.p = 0 /\ m_lastaddr \in Int /\ m_addr_set \in BOOLEAN
    /\ m_addr_set = TRUE => y.a = m_lastaddr
Sent(md, b, inc, lim, a, y) ==
    \/ EncodeAddress(a) = <<>> /\ m_addr_set = TRUE /\ y.a = a
    \/ \E w \in Words, z \in Line :
          /\ EncodeAddress(a) = <<w>> /\ <<y, w, z>> \in Obeying(md, b, inc, lim)
          /\ z.a = a /\ z.p = 0 /\ z.h = y.h /\ z.m = y.m /\ z.f = 1 /\ z.t = y.t

LEMMA AddressSent ==
    ASSUME NEW md, NEW b, NEW inc, NEW lim, NEW a \in Address, NEW y \in Line, Knows(y)
    PROVE  Sent(md, b, inc, lim, a, y)
  <1> SUFFICES ASSUME y.p = 0, m_lastaddr \in Int, m_addr_set \in BOOLEAN, m_addr_set = TRUE => y.a = m_lastaddr
               PROVE  \/ EncodeAddress(a) = <<>> /\ m_addr_set = TRUE /\ y.a = a
                      \/ \E w \in Words, z \in Line :
                            /\ EncodeAddress(a) = <<w>> /\ <<y, w, z>> \in Obeying(md, b, inc, lim)
                            /\ z.a = a /\ z.p = 0 /\ z.h = y.h /\ z.m = y.m /\ z.f = 1 /\ z.t = y.t
    BY DEF Knows, Sent
  <1>1. PICK d, diff, abs : d \in Int /\ d = a - m_lastaddr /\ diff = DiffDigits(d) /\ abs = AbsDigits(a)
    BY DEF Address
  <1>2. PICK z \in Line : z.a = a /\ z.p = 0 /\ z.h = y.h /\ z.m = y.m /\ z.f = 1 /\ z.t = y.t
    <2>1. [a |-> a, p |-> 0, h |-> y.h, m |-> y.m, f |-> 1, t |-> y.t] \in Line
      BY DEF Line, Bits
    <2> QED  BY <2>1
  <1>3. abs \in 1 .. 5
    <2>1. PICK T : T = {k \in 1 .. 4 : a < B ^ k} \cup {5}
      OBVIOUS
    <2>2. T \in SUBSET Nat /\ T # {} /\ T \subseteq 1 .. 5
      BY <2>1
    <2>3. Min(T) \in T
      BY <2>2, LeastOf
    <2> QED  BY <1>1, <2>1, <2>2, <2>3 DEF AbsDigits
  <1>4. diff \in 1 .. 6 /\ (diff < 5 => Fits(d, diff)) /\ diff # 5
    <2>1. PICK T : T = {k \in 1 .. 4 : Fits(d, k)} \cup {6}
      OBVIOUS
    <2>2. T \in SUBSET Nat /\ T # {} /\ T \subseteq 1 .. 6
      BY <2>1
    <2>3. Min(T) \in T
      BY <2>2, LeastOf
    <2>4. diff \in T
      BY <1>1, <2>1, <2>3 DEF DiffDigits
    <2>5. diff < 5 => Fits(d, diff)
      BY <2>1, <2>2, <2>4
    <2>6. diff # 5
      BY <2>1, <2>4
    <2> QED  BY <2>2, <2>4, <2>5, <2>6
  <1>5. EncodeAddress(a) = IF m_addr_set /\ d = 0 THEN <<>>
                           ELSE IF m_addr_set /\ diff < abs THEN <<Word("rel", d % B ^ diff, diff)>>
                           ELSE <<Word("abs", a, abs)>>
    BY <1>1 DEF EncodeAddress
  <1>6. CASE m_addr_set /\ d = 0
    BY <1>1, <1>5, <1>6 DEF Address
  <1>7. CASE ~(m_addr_set /\ d = 0) /\ (m_addr_set /\ diff < abs)
    <2>1. diff \in 1 .. 5 /\ diff < 5 /\ Fits(d, diff) /\ diff \in Nat
      BY <1>3, <1>4, <1>7
    <2>2. PICK n \in Nat : n = B ^ diff
      BY <2>1, Constants
    <2>3. d \in Nat /\ 2 * d < n /\ d % n = d
      BY <1>1, <2>1, <2>2 DEF Fits
    <2>4. SignExtend(d, diff) = d
      BY <2>2, <2>3 DEF SignExtend
    <2>5. PICK w : w = Word("rel", d % B ^ diff, diff)
      OBVIOUS
    <2>6. w.t = "rel" /\ w.v = d /\ w.i = diff /\ w \in Words
      BY <2>1, <2>2, <2>3, <2>5, WordFields DEF Kinds
    <2>7. z.a = y.a + SignExtend(w.v, w.i)
      BY <1>1, <1>2, <1>7, <2>4, <2>6 DEF Address
    <2>8. AddressObeyed(y, w, z)
      BY <1>2, <2>1, <2>3, <2>6, <2>7 DEF AddressObeyed
    <2>9. <<y, w, z>> \in Obeying(md, b, inc, lim)
      BY <2>6, <2>8, ObeyingFacts DEF Obeys
    <2> QED  BY <1>2, <1>5, <1>7, <2>5, <2>6, <2>9, Zenon
  <1>8. CASE ~(m_addr_set /\ d = 0) /\ ~(m_addr_set /\ diff < abs)
    <2>1. PICK w : w = Word("abs", a, abs)
      OBVIOUS
    <2>2. w.t = "abs" /\ w.v = a /\ w \in Words
      BY <1>3, <2>1, WordFields, Constants DEF Kinds
    <2>3. AddressObeyed(y, w, z)
      BY <1>2, <2>2 DEF AddressObeyed
    <2>4. <<y, w, z>> \in Obeying(md, b, inc, lim)
      BY <2>2, <2>3, ObeyingFacts DEF Obeys
    <2> QED  BY <1>2, <1>5, <1>8, <2>1, <2>2, <2>4, Zenon
  <1> QED  BY <1>6, <1>7, <1>8

(* A read of k words takes blocks of b: every block but the last is full, and
   the last one is not empty.                                                 *)
LEMMA Blocks ==
    ASSUME NEW k \in Nat \ {0}, NEW b \in Nat \ {0}
    PROVE  \E c \in Nat \ {0} :
              /\ c = (k + b - 1) \div b /\ c * b >= k /\ (k <= b => c = 1)
              /\ \A j \in 1 .. c : (j - 1) * b \in Nat /\ (j - 1) * b < k /\ ((j + 1) - 1) * b = (j - 1) * b + b
  <1>1. PICK n \in Nat : n = k + b - 1 /\ n = (k + b) - 1
    OBVIOUS
  <1>2. PICK c \in Int : c = n \div b
    OBVIOUS
  <1>3. c \in Nat /\ b * c <= n /\ n < b * c + b
    BY <1>1, <1>2
  <1>4. c * b = b * c
    BY <1>3
  <1>5. c # 0
    BY <1>1, <1>3, <1>4
  <1>6. c * b >= k
    BY <1>1, <1>3, <1>4
  <1>7. ASSUME k <= b PROVE c = 1
    <2>1. n < b + b
      BY <1>1, <1>7
    <2>2. n \div b < 2
      BY <1>1, <2>1
    <2> QED  BY <1>2, <1>3, <1>5, <2>2
  <1>8. ASSUME NEW j \in 1 .. c
        PROVE  (j - 1) * b \in Nat /\ (j - 1) * b < k /\ ((j + 1) - 1) * b = (j - 1) * b + b
    <2>1. (j - 1) * b \in Nat
      <3>1. j - 1 \in Nat
        OBVIOUS
      <3> QED  BY <3>1
    <2>2. ((j + 1) - 1) * b = (j - 1) * b + b /\ j * b = (j - 1) * b + b
      BY <1>3
    <2>3. j * b <= c * b
      <3>1. PICK e \in Nat : e = c - j
        BY <1>3
      <3>2. c * b = j * b + e * b
        BY <1>3, <3>1
      <3>3. e * b \in Nat
        BY <3>1
      <3>4. j * b \in Nat
        BY <1>3
      <3> QED  BY <3>2, <3>3, <3>4
    <2> QED  BY <1>1, <1>3, <1>4, <2>1, <2>2, <2>3
  <1>9. c = (k + b - 1) \div b
    BY <1>1, <1>2
  <1> QED  BY <1>3, <1>5, <1>6, <1>7, <1>8, <1>9

(* The read commands lead the board through the words asked for.             *)
Ready(md, a, inc, from, to, x) ==
    /\ md # "writes" /\ from < to /\ a + Times(to, inc) < NADDR
    /\ x.p = from /\ x.a = a + Times(from, inc) /\ (x.f = 1 \/ x.t = 1)
    /\ Failing(md) => to - from <= READBLOCK
    /\ md = "readers" => (x.f = 1 => x.t = 0)
Led(md, a, inc, from, to, x) ==
    /\ ReadCommands(from, to, inc) \in Seq(Words)
    /\ \E z \in Line :
          /\ Chain(Obeying(md, a, inc, to), Line, x, ReadCommands(from, to, inc), z)
          /\ z.p = to /\ z.a = a + Times(to, inc) /\ z.h = x.h /\ z.m = x.m /\ z.f = 0 /\ z.t = 1

LEMMA ReadsSent ==
    ASSUME NEW md, NEW a \in Nat, NEW inc \in Bits, NEW from \in Nat, NEW to \in Nat, NEW x \in Line,
           Ready(md, a, inc, from, to, x)
    PROVE  Led(md, a, inc, from, to, x)
  <1> SUFFICES ASSUME md # "writes", from < to, a + Times(to, inc) < NADDR,
                      x.p = from, x.a = a + Times(from, inc), x.f = 1 \/ x.t = 1,
                      Failing(md) => to - from <= READBLOCK, md = "readers" => (x.f = 1 => x.t = 0)
               PROVE  /\ ReadCommands(from, to, inc) \in Seq(Words)
                      /\ \E z \in Line :
                            /\ Chain(Obeying(md, a, inc, to), Line, x, ReadCommands(from, to, inc), z)
                            /\ z.p = to /\ z.a = a + Times(to, inc) /\ z.h = x.h /\ z.m = x.m /\ z.f = 0 /\ z.t = 1
    BY DEF Ready, Led
  <1>1. PICK k \in Nat \ {0} : k = to - from
    OBVIOUS
  <1>2. PICK b \in Nat \ {0} : b = READBLOCK
    BY Constants
  <1>3. PICK c \in Nat \ {0} :
          /\ c = (k + b - 1) \div b /\ c * b >= k /\ (k <= b => c = 1)
          /\ \A j \in 1 .. c : (j - 1) * b \in Nat /\ (j - 1) * b < k /\ ((j + 1) - 1) * b = (j - 1) * b + b
    BY Blocks, ZenonT(60)
  <1>4. PICK T : T = [j \in 1 .. c + 1 |-> (j - 1) * b]
    OBVIOUS
  <1>5. /\ \A j \in 1 .. c : T[j] \in Nat /\ T[j] < k /\ T[j + 1] = T[j] + b
        /\ T[1] = 0 /\ T[c + 1] >= k /\ T[c + 1] \in Nat /\ \A j \in 1 .. c : T[j] = (j - 1) * b
    <2>1. 1 \in 1 .. c + 1 /\ c + 1 \in 1 .. c + 1 /\ (1 - 1) * b = 0 /\ ((c + 1) - 1) * b = c * b /\ c * b \in Nat
      OBVIOUS
    <2>2. \A j \in 1 .. c : j \in 1 .. c + 1 /\ j + 1 \in 1 .. c + 1
      OBVIOUS
    <2> HIDE <1>1, <1>2
    <2> QED  BY <1>3, <1>4, <2>1, <2>2
  <1>6. PICK P : P = [j \in 1 .. c + 1 |-> IF T[j] <= k THEN from + T[j] ELSE to]
    OBVIOUS
  <1>7. PICK v : v = [j \in 1 .. c |-> IF b <= k - T[j] THEN b ELSE k - T[j]]
    OBVIOUS
  <1>8. /\ P[1] = from /\ P[c + 1] = to /\ \A j \in 1 .. c + 1 : P[j] \in Nat /\ P[j] <= to
        /\ \A j \in 1 .. c : v[j] \in Nat \ {0} /\ P[j + 1] = P[j] + v[j] /\ P[j] < to
    <2>1. ASSUME NEW j \in 1 .. c
          PROVE  v[j] \in Nat \ {0} /\ P[j + 1] = P[j] + v[j] /\ P[j] \in Nat /\ P[j] < to
      <3>1. PICK s \in Nat : s = T[j] /\ s < k /\ T[j + 1] = s + b
        BY <1>5
      <3>2. j \in 1 .. c + 1 /\ j + 1 \in 1 .. c + 1
        OBVIOUS
      <3>3. P[j] = from + s
        BY <1>6, <3>1, <3>2
      <3>4. P[j + 1] = IF s + b <= k THEN from + (s + b) ELSE to
        BY <1>6, <3>1, <3>2
      <3>5. v[j] = IF b <= k - s THEN b ELSE k - s
        BY <1>7, <3>1
      <3> HIDE <1>2
      <3> QED  BY <1>1, <3>1, <3>3, <3>4, <3>5
    <2>2. P[1] = from /\ P[c + 1] = to
      <3>1. 1 \in 1 .. c + 1 /\ c + 1 \in 1 .. c + 1
        OBVIOUS
      <3>2. P[1] = from + 0
        BY <1>1, <1>5, <1>6, <3>1
      <3>3. PICK s \in Nat : s = T[c + 1] /\ s >= k
        BY <1>5
      <3>4. P[c + 1] = IF s <= k THEN from + s ELSE to
        BY <1>6, <3>1, <3>3
      <3> HIDE <1>3, <1>5, <1>6
      <3> QED  BY <1>1, <3>2, <3>3, <3>4
    <2>3. \A j \in 1 .. c + 1 : j \in 1 .. c \/ j = c + 1
      OBVIOUS
    <2> QED  BY <2>1, <2>2, <2>3
  <1>9. PICK q : q = ReadCommands(from, to, inc)
    OBVIOUS
  <1>10. q = [j \in 1 .. c |-> Word("read", v[j], inc)]
    <2>1. \A j \in 1 .. c : Min({READBLOCK, to - from - (j - 1) * READBLOCK}) = v[j]
      <3> TAKE j \in 1 .. c
      <3>1. PICK s \in Nat : s = T[j] /\ s < k /\ s = (j - 1) * READBLOCK
        BY <1>2, <1>5
      <3>2. to - from - (j - 1) * READBLOCK = k - s /\ k - s \in Nat
        BY <1>1, <3>1
      <3>3. Min({READBLOCK, k - s}) = IF READBLOCK <= k - s THEN READBLOCK ELSE k - s
        BY <1>2, <3>2, MinOfTwo
      <3> QED  BY <1>2, <1>7, <3>1, <3>2, <3>3
    <2>2. (to - from + READBLOCK - 1) \div READBLOCK = c
      BY <1>1, <1>2, <1>3
    <2>3. q = [j \in 1 .. c |-> Word("read", Min({READBLOCK, to - from - (j - 1) * READBLOCK}), inc)]
      BY <1>9, <2>2 DEF ReadCommands
    <2> QED  BY <2>1, <2>3
  <1>11. \A j \in 1 .. c : q[j].t = "read" /\ q[j].v = v[j] /\ q[j].i = inc /\ q[j] \in Words
    <2>1. \A j \in 1 .. c : v[j] \in Nat
      BY <1>8
    <2>2. \A j \in 1 .. c : q[j] = Word("read", v[j], inc)
      BY <1>10
    <2>3. inc \in Nat
      BY Constants
    <2> QED  BY <2>1, <2>2, <2>3, WordFields DEF Kinds
  <1>12. q \in Seq(Words) /\ Len(q) = c
    <2>1. q \in [1 .. c -> Words]
      BY <1>10, <1>11
    <2> QED  BY <2>1
  <1>13. PICK Q : Q = [j \in 1 .. c + 1 |-> IF j = 1 THEN x
                        ELSE [a |-> a + Times(P[j], inc), p |-> P[j], h |-> x.h, m |-> x.m, f |-> 0, t |-> 1]]
    OBVIOUS
  <1>14. \A j \in 1 .. c + 1 : a + Times(P[j], inc) \in Address
    <2> TAKE j \in 1 .. c + 1
    <2>1. P[j] \in Nat /\ P[j] <= to
      BY <1>8
    <2>2. Times(P[j], inc) \in Nat /\ Times(P[j], inc) <= Times(to, inc) /\ Times(to, inc) \in Nat
      BY <2>1 DEF Times
    <2> QED  BY <2>2, Constants
  <1>15. ASSUME NEW j \in 1 .. c + 1
         PROVE  /\ Q[j] \in Line /\ Q[j].p = P[j] /\ Q[j].a = a + Times(P[j], inc)
                /\ Q[j].h = x.h /\ Q[j].m = x.m
                /\ j # 1 => Q[j].f = 0 /\ Q[j].t = 1
    <2>1. CASE j = 1
      BY <1>8, <1>13, <2>1
    <2>2. CASE j # 1
      <3>1. Q[j] = [a |-> a + Times(P[j], inc), p |-> P[j], h |-> x.h, m |-> x.m, f |-> 0, t |-> 1]
        BY <1>13, <2>2
      <3>2. x.h \in Seq(Values) /\ x.m \in [Address -> Values] /\ P[j] \in Nat /\ 0 \in Bits /\ 1 \in Bits
        BY <1>8, Constants DEF Line
      <3> QED  BY <1>14, <2>2, <3>1, <3>2 DEF Line
    <2> QED  BY <2>1, <2>2
  <1>16. ASSUME NEW j \in 1 .. c PROVE <<Q[j], q[j], Q[j + 1]>> \in Obeying(md, a, inc, to)
    <2>1. PICK e \in Line, g \in Line, w \in Words : e = Q[j] /\ g = Q[j + 1] /\ w = q[j]
      <3>1. j \in 1 .. c + 1 /\ j + 1 \in 1 .. c + 1
        OBVIOUS
      <3> QED  BY <1>11, <1>15, <3>1
    <2>2. /\ e.p = P[j] /\ e.a = a + Times(P[j], inc) /\ e.h = x.h /\ e.m = x.m
          /\ g.p = P[j + 1] /\ g.a = a + Times(P[j + 1], inc) /\ g.h = x.h /\ g.m = x.m /\ g.f = 0 /\ g.t = 1
      <3>1. j \in 1 .. c + 1 /\ j + 1 \in 1 .. c + 1 /\ j + 1 # 1
        OBVIOUS
      <3> QED  BY <1>15, <2>1, <3>1
    <2>3. w.t = "read" /\ w.v \in Nat \ {0} /\ w.i = inc /\ g.p = e.p + w.v /\ g.p <= to
      <3>1. j + 1 \in 1 .. c + 1
        OBVIOUS
      <3> QED  BY <1>8, <1>11, <2>1, <2>2, <3>1
    <2>4. e.f = 1 \/ e.t = 1
      <3>1. CASE j = 1
        BY <1>13, <2>1, <3>1
      <3>2. CASE j # 1
        BY <1>15, <2>1, <3>2
      <3> QED  BY <3>1, <3>2
    <2>5. ASSUME Failing(md) PROVE g.p = to
      <3>1. c = 1
        BY <1>1, <1>2, <1>3, <2>5
      <3>2. j = 1
        BY <3>1
      <3> QED  BY <1>8, <2>2, <3>1, <3>2
    <2>8. ASSUME md = "readers" PROVE e.f = 1 => e.t = 0
      <3>1. CASE j = 1
        BY <1>13, <2>1, <2>8, <3>1
      <3>2. CASE j # 1
        BY <1>15, <2>1, <3>2
      <3> QED  BY <3>1, <3>2
    <2>6. ReadObeyed(md, a, inc, to, e, w, g)
      BY <2>2, <2>3, <2>4, <2>5, <2>8, Zenon DEF ReadObeyed
    <2>7. Obeys(md, a, inc, to, e, w, g)
      BY <2>6 DEF Obeys
    <2> QED  BY <2>1, <2>7, ObeyingFacts
  <1>17. PICK z \in Line : /\ z = Q[c + 1] /\ z.p = to /\ z.a = a + Times(to, inc) /\ z.h = x.h /\ z.m = x.m
                           /\ z.f = 0 /\ z.t = 1
    <2>1. c + 1 \in 1 .. c + 1 /\ c + 1 # 1
      OBVIOUS
    <2> QED  BY <1>8, <1>15, <2>1
  <1>18. Q \in [1 .. c + 1 -> Line] /\ Q[1] = x
    <2>1. 1 \in 1 .. c + 1
      OBVIOUS
    <2> QED  BY <1>13, <1>15, <2>1
  <1>19. Chain(Obeying(md, a, inc, to), Line, x, q, z)
    BY <1>12, <1>16, <1>17, <1>18, Zenon DEF Chain
  <1> QED  BY <1>9, <1>12, <1>17, <1>19, Zenon

-----------------------------------------------------------------------------
(* When a read begins, what was under way before is what it was.             *)
At(x, b) == [x EXCEPT !.p = 0, !.t = b]

LEMMA AtFacts ==
    ASSUME NEW x \in Line, NEW b \in Bits
    PROVE  /\ At(x, b) \in Line /\ At(x, b).a = x.a /\ At(x, b).p = 0 /\ At(x, b).h = x.h
           /\ At(x, b).m = x.m /\ At(x, b).f = x.f /\ At(x, b).t = b
  BY DEF At, Line

LEMMA LineExt ==
    ASSUME NEW x \in Line, NEW y \in Line, x.a = y.a, x.p = y.p, x.h = y.h, x.m = y.m, x.f = y.f, x.t = y.t
    PROVE  x = y
  BY DEF Line

LEMMA Rebased ==
    ASSUME NEW md, NEW a, NEW inc, NEW lim, NEW b \in Bits, NEW s \in Seq(Words), NEW x \in Line, NEW y \in Line,
           Chain(Obeying(md, 0, 0, 0), Line, x, s, y)
    PROVE  Chain(Obeying(md, a, inc, lim), Line, At(x, b), s, At(y, b))
  <1>1. PICK F : F = [e \in Line |-> At(e, b)]
    OBVIOUS
  <1>2. F \in [Line -> Line] /\ \A e \in Line : F[e] = At(e, b)
    BY <1>1, AtFacts
  <1>3. ASSUME NEW e \in Line, NEW g \in Line, NEW w \in Words, <<e, w, g>> \in Obeying(md, 0, 0, 0)
        PROVE  <<F[e], w, F[g]>> \in Obeying(md, a, inc, lim)
    <2>1. Obeys(md, 0, 0, 0, e, w, g)
      BY <1>3, ObeyingFacts
    <2>2. PICK e2 \in Line, g2 \in Line : e2 = F[e] /\ g2 = F[g]
      BY <1>2
    <2>3. /\ e2.a = e.a /\ e2.p = 0 /\ e2.h = e.h /\ e2.m = e.m /\ e2.f = e.f /\ e2.t = b
          /\ g2.a = g.a /\ g2.p = 0 /\ g2.h = g.h /\ g2.m = g.m /\ g2.f = g.f /\ g2.t = b
      BY <1>2, <2>2, AtFacts
    <2>4. CASE AddressObeyed(e, w, g)
      <3>1. AddressObeyed(e2, w, g2)
        BY <2>3, <2>4, Zenon DEF AddressObeyed
      <3> QED  BY <2>2, <3>1, ObeyingFacts DEF Obeys
    <2>5. CASE WriteObeyed(md, e, w, g)
      <3>1. WriteObeyed(md, e2, w, g2)
        BY <2>3, <2>5, Zenon DEF WriteObeyed
      <3> QED  BY <2>2, <3>1, ObeyingFacts DEF Obeys
    <2>6. CASE EndObeyed(e, w, g)
      <3>1. e2 = g2
        BY <2>2, <2>6 DEF EndObeyed
      <3>2. EndObeyed(e2, w, g2)
        BY <2>3, <2>6, <3>1 DEF EndObeyed
      <3> QED  BY <2>2, <3>2, ObeyingFacts DEF Obeys
    <2>7. CASE ReadObeyed(md, 0, 0, 0, e, w, g)
      <3>1. e.p \in Nat
        BY DEF Line
      <3> QED  BY <2>7, <3>1 DEF ReadObeyed
    <2> QED  BY <2>1, <2>4, <2>5, <2>6, <2>7 DEF Obeys
  <1>4. Chain(Obeying(md, a, inc, lim), Line, F[x], s, F[y])
    BY <1>2, <1>3, ChainMap
  <1> QED  BY <1>2, <1>4

(* The read's commands are all with the board.                                *)
LEMMA AllTaken ==
    ASSUME NEW md, NEW a, NEW inc, NEW lim \in Nat \ {0}, NEW s \in Seq(Words), NEW x \in Line, NEW y,
           x.p >= lim, Chain(Obeying(md, a, inc, lim), Line, x, s, y)
    PROVE  s = <<>>
  <1>1. SUFFICES ASSUME s # <<>> PROVE FALSE
    OBVIOUS
  <1>2. PICK z \in Line : <<x, Head(s), z>> \in Obeying(md, a, inc, lim)
    BY <1>1, ChainHead
  <1>3. Obeys(md, a, inc, lim, x, Head(s), z)
    BY <1>2, ObeyingFacts
  <1>4. x.p # 0 /\ x.p \in Nat
    BY DEF Line
  <1>5. ReadObeyed(md, a, inc, lim, x, Head(s), z)
    BY <1>3, <1>4 DEF Obeys, AddressObeyed, WriteObeyed, EndObeyed
  <1> QED  BY <1>4, <1>5 DEF ReadObeyed

(* When further commands are sent, what was under way is what it was.         *)
LEMMA Raised ==
    ASSUME NEW md, ~Failing(md), NEW a, NEW inc, NEW lim \in Nat, NEW lim2 \in Nat, lim <= lim2,
           NEW s \in Seq(Words), NEW x \in Line, NEW y \in Line, Chain(Obeying(md, a, inc, lim), Line, x, s, y)
    PROVE  Chain(Obeying(md, a, inc, lim2), Line, x, s, y)
  <1>1. PICK F : F = [e \in Line |-> e]
    OBVIOUS
  <1>2. F \in [Line -> Line] /\ \A e \in Line : F[e] = e
    BY <1>1
  <1>3. ASSUME NEW e \in Line, NEW g \in Line, NEW w \in Words, <<e, w, g>> \in Obeying(md, a, inc, lim)
        PROVE  <<F[e], w, F[g]>> \in Obeying(md, a, inc, lim2)
    <2>1. Obeys(md, a, inc, lim, e, w, g)
      BY <1>3, ObeyingFacts
    <2>2. CASE ReadObeyed(md, a, inc, lim, e, w, g)
      <3>1. g.p \in Nat
        BY DEF Line
      <3>2. ReadObeyed(md, a, inc, lim2, e, w, g)
        BY <2>2, <3>1 DEF ReadObeyed
      <3> QED  BY <1>2, <3>2, ObeyingFacts DEF Obeys
    <2>3. CASE ~ReadObeyed(md, a, inc, lim, e, w, g)
      <3>1. Obeys(md, a, inc, lim2, e, w, g)
        BY <2>1, <2>3 DEF Obeys
      <3> QED  BY <1>2, <3>1, ObeyingFacts
    <2> QED  BY <2>2, <2>3
  <1>4. Chain(Obeying(md, a, inc, lim2), Line, F[x], s, F[y])
    BY <1>2, <1>3, ChainMap
  <1> QED  BY <1>2, <1>4

LEMMA HeardRaised ==
    ASSUME NEW md, NEW mm, NEW a, NEW inc, NEW lim \in Nat, NEW lim2 \in Nat, lim <= lim2,
           NEW s \in Seq(Words), NEW x \in Heard, NEW y \in Heard, Chain(Hearing(md, mm, a, inc, lim), Heard, x, s, y)
    PROVE  Chain(Hearing(md, mm, a, inc, lim2), Heard, x, s, y)
  <1>1. PICK F : F = [e \in Heard |-> e]
    OBVIOUS
  <1>2. F \in [Heard -> Heard] /\ \A e \in Heard : F[e] = e
    BY <1>1
  <1>3. ASSUME NEW e \in Heard, NEW g \in Heard, NEW w \in Words, <<e, w, g>> \in Hearing(md, mm, a, inc, lim)
        PROVE  <<F[e], w, F[g]>> \in Hearing(md, mm, a, inc, lim2)
    <2>1. Hears(md, mm, a, inc, lim, e, w, g)
      BY <1>3, HearingFacts
    <2>2. e.g \in Nat
      BY DEF Heard
    <2>3. e.g < lim => e.g < lim2
      BY <2>2
    <2>4. lim > 0 => lim2 > 0
      OBVIOUS
    <2>5. Hears(md, mm, a, inc, lim2, e, w, g)
      <3>1. CASE NothingHeard(md, e, w, g)
        BY <3>1 DEF Hears
      <3>2. CASE AddressHeard(md, a, lim, e, w, g)
        BY <2>4, <3>2, Zenon DEF Hears, AddressHeard
      <3>3. CASE WordHeard(md, mm, a, inc, lim, e, w, g)
        BY <2>3, <3>3, Zenon DEF Hears, WordHeard
      <3>4. CASE ErrorHeard(md, lim, e, w, g)
        BY <2>3, <3>4, Zenon DEF Hears, ErrorHeard
      <3> QED  BY <2>1, <3>1, <3>2, <3>3, <3>4 DEF Hears
    <2> QED  BY <1>2, <2>5, HearingFacts
  <1>4. Chain(Hearing(md, mm, a, inc, lim2), Heard, F[x], s, F[y])
    BY <1>2, <1>3, ChainMap
  <1> QED  BY <1>2, <1>4

(* After the last word of a read, or its error, nothing of it is under way.   *)
LEMMA HeardSettled ==
    ASSUME NEW md, NEW mm, NEW a, NEW inc, NEW lim \in Nat, NEW s \in Seq(Words), NEW x \in Heard, NEW y,
           x.g >= lim \/ x.f = 1, Chain(Hearing(md, mm, a, inc, lim), Heard, x, s, y),
           NEW m2, NEW a2, NEW i2, NEW l2, NEW c \in Heard
    PROVE  y = x /\ Chain(Hearing(md, m2, a2, i2, l2), Heard, c, s, c)
  <1>1. ASSUME NEW b \in Heard, NEW w \in Words, <<x, w, b>> \in Hearing(md, mm, a, inc, lim)
        PROVE  b = x /\ <<c, w, c>> \in Hearing(md, m2, a2, i2, l2)
    <2>1. Hears(md, mm, a, inc, lim, x, w, b)
      BY <1>1, HearingFacts
    <2>2. x.g \in Nat
      BY DEF Heard
    <2>3. NothingHeard(md, x, w, b)
      BY <2>1, <2>2 DEF Hears, AddressHeard, WordHeard, ErrorHeard
    <2>4. b = x /\ NothingHeard(md, c, w, c)
      BY <2>3, Zenon DEF NothingHeard
    <2> QED  BY <2>4, HearingFacts DEF Hears
  <1> QED  BY <1>1, ChainSettled

-----------------------------------------------------------------------------
(* A step of the board: the host stays as it is.                              *)
LEMMA HostKept ==
    ASSUME NEW md, NEW y, NEW z, UNCHANGED host, md = "readers" => mem' = mem,
           HostAt(y), PcOf(md), Writing(md), HostReading(md, z)
    PROVE  /\ HostAt(y)' /\ PcOf(md)' /\ Writing(md)' /\ HostReading(md, z)'
           /\ FromOf' = FromOf /\ IncOf' = IncOf /\ LimOf' = LimOf /\ Shown(md)' = Shown(md)
           /\ pc' = pc /\ call' = call /\ got' = got /\ m_addr_set' = m_addr_set /\ m_rdaddr' = m_rdaddr
           /\ m_readtbl' = m_readtbl /\ m_lastaddr' = m_lastaddr /\ meant' = meant /\ m_wraddr' = m_wraddr
           /\ m_wrloaded' = m_wrloaded /\ m_writetbl' = m_writetbl /\ m_bus_err' = m_bus_err
  <1>1. /\ pc' = pc /\ call' = call /\ got' = got /\ m_addr_set' = m_addr_set /\ m_rdaddr' = m_rdaddr
        /\ m_readtbl' = m_readtbl /\ m_lastaddr' = m_lastaddr /\ meant' = meant /\ m_wraddr' = m_wraddr
        /\ m_wrloaded' = m_wrloaded /\ m_writetbl' = m_writetbl /\ m_bus_err' = m_bus_err
    BY DEF host
  <1>2. HostAt(y)'
    BY <1>1, Zenon DEF HostAt
  <1>3. PcOf(md)' /\ Writing(md)'
    BY <1>1, Zenon DEF PcOf, Writing
  <1>4. md = "readers" => (GotRight' <=> GotRight)
    BY <1>1, Zenon DEF GotRight
  <1>5. HostReading(md, z)'
    BY <1>1, <1>4, Zenon DEF HostReading
  <1>6. FromOf' = FromOf /\ IncOf' = IncOf /\ LimOf' = LimOf /\ Shown(md)' = Shown(md)
    BY <1>1, Zenon DEF FromOf, IncOf, LimOf, Shown
  <1> QED  BY <1>1, <1>2, <1>3, <1>5, <1>6

(* A word is taken: the board does what it says.                              *)
LEMMA Taken ==
    ASSUME NEW md, NEW x \in Line, NEW y \in Line, NEW z \in Heard, NEW u \in Heard, TypeOK,
           Linked(md, x, y, z, u), NEW w, Take(w)
    PROVE  /\ w \in Words /\ down' = Tail(down) /\ down' \in Seq(Words) /\ rdleft = 0 /\ x.a = o_wb_addr
           /\ \E x2 \in Line : /\ Obeys(md, FromOf, IncOf, LimOf, x, w, x2)
                               /\ Chain(Obeying(md, FromOf, IncOf, LimOf), Line, x2, down', y)
           /\ w.t # "write" => Ring(wr_tbl', wr_addr', x.h, Len(x.h), WRTBL, WRTBL - 1)
           /\ w.t = "write" /\ w.v \in Values =>
                 Ring(wr_tbl', wr_addr', Append(x.h, w.v), Len(Append(x.h, w.v)), WRTBL, WRTBL - 1)
           /\ w.t # "write" \/ w.v \in Values =>
                 wr_addr' \in 0 .. WRTBL - 1 /\ wr_tbl' \in [0 .. WRTBL - 1 -> Values \cup {Junk}]
           /\ pc = "reading" => u.f = 0
           /\ md = "readers" => pc = "reading"
  <1>1. /\ down # <<>> /\ Head(down) = w /\ rdleft = 0 /\ down' = Tail(down)
        /\ wr_tbl' = [wr_tbl EXCEPT ![wr_addr] = IF w.t = "write" THEN w.v ELSE Junk]
        /\ wr_addr' = IF w.t = "write" THEN (wr_addr + 1) % WRTBL ELSE wr_addr
    BY Zenon DEF Take
  <1>2. down \in Seq(Words) /\ wr_addr \in 0 .. WRTBL - 1 /\ wr_tbl \in [0 .. WRTBL - 1 -> Values \cup {Junk}]
    BY DEF TypeOK
  <1>3. w \in Words /\ Tail(down) \in Seq(Words)
    BY <1>1, <1>2
  <1>4. x.a = o_wb_addr
    <2>1. x.a = o_wb_addr + Times(0, r_inc) /\ o_wb_addr \in Int
      BY <1>1, Constants DEF Linked, BoardAt, TypeOK
    <2> QED  BY <2>1 DEF Times
  <1>5. \E x2 \in Line : /\ Obeys(md, FromOf, IncOf, LimOf, x, w, x2)
                         /\ Chain(Obeying(md, FromOf, IncOf, LimOf), Line, x2, down', y)
    <2>1. Chain(Obeying(md, FromOf, IncOf, LimOf), Line, x, down, y)
      BY Zenon DEF Linked, Under
    <2>2. PICK x2 \in Line : /\ <<x, Head(down), x2>> \in Obeying(md, FromOf, IncOf, LimOf)
                             /\ Chain(Obeying(md, FromOf, IncOf, LimOf), Line, x2, Tail(down), y)
      BY <1>1, <1>2, <2>1, ChainHead
    <2> QED  BY <1>1, <2>2, ObeyingFacts
  <1>6. Ring(wr_tbl, wr_addr, x.h, Len(x.h), WRTBL, WRTBL - 1) /\ x.h \in Seq(Values)
    BY DEF Linked, BoardAt, Line
  <1>7. ASSUME w.t # "write"
        PROVE  /\ Ring(wr_tbl', wr_addr', x.h, Len(x.h), WRTBL, WRTBL - 1)
               /\ wr_addr' \in 0 .. WRTBL - 1 /\ wr_tbl' \in [0 .. WRTBL - 1 -> Values \cup {Junk}]
    <2>1. wr_tbl' = [wr_tbl EXCEPT ![wr_addr] = Junk] /\ wr_addr' = wr_addr
      BY <1>1, <1>7
    <2>2. Ring([wr_tbl EXCEPT ![wr_addr] = Junk], wr_addr, x.h, Len(x.h), WRTBL, WRTBL - 1)
      BY <1>2, <1>6, Constants, RingKept
    <2> QED  BY <1>2, <2>1, <2>2
  <1>8. ASSUME w.t = "write", w.v \in Values
        PROVE  /\ Ring(wr_tbl', wr_addr', Append(x.h, w.v), Len(Append(x.h, w.v)), WRTBL, WRTBL - 1)
               /\ wr_addr' \in 0 .. WRTBL - 1 /\ wr_tbl' \in [0 .. WRTBL - 1 -> Values \cup {Junk}]
    <2>1. wr_tbl' = [wr_tbl EXCEPT ![wr_addr] = w.v] /\ wr_addr' = (wr_addr + 1) % WRTBL
      BY <1>1, <1>8
    <2>2. Ring([wr_tbl EXCEPT ![wr_addr] = w.v], (wr_addr + 1) % WRTBL, Append(x.h, w.v), Len(x.h) + 1, WRTBL, WRTBL - 1)
      BY <1>2, <1>6, <1>8, Constants, RingPushed
    <2>3. Len(Append(x.h, w.v)) = Len(x.h) + 1
      BY <1>6
    <2>4. (wr_addr + 1) % WRTBL \in 0 .. WRTBL - 1
      BY <1>2, Constants
    <2> QED  BY <1>2, <1>8, <2>1, <2>2, <2>3, <2>4
  <1>9. pc = "reading" => u.f = 0
    <2>1. u.f \in {0, 1}
      BY Constants DEF Heard
    <2> QED  BY <1>1, <2>1 DEF Linked, Failed
  <1>10. md = "readers" => pc = "reading"
    BY <1>1 DEF Linked, Resting
  <1> QED  BY <1>1, <1>3, <1>4, <1>5, <1>7, <1>8, <1>9, <1>10

(* Nothing is heard of this step of the board.                                *)
LEMMA Unheard ==
    ASSUME NEW md, NEW x, NEW y, NEW z, NEW u, Under(md, x, y, z, u), up' = up,
           FromOf' = FromOf, IncOf' = IncOf, LimOf' = LimOf, Shown(md)' = Shown(md), NEW x2,
           Chain(Obeying(md, FromOf, IncOf, LimOf), Line, x2, down', y)
    PROVE  Under(md, x2, y, z, u)'
  BY Zenon DEF Under

(* The board has said one more word.                                          *)
LEMMA Said ==
    ASSUME NEW md, NEW x, NEW y, NEW z, NEW u \in Heard, Under(md, x, y, z, u), up \in Seq(Words), NEW w \in Words,
           up' = Append(up, w),
           FromOf' = FromOf, IncOf' = IncOf, LimOf' = LimOf, Shown(md)' = Shown(md), NEW x2,
           Chain(Obeying(md, FromOf, IncOf, LimOf), Line, x2, down', y),
           NEW u2 \in Heard, md # "writes" => Hears(md, Shown(md), FromOf, IncOf, LimOf, u, w, u2)
    PROVE  Under(md, x2, y, z, u2)' /\ up' \in Seq(Words)
  <1>1. ASSUME md # "writes"
        PROVE  Chain(Hearing(md, Shown(md), FromOf, IncOf, LimOf), Heard, z, up', u2)
    <2>1. Chain(Hearing(md, Shown(md), FromOf, IncOf, LimOf), Heard, z, up, u)
      BY <1>1, Zenon DEF Under
    <2>2. <<u, w, u2>> \in Hearing(md, Shown(md), FromOf, IncOf, LimOf)
      BY <1>1, HearingFacts
    <2>3. Chain(Hearing(md, Shown(md), FromOf, IncOf, LimOf), Heard, z, Append(up, w), u2)
      BY <2>1, <2>2, ChainAppend
    <2> QED  BY <2>3
  <1>2. up' \in Seq(Words)
    OBVIOUS
  <1> QED  BY <1>1, <1>2, Zenon DEF Under

LEMMA BoardAddressStep ==
    ASSUME NEW md, LinkInv(md), BoardAddress PROVE LinkInv(md)'
  <1>1. PICK x \in Line, y \in Line, z \in Heard, u \in Heard : Linked(md, x, y, z, u)
    BY Zenon DEF LinkInv
  <1>2. PICK w : /\ w.t \in {"abs", "rel"} /\ Take(w)
                 /\ o_wb_addr' = IF w.t = "abs" THEN w.v ELSE Plus(o_wb_addr, SignExtend(w.v, w.i))
                 /\ r_new_addr' = 1
                 /\ UNCHANGED <<r_inc, rdleft, tbl_addr, tbl_filled, rd_tbl, last_out_nl, mem, up, host>>
    BY Zenon DEF BoardAddress
  <1>3. /\ r_inc' = r_inc /\ rdleft' = rdleft /\ tbl_addr' = tbl_addr /\ tbl_filled' = tbl_filled
        /\ rd_tbl' = rd_tbl /\ mem' = mem /\ up' = up /\ UNCHANGED host
    BY <1>2
  <1>4. TypeOK
    BY DEF LinkInv
  <1>5. /\ w \in Words /\ down' \in Seq(Words) /\ rdleft = 0 /\ x.a = o_wb_addr
        /\ Ring(wr_tbl', wr_addr', x.h, Len(x.h), WRTBL, WRTBL - 1)
        /\ wr_addr' \in 0 .. WRTBL - 1 /\ wr_tbl' \in [0 .. WRTBL - 1 -> Values \cup {Junk}]
        /\ pc = "reading" => u.f = 0
        /\ md = "readers" => pc = "reading"
    BY <1>1, <1>2, <1>4, Taken
  <1>6. PICK x2 \in Line : /\ Obeys(md, FromOf, IncOf, LimOf, x, w, x2)
                           /\ Chain(Obeying(md, FromOf, IncOf, LimOf), Line, x2, down', y)
    BY <1>1, <1>2, <1>4, Taken
  <1>7. HostAt(y) /\ PcOf(md) /\ Writing(md) /\ HostReading(md, z) /\ Under(md, x, y, z, u) /\ BoardAt(x)
        /\ BoardReading(md, x, y, u) /\ Resting(md, u)
    BY <1>1 DEF Linked
  <1>8. /\ HostAt(y)' /\ PcOf(md)' /\ Writing(md)' /\ HostReading(md, z)'
        /\ FromOf' = FromOf /\ IncOf' = IncOf /\ LimOf' = LimOf /\ Shown(md)' = Shown(md)
        /\ pc' = pc /\ call' = call /\ got' = got /\ m_addr_set' = m_addr_set /\ m_rdaddr' = m_rdaddr
        /\ m_readtbl' = m_readtbl /\ m_lastaddr' = m_lastaddr /\ meant' = meant /\ m_wraddr' = m_wraddr
        /\ m_wrloaded' = m_wrloaded /\ m_writetbl' = m_writetbl
    BY <1>3, <1>7, HostKept
  <1>9. AddressObeyed(x, w, x2)
    BY <1>2, <1>6 DEF Obeys, WriteObeyed, EndObeyed, ReadObeyed
  <1>10. x2.a = o_wb_addr' /\ x2.p = 0 /\ x2.h = x.h /\ x2.m = x.m /\ x2.f = 1 /\ x2.t = x.t /\ x.p = 0
    <2>1. CASE w.t = "abs"
      BY <1>2, <1>9, <2>1 DEF AddressObeyed
    <2>2. CASE w.t = "rel"
      <3>1. w.v \in Nat /\ w.i \in 1 .. 5 /\ x2.a = o_wb_addr + SignExtend(w.v, w.i)
        BY <1>5, <1>9, <2>2 DEF AddressObeyed
      <3>2. SignExtend(w.v, w.i) \in Int
        BY <3>1, Constants DEF SignExtend
      <3>3. x2.a \in Address /\ o_wb_addr \in Int
        BY <1>4, Constants DEF TypeOK, Line
      <3>4. Plus(o_wb_addr, SignExtend(w.v, w.i)) = x2.a
        BY <3>1, <3>2, <3>3, PlusFacts
      <3> QED  BY <1>2, <1>9, <2>2, <3>4 DEF AddressObeyed
    <2> QED  BY <1>2, <2>1, <2>2
  <1>11. x2.a \in Address /\ x2.a \in Int /\ o_wb_addr' \in Address
    BY <1>10, Constants DEF Line
  <1>12. BoardAt(x2)'
    <2>1. x2.a = o_wb_addr' + Times(rdleft', r_inc')
      BY <1>3, <1>5, <1>10, <1>11 DEF Times
    <2> QED  BY <1>2, <1>3, <1>5, <1>7, <1>10, <2>1 DEF BoardAt
  <1>13. Under(md, x2, y, z, u)'
    BY <1>3, <1>6, <1>7, <1>8, Unheard
  <1>14. BoardReading(md, x2, y, u)'
    BY <1>3, <1>5, <1>7, <1>8, <1>10 DEF BoardReading, BoardTable
  <1>15. Failed(md, u)' /\ Resting(md, u)'
    BY <1>3, <1>5, <1>7, <1>8 DEF Failed, Resting
  <1>16. TypeOK'
    BY <1>2, <1>3, <1>4, <1>5, <1>8, <1>11, Constants DEF TypeOK
  <1>17. Linked(md, x2, y, z, u)'
    BY <1>8, <1>12, <1>13, <1>14, <1>15 DEF Linked
  <1> QED  BY <1>16, <1>17, Zenon DEF LinkInv

LEMMA BoardWriteStep ==
    ASSUME NEW md, Setting(md), LinkInv(md), BoardWrite PROVE LinkInv(md)'
  <1>1. PICK x \in Line, y \in Line, z \in Heard, u \in Heard : Linked(md, x, y, z, u)
    BY Zenon DEF LinkInv
  <1>2. PICK w, v, n :
          /\ w.t \in {"write", "wref"} /\ Take(w)
          /\ v = IF w.t = "write" THEN w.v ELSE wr_tbl[(wr_addr - w.v) % WRTBL]
          /\ IF o_wb_addr \in ErrAddrs THEN n = Word("err", 0, 0) /\ UNCHANGED mem
             ELSE n = Word("ack", 0, 0) /\ mem' = [mem EXCEPT ![o_wb_addr] = v]
          /\ up' = Append(up, n)
          /\ o_wb_addr' = Plus(o_wb_addr, w.i)
          /\ r_new_addr' = 0
          /\ UNCHANGED <<r_inc, rdleft, tbl_addr, tbl_filled, rd_tbl, host>>
    <2>1. PICK w : /\ w.t \in {"write", "wref"} /\ Take(w)
                   /\ LET v == IF w.t = "write" THEN w.v ELSE wr_tbl[(wr_addr - w.v) % WRTBL]
                      IN IF o_wb_addr \in ErrAddrs
                         THEN stuck' = TRUE /\ UNCHANGED mem /\ Answer(Word("err", 0, 0))
                         ELSE /\ mem' = [mem EXCEPT ![o_wb_addr] = v]
                              /\ Answer(Word("ack", 0, 0))
                              /\ UNCHANGED stuck
                   /\ o_wb_addr' = Plus(o_wb_addr, w.i)
                   /\ r_new_addr' = 0
                   /\ UNCHANGED <<r_inc, rdleft, tbl_addr, tbl_filled, rd_tbl, host>>
      BY Zenon DEF BoardWrite
    <2>2. CASE o_wb_addr \in ErrAddrs
      <3>1. UNCHANGED mem /\ up' = Append(up, Word("err", 0, 0))
        BY <2>1, <2>2 DEF Answer
      <3> QED  BY <2>1, <2>2, <3>1, Zenon
    <2>3. CASE o_wb_addr \notin ErrAddrs
      <3>1. up' = Append(up, Word("ack", 0, 0))
        BY <2>1, <2>3 DEF Answer
      <3> QED  BY <2>1, <2>3, <3>1, Zenon
    <2> QED  BY <2>2, <2>3
  <1>3. /\ r_inc' = r_inc /\ rdleft' = rdleft /\ tbl_addr' = tbl_addr /\ tbl_filled' = tbl_filled
        /\ rd_tbl' = rd_tbl /\ UNCHANGED host
    BY <1>2
  <1>4. TypeOK
    BY DEF LinkInv
  <1>5. /\ w \in Words /\ down' \in Seq(Words) /\ rdleft = 0 /\ x.a = o_wb_addr
        /\ w.t # "write" => Ring(wr_tbl', wr_addr', x.h, Len(x.h), WRTBL, WRTBL - 1)
        /\ w.t = "write" /\ w.v \in Values =>
              Ring(wr_tbl', wr_addr', Append(x.h, w.v), Len(Append(x.h, w.v)), WRTBL, WRTBL - 1)
        /\ w.t # "write" \/ w.v \in Values =>
              wr_addr' \in 0 .. WRTBL - 1 /\ wr_tbl' \in [0 .. WRTBL - 1 -> Values \cup {Junk}]
        /\ pc = "reading" => u.f = 0
    <2>1. Take(w)
      BY <1>2
    <2> QED  BY <1>1, <1>4, <2>1, Taken, Zenon
  <1>6. PICK x2 \in Line : /\ Obeys(md, FromOf, IncOf, LimOf, x, w, x2)
                           /\ Chain(Obeying(md, FromOf, IncOf, LimOf), Line, x2, down', y)
    BY <1>1, <1>2, <1>4, Taken
  <1>7. HostAt(y) /\ PcOf(md) /\ Writing(md) /\ HostReading(md, z) /\ Under(md, x, y, z, u) /\ BoardAt(x)
        /\ BoardReading(md, x, y, u) /\ Resting(md, u)
    BY <1>1 DEF Linked
  <1>8. WriteObeyed(md, x, w, x2)
    BY <1>2, <1>6 DEF Obeys, AddressObeyed, EndObeyed, ReadObeyed
  <1>9. md # "readers"
    BY <1>8 DEF WriteObeyed
  <1>10. /\ HostAt(y)' /\ PcOf(md)' /\ Writing(md)' /\ HostReading(md, z)'
        /\ FromOf' = FromOf /\ IncOf' = IncOf /\ LimOf' = LimOf /\ Shown(md)' = Shown(md)
        /\ pc' = pc /\ call' = call /\ got' = got /\ m_addr_set' = m_addr_set /\ m_rdaddr' = m_rdaddr
        /\ m_readtbl' = m_readtbl /\ m_lastaddr' = m_lastaddr /\ meant' = meant /\ m_wraddr' = m_wraddr
        /\ m_wrloaded' = m_wrloaded /\ m_writetbl' = m_writetbl
    BY <1>3, <1>7, <1>9, HostKept
  <1>11. x2.a = o_wb_addr' /\ x2.p = 0 /\ x2.f = 0 /\ x2.t = x.t /\ x.p = 0
    <2>1. w.i \in Bits /\ w.i \in Int /\ x2.a = o_wb_addr + w.i
      BY <1>5, <1>8, Constants DEF WriteObeyed
    <2>2. x2.a \in Address /\ o_wb_addr \in Int
      BY <1>4, Constants DEF TypeOK, Line
    <2>3. Plus(o_wb_addr, w.i) = x2.a
      BY <2>1, <2>2, PlusFacts
    <2> QED  BY <1>2, <1>8, <2>3 DEF WriteObeyed
  <1>12. x2.a \in Address /\ x2.a \in Int /\ o_wb_addr' \in Address
    BY <1>11, Constants DEF Line
  <1>13. mem' = Stored(mem, o_wb_addr, v)
    BY <1>2 DEF Stored
  <1>14. /\ x2.m = mem'
         /\ Ring(wr_tbl', wr_addr', x2.h, Len(x2.h), WRTBL, WRTBL - 1)
         /\ wr_addr' \in 0 .. WRTBL - 1 /\ wr_tbl' \in [0 .. WRTBL - 1 -> Values \cup {Junk}]
    <2>1. x.m = mem /\ Ring(wr_tbl, wr_addr, x.h, Len(x.h), WRTBL, WRTBL - 1)
      BY <1>7 DEF BoardAt
    <2>2. CASE w.t = "write"
      <3>1. w.v \in Values /\ x2.h = Append(x.h, w.v) /\ x2.m = Stored(x.m, x.a, w.v) /\ v = w.v
        BY <1>2, <1>8, <2>2 DEF WriteObeyed
      <3> QED  BY <1>5, <1>13, <2>1, <2>2, <3>1, Zenon
    <2>3. CASE w.t = "wref"
      <3>1. /\ w.v \in 1 .. WRTBL - 1 /\ w.v <= Len(x.h) /\ x2.h = x.h
            /\ x2.m = Stored(x.m, x.a, x.h[Len(x.h) - w.v + 1])
            /\ v = wr_tbl[(wr_addr - w.v) % WRTBL]
        BY <1>2, <1>8, <2>3 DEF WriteObeyed
      <3>2. wr_tbl[(wr_addr - w.v) % WRTBL] = x.h[Len(x.h) - w.v + 1]
        BY <2>1, <3>1, Zenon DEF Ring
      <3>3. w.t # "write"
        BY <2>3
      <3> QED  BY <1>5, <1>13, <2>1, <3>1, <3>2, <3>3, Zenon
    <2> QED  BY <1>2, <2>2, <2>3
  <1>15. BoardAt(x2)'
    <2>1. x2.a = o_wb_addr' + Times(rdleft', r_inc')
      BY <1>3, <1>5, <1>11, <1>12 DEF Times
    <2> QED  BY <1>2, <1>11, <1>14, <2>1 DEF BoardAt
  <1>16. n \in Words /\ n.t \in {"ack", "err"} /\ (md = "safe" => n.t = "ack")
    <2>1. md = "safe" => o_wb_addr \notin ErrAddrs
      BY <1>5, <1>8 DEF WriteObeyed
    <2> QED  BY <1>2, <2>1, WordFields DEF Kinds
  <1>17. ASSUME md # "writes" PROVE Hears(md, Shown(md), FromOf, IncOf, LimOf, u, n, u)
    <2>1. n.t = "ack"
      <3>1. CASE o_wb_addr \in ErrAddrs
        <4>1. md = "safe"
          BY <1>9, <1>17 DEF Setting, Settings
        <4> QED  BY <1>16, <4>1
      <3>2. CASE o_wb_addr \notin ErrAddrs
        BY <1>2, <3>2, WordFields
      <3> QED  BY <3>1, <3>2
    <2> QED  BY <1>9, <2>1 DEF Hears, NothingHeard
  <1>18. Under(md, x2, y, z, u)' /\ up' \in Seq(Words)
    <2>1. up \in Seq(Words)
      BY <1>4 DEF TypeOK
    <2> QED  BY <1>2, <1>6, <1>7, <1>10, <1>16, <1>17, <2>1, Said
  <1>19. BoardReading(md, x2, y, u)'
    BY <1>3, <1>5, <1>7, <1>9, <1>10, <1>11 DEF BoardReading, BoardTable
  <1>20. Failed(md, u)' /\ Resting(md, u)'
    BY <1>3, <1>5, <1>7, <1>9, <1>10 DEF Failed, Resting
  <1>21. mem' \in [Address -> Values]
    BY <1>14 DEF Line
  <1>22. TypeOK'
    BY <1>2, <1>3, <1>4, <1>5, <1>10, <1>12, <1>14, <1>18, <1>21, Constants DEF TypeOK
  <1>23. Linked(md, x2, y, z, u)'
    BY <1>10, <1>15, <1>18, <1>19, <1>20 DEF Linked
  <1> QED  BY <1>22, <1>23, Zenon DEF LinkInv

LEMMA BoardEndOfWriteStep ==
    ASSUME NEW md, LinkInv(md), BoardEndOfWrite PROVE LinkInv(md)'
  <1>1. PICK x \in Line, y \in Line, z \in Heard, u \in Heard : Linked(md, x, y, z, u)
    BY Zenon DEF LinkInv
  <1>2. PICK w : /\ w.t = "eow" /\ Take(w)
                 /\ UNCHANGED <<o_wb_addr, r_new_addr, r_inc, rdleft, tbl_addr, tbl_filled,
                                rd_tbl, last_out_nl, mem, up, host>>
    BY Zenon DEF BoardEndOfWrite
  <1>3. /\ o_wb_addr' = o_wb_addr /\ r_new_addr' = r_new_addr /\ r_inc' = r_inc /\ rdleft' = rdleft
        /\ tbl_addr' = tbl_addr /\ tbl_filled' = tbl_filled
        /\ rd_tbl' = rd_tbl /\ mem' = mem /\ up' = up /\ UNCHANGED host
    BY <1>2
  <1>4. TypeOK
    BY DEF LinkInv
  <1>5. /\ w \in Words /\ down' \in Seq(Words) /\ rdleft = 0 /\ x.a = o_wb_addr
        /\ Ring(wr_tbl', wr_addr', x.h, Len(x.h), WRTBL, WRTBL - 1)
        /\ wr_addr' \in 0 .. WRTBL - 1 /\ wr_tbl' \in [0 .. WRTBL - 1 -> Values \cup {Junk}]
        /\ pc = "reading" => u.f = 0
        /\ md = "readers" => pc = "reading"
    BY <1>1, <1>2, <1>4, Taken
  <1>6. PICK x2 \in Line : /\ Obeys(md, FromOf, IncOf, LimOf, x, w, x2)
                           /\ Chain(Obeying(md, FromOf, IncOf, LimOf), Line, x2, down', y)
    BY <1>1, <1>2, <1>4, Taken
  <1>7. HostAt(y) /\ PcOf(md) /\ Writing(md) /\ HostReading(md, z) /\ Under(md, x, y, z, u) /\ BoardAt(x)
        /\ BoardReading(md, x, y, u) /\ Resting(md, u)
    BY <1>1 DEF Linked
  <1>8. /\ HostAt(y)' /\ PcOf(md)' /\ Writing(md)' /\ HostReading(md, z)'
        /\ FromOf' = FromOf /\ IncOf' = IncOf /\ LimOf' = LimOf /\ Shown(md)' = Shown(md)
        /\ pc' = pc /\ call' = call /\ got' = got /\ m_addr_set' = m_addr_set /\ m_rdaddr' = m_rdaddr
        /\ m_readtbl' = m_readtbl /\ m_lastaddr' = m_lastaddr /\ meant' = meant /\ m_wraddr' = m_wraddr
        /\ m_wrloaded' = m_wrloaded /\ m_writetbl' = m_writetbl
    BY <1>3, <1>7, HostKept
  <1>9. x2 = x
    BY <1>2, <1>6 DEF Obeys, WriteObeyed, AddressObeyed, ReadObeyed, EndObeyed
  <1>10. BoardAt(x)'
    BY <1>3, <1>5, <1>7 DEF BoardAt
  <1>11. Under(md, x, y, z, u)'
    BY <1>3, <1>6, <1>7, <1>8, <1>9, Unheard
  <1>12. BoardReading(md, x, y, u)'
    BY <1>3, <1>5, <1>7, <1>8 DEF BoardReading, BoardTable
  <1>13. Failed(md, u)' /\ Resting(md, u)'
    BY <1>3, <1>5, <1>7, <1>8 DEF Failed, Resting
  <1>14. TypeOK'
    BY <1>2, <1>3, <1>4, <1>5, <1>8, Constants DEF TypeOK
  <1>15. Linked(md, x, y, z, u)'
    BY <1>8, <1>10, <1>11, <1>12, <1>13 DEF Linked
  <1> QED  BY <1>14, <1>15, Zenon DEF LinkInv

(* A read is taken on: a new address is confirmed, and empties the table.     *)
LEMMA BoardReadStep ==
    ASSUME NEW md, LinkInv(md), BoardRead PROVE LinkInv(md)'
  <1>1. PICK x \in Line, y \in Line, z \in Heard, u \in Heard : Linked(md, x, y, z, u)
    BY Zenon DEF LinkInv
  <1>2. PICK w : /\ w.t = "read" /\ Take(w) /\ rdleft' = w.v /\ r_inc' = w.i
                 /\ IF r_new_addr = 1
                    THEN /\ up' = Append(up, Word("addr", o_wb_addr, 0))
                         /\ tbl_addr' = 0 /\ tbl_filled' = FALSE
                    ELSE up' = up /\ tbl_addr' = tbl_addr /\ tbl_filled' = tbl_filled
                 /\ r_new_addr' = 0
                 /\ o_wb_addr' = o_wb_addr /\ rd_tbl' = rd_tbl /\ mem' = mem /\ UNCHANGED host
    <2>1. PICK w : /\ w.t = "read" /\ Take(w) /\ ReadStart(w) /\ r_new_addr' = 0
                   /\ UNCHANGED <<o_wb_addr, rd_tbl, mem, host>>
      BY Zenon DEF BoardRead
    <2>2. /\ rdleft' = w.v /\ r_inc' = w.i
          /\ IF r_new_addr = 1
             THEN /\ up' = Append(up, Word("addr", o_wb_addr, 0))
                  /\ tbl_addr' = 0 /\ tbl_filled' = FALSE
             ELSE up' = up /\ tbl_addr' = tbl_addr /\ tbl_filled' = tbl_filled
      BY <2>1 DEF ReadStart, Answer
    <2> QED  BY <2>1, <2>2
  <1>4. TypeOK
    BY DEF LinkInv
  <1>5. /\ w \in Words /\ down' \in Seq(Words) /\ rdleft = 0 /\ x.a = o_wb_addr
        /\ Ring(wr_tbl', wr_addr', x.h, Len(x.h), WRTBL, WRTBL - 1)
        /\ wr_addr' \in 0 .. WRTBL - 1 /\ wr_tbl' \in [0 .. WRTBL - 1 -> Values \cup {Junk}]
        /\ pc = "reading" => u.f = 0
    BY <1>1, <1>2, <1>4, Taken
  <1>6. PICK x2 \in Line : /\ Obeys(md, FromOf, IncOf, LimOf, x, w, x2)
                           /\ Chain(Obeying(md, FromOf, IncOf, LimOf), Line, x2, down', y)
    BY <1>1, <1>2, <1>4, Taken
  <1>7. HostAt(y) /\ PcOf(md) /\ Writing(md) /\ HostReading(md, z) /\ Under(md, x, y, z, u) /\ BoardAt(x)
        /\ BoardReading(md, x, y, u) /\ Resting(md, u)
    BY <1>1 DEF Linked
  <1>8. /\ HostAt(y)' /\ PcOf(md)' /\ Writing(md)' /\ HostReading(md, z)'
        /\ FromOf' = FromOf /\ IncOf' = IncOf /\ LimOf' = LimOf /\ Shown(md)' = Shown(md)
        /\ pc' = pc /\ call' = call /\ got' = got /\ m_addr_set' = m_addr_set /\ m_rdaddr' = m_rdaddr
        /\ m_readtbl' = m_readtbl /\ m_lastaddr' = m_lastaddr /\ meant' = meant /\ m_wraddr' = m_wraddr
        /\ m_wrloaded' = m_wrloaded /\ m_writetbl' = m_writetbl
    BY <1>2, <1>7, HostKept
  <1>9. ReadObeyed(md, FromOf, IncOf, LimOf, x, w, x2)
    BY <1>2, <1>6 DEF Obeys, WriteObeyed, AddressObeyed, EndObeyed
  <1>10. /\ w.v \in Nat \ {0} /\ w.i = IncOf /\ md # "writes" /\ (x.f = 1 \/ x.t = 1)
         /\ x.a = FromOf + Times(x.p, IncOf) /\ x2.p = x.p + w.v /\ x2.p <= LimOf
         /\ Failing(md) => x2.p = LimOf
         /\ md = "readers" => (x.f = 1 => x.t = 0)
         /\ x2.a = FromOf + Times(x2.p, IncOf) /\ x2.h = x.h /\ x2.m = x.m /\ x2.f = 0 /\ x2.t = 1
    BY <1>9, Zenon DEF ReadObeyed
  <1>11. x.p \in Nat /\ x2.p \in Nat /\ x.a \in Address
    BY DEF Line
  <1>12. pc = "reading" /\ FromOf = call.a /\ IncOf = call.inc /\ LimOf = call.cmdrd
    <2>1. LimOf # 0
      BY <1>10, <1>11
    <2> QED  BY <2>1 DEF FromOf, IncOf, LimOf
  <1>13. /\ y.p = call.cmdrd /\ y.a = call.a + Times(call.cmdrd, call.inc) /\ y.f = 0 /\ y.t = 1
         /\ x.t = u.t /\ x.p = u.g /\ (x.f = 1 => x.p = 0) /\ u.f = 0 /\ u.g \in Nat /\ u.t \in Bits /\ x.f = r_new_addr
         /\ md = "readers" /\ u.t = 1 => BoardTable(u)
    BY <1>5, <1>7, <1>12 DEF BoardReading, Heard, BoardAt
  <1>14. call.a \in Int /\ call.inc \in Bits /\ o_wb_addr \in Address /\ o_wb_addr \in Int /\ r_new_addr \in {0, 1}
         /\ call.cmdrd \in Nat
    BY <1>4, Constants DEF TypeOK
  <1>15. BoardAt(x2)'
    <2>1. Times(x2.p, IncOf) = Times(x.p, IncOf) + Times(w.v, IncOf) /\ Times(x.p, IncOf) \in Int /\ Times(w.v, IncOf) \in Int
      <3>1. x.p \in Int /\ w.v \in Int /\ IncOf \in Bits
        BY <1>10, <1>11, <1>12, <1>14
      <3>2. Times(x.p + w.v, IncOf) = Times(x.p, IncOf) + Times(w.v, IncOf) /\ Times(x.p, IncOf) \in Int /\ Times(w.v, IncOf) \in Int
        BY <3>1, TimesFacts
      <3> QED  BY <1>10, <3>2
    <2>2. x2.a = o_wb_addr' + Times(rdleft', r_inc')
      BY <1>2, <1>5, <1>10, <1>12, <1>14, <2>1
    <2> QED  BY <1>2, <1>5, <1>7, <1>10, <2>2 DEF BoardAt
  <1>16. up \in Seq(Words) /\ tbl_addr \in 0 .. RDTBL - 1 /\ rd_tbl \in [0 .. RDTBL - 1 -> Values \cup {Junk}]
         /\ tbl_filled \in BOOLEAN
    BY <1>4 DEF TypeOK
  <1>17. \E u2 \in Heard :
           /\ Under(md, x2, y, z, u2)' /\ up' \in Seq(Words)
           /\ u2.f = 0 /\ u2.t = 1 /\ u2.g = u.g
           /\ md = "readers" => BoardTable(u2)'
           /\ tbl_addr' \in 0 .. RDTBL - 1 /\ tbl_filled' \in BOOLEAN
    <2>1. CASE r_new_addr = 1
      <3>1. PICK u2 \in Heard : u2.g = u.g /\ u2.t = 1 /\ u2.q = <<>> /\ u2.f = 0
        <4>1. [g |-> u.g, t |-> 1, q |-> <<>>, f |-> 0] \in Heard
          BY <1>13, Constants DEF Heard
        <4> QED  BY <4>1
      <3>2. PICK n : n = Word("addr", o_wb_addr, 0)
        OBVIOUS
      <3>3. n \in Words /\ n.t = "addr" /\ n.v = o_wb_addr /\ up' = Append(up, n) /\ tbl_addr' = 0 /\ tbl_filled' = FALSE
        BY <1>2, <1>14, <2>1, <3>2, WordFields, Constants, SMTT(60) DEF Kinds
      <3>4. u.g = 0
        BY <1>13, <2>1
      <3>5. n.v = FromOf
        <4>1. x.p = 0
          BY <1>13, <3>4
        <4>2. o_wb_addr = FromOf + Times(0, IncOf) /\ FromOf \in Int
          BY <1>5, <1>10, <1>12, <1>14, <4>1
        <4> QED  BY <3>3, <4>2 DEF Times
      <3>6. AddressHeard(md, FromOf, LimOf, u, n, u2)
        <4>1. LimOf > 0
          BY <1>10, <1>11, <1>12, <1>14
        <4>2. md = "readers" => u.t = 0
          BY <1>10, <1>13, <2>1
        <4> QED  BY <1>13, <3>1, <3>3, <3>4, <3>5, <4>1, <4>2 DEF AddressHeard
      <3>7. Hears(md, Shown(md), FromOf, IncOf, LimOf, u, n, u2)
        BY <3>6 DEF Hears
      <3>8. Under(md, x2, y, z, u2)' /\ up' \in Seq(Words)
        BY <1>6, <1>7, <1>8, <1>16, <3>3, <3>7, Said
      <3>9. BoardTable(u2)'
        <4>1. Ring(rd_tbl', tbl_addr', u2.q, 0, RDTBL, MAXD)
          <5>1. 0 \in 0 .. RDTBL - 1 /\ u2.q \in Seq(Values)
            BY <3>1, Constants DEF Heard
          <5> QED  BY <3>3, <5>1, Constants, RingEmpty
        <4>2. Len(u2.q) = 0
          BY <3>1
        <4>3. Reach(tbl_addr', tbl_filled', 0, RDTBL)
          BY <3>3 DEF Reach
        <4>4. PICK l : l = Len(u2.q) /\ l = 0
          BY <4>2
        <4>5. Ring(rd_tbl', tbl_addr', u2.q, Len(u2.q), RDTBL, MAXD) /\ Reach(tbl_addr', tbl_filled', Len(u2.q), RDTBL)
          BY <4>1, <4>3, <4>4
        <4> QED  BY <4>5 DEF BoardTable
      <3>10. tbl_addr' \in 0 .. RDTBL - 1 /\ tbl_filled' \in BOOLEAN
        <4>1. 0 \in 0 .. RDTBL - 1
          BY Constants
        <4>2. FALSE \in BOOLEAN
          OBVIOUS
        <4> QED  BY <3>3, <4>1, <4>2, Zenon
      <3> QED  BY <3>1, <3>8, <3>9, <3>10
    <2>2. CASE r_new_addr = 0
      <3>1. u.t = 1 /\ up' = up /\ tbl_addr' = tbl_addr /\ tbl_filled' = tbl_filled /\ rd_tbl' = rd_tbl
        BY <1>2, <1>10, <1>13, <2>2
      <3>2. Under(md, x2, y, z, u)'
        BY <1>6, <1>7, <1>8, <3>1, Unheard
      <3>3. md = "readers" => BoardTable(u)'
        BY <1>13, <3>1 DEF BoardTable
      <3> QED  BY <1>13, <1>16, <3>1, <3>2, <3>3
    <2> QED  BY <1>14, <2>1, <2>2
  <1>18. PICK u2 \in Heard :
           /\ Under(md, x2, y, z, u2)' /\ up' \in Seq(Words)
           /\ u2.f = 0 /\ u2.t = 1 /\ u2.g = u.g
           /\ md = "readers" => BoardTable(u2)'
           /\ tbl_addr' \in 0 .. RDTBL - 1 /\ tbl_filled' \in BOOLEAN
    BY <1>17
  <1>19. BoardReading(md, x2, y, u2)'
    <2>1. o_wb_addr' = call.a + Times(u.g, call.inc) /\ rdleft' \in Nat /\ x2.p = u.g + rdleft'
      BY <1>2, <1>5, <1>10, <1>12, <1>13
    <2> QED  BY <1>2, <1>8, <1>10, <1>12, <1>13, <1>18, <2>1 DEF BoardReading
  <1>20. Failed(md, u2)' /\ Resting(md, u2)'
    BY <1>8, <1>12, <1>18 DEF Failed, Resting
  <1>21. TypeOK'
    <2>1. rdleft' \in Nat /\ r_inc' \in Bits
      BY <1>2, <1>10, <1>12, <1>14
    <2> QED  BY <1>2, <1>4, <1>5, <1>8, <1>18, <2>1, Constants DEF TypeOK
  <1>22. Linked(md, x2, y, z, u2)'
    BY <1>8, <1>15, <1>18, <1>19, <1>20 DEF Linked
  <1> QED  BY <1>21, <1>22, Zenon DEF LinkInv

LEMMA CallFacts ==
    ASSUME TypeOK
    PROVE  /\ call.a \in Nat /\ call.a \in Address /\ call.inc \in Bits /\ call.inc \in {0, 1} /\ call.inc \in Nat
           /\ call.cmdrd \in Nat /\ call.n \in Nat
           /\ o_wb_addr \in Address /\ o_wb_addr \in Nat /\ o_wb_addr \in Int
  <1>1. call.a \in Address /\ call.inc \in Bits /\ call.cmdrd \in Nat /\ call.n \in Nat /\ o_wb_addr \in Address
    BY DEF TypeOK
  <1> QED  BY <1>1, Constants

LEMMA HeardFacts ==
    ASSUME NEW u \in Heard
    PROVE  u.g \in Nat /\ u.t \in Bits /\ u.q \in Seq(Values) /\ u.f \in Bits /\ u.f \in {0, 1} /\ u.t \in {0, 1}
  BY Constants DEF Heard

LEMMA HeardRecord ==
    ASSUME NEW g \in Nat, NEW t \in {0, 1}, NEW q \in Seq(Values), NEW f \in {0, 1}
    PROVE  \E u \in Heard : u.g = g /\ u.t = t /\ u.q = q /\ u.f = f
  <1>1. [g |-> g, t |-> t, q |-> q, f |-> f] \in Heard
    BY DEF Heard, Bits
  <1> QED  BY <1>1

LEMMA LineRecord ==
    ASSUME NEW a \in Address, NEW p \in Nat, NEW h \in Seq(Values), NEW m \in [Address -> Values],
           NEW f \in {0, 1}, NEW t \in {0, 1}
    PROVE  \E x \in Line : x.a = a /\ x.p = p /\ x.h = h /\ x.m = m /\ x.f = f /\ x.t = t
  <1>1. [a |-> a, p |-> p, h |-> h, m |-> m, f |-> f, t |-> t] \in Line
    BY DEF Line, Bits
  <1> QED  BY <1>1

(* One word of a read comes back, in full or as a reference.                  *)
LEMMA BoardReadAnswerStep ==
    ASSUME NEW md, LinkInv(md), BoardReadAnswer PROVE LinkInv(md)'
  <1>1. PICK x \in Line, y \in Line, z \in Heard, u \in Heard : Linked(md, x, y, z, u)
    BY Zenon DEF LinkInv
  <1>2. TypeOK
    BY DEF LinkInv
  <1>3. PICK v : v = mem[o_wb_addr]
    OBVIOUS
  <1>4. /\ rdleft > 0 /\ o_wb_addr' = Plus(o_wb_addr, r_inc) /\ rdleft' = rdleft - 1
        /\ r_new_addr' = r_new_addr /\ r_inc' = r_inc /\ wr_addr' = wr_addr /\ wr_tbl' = wr_tbl
        /\ mem' = mem /\ down' = down /\ UNCHANGED host
    BY DEF BoardReadAnswer
  <1>5. \/ /\ up' = Append(up, Word("raw", v, r_inc))
           /\ rd_tbl' = [rd_tbl EXCEPT ![tbl_addr] = v]
           /\ tbl_addr' = (tbl_addr + 1) % RDTBL
           /\ tbl_filled' = (tbl_filled \/ tbl_addr' = RDTBL - 1)
        \/ \E d \in Matches(v) :
              /\ up' = Append(up, Word("ref", d, r_inc))
              /\ rd_tbl' = rd_tbl /\ tbl_addr' = tbl_addr /\ tbl_filled' = tbl_filled
    <2>1. \/ /\ Answer(Word("raw", v, r_inc))
             /\ rd_tbl' = [rd_tbl EXCEPT ![tbl_addr] = v]
             /\ tbl_addr' = (tbl_addr + 1) % RDTBL
             /\ tbl_filled' = (tbl_filled \/ tbl_addr' = RDTBL - 1)
          \/ \E d \in Matches(v) :
                /\ Answer(Word("ref", d, r_inc))
                /\ UNCHANGED <<rd_tbl, tbl_addr, tbl_filled>>
      BY <1>3, Zenon DEF BoardReadAnswer
    <2> QED  BY <2>1, Zenon DEF Answer
  <1>6. HostAt(y) /\ PcOf(md) /\ Writing(md) /\ HostReading(md, z) /\ Under(md, x, y, z, u) /\ BoardAt(x)
        /\ BoardReading(md, x, y, u) /\ Resting(md, u) /\ Failed(md, u)
    BY <1>1 DEF Linked
  <1>7. /\ HostAt(y)' /\ PcOf(md)' /\ Writing(md)' /\ HostReading(md, z)'
        /\ FromOf' = FromOf /\ IncOf' = IncOf /\ LimOf' = LimOf /\ Shown(md)' = Shown(md)
        /\ pc' = pc /\ call' = call /\ got' = got /\ m_addr_set' = m_addr_set /\ m_rdaddr' = m_rdaddr
        /\ m_readtbl' = m_readtbl /\ m_lastaddr' = m_lastaddr /\ meant' = meant /\ m_wraddr' = m_wraddr
        /\ m_wrloaded' = m_wrloaded /\ m_writetbl' = m_writetbl
    BY <1>4, <1>6, HostKept
  <1>8. /\ rdleft \in Nat \ {0} /\ rdleft' \in Nat /\ pc = "reading" /\ u.f = 0
        /\ FromOf = call.a /\ IncOf = call.inc /\ LimOf = call.cmdrd
    <2>1. rdleft \in Nat
      BY <1>2 DEF TypeOK
    <2>2. pc = "reading"
      BY <1>4, <1>6, <2>1 DEF Resting
    <2>3. u.f \in {0, 1}
      BY Constants DEF Heard
    <2>4. u.f = 0
      BY <1>4, <1>6, <2>1, <2>2, <2>3 DEF Failed
    <2> QED  BY <1>4, <2>1, <2>2, <2>4 DEF FromOf, IncOf, LimOf
  <1>9. /\ y.p = call.cmdrd /\ y.a = call.a + Times(call.cmdrd, call.inc) /\ y.f = 0 /\ y.t = 1
        /\ x.t = u.t /\ x.p = u.g + rdleft /\ x.p <= call.cmdrd /\ (x.f = 1 => x.p = 0)
        /\ r_inc = call.inc /\ o_wb_addr = call.a + Times(u.g, call.inc) /\ x.t = 1 /\ x.f = 0
        /\ Failing(md) => x.p = call.cmdrd
        /\ md = "readers" => BoardTable(u)
    BY <1>6, <1>8 DEF BoardReading
  <1>10. /\ call.a \in Nat /\ call.inc \in Bits /\ call.inc \in Nat /\ call.cmdrd \in Nat /\ call.n \in Nat
         /\ o_wb_addr \in Address /\ o_wb_addr \in Int
         /\ u.g \in Nat /\ u.q \in Seq(Values) /\ u.t \in Bits
         /\ call.cmdrd <= call.n /\ call.a + Times(call.n, call.inc) < NADDR
    <2>1. call.cmdrd <= call.n /\ call.a + Times(call.n, call.inc) < NADDR
      BY <1>6, <1>8 DEF HostReading
    <2> QED  BY <1>2, <2>1, CallFacts, HeardFacts
  <1>11. v \in Values /\ up \in Seq(Words) /\ tbl_addr \in 0 .. RDTBL - 1 /\ tbl_filled \in BOOLEAN
         /\ rd_tbl \in [0 .. RDTBL - 1 -> Values \cup {Junk}]
    BY <1>2, <1>3 DEF TypeOK
  <1>12. o_wb_addr' = call.a + Times(u.g + 1, call.inc) /\ o_wb_addr' \in Address
    <2>1. Times(u.g + 1, call.inc) = Times(u.g, call.inc) + call.inc /\ Times(u.g, call.inc) \in Nat
      BY <1>10 DEF Times, Bits
    <2>2. u.g + 1 <= call.n
      BY <1>8, <1>9, <1>10
    <2>3. Times(u.g + 1, call.inc) <= Times(call.n, call.inc) /\ Times(u.g + 1, call.inc) \in Nat /\ Times(call.n, call.inc) \in Nat
      BY <1>10, <2>2 DEF Times
    <2>4. o_wb_addr + call.inc = call.a + Times(u.g + 1, call.inc)
      BY <1>9, <1>10, <2>1
    <2>5. o_wb_addr + call.inc \in Address
      <3>1. PICK k \in Nat, j \in Nat : k = Times(u.g + 1, call.inc) /\ j = Times(call.n, call.inc) /\ k <= j
        BY <2>3
      <3>2. PICK b \in Nat : b = call.a /\ b + j < NADDR
        BY <1>10, <3>1
      <3>3. NADDR \in Int
        BY Constants
      <3>4. b + k < NADDR /\ b + k \in Nat
        BY <3>1, <3>2, <3>3
      <3>5. b + k \in Address
        BY <3>4, Constants, Zenon
      <3> QED  BY <2>4, <3>1, <3>2, <3>5
    <2>6. Plus(o_wb_addr, call.inc) = o_wb_addr + call.inc
      BY <1>10, <2>5, PlusFacts
    <2> QED  BY <1>4, <1>9, <2>4, <2>5, <2>6
  <1>13. BoardAt(x)'
    <2>1. x.a = o_wb_addr + Times(rdleft, call.inc)
      BY <1>6, <1>9 DEF BoardAt
    <2>2. o_wb_addr' = o_wb_addr + call.inc
      <3>1. Times(u.g + 1, call.inc) = Times(u.g, call.inc) + call.inc /\ Times(u.g, call.inc) \in Nat
        BY <1>10 DEF Times, Bits
      <3> QED  BY <1>9, <1>10, <1>12, <3>1
    <2>3. Times(rdleft, call.inc) = call.inc + Times(rdleft - 1, call.inc)
      BY <1>8, <1>10 DEF Times, Bits
    <2>4. Times(rdleft - 1, call.inc) \in Int
      BY <1>8 DEF Times
    <2>5. x.a = o_wb_addr' + Times(rdleft', r_inc')
      BY <1>4, <1>9, <1>10, <2>1, <2>2, <2>3, <2>4
    <2> QED  BY <1>4, <1>6, <2>5 DEF BoardAt
  <1>14. u.g < LimOf /\ (md = "readers" => v = Shown(md)[Plus(FromOf, Times(u.g, IncOf))])
    <2>1. u.g < LimOf
      BY <1>8, <1>9, <1>10
    <2>2. Times(u.g, call.inc) \in Int
      BY <1>10 DEF Times
    <2>3. Plus(FromOf, Times(u.g, IncOf)) = o_wb_addr
      BY <1>8, <1>9, <1>10, <2>2, PlusFacts
    <2> QED  BY <1>3, <2>1, <2>3 DEF Shown
  <1>15. Chain(Obeying(md, FromOf, IncOf, LimOf), Line, x, down', y)
    BY <1>4, <1>6, Zenon DEF Under
  <1>16. \E u2 \in Heard :
           /\ Under(md, x, y, z, u2)' /\ up' \in Seq(Words)
           /\ u2.f = 0 /\ u2.t = 1 /\ u2.g = u.g + 1
           /\ md = "readers" => BoardTable(u2)'
           /\ tbl_addr' \in 0 .. RDTBL - 1 /\ tbl_filled' \in BOOLEAN
           /\ rd_tbl' \in [0 .. RDTBL - 1 -> Values \cup {Junk}]
    <2>1. CASE /\ up' = Append(up, Word("raw", v, r_inc))
               /\ rd_tbl' = [rd_tbl EXCEPT ![tbl_addr] = v]
               /\ tbl_addr' = (tbl_addr + 1) % RDTBL
               /\ tbl_filled' = (tbl_filled \/ tbl_addr' = RDTBL - 1)
      <3>1. PICK u2 \in Heard : u2.g = u.g + 1 /\ u2.t = 1 /\ u2.q = Append(u.q, v) /\ u2.f = 0
        <4>1. u.g + 1 \in Nat /\ Append(u.q, v) \in Seq(Values)
          BY <1>10, <1>11
        <4> QED  BY <4>1, HeardRecord, ZenonT(60)
      <3>2. PICK n : n = Word("raw", v, r_inc)
        OBVIOUS
      <3>3. n \in Words /\ n.t = "raw" /\ n.v = v /\ n.i = IncOf /\ up' = Append(up, n)
        BY <1>8, <1>9, <1>10, <1>11, <2>1, <3>2, WordFields, SMTT(60) DEF Kinds
      <3>4. WordHeard(md, Shown(md), FromOf, IncOf, LimOf, u, n, u2)
        BY <1>8, <1>9, <1>11, <1>14, <3>1, <3>3, Zenon DEF WordHeard
      <3>5. Hears(md, Shown(md), FromOf, IncOf, LimOf, u, n, u2)
        BY <3>4 DEF Hears
      <3>6. Under(md, x, y, z, u2)' /\ up' \in Seq(Words)
        BY <1>6, <1>7, <1>11, <1>15, <3>3, <3>5, Said
      <3>7. tbl_addr' \in 0 .. RDTBL - 1 /\ rd_tbl' \in [0 .. RDTBL - 1 -> Values \cup {Junk}]
        BY <1>11, <2>1, Constants
      <3>8. tbl_filled' \in BOOLEAN
        BY <2>1, Zenon
      <3>9. ASSUME md = "readers" PROVE BoardTable(u2)'
        <4>1. Ring(rd_tbl, tbl_addr, u.q, Len(u.q), RDTBL, MAXD) /\ Reach(tbl_addr, tbl_filled, Len(u.q), RDTBL)
          BY <1>9, <3>9 DEF BoardTable
        <4>2. Ring(rd_tbl', tbl_addr', u2.q, Len(u.q) + 1, RDTBL, MAXD)
          <5>1. RDTBL \in Nat \ {0} /\ MAXD \in Nat /\ MAXD < RDTBL
            BY Constants
          <5>2. Ring([rd_tbl EXCEPT ![tbl_addr] = v], (tbl_addr + 1) % RDTBL, Append(u.q, v), Len(u.q) + 1, RDTBL, MAXD)
            BY <1>10, <1>11, <4>1, <5>1, RingPushed
          <5> QED  BY <2>1, <3>1, <5>2, Zenon
        <4>3. Len(u2.q) = Len(u.q) + 1 /\ Len(u.q) \in Nat
          BY <1>10, <3>1
        <4>4. Reach(tbl_addr', tbl_filled', Len(u.q) + 1, RDTBL)
          <5>1. tbl_addr <= Len(u.q) /\ (tbl_filled = TRUE => Len(u.q) >= RDTBL - 1)
            BY <4>1 DEF Reach
          <5>2. tbl_addr' = (IF tbl_addr = RDTBL - 1 THEN 0 ELSE tbl_addr + 1)
            <6>1. 1 \in 1 .. RDTBL
              BY Constants
            <6> QED  BY <1>11, <2>1, <6>1, Constants, PlaceFacts
          <5>3. tbl_addr' <= Len(u.q) + 1
            BY <1>11, <4>3, <5>1, <5>2
          <5>4. ASSUME tbl_filled' = TRUE PROVE Len(u.q) + 1 >= RDTBL - 1
            <6>1. CASE tbl_filled = TRUE
              BY <4>3, <5>1, <6>1, Constants
            <6>2. CASE tbl_addr' = RDTBL - 1
              BY <5>3, <6>2
            <6>3. tbl_filled \/ tbl_addr' = RDTBL - 1
              BY <2>1, <5>4
            <6> QED  BY <1>11, <6>1, <6>2, <6>3
          <5> QED  BY <5>3, <5>4 DEF Reach
        <4>5. PICK l : l = Len(u2.q) /\ l = Len(u.q) + 1
          BY <4>3
        <4> QED  BY <4>2, <4>4, <4>5, Zenon DEF BoardTable
      <3> QED  BY <3>1, <3>6, <3>7, <3>8, <3>9
    <2>2. CASE \E d \in Matches(v) :
                  /\ up' = Append(up, Word("ref", d, r_inc))
                  /\ rd_tbl' = rd_tbl /\ tbl_addr' = tbl_addr /\ tbl_filled' = tbl_filled
      <3>1. PICK d \in Matches(v) :
                  /\ up' = Append(up, Word("ref", d, r_inc))
                  /\ rd_tbl' = rd_tbl /\ tbl_addr' = tbl_addr /\ tbl_filled' = tbl_filled
        BY <2>2
      <3>2. d \in 1 .. MAXD /\ (tbl_filled \/ d <= tbl_addr) /\ rd_tbl[(tbl_addr - d) % RDTBL] = v
        BY DEF Matches
      <3>3. PICK u2 \in Heard : u2.g = u.g + 1 /\ u2.t = 1 /\ u2.q = u.q /\ u2.f = 0
        <4>1. u.g + 1 \in Nat
          BY <1>10
        <4> QED  BY <1>10, <4>1, HeardRecord, SMTT(60)
      <3>4. PICK n : n = Word("ref", d, r_inc)
        OBVIOUS
      <3>5. n \in Words /\ n.t = "ref" /\ n.v = d /\ n.i = IncOf /\ up' = Append(up, n)
        BY <1>8, <1>9, <1>10, <3>1, <3>2, <3>4, WordFields, SMTT(60) DEF Kinds
      <3>6. ASSUME md = "readers" PROVE d <= Len(u.q) /\ u.q[Len(u.q) - d + 1] = v
        <4>1. Ring(rd_tbl, tbl_addr, u.q, Len(u.q), RDTBL, MAXD) /\ Reach(tbl_addr, tbl_filled, Len(u.q), RDTBL)
          BY <1>9, <3>6 DEF BoardTable
        <4>2. d \in 1 .. Len(u.q) /\ rd_tbl[(tbl_addr - d) % RDTBL] = u.q[Len(u.q) - d + 1]
          <5>1. RDTBL \in Nat \ {0} /\ MAXD \in Nat /\ MAXD < RDTBL
            BY Constants
          <5>2. tbl_filled = TRUE \/ d <= tbl_addr
            BY <1>11, <3>2
          <5>3. u.q \in Seq(Values) /\ tbl_filled \in BOOLEAN /\ d \in 1 .. MAXD
            BY <1>10, <1>11, <3>2
          <5>4. PICK q, f, e : q = u.q /\ f = tbl_filled /\ e = tbl_addr
            OBVIOUS
          <5>5. Ring(rd_tbl, e, q, Len(q), RDTBL, MAXD) /\ Reach(e, f, Len(q), RDTBL)
            BY <4>1, <5>4, Zenon
          <5>6. q \in Seq(Values) /\ f \in BOOLEAN /\ (f = TRUE \/ d <= e)
            BY <5>2, <5>3, <5>4, Zenon
          <5>7. d \in 1 .. Len(q) /\ rd_tbl[(e - d) % RDTBL] = q[Len(q) - d + 1]
            <6>1. e \in 0 .. RDTBL - 1 /\ \A k \in 1 .. MAXD : k <= Len(q) => rd_tbl[(e - k) % RDTBL] = q[Len(q) - k + 1]
              BY <5>5, Zenon DEF Ring
            <6>2. d <= Len(q)
              <7>1. e <= Len(q) /\ (f = TRUE => Len(q) >= RDTBL - 1)
                BY <5>5, Zenon DEF Reach
              <7>2. Len(q) \in Nat /\ d \in Nat /\ MAXD \in Int /\ RDTBL \in Int /\ e \in Int /\ d <= MAXD
                BY <5>1, <5>3, <5>6, <6>1
              <7> QED  BY <5>1, <5>6, <7>1, <7>2
            <6>3. d \in 1 .. Len(q)
              BY <5>3, <5>6, <6>2
            <6> QED  BY <5>3, <6>1, <6>2, <6>3, Zenon
          <5> QED  BY <5>4, <5>7
        <4> QED  BY <3>2, <4>2
      <3>7. WordHeard(md, Shown(md), FromOf, IncOf, LimOf, u, n, u2)
        BY <1>8, <1>9, <1>14, <3>2, <3>3, <3>5, <3>6, Zenon DEF WordHeard
      <3>8. Hears(md, Shown(md), FromOf, IncOf, LimOf, u, n, u2)
        BY <3>7 DEF Hears
      <3>9. Under(md, x, y, z, u2)' /\ up' \in Seq(Words)
        BY <1>6, <1>7, <1>11, <1>15, <3>5, <3>8, Said
      <3>10. md = "readers" => BoardTable(u2)'
        BY <1>9, <3>1, <3>3 DEF BoardTable
      <3> QED  BY <1>11, <3>1, <3>3, <3>9, <3>10
    <2> QED  BY <1>5, <2>1, <2>2
  <1>17. PICK u2 \in Heard :
           /\ Under(md, x, y, z, u2)' /\ up' \in Seq(Words)
           /\ u2.f = 0 /\ u2.t = 1 /\ u2.g = u.g + 1
           /\ md = "readers" => BoardTable(u2)'
           /\ tbl_addr' \in 0 .. RDTBL - 1 /\ tbl_filled' \in BOOLEAN
           /\ rd_tbl' \in [0 .. RDTBL - 1 -> Values \cup {Junk}]
    BY <1>16
  <1>18. BoardReading(md, x, y, u2)'
    <2>1. x.p = u2.g + rdleft'
      BY <1>4, <1>8, <1>9, <1>10, <1>17
    <2> QED  BY <1>4, <1>7, <1>9, <1>12, <1>17, <2>1 DEF BoardReading
  <1>19. Failed(md, u2)' /\ Resting(md, u2)'
    BY <1>7, <1>8, <1>17 DEF Failed, Resting
  <1>20. TypeOK'
    BY <1>2, <1>4, <1>7, <1>8, <1>12, <1>17 DEF TypeOK
  <1>21. Linked(md, x, y, z, u2)'
    BY <1>7, <1>13, <1>17, <1>18, <1>19 DEF Linked
  <1> QED  BY <1>20, <1>21, Zenon DEF LinkInv

(* A read that meets an address that does not answer: only a program that reads
   and does nothing else meets one.                                           *)
LEMMA BoardReadErrorStep ==
    ASSUME NEW md, Setting(md), LinkInv(md), BoardReadError PROVE LinkInv(md)'
  <1>1. PICK x \in Line, y \in Line, z \in Heard, u \in Heard : Linked(md, x, y, z, u)
    BY Zenon DEF LinkInv
  <1>2. TypeOK
    BY DEF LinkInv
  <1>3. /\ rdleft > 0 /\ o_wb_addr \in ErrAddrs /\ up' = Append(up, Word("err", 0, 0))
        /\ o_wb_addr' \in AfterError /\ rdleft' = 0
        /\ r_new_addr' = r_new_addr /\ r_inc' = r_inc /\ wr_addr' = wr_addr /\ wr_tbl' = wr_tbl
        /\ tbl_addr' = tbl_addr /\ tbl_filled' = tbl_filled /\ rd_tbl' = rd_tbl
        /\ mem' = mem /\ down' = down /\ UNCHANGED host
    BY DEF BoardReadError, Answer
  <1>4. HostAt(y) /\ PcOf(md) /\ Writing(md) /\ HostReading(md, z) /\ Under(md, x, y, z, u) /\ BoardAt(x)
        /\ BoardReading(md, x, y, u) /\ Resting(md, u) /\ Failed(md, u)
    BY <1>1 DEF Linked
  <1>5. /\ HostAt(y)' /\ PcOf(md)' /\ Writing(md)' /\ HostReading(md, z)'
        /\ FromOf' = FromOf /\ IncOf' = IncOf /\ LimOf' = LimOf /\ Shown(md)' = Shown(md)
        /\ pc' = pc /\ call' = call /\ got' = got /\ m_addr_set' = m_addr_set /\ m_rdaddr' = m_rdaddr
        /\ m_readtbl' = m_readtbl /\ m_lastaddr' = m_lastaddr /\ meant' = meant /\ m_wraddr' = m_wraddr
        /\ m_wrloaded' = m_wrloaded /\ m_writetbl' = m_writetbl
    BY <1>3, <1>4, HostKept
  <1>6. /\ rdleft \in Nat \ {0} /\ pc = "reading" /\ u.f = 0
        /\ FromOf = call.a /\ IncOf = call.inc /\ LimOf = call.cmdrd
    <2>1. rdleft \in Nat
      BY <1>2 DEF TypeOK
    <2>2. pc = "reading"
      BY <1>3, <1>4, <2>1 DEF Resting
    <2>3. u.f \in {0, 1}
      BY Constants DEF Heard
    <2>4. u.f = 0
      BY <1>3, <1>4, <2>1, <2>2, <2>3 DEF Failed
    <2> QED  BY <2>1, <1>3, <2>2, <2>4 DEF FromOf, IncOf, LimOf
  <1>7. /\ x.t = u.t /\ x.p = u.g + rdleft /\ x.p <= call.cmdrd
        /\ r_inc = call.inc /\ o_wb_addr = call.a + Times(u.g, call.inc)
        /\ Failing(md) => x.p = call.cmdrd
    BY <1>4, <1>6 DEF BoardReading
  <1>8. /\ call.a \in Nat /\ call.inc \in Bits /\ call.inc \in Nat /\ call.cmdrd \in Nat \ {0} /\ call.n \in Nat
        /\ o_wb_addr \in Address /\ o_wb_addr \in Int /\ r_inc \in Int
        /\ u.g \in Nat /\ u.q \in Seq(Values) /\ u.t \in Bits
        /\ call.cmdrd <= call.n
        /\ md = "safe" => \A j \in 0 .. call.n - 1 : call.a + Times(j, call.inc) \notin ErrAddrs
    <2>1. /\ call.cmdrd <= call.n /\ call.cmdrd >= 1
          /\ md = "safe" => \A j \in 0 .. call.n - 1 : call.a + Times(j, call.inc) \notin ErrAddrs
      BY <1>4, <1>6 DEF HostReading
    <2>2. r_inc \in Int
      BY <1>2, Constants DEF TypeOK
    <2> QED  BY <1>2, <2>1, <2>2, CallFacts, HeardFacts
  <1>9. md = "readers" /\ Failing(md)
    <2>1. md # "safe"
      <3>1. u.g \in 0 .. call.n - 1
        BY <1>6, <1>7, <1>8
      <3> QED  BY <1>3, <1>7, <1>8, <3>1
    <2>2. md # "writes"
      BY <1>4, <1>6 DEF PcOf
    <2> QED  BY <1>3, <2>1, <2>2 DEF Setting, Settings, Failing
  <1>10. down = <<>> /\ x = y
    <2>1. Chain(Obeying(md, FromOf, IncOf, LimOf), Line, x, down, y) /\ down \in Seq(Words)
      BY <1>2, <1>4, Zenon DEF Under, TypeOK
    <2>2. x.p >= call.cmdrd
      BY <1>7, <1>8, <1>9
    <2>3. down = <<>>
      BY <1>6, <1>8, <2>1, <2>2, AllTaken
    <2> QED  BY <2>1, <2>3, ChainEmpty
  <1>11. o_wb_addr' \in Address
    <2>1. PICK k \in 1 .. rdleft : o_wb_addr' = Plus(o_wb_addr, k * r_inc)
      BY <1>3 DEF AfterError
    <2>2. k * r_inc \in Int
      BY <1>6, <1>8
    <2> QED  BY <1>8, <2>1, <2>2, PlusFacts
  <1>12. PICK x2 \in Line : /\ x2.a = o_wb_addr' /\ x2.p = 0 /\ x2.h = x.h /\ x2.m = x.m /\ x2.f = x.f /\ x2.t = x.t
    <2>1. [a |-> o_wb_addr', p |-> 0, h |-> x.h, m |-> x.m, f |-> x.f, t |-> x.t] \in Line
      BY <1>11 DEF Line
    <2> QED  BY <2>1
  <1>13. Chain(Obeying(md, FromOf, IncOf, LimOf), Line, x2, down', x2)
    BY <1>3, <1>10, ChainEmpty
  <1>14. PICK u2 \in Heard : u2.g = u.g /\ u2.t = u.t /\ u2.q = u.q /\ u2.f = 1
    <2>1. [g |-> u.g, t |-> u.t, q |-> u.q, f |-> 1] \in Heard
      BY <1>8, Constants DEF Heard
    <2> QED  BY <2>1
  <1>15. PICK n : n = Word("err", 0, 0) /\ n \in Words /\ n.t = "err"
    BY WordFields, Constants DEF Kinds
  <1>16. u.g < call.cmdrd
    BY <1>6, <1>7, <1>8
  <1>17. Hears(md, Shown(md), FromOf, IncOf, LimOf, u, n, u2)
    BY <1>6, <1>9, <1>14, <1>15, <1>16 DEF Hears, ErrorHeard
  <1>18. Under(md, x2, x2, z, u2)' /\ up' \in Seq(Words)
    <2>1. Under(md, x2, x2, z, u)
      BY <1>3, <1>4, <1>13, Zenon DEF Under
    <2>2. up \in Seq(Words) /\ up' = Append(up, n)
      BY <1>2, <1>3, <1>15 DEF TypeOK
    <2> QED  BY <1>5, <1>13, <1>15, <1>17, <2>1, <2>2, Said
  <1>19. BoardAt(x2)'
    <2>1. x2.a = o_wb_addr' + Times(rdleft', r_inc') /\ o_wb_addr' \in Int
      BY <1>3, <1>11, <1>12, Constants DEF Times
    <2> QED  BY <1>3, <1>4, <1>12, <2>1 DEF BoardAt
  <1>20. HostAt(x2)'
    <2>1. x2.h = y.h /\ x2.m = y.m /\ pc' = "reading"
      BY <1>5, <1>6, <1>10, <1>12
    <2> QED  BY <1>5, <2>1, Zenon DEF HostAt
  <1>21. BoardReading(md, x2, x2, u2)' /\ Failed(md, u2)' /\ Resting(md, u2)'
    BY <1>3, <1>5, <1>6, <1>9, <1>10, <1>14, <1>16 DEF BoardReading, Failed, Resting
  <1>22. TypeOK'
    BY <1>2, <1>3, <1>5, <1>11, <1>18 DEF TypeOK
  <1>23. Linked(md, x2, x2, z, u2)'
    BY <1>5, <1>18, <1>19, <1>20, <1>21 DEF Linked
  <1> QED  BY <1>22, <1>23, Zenon DEF LinkInv

LEMMA BoardNewlineStep ==
    ASSUME NEW md, LinkInv(md), BoardNewline PROVE LinkInv(md)'
  <1>1. PICK x \in Line, y \in Line, z \in Heard, u \in Heard : Linked(md, x, y, z, u)
    BY Zenon DEF LinkInv
  <1>2. TypeOK
    BY DEF LinkInv
  <1>3. /\ up' = Append(up, Newline) /\ o_wb_addr' = o_wb_addr /\ rdleft' = rdleft
        /\ r_new_addr' = r_new_addr /\ r_inc' = r_inc /\ wr_addr' = wr_addr /\ wr_tbl' = wr_tbl
        /\ tbl_addr' = tbl_addr /\ tbl_filled' = tbl_filled /\ rd_tbl' = rd_tbl
        /\ mem' = mem /\ down' = down /\ UNCHANGED host
    BY DEF BoardNewline
  <1>4. HostAt(y) /\ PcOf(md) /\ Writing(md) /\ HostReading(md, z) /\ Under(md, x, y, z, u) /\ BoardAt(x)
        /\ BoardReading(md, x, y, u) /\ Resting(md, u) /\ Failed(md, u)
    BY <1>1 DEF Linked
  <1>5. /\ HostAt(y)' /\ PcOf(md)' /\ Writing(md)' /\ HostReading(md, z)'
        /\ FromOf' = FromOf /\ IncOf' = IncOf /\ LimOf' = LimOf /\ Shown(md)' = Shown(md)
        /\ pc' = pc /\ call' = call /\ got' = got /\ m_addr_set' = m_addr_set /\ m_rdaddr' = m_rdaddr
        /\ m_readtbl' = m_readtbl /\ m_lastaddr' = m_lastaddr /\ meant' = meant /\ m_wraddr' = m_wraddr
        /\ m_wrloaded' = m_wrloaded /\ m_writetbl' = m_writetbl
    BY <1>3, <1>4, HostKept
  <1>6. PICK n : n = Newline /\ n \in Words /\ n.t = "nl"
    BY WordFields, Constants DEF Kinds, Newline
  <1>7. Hears(md, Shown(md), FromOf, IncOf, LimOf, u, n, u)
    BY <1>6 DEF Hears, NothingHeard
  <1>8. Under(md, x, y, z, u)' /\ up' \in Seq(Words)
    <2>1. up \in Seq(Words) /\ up' = Append(up, n)
      BY <1>2, <1>3, <1>6 DEF TypeOK
    <2>2. Chain(Obeying(md, FromOf, IncOf, LimOf), Line, x, down', y)
      BY <1>3, <1>4, Zenon DEF Under
    <2> QED  BY <1>4, <1>5, <1>6, <1>7, <2>1, <2>2, Said
  <1>9. BoardAt(x)'
    BY <1>3, <1>4 DEF BoardAt
  <1>10. BoardReading(md, x, y, u)' /\ Failed(md, u)' /\ Resting(md, u)'
    <2>1. BoardTable(u)' <=> BoardTable(u)
      BY <1>3 DEF BoardTable
    <2>2. GotRight' <=> GotRight
      BY <1>3, <1>5, Zenon DEF GotRight
    <2> QED  BY <1>3, <1>4, <1>5, <2>1, <2>2 DEF BoardReading, Failed, Resting
  <1>11. TypeOK'
    BY <1>2, <1>3, <1>5, <1>8 DEF TypeOK
  <1>12. Linked(md, x, y, z, u)'
    BY <1>5, <1>8, <1>9, <1>10 DEF Linked
  <1> QED  BY <1>11, <1>12, Zenon DEF LinkInv

-----------------------------------------------------------------------------
(* A step of the host: the board stays as it is.                              *)
LEMMA BoardKept ==
    ASSUME NEW md, UNCHANGED board
    PROVE  /\ o_wb_addr' = o_wb_addr /\ r_new_addr' = r_new_addr /\ r_inc' = r_inc /\ rdleft' = rdleft
           /\ wr_addr' = wr_addr /\ wr_tbl' = wr_tbl /\ tbl_addr' = tbl_addr /\ tbl_filled' = tbl_filled
           /\ rd_tbl' = rd_tbl /\ mem' = mem /\ Shown(md)' = Shown(md)
           /\ \A x : BoardAt(x) => BoardAt(x)'
           /\ \A u : BoardTable(u) => BoardTable(u)'
  <1>1. /\ o_wb_addr' = o_wb_addr /\ r_new_addr' = r_new_addr /\ r_inc' = r_inc /\ rdleft' = rdleft
        /\ wr_addr' = wr_addr /\ wr_tbl' = wr_tbl /\ tbl_addr' = tbl_addr /\ tbl_filled' = tbl_filled
        /\ rd_tbl' = rd_tbl /\ mem' = mem
    BY DEF board
  <1>2. Shown(md)' = Shown(md)
    BY <1>1 DEF Shown
  <1>3. ASSUME NEW x, BoardAt(x) PROVE BoardAt(x)'
    BY <1>1, <1>3, Zenon DEF BoardAt
  <1>4. ASSUME NEW u, BoardTable(u) PROVE BoardTable(u)'
    BY <1>1, <1>4, Zenon DEF BoardTable
  <1> QED  BY <1>1, <1>2, <1>3, <1>4

LEMMA NotReading ==
    ASSUME pc # "reading" PROVE FromOf = 0 /\ IncOf = 0 /\ LimOf = 0
  BY DEF FromOf, IncOf, LimOf

(* The host's own table of written words survives what does not touch it.     *)
WroteRing(h) == \E r \in Nat : /\ Ring(m_writetbl, m_wraddr, h, r, WRTBL, WRTBL - 1)
                               /\ Reach(m_wraddr, m_wrloaded, r, WRTBL)

LEMMA HostAtFacts ==
    ASSUME NEW y
    PROVE  HostAt(y) <=> /\ y.m = meant
                         /\ m_addr_set = TRUE /\ pc \notin {"reading", "ended"} => y.a = m_lastaddr
                         /\ WroteRing(y.h)
  BY Zenon DEF HostAt, WroteRing

LEMMA WroteRingKept ==
    ASSUME m_writetbl' = m_writetbl, m_wraddr' = m_wraddr, m_wrloaded' = m_wrloaded, NEW h, WroteRing(h)
    PROVE  WroteRing(h)'
  BY Zenon DEF WroteRing

(* A read call: the board is led to its address, or is there, and on through
   the words asked for.                                                       *)
LEMMA CallReadStep ==
    ASSUME NEW md, Setting(md), LinkInv(md), Allowed(md)',
           NEW a \in Address, NEW inc \in Incs, NEW n \in Lens, CallRead(a, inc, n)
    PROVE  LinkInv(md)'
  <1>1. PICK x \in Line, y \in Line, z \in Heard, u \in Heard : Linked(md, x, y, z, u)
    BY Zenon DEF LinkInv
  <1>2. TypeOK
    BY DEF LinkInv
  <1>3. PICK cmdrd : cmdrd = Min({n, READAHEAD + READBLOCK})
    OBVIOUS
  <1>4. /\ pc = "idle" /\ pc' = "reading" /\ got' = <<>>
        /\ down' = down \o EncodeAddress(a) \o ReadCommands(0, cmdrd, inc)
        /\ call' = [a |-> a, inc |-> inc, n |-> n, cmdrd |-> cmdrd]
        /\ m_rdaddr' = IF EncodeAddress(a) = <<>> THEN m_rdaddr ELSE 0
        /\ m_addr_set' = m_addr_set /\ m_lastaddr' = m_lastaddr /\ m_readtbl' = m_readtbl /\ m_wraddr' = m_wraddr
        /\ m_wrloaded' = m_wrloaded /\ m_writetbl' = m_writetbl /\ m_bus_err' = m_bus_err
        /\ meant' = meant /\ up' = up /\ UNCHANGED board
    BY <1>3, Zenon DEF CallRead
  <1>5. a + inc * n < NADDR
    BY DEF CallRead
  <1>6. HostAt(y) /\ PcOf(md) /\ Under(md, x, y, z, u) /\ BoardAt(x) /\ Resting(md, u)
    BY <1>1 DEF Linked
  <1>7. /\ o_wb_addr' = o_wb_addr /\ r_new_addr' = r_new_addr /\ r_inc' = r_inc /\ rdleft' = rdleft
        /\ wr_addr' = wr_addr /\ wr_tbl' = wr_tbl /\ tbl_addr' = tbl_addr /\ tbl_filled' = tbl_filled
        /\ rd_tbl' = rd_tbl /\ mem' = mem /\ Shown(md)' = Shown(md)
        /\ \A e : BoardAt(e) => BoardAt(e)'
        /\ \A e : BoardTable(e) => BoardTable(e)'
    BY <1>4, BoardKept
  <1>8. /\ inc \in Bits /\ n \in Nat \ {0} /\ a \in Nat /\ a \in Address /\ a + Times(n, inc) < NADDR
        /\ cmdrd \in Nat /\ cmdrd >= 1 /\ cmdrd <= n /\ cmdrd <= READAHEAD + READBLOCK
        /\ cmdrd = n \/ cmdrd = READAHEAD + READBLOCK
    <2>1. inc \in Bits /\ n \in Nat \ {0} /\ a \in Nat
      BY LinkAssumption, Constants
    <2>2. READAHEAD + READBLOCK \in Nat \ {0}
      BY Constants
    <2>3. cmdrd = IF n <= READAHEAD + READBLOCK THEN n ELSE READAHEAD + READBLOCK
      BY <1>3, <2>1, <2>2, MinOfTwo
    <2>4. a + Times(n, inc) < NADDR
      BY <1>5, <2>1, TimesFacts
    <2> QED  BY <2>1, <2>2, <2>3, <2>4
  <1>9. /\ FromOf = 0 /\ IncOf = 0 /\ LimOf = 0 /\ FromOf' = a /\ IncOf' = inc /\ LimOf' = cmdrd
        /\ call'.a = a /\ call'.inc = inc /\ call'.n = n /\ call'.cmdrd = cmdrd
    BY <1>4 DEF FromOf, IncOf, LimOf
  <1>10. md # "writes" /\ (md = "safe" => \A j \in 0 .. n - 1 : a + Times(j, inc) \notin ErrAddrs)
    BY <1>4, <1>9 DEF Allowed
  <1>11. ASSUME Failing(md) PROVE cmdrd <= READBLOCK /\ (cmdrd = n \/ READAHEAD = 0)
    <2>1. READAHEAD = 0 \/ n <= READBLOCK
      BY <1>11 DEF Setting, OneCommand
    <2> QED  BY <1>8, <2>1, Constants
  <1>12. rdleft = 0 /\ down \in Seq(Words) /\ m_lastaddr \in Int /\ m_addr_set \in BOOLEAN /\ m_rdaddr \in 0 .. RDTBL - 1
    BY <1>2, <1>4, <1>6 DEF TypeOK, Resting
  <1>13. Chain(Obeying(md, 0, 0, 0), Line, x, down, y)
    BY <1>6, <1>9 DEF Under
  <1>14. \E b \in {0, 1}, y1 \in Line :
           /\ Chain(Obeying(md, a, inc, cmdrd), Line, At(x, b), down \o EncodeAddress(a), y1)
           /\ EncodeAddress(a) \in Seq(Words)
           /\ y1.a = a /\ y1.p = 0 /\ y1.h = y.h /\ y1.m = y.m /\ (y1.f = 1 \/ y1.t = 1)
           /\ md = "readers" => (y1.f = 1 => y1.t = 0)
           /\ b = 1 => m_addr_set = TRUE /\ y.a = a /\ m_rdaddr' = m_rdaddr
           /\ b = 0 => m_rdaddr' = 0
    <2>1. CASE EncodeAddress(a) = <<>>
      <3>1. PICK y1 \in Line : y1 = At(y, 1) /\ y1.a = y.a /\ y1.p = 0 /\ y1.h = y.h /\ y1.m = y.m /\ y1.f = y.f /\ y1.t = 1
        BY AtFacts DEF Bits
      <3>2. m_addr_set = TRUE => y1.a = m_lastaddr
        BY <1>4, <1>6, <3>1 DEF HostAt
      <3>3. ~(\E w \in Words, e \in Line : /\ EncodeAddress(a) = <<w>> /\ <<y1, w, e>> \in Obeying(md, a, inc, cmdrd)
                 /\ e.a = a /\ e.p = 0 /\ e.h = y1.h /\ e.m = y1.m /\ e.f = 1 /\ e.t = y1.t)
        <4>1. \A w : <<>> # <<w>>
          OBVIOUS
        <4> QED  BY <2>1, <4>1, Zenon
      <3>4. m_addr_set = TRUE /\ y1.a = a
        <4>1. Knows(y1)
          BY <1>12, <3>1, <3>2 DEF Knows
        <4>2. Sent(md, a, inc, cmdrd, a, y1)
          BY <4>1, AddressSent
        <4> QED  BY <3>3, <4>2, Zenon DEF Sent
      <3>5. Chain(Obeying(md, a, inc, cmdrd), Line, At(x, 1), down, y1)
        <4>1. 1 \in Bits
          BY DEF Bits
        <4> QED  BY <1>12, <1>13, <3>1, <4>1, Rebased
      <3>6. down \o EncodeAddress(a) = down /\ <<>> \in Seq(Words)
        BY <1>12, <2>1
      <3>7. ASSUME md = "readers" PROVE y1.f = 0
        <4>1. down = <<>> /\ r_new_addr = 0
          BY <1>4, <1>6, <3>4, <3>7 DEF Resting
        <4>2. x = y
          BY <1>13, <4>1, ChainEmpty
        <4> QED  BY <1>6, <3>1, <4>1, <4>2 DEF BoardAt
      <3>8. m_rdaddr' = m_rdaddr
        BY <1>4, <2>1
      <3>9. y.a = a /\ (y1.f # 1 \/ md # "readers")
        BY <3>1, <3>4, <3>7
      <3>10. PICK b : b = 1
        OBVIOUS
      <3>11. /\ Chain(Obeying(md, a, inc, cmdrd), Line, At(x, b), down \o EncodeAddress(a), y1)
             /\ EncodeAddress(a) \in Seq(Words)
             /\ y1.a = a /\ y1.p = 0 /\ y1.h = y.h /\ y1.m = y.m /\ (y1.f = 1 \/ y1.t = 1)
             /\ md = "readers" => (y1.f = 1 => y1.t = 0)
             /\ b = 1 => m_addr_set = TRUE /\ y.a = a /\ m_rdaddr' = m_rdaddr
             /\ b = 0 => m_rdaddr' = 0
        BY <2>1, <3>1, <3>4, <3>5, <3>6, <3>8, <3>9, <3>10
      <3> QED  BY <3>10, <3>11, Zenon
    <2>2. CASE EncodeAddress(a) # <<>>
      <3>1. PICK y0 \in Line : y0 = At(y, 0) /\ y0.a = y.a /\ y0.p = 0 /\ y0.h = y.h /\ y0.m = y.m /\ y0.f = y.f /\ y0.t = 0
        BY AtFacts DEF Bits
      <3>2. m_addr_set = TRUE => y0.a = m_lastaddr
        BY <1>4, <1>6, <3>1 DEF HostAt
      <3>3. PICK w \in Words, y1 \in Line : /\ EncodeAddress(a) = <<w>> /\ <<y0, w, y1>> \in Obeying(md, a, inc, cmdrd)
                 /\ y1.a = a /\ y1.p = 0 /\ y1.h = y0.h /\ y1.m = y0.m /\ y1.f = 1 /\ y1.t = y0.t
        <4>1. Knows(y0)
          BY <1>12, <3>1, <3>2 DEF Knows
        <4>2. Sent(md, a, inc, cmdrd, a, y0)
          BY <4>1, AddressSent
        <4> QED  BY <2>2, <4>2, Zenon DEF Sent
      <3>4. Chain(Obeying(md, a, inc, cmdrd), Line, At(x, 0), down, y0)
        <4>1. 0 \in Bits
          BY DEF Bits
        <4> QED  BY <1>12, <1>13, <3>1, <4>1, Rebased
      <3>5. Chain(Obeying(md, a, inc, cmdrd), Line, y0, <<w>>, y1)
        BY <3>3, ChainOne
      <3>6. <<w>> \in Seq(Words)
        OBVIOUS
      <3>7. Chain(Obeying(md, a, inc, cmdrd), Line, At(x, 0), down \o <<w>>, y1)
        BY <1>12, <3>4, <3>5, <3>6, ChainConcat
      <3>8. m_rdaddr' = 0
        BY <1>4, <2>2
      <3>9. PICK b, s : b = 0 /\ s = EncodeAddress(a) /\ s = <<w>>
        BY <3>3
      <3>10. /\ Chain(Obeying(md, a, inc, cmdrd), Line, At(x, b), down \o s, y1)
             /\ s \in Seq(Words)
             /\ y1.a = a /\ y1.p = 0 /\ y1.h = y.h /\ y1.m = y.m /\ (y1.f = 1 \/ y1.t = 1)
             /\ md = "readers" => (y1.f = 1 => y1.t = 0)
             /\ b = 1 => m_addr_set = TRUE /\ y.a = a /\ m_rdaddr' = m_rdaddr
             /\ b = 0 => m_rdaddr' = 0
        BY <3>1, <3>3, <3>6, <3>7, <3>8, <3>9
      <3> QED  BY <3>9, <3>10, Zenon
    <2> QED  BY <2>1, <2>2
  <1>15. PICK b \in {0, 1}, y1 \in Line :
           /\ Chain(Obeying(md, a, inc, cmdrd), Line, At(x, b), down \o EncodeAddress(a), y1)
           /\ EncodeAddress(a) \in Seq(Words)
           /\ y1.a = a /\ y1.p = 0 /\ y1.h = y.h /\ y1.m = y.m /\ (y1.f = 1 \/ y1.t = 1)
           /\ md = "readers" => (y1.f = 1 => y1.t = 0)
           /\ b = 1 => m_addr_set = TRUE /\ y.a = a /\ m_rdaddr' = m_rdaddr
           /\ b = 0 => m_rdaddr' = 0
    BY <1>14
  <1>16. PICK x1 \in Line : x1 = At(x, b) /\ x1.a = x.a /\ x1.p = 0 /\ x1.h = x.h /\ x1.m = x.m /\ x1.f = x.f /\ x1.t = b
    BY AtFacts DEF Bits
  <1>17. /\ ReadCommands(0, cmdrd, inc) \in Seq(Words)
         /\ \E y2 \in Line :
              /\ Chain(Obeying(md, a, inc, cmdrd), Line, y1, ReadCommands(0, cmdrd, inc), y2)
              /\ y2.p = cmdrd /\ y2.a = a + Times(cmdrd, inc) /\ y2.h = y1.h /\ y2.m = y1.m /\ y2.f = 0 /\ y2.t = 1
    <2>1. y1.a = a + Times(0, inc)
      BY <1>8, <1>15 DEF Times
    <2>2. a + Times(cmdrd, inc) < NADDR /\ 0 \in Nat /\ 0 < cmdrd
      BY <1>8, Constants DEF Times
    <2>3. (Failing(md) => cmdrd - 0 <= READBLOCK) /\ (md = "readers" => (y1.f = 1 => y1.t = 0))
      BY <1>8, <1>11, <1>15
    <2>4. Ready(md, a, inc, 0, cmdrd, y1)
      BY <1>8, <1>10, <1>15, <2>1, <2>2, <2>3 DEF Ready
    <2>5. Led(md, a, inc, 0, cmdrd, y1)
      BY <1>8, <2>2, <2>4, ReadsSent
    <2> QED  BY <2>5, Zenon DEF Led
  <1>18. PICK y2 \in Line :
              /\ Chain(Obeying(md, a, inc, cmdrd), Line, y1, ReadCommands(0, cmdrd, inc), y2)
              /\ y2.p = cmdrd /\ y2.a = a + Times(cmdrd, inc) /\ y2.h = y1.h /\ y2.m = y1.m /\ y2.f = 0 /\ y2.t = 1
    BY <1>17
  <1>19. Chain(Obeying(md, a, inc, cmdrd), Line, x1, down', y2) /\ down' \in Seq(Words)
    <2>1. PICK s, r : s = down \o EncodeAddress(a) /\ r = ReadCommands(0, cmdrd, inc)
      OBVIOUS
    <2>2. s \in Seq(Words) /\ r \in Seq(Words) /\ s \o r \in Seq(Words) /\ down' = s \o r
      BY <1>4, <1>12, <1>15, <1>17, <2>1
    <2>3. Chain(Obeying(md, a, inc, cmdrd), Line, x1, s, y1) /\ Chain(Obeying(md, a, inc, cmdrd), Line, y1, r, y2)
      BY <1>15, <1>16, <1>18, <2>1
    <2>4. Chain(Obeying(md, a, inc, cmdrd), Line, x1, s \o r, y2)
      BY <2>2, <2>3, ChainConcat
    <2> QED  BY <2>2, <2>4
  <1>20. PICK z2 \in Heard : z2.g = 0 /\ z2.t = b /\ z2.q = u.q /\ z2.f = 0
    BY HeardFacts, HeardRecord
  <1>21. Chain(Hearing(md, Shown(md), a, inc, cmdrd), Heard, z2, up, z2)
    <2>1. Chain(Hearing(md, Shown(md), 0, 0, 0), Heard, z, up, u)
      BY <1>6, <1>9, <1>10 DEF Under
    <2>2. up \in Seq(Words) /\ z.g >= 0
      BY <1>2, HeardFacts DEF TypeOK
    <2> QED  BY <2>1, <2>2, HeardSettled
  <1>22. Under(md, x1, y2, z2, z2)'
    BY <1>4, <1>7, <1>9, <1>19, <1>21, Zenon DEF Under
  <1>23. BoardAt(x1)'
    <2>1. BoardAt(x1)
      BY <1>6, <1>16, Zenon DEF BoardAt
    <2> QED  BY <1>7, <2>1
  <1>24. HostAt(y2)'
    <2>1. y2.h = y.h /\ y2.m = y.m
      BY <1>15, <1>18
    <2> QED  BY <1>4, <1>6, <2>1, Zenon DEF HostAt
  <1>25. ASSUME md = "readers", b = 1
         PROVE  Ring(m_readtbl', m_rdaddr', z2.q, Len(z2.q), RDTBL, MAXD) /\ BoardTable(z2)'
    <2>1. Ring(m_readtbl, m_rdaddr, u.q, Len(u.q), RDTBL, MAXD) /\ BoardTable(u)
      BY <1>4, <1>6, <1>15, <1>25 DEF Resting
    <2>2. BoardTable(u)'
      BY <1>7, <2>1
    <2>3. BoardTable(z2)'
      BY <1>20, <2>2, Zenon DEF BoardTable
    <2> QED  BY <1>4, <1>15, <1>20, <1>25, <2>1, <2>3
  <1>26. ASSUME b = 1 PROVE m_addr_set' = TRUE /\ m_lastaddr' = a + Times(0, inc)
    <2>1. m_addr_set = TRUE /\ m_lastaddr = a
      BY <1>4, <1>6, <1>15, <1>26 DEF HostAt
    <2> QED  BY <1>4, <1>8, <2>1 DEF Times
  <1>27. HostReading(md, z2)'
    <2>1. z2.g = Len(got') /\ z2.g <= cmdrd /\ GotRight'
      BY <1>4, <1>8, <1>20 DEF GotRight
    <2> QED  BY <1>4, <1>8, <1>9, <1>10, <1>11, <1>15, <1>20, <1>25, <1>26, <2>1 DEF HostReading
  <1>28. BoardReading(md, x1, y2, z2)'
    <2>1. x1.p = z2.g + rdleft' /\ rdleft' = 0 /\ x1.p <= cmdrd
      BY <1>7, <1>8, <1>12, <1>16, <1>20
    <2> QED  BY <1>7, <1>9, <1>16, <1>18, <1>20, <1>25, <2>1 DEF BoardReading
  <1>29. Failed(md, z2)' /\ Resting(md, z2)' /\ PcOf(md)' /\ Writing(md)'
    BY <1>4, <1>10, <1>20 DEF Failed, Resting, PcOf, Writing
  <1>30. TypeOK'
    <2>1. call' \in [a : Address, inc : Bits, n : Nat, cmdrd : Nat]
      BY <1>4, <1>8
    <2>2. m_rdaddr' \in 0 .. RDTBL - 1
      BY <1>12, <1>15, Constants, SMTT(60)
    <2>3. got' \in Seq(Values \cup {Junk})
      BY <1>4
    <2> QED  BY <1>2, <1>4, <1>7, <1>19, <2>1, <2>2, <2>3 DEF TypeOK
  <1>31. Linked(md, x1, y2, z2, z2)'
    BY <1>22, <1>23, <1>24, <1>27, <1>28, <1>29 DEF Linked
  <1> QED  BY <1>30, <1>31, Zenon DEF LinkInv

(* A write call: the board is led to its address, or is there.                *)
LEMMA CallWriteStep ==
    ASSUME NEW md, LinkInv(md), Allowed(md)',
           NEW a \in Address, NEW inc \in Incs, NEW n \in Lens, CallWrite(a, inc, n)
    PROVE  LinkInv(md)'
  <1>1. PICK x \in Line, y \in Line, z \in Heard, u \in Heard : Linked(md, x, y, z, u)
    BY Zenon DEF LinkInv
  <1>2. TypeOK
    BY DEF LinkInv
  <1>3. /\ pc = "idle" /\ pc' = "writing" /\ down' = down \o EncodeAddress(a)
        /\ m_rdaddr' = (IF EncodeAddress(a) = <<>> THEN m_rdaddr ELSE 0)
        /\ m_lastaddr' = a /\ m_addr_set' = TRUE
        /\ call' = [a |-> a, inc |-> inc, n |-> n, cmdrd |-> 0]
        /\ m_readtbl' = m_readtbl /\ m_wraddr' = m_wraddr /\ m_wrloaded' = m_wrloaded
        /\ m_writetbl' = m_writetbl /\ m_bus_err' = m_bus_err /\ got' = got
        /\ meant' = meant /\ up' = up /\ UNCHANGED board
    BY Zenon DEF CallWrite
  <1>4. a + inc * n < NADDR
    BY DEF CallWrite
  <1>5. HostAt(y) /\ PcOf(md) /\ Under(md, x, y, z, u) /\ BoardAt(x) /\ Resting(md, u)
    BY <1>1 DEF Linked
  <1>6. /\ o_wb_addr' = o_wb_addr /\ r_new_addr' = r_new_addr /\ r_inc' = r_inc /\ rdleft' = rdleft
        /\ wr_addr' = wr_addr /\ wr_tbl' = wr_tbl /\ tbl_addr' = tbl_addr /\ tbl_filled' = tbl_filled
        /\ rd_tbl' = rd_tbl /\ mem' = mem /\ Shown(md)' = Shown(md)
        /\ \A e : BoardAt(e) => BoardAt(e)'
    BY <1>3, BoardKept
  <1>7. inc \in Bits /\ n \in Nat \ {0} /\ a \in Nat /\ a + Times(n, inc) < NADDR
    <2>1. inc \in Bits /\ n \in Nat \ {0} /\ a \in Nat
      BY LinkAssumption, Constants
    <2> QED  BY <1>4, <2>1, TimesFacts
  <1>8. /\ FromOf = 0 /\ IncOf = 0 /\ LimOf = 0 /\ FromOf' = 0 /\ IncOf' = 0 /\ LimOf' = 0
        /\ call'.a = a /\ call'.inc = inc /\ call'.n = n
    BY <1>3 DEF FromOf, IncOf, LimOf
  <1>9. md # "readers" /\ (md = "safe" => \A j \in 0 .. n - 1 : a + Times(j, inc) \notin ErrAddrs)
    BY <1>3, <1>8 DEF Allowed
  <1>10. rdleft = 0 /\ down \in Seq(Words) /\ m_lastaddr \in Int /\ m_addr_set \in BOOLEAN /\ m_rdaddr \in 0 .. RDTBL - 1
    BY <1>2, <1>3, <1>5 DEF TypeOK, Resting
  <1>11. PICK x1 \in Line : x1 = At(x, 0) /\ x1.a = x.a /\ x1.h = x.h /\ x1.m = x.m /\ x1.f = x.f
    BY AtFacts DEF Bits
  <1>12. PICK y1 \in Line : y1 = At(y, 0) /\ y1.a = y.a /\ y1.p = 0 /\ y1.h = y.h /\ y1.m = y.m
    BY AtFacts DEF Bits
  <1>13. Chain(Obeying(md, 0, 0, 0), Line, x1, down, y1)
    <2>1. Chain(Obeying(md, 0, 0, 0), Line, x, down, y)
      BY <1>5, <1>8 DEF Under
    <2>2. 0 \in Bits
      BY DEF Bits
    <2> QED  BY <1>10, <1>11, <1>12, <2>1, <2>2, Rebased
  <1>14. \E y2 \in Line : /\ Chain(Obeying(md, 0, 0, 0), Line, x1, down', y2) /\ down' \in Seq(Words)
                          /\ y2.a = a /\ y2.h = y.h /\ y2.m = y.m
    <2>1. Knows(y1)
      <3>1. m_addr_set = TRUE => y1.a = m_lastaddr
        BY <1>3, <1>5, <1>12 DEF HostAt
      <3> QED  BY <1>10, <1>12, <3>1 DEF Knows
    <2>2. Sent(md, 0, 0, 0, a, y1)
      BY <2>1, AddressSent
    <2>3. CASE EncodeAddress(a) = <<>> /\ y1.a = a
      <3>1. down' = down
        BY <1>3, <1>10, <2>3
      <3> QED  BY <1>10, <1>12, <1>13, <2>3, <3>1
    <2>4. CASE \E w \in Words, e \in Line :
                  /\ EncodeAddress(a) = <<w>> /\ <<y1, w, e>> \in Obeying(md, 0, 0, 0)
                  /\ e.a = a /\ e.h = y1.h /\ e.m = y1.m
      <3>1. PICK w \in Words, e \in Line :
                  /\ EncodeAddress(a) = <<w>> /\ <<y1, w, e>> \in Obeying(md, 0, 0, 0)
                  /\ e.a = a /\ e.h = y1.h /\ e.m = y1.m
        BY <2>4
      <3>2. Chain(Obeying(md, 0, 0, 0), Line, x1, Append(down, w), e)
        BY <1>10, <1>13, <3>1, ChainAppend
      <3>3. down' = Append(down, w) /\ down' \in Seq(Words)
        BY <1>3, <1>10, <3>1
      <3> QED  BY <1>12, <3>1, <3>2, <3>3
    <2> QED  BY <2>2, <2>3, <2>4, Zenon DEF Sent
  <1>15. PICK y2 \in Line : /\ Chain(Obeying(md, 0, 0, 0), Line, x1, down', y2) /\ down' \in Seq(Words)
                            /\ y2.a = a /\ y2.h = y.h /\ y2.m = y.m
    BY <1>14
  <1>16. Under(md, x1, y2, z, u)'
    <2>1. md # "writes" => Chain(Hearing(md, Shown(md), 0, 0, 0), Heard, z, up, u)
      BY <1>5, <1>8 DEF Under
    <2> QED  BY <1>3, <1>6, <1>8, <1>15, <2>1, Zenon DEF Under
  <1>17. BoardAt(x1)'
    <2>1. BoardAt(x1)
      BY <1>5, <1>11, Zenon DEF BoardAt
    <2> QED  BY <1>6, <2>1
  <1>18. HostAt(y2)'
    BY <1>3, <1>5, <1>15, Zenon DEF HostAt
  <1>19. Writing(md)'
    BY <1>3, <1>7, <1>8, <1>9 DEF Writing
  <1>20. PcOf(md)' /\ HostReading(md, z)' /\ BoardReading(md, x1, y2, u)' /\ Failed(md, u)' /\ Resting(md, u)'
    BY <1>3, <1>6, <1>9, <1>10 DEF PcOf, HostReading, BoardReading, Failed, Resting
  <1>21. TypeOK'
    <2>1. call' \in [a : Address, inc : Bits, n : Nat, cmdrd : Nat]
      BY <1>3, <1>7
    <2>2. m_rdaddr' \in 0 .. RDTBL - 1
      BY <1>3, <1>10, Constants
    <2>3. m_lastaddr' \in Int
      BY <1>3, <1>7
    <2> QED  BY <1>2, <1>3, <1>6, <1>15, <2>1, <2>2, <2>3 DEF TypeOK
  <1>22. Linked(md, x1, y2, z, u)'
    BY <1>16, <1>17, <1>18, <1>19, <1>20 DEF Linked
  <1> QED  BY <1>21, <1>22, Zenon DEF LinkInv

(* What stands for a word that was written before, and a word sent in full.   *)
LEMMA BackFacts ==
    ASSUME TypeOK, NEW h \in Seq(Values), WroteRing(h), NEW v, Back(v) # {}
    PROVE  /\ Min(Back(v)) \in 1 .. WRTBL - 1 /\ Min(Back(v)) <= Len(h)
           /\ h[Len(h) - Min(Back(v)) + 1] = v
  <1>1. PICK r \in Nat : Ring(m_writetbl, m_wraddr, h, r, WRTBL, WRTBL - 1) /\ Reach(m_wraddr, m_wrloaded, r, WRTBL)
    BY Zenon DEF WroteRing
  <1>2. Min(Back(v)) \in Back(v)
    <2>1. Back(v) \in SUBSET Nat
      BY Constants DEF Back
    <2> QED  BY <2>1, LeastOf
  <1>3. PICK d \in 1 .. WRTBL - 1 : /\ d = Min(Back(v)) /\ m_writetbl[(m_wraddr - d) % WRTBL] = v
                                    /\ m_wrloaded \/ d <= m_wraddr
    BY <1>2 DEF Back
  <1>4. r <= Len(h) /\ \A k \in 1 .. WRTBL - 1 : k <= r => m_writetbl[(m_wraddr - k) % WRTBL] = h[Len(h) - k + 1]
    BY <1>1 DEF Ring
  <1>5. d <= r
    <2>1. m_wrloaded \in BOOLEAN /\ m_wraddr \in Int /\ WRTBL \in Int
      BY Constants DEF TypeOK
    <2>2. m_wraddr <= r /\ (m_wrloaded = TRUE => r >= WRTBL - 1)
      BY <1>1 DEF Reach
    <2> QED  BY <1>3, <2>1, <2>2
  <1>6. h[Len(h) - d + 1] = v
    BY <1>3, <1>4, <1>5, Zenon
  <1>7. d <= Len(h)
    BY <1>4, <1>5
  <1> QED  BY <1>3, <1>6, <1>7, Zenon

LEMMA WroteWord ==
    ASSUME TypeOK, NEW h \in Seq(Values), WroteRing(h), NEW v \in Values,
           m_writetbl' = [m_writetbl EXCEPT ![m_wraddr] = v], m_wraddr' = (m_wraddr + 1) % WRTBL,
           m_wrloaded' = (m_wrloaded \/ m_wraddr' = 0)
    PROVE  /\ WroteRing(Append(h, v))' /\ m_wraddr' \in 0 .. WRTBL - 1 /\ m_wrloaded' \in BOOLEAN
           /\ m_writetbl' \in [0 .. WRTBL - 1 -> Values \cup {Junk}]
  <1>1. PICK r \in Nat : Ring(m_writetbl, m_wraddr, h, r, WRTBL, WRTBL - 1) /\ Reach(m_wraddr, m_wrloaded, r, WRTBL)
    BY Zenon DEF WroteRing
  <1>2. m_wraddr \in 0 .. WRTBL - 1 /\ m_writetbl \in [0 .. WRTBL - 1 -> Values \cup {Junk}] /\ m_wrloaded \in BOOLEAN
    BY DEF TypeOK
  <1>3. Ring(m_writetbl', m_wraddr', Append(h, v), r + 1, WRTBL, WRTBL - 1)
    <2>1. Ring([m_writetbl EXCEPT ![m_wraddr] = v], (m_wraddr + 1) % WRTBL, Append(h, v), r + 1, WRTBL, WRTBL - 1)
      BY <1>1, <1>2, Constants, RingPushed
    <2> QED  BY <2>1, Zenon
  <1>4. m_wraddr' = (IF m_wraddr = WRTBL - 1 THEN 0 ELSE m_wraddr + 1) /\ m_wraddr' \in 0 .. WRTBL - 1
    <2>1. 1 \in 1 .. WRTBL
      BY Constants
    <2> QED  BY <1>2, <2>1, Constants, PlaceFacts
  <1>5. m_wrloaded' \in BOOLEAN
    BY Zenon
  <1>6. Reach(m_wraddr', m_wrloaded', r + 1, WRTBL)
    <2>1. m_wraddr <= r /\ (m_wrloaded = TRUE => r >= WRTBL - 1) /\ WRTBL \in Nat \ {0}
      BY <1>1, Constants DEF Reach
    <2>2. m_wraddr' <= r + 1
      BY <1>2, <1>4, <2>1
    <2>3. ASSUME m_wrloaded' = TRUE PROVE r + 1 >= WRTBL - 1
      <3>1. CASE m_wrloaded = TRUE
        BY <2>1, <3>1
      <3>2. CASE m_wraddr' = 0
        BY <1>2, <1>4, <2>1, <3>2
      <3>3. m_wrloaded \/ m_wraddr' = 0
        BY <2>3, Zenon
      <3> QED  BY <1>2, <3>1, <3>2, <3>3
    <2> QED  BY <2>2, <2>3 DEF Reach
  <1>7. m_writetbl' \in [0 .. WRTBL - 1 -> Values \cup {Junk}]
    BY <1>2
  <1>8. r + 1 \in Nat
    OBVIOUS
  <1>9. WroteRing(Append(h, v))'
    BY <1>3, <1>6, <1>8, Zenon DEF WroteRing
  <1> QED  BY <1>4, <1>5, <1>7, <1>9

(* One word of a write: in full, or by its place among those written before.  *)
LEMMA WriteWordStep ==
    ASSUME NEW md, LinkInv(md), NEW v \in Values, WriteWord(v)
    PROVE  LinkInv(md)'
  <1>1. PICK x \in Line, y \in Line, z \in Heard, u \in Heard : Linked(md, x, y, z, u)
    BY Zenon DEF LinkInv
  <1>2. TypeOK
    BY DEF LinkInv
  <1>3. PICK word : word = IF Back(v) # {} THEN Word("wref", Min(Back(v)), call.inc)
                                           ELSE Word("write", v, call.inc)
    OBVIOUS
  <1>4. /\ pc = "writing"
        /\ down' = IF call.n = 1 THEN down \o <<word, Word("eow", 0, 0)>> ELSE Append(down, word)
        /\ m_writetbl' = IF Back(v) # {} THEN m_writetbl ELSE [m_writetbl EXCEPT ![m_wraddr] = v]
        /\ m_wraddr' = IF Back(v) # {} THEN m_wraddr ELSE (m_wraddr + 1) % WRTBL
        /\ m_wrloaded' = (m_wrloaded \/ (~(Back(v) # {}) /\ (m_wraddr + 1) % WRTBL = 0))
        /\ m_lastaddr' = m_lastaddr + call.inc
        /\ meant' = IF m_lastaddr \in ErrAddrs THEN meant ELSE [meant EXCEPT ![m_lastaddr] = v]
        /\ IF call.n = 1 THEN pc' = "drain1" /\ call' = NoCall
                         ELSE call' = [call EXCEPT !.n = call.n - 1] /\ pc' = pc
        /\ m_addr_set' = m_addr_set /\ m_rdaddr' = m_rdaddr /\ m_readtbl' = m_readtbl
        /\ m_bus_err' = m_bus_err /\ got' = got /\ up' = up /\ UNCHANGED board
    BY <1>3, Zenon DEF WriteWord
  <1>5. HostAt(y) /\ PcOf(md) /\ Under(md, x, y, z, u) /\ BoardAt(x) /\ Resting(md, u) /\ Writing(md)
    BY <1>1 DEF Linked
  <1>6. /\ o_wb_addr' = o_wb_addr /\ r_new_addr' = r_new_addr /\ r_inc' = r_inc /\ rdleft' = rdleft
        /\ wr_addr' = wr_addr /\ wr_tbl' = wr_tbl /\ tbl_addr' = tbl_addr /\ tbl_filled' = tbl_filled
        /\ rd_tbl' = rd_tbl /\ mem' = mem /\ Shown(md)' = Shown(md)
        /\ \A e : BoardAt(e) => BoardAt(e)'
    BY <1>4, BoardKept
  <1>7. /\ m_addr_set = TRUE /\ call.n >= 1 /\ m_lastaddr + Times(call.n, call.inc) < NADDR
        /\ md = "safe" => \A j \in 0 .. call.n - 1 : m_lastaddr + Times(j, call.inc) \notin ErrAddrs
    BY <1>4, <1>5, Zenon DEF Writing
  <1>8. md # "readers" /\ rdleft = 0 /\ y.a = m_lastaddr /\ y.m = meant /\ WroteRing(y.h)
    BY <1>4, <1>5, <1>7, HostAtFacts DEF PcOf, Resting
  <1>9. call.inc \in Bits /\ call.inc \in {0, 1} /\ call.n \in Nat /\ down \in Seq(Words)
    BY <1>2, CallFacts DEF TypeOK
  <1>10. m_lastaddr \in Address /\ m_lastaddr \in Nat /\ y.h \in Seq(Values) /\ meant \in [Address -> Values]
    <2>1. y.a \in Address /\ y.h \in Seq(Values) /\ y.m \in [Address -> Values]
      BY DEF Line
    <2> QED  BY <1>8, <2>1, Constants
  <1>11. m_lastaddr + call.inc \in Address /\ m_lastaddr + call.inc \in Nat
    <2>1. call.inc <= Times(call.n, call.inc) /\ Times(call.n, call.inc) \in Nat
      BY <1>7, <1>9 DEF Times
    <2>2. NADDR \in Int
      BY Constants
    <2>3. m_lastaddr + call.inc \in Nat /\ m_lastaddr + call.inc < NADDR
      BY <1>7, <1>9, <1>10, <2>1, <2>2
    <2> QED  BY <2>3, Constants, Zenon
  <1>12. /\ FromOf = 0 /\ IncOf = 0 /\ LimOf = 0 /\ FromOf' = 0 /\ IncOf' = 0 /\ LimOf' = 0
    <2>1. pc' # "reading"
      BY <1>4
    <2> QED  BY <1>4, <2>1 DEF FromOf, IncOf, LimOf
  <1>13. PICK x1 \in Line : x1 = At(x, 0) /\ x1.a = x.a /\ x1.h = x.h /\ x1.m = x.m /\ x1.f = x.f
    BY AtFacts DEF Bits
  <1>14. PICK y1 \in Line : y1 = At(y, 0) /\ y1.a = y.a /\ y1.p = 0 /\ y1.h = y.h /\ y1.m = y.m /\ y1.t = 0
    BY AtFacts DEF Bits
  <1>15. Chain(Obeying(md, 0, 0, 0), Line, x1, down, y1)
    <2>1. Chain(Obeying(md, 0, 0, 0), Line, x, down, y)
      BY <1>5, <1>12 DEF Under
    <2>2. 0 \in Bits
      BY DEF Bits
    <2> QED  BY <1>9, <1>13, <1>14, <2>1, <2>2, Rebased
  <1>16. meant' = Stored(meant, m_lastaddr, v) /\ meant' \in [Address -> Values]
    BY <1>4, <1>10 DEF Stored
  <1>17. \E h \in Seq(Values) :
            /\ WroteRing(h)' /\ m_wraddr' \in 0 .. WRTBL - 1 /\ m_wrloaded' \in BOOLEAN
            /\ m_writetbl' \in [0 .. WRTBL - 1 -> Values \cup {Junk}]
            /\ word \in Words /\ word.t \in {"write", "wref"} /\ word.i = call.inc
            /\ IF word.t = "write" THEN word.v = v /\ h = Append(y.h, v)
               ELSE /\ word.v \in 1 .. WRTBL - 1 /\ word.v <= Len(y.h) /\ h = y.h
                    /\ y.h[Len(y.h) - word.v + 1] = v
    <2>1. CASE Back(v) # {}
      <3>1. /\ Min(Back(v)) \in 1 .. WRTBL - 1 /\ Min(Back(v)) <= Len(y.h)
            /\ y.h[Len(y.h) - Min(Back(v)) + 1] = v
        BY <1>2, <1>8, <1>10, <2>1, BackFacts
      <3>2. m_writetbl' = m_writetbl /\ m_wraddr' = m_wraddr /\ m_wrloaded' = m_wrloaded
        <4>1. m_wrloaded \in BOOLEAN
          BY <1>2 DEF TypeOK
        <4> QED  BY <1>4, <2>1, <4>1
      <3>3. WroteRing(y.h)'
        BY <1>8, <3>2, Zenon DEF WroteRing
      <3>4. PICK d : d = Min(Back(v))
        OBVIOUS
      <3>5. d \in Nat
        BY <3>1, <3>4
      <3>6. word = Word("wref", d, call.inc)
        BY <1>3, <2>1, <3>4
      <3>7. word.t = "wref" /\ word.v = d /\ word.i = call.inc /\ word \in Words
        BY <1>9, <3>5, <3>6, WordFields DEF Kinds
      <3>8. m_wraddr \in 0 .. WRTBL - 1 /\ m_wrloaded \in BOOLEAN /\ m_writetbl \in [0 .. WRTBL - 1 -> Values \cup {Junk}]
        BY <1>2 DEF TypeOK
      <3>9. /\ m_wraddr' \in 0 .. WRTBL - 1 /\ m_wrloaded' \in BOOLEAN
            /\ m_writetbl' \in [0 .. WRTBL - 1 -> Values \cup {Junk}]
        BY <3>2, <3>8, Zenon
      <3>10. "wref" # "write"
        OBVIOUS
      <3>11. IF word.t = "write" THEN word.v = v /\ y.h = Append(y.h, v)
             ELSE /\ word.v \in 1 .. WRTBL - 1 /\ word.v <= Len(y.h) /\ y.h = y.h
                  /\ y.h[Len(y.h) - word.v + 1] = v
        BY <3>1, <3>4, <3>7, <3>10, Zenon
      <3> QED  BY <1>10, <3>3, <3>7, <3>9, <3>11, Zenon
    <2>2. CASE Back(v) = {}
      <3>1. /\ m_writetbl' = [m_writetbl EXCEPT ![m_wraddr] = v] /\ m_wraddr' = (m_wraddr + 1) % WRTBL
            /\ m_wrloaded' = (m_wrloaded \/ m_wraddr' = 0)
        <4>1. ~(Back(v) # {})
          BY <2>2
        <4>2. m_writetbl' = [m_writetbl EXCEPT ![m_wraddr] = v] /\ m_wraddr' = (m_wraddr + 1) % WRTBL
          BY <1>4, <4>1, Zenon
        <4> QED  BY <1>4, <4>1, <4>2, Zenon
      <3>2. /\ WroteRing(Append(y.h, v))' /\ m_wraddr' \in 0 .. WRTBL - 1 /\ m_wrloaded' \in BOOLEAN
            /\ m_writetbl' \in [0 .. WRTBL - 1 -> Values \cup {Junk}]
        BY <1>2, <1>8, <1>10, <3>1, WroteWord
      <3>3. word = Word("write", v, call.inc)
        BY <1>3, <2>2
      <3>4. word.t = "write" /\ word.v = v /\ word.i = call.inc /\ word \in Words
        BY <1>9, <3>3, WordFields DEF Kinds
      <3>5. Append(y.h, v) \in Seq(Values)
        BY <1>10
      <3> QED  BY <3>2, <3>4, <3>5, Zenon
    <2> QED  BY <2>1, <2>2
  <1>18. PICK h \in Seq(Values) :
            /\ WroteRing(h)' /\ m_wraddr' \in 0 .. WRTBL - 1 /\ m_wrloaded' \in BOOLEAN
            /\ m_writetbl' \in [0 .. WRTBL - 1 -> Values \cup {Junk}]
            /\ word \in Words /\ word.t \in {"write", "wref"} /\ word.i = call.inc
            /\ IF word.t = "write" THEN word.v = v /\ h = Append(y.h, v)
               ELSE /\ word.v \in 1 .. WRTBL - 1 /\ word.v <= Len(y.h) /\ h = y.h
                    /\ y.h[Len(y.h) - word.v + 1] = v
    BY <1>17
  <1>19. PICK y2 \in Line : /\ y2.a = m_lastaddr + call.inc /\ y2.p = 0 /\ y2.h = h /\ y2.m = meant'
                            /\ y2.f = 0 /\ y2.t = 0
    <2>1. [a |-> m_lastaddr + call.inc, p |-> 0, h |-> h, m |-> meant', f |-> 0, t |-> 0] \in Line
      BY <1>11, <1>16, Constants DEF Line
    <2> QED  BY <2>1
  <1>20. WriteObeyed(md, y1, word, y2)
    <2>1. md = "safe" => y1.a \notin ErrAddrs
      <3>1. ASSUME md = "safe" PROVE m_lastaddr \notin ErrAddrs
        <4>1. 0 \in 0 .. call.n - 1 /\ m_lastaddr + Times(0, call.inc) = m_lastaddr
          BY <1>7, <1>9, <1>10 DEF Times
        <4> QED  BY <1>7, <3>1, <4>1
      <3> QED  BY <1>8, <1>14, <3>1
    <2>2. y2.a = y1.a + word.i /\ word.i \in Bits
      BY <1>8, <1>9, <1>14, <1>18, <1>19
    <2>3. CASE word.t = "write"
      BY <1>8, <1>14, <1>16, <1>18, <1>19, <2>1, <2>2, <2>3, Zenon DEF WriteObeyed
    <2>4. CASE word.t # "write"
      BY <1>8, <1>14, <1>16, <1>18, <1>19, <2>1, <2>2, <2>4, Zenon DEF WriteObeyed
    <2> QED  BY <2>3, <2>4
  <1>21. <<y1, word, y2>> \in Obeying(md, 0, 0, 0)
    BY <1>18, <1>20, ObeyingFacts DEF Obeys
  <1>22. Chain(Obeying(md, 0, 0, 0), Line, x1, Append(down, word), y2) /\ Append(down, word) \in Seq(Words)
    <2>1. Append(down, word) \in Seq(Words)
      BY <1>9, <1>18
    <2> QED  BY <1>9, <1>15, <1>18, <1>21, <2>1, ChainAppend
  <1>23. Chain(Obeying(md, 0, 0, 0), Line, x1, down', y2) /\ down' \in Seq(Words)
    <2>1. CASE call.n = 1
      <3>1. PICK e : e = Word("eow", 0, 0) /\ e.t = "eow" /\ e \in Words
        BY WordFields DEF Kinds
      <3>2. EndObeyed(y2, e, y2)
        BY <1>19, <3>1 DEF EndObeyed
      <3>3. <<y2, e, y2>> \in Obeying(md, 0, 0, 0)
        BY <3>1, <3>2, ObeyingFacts DEF Obeys
      <3>4. PICK s \in Seq(Words) : s = Append(down, word)
        BY <1>22
      <3>5. Chain(Obeying(md, 0, 0, 0), Line, x1, Append(s, e), y2)
        BY <1>22, <3>1, <3>3, <3>4, ChainAppend
      <3>6. down \o <<word, e>> = Append(s, e) /\ Append(s, e) \in Seq(Words)
        BY <1>9, <1>18, <3>1, <3>4
      <3> QED  BY <1>4, <2>1, <3>1, <3>5, <3>6
    <2>2. CASE call.n # 1
      BY <1>4, <1>22, <2>2
    <2> QED  BY <2>1, <2>2
  <1>24. Under(md, x1, y2, z, u)'
    <2>1. md # "writes" => Chain(Hearing(md, Shown(md), 0, 0, 0), Heard, z, up, u)
      BY <1>5, <1>12 DEF Under
    <2> QED  BY <1>4, <1>6, <1>12, <1>23, <2>1, Zenon DEF Under
  <1>25. BoardAt(x1)'
    <2>1. BoardAt(x1)
      BY <1>5, <1>13, Zenon DEF BoardAt
    <2> QED  BY <1>6, <2>1
  <1>26. HostAt(y2)'
    <2>1. y2.a = m_lastaddr' /\ y2.m = meant' /\ y2.h = h
      BY <1>4, <1>19
    <2> QED  BY <1>18, <2>1, Zenon DEF HostAt, WroteRing
  <1>27. Writing(md)'
    <2>1. CASE call.n = 1
      BY <1>4, <2>1 DEF Writing
    <2>2. CASE call.n # 1
      <3>1. PICK n \in Nat : n = call.n - 1 /\ n >= 1 /\ call'.n = n /\ call'.inc = call.inc
        <4>1. call.n - 1 \in Nat /\ call.n - 1 >= 1
          BY <1>7, <1>9, <2>2
        <4>2. call' = [call EXCEPT !.n = call.n - 1] /\ call \in [a : Address, inc : Bits, n : Nat, cmdrd : Nat]
          BY <1>2, <1>4, <2>2 DEF TypeOK
        <4>3. call'.n = call.n - 1 /\ call'.inc = call.inc
          BY <4>2
        <4> QED  BY <4>1, <4>3
      <3>2. \A j \in Nat : m_lastaddr' + Times(j, call.inc) = m_lastaddr + Times(j + 1, call.inc)
        BY <1>4, <1>9, <1>10 DEF Times
      <3>3. n + 1 = call.n
        BY <1>9, <3>1
      <3>4. m_lastaddr' + Times(n, call'.inc) < NADDR
        BY <1>7, <3>1, <3>2, <3>3
      <3>5. ASSUME md = "safe", NEW j \in 0 .. n - 1 PROVE m_lastaddr' + Times(j, call'.inc) \notin ErrAddrs
        <4>1. j + 1 \in 0 .. call.n - 1 /\ j \in Nat
          BY <3>3
        <4> QED  BY <1>7, <3>1, <3>2, <3>5, <4>1
      <3>6. m_addr_set' = TRUE
        BY <1>4, <1>7
      <3> QED  BY <3>1, <3>4, <3>5, <3>6, Zenon DEF Writing
    <2> QED  BY <2>1, <2>2
  <1>28. pc' \in {"writing", "drain1"} /\ pc' # "reading"
    BY <1>4
  <1>29. PcOf(md)' /\ HostReading(md, z)' /\ BoardReading(md, x1, y2, u)' /\ Failed(md, u)' /\ Resting(md, u)'
    BY <1>6, <1>8, <1>28 DEF PcOf, HostReading, BoardReading, Failed, Resting
  <1>30. TypeOK'
    <2>1. call' \in [a : Address, inc : Bits, n : Nat, cmdrd : Nat]
      <3>1. CASE call.n = 1
        <4>1. 0 \in Address
          BY <1>10, Constants, SMTT(60)
        <4>2. 0 \in Bits
          BY Constants
        <4> QED  BY <1>4, <3>1, <4>1, <4>2 DEF NoCall
      <3>2. CASE call.n # 1
        <4>1. call.n - 1 \in Nat /\ call \in [a : Address, inc : Bits, n : Nat, cmdrd : Nat]
          BY <1>2, <1>7, <1>9 DEF TypeOK
        <4> QED  BY <1>4, <3>2, <4>1
      <3> QED  BY <3>1, <3>2
    <2>2. m_lastaddr' \in Int
      BY <1>4, <1>11
    <2> QED  BY <1>2, <1>4, <1>6, <1>16, <1>18, <1>23, <1>28, <2>1, <2>2 DEF TypeOK
  <1>31. Linked(md, x1, y2, z, u)'
    BY <1>24, <1>25, <1>26, <1>27, <1>29 DEF Linked
  <1> QED  BY <1>30, <1>31, Zenon DEF LinkInv

(* The caller takes its words and goes on.                                    *)
LEMMA ReturnStep ==
    ASSUME NEW md, LinkInv(md), Return PROVE LinkInv(md)'
  <1>1. PICK x \in Line, y \in Line, z \in Heard, u \in Heard : Linked(md, x, y, z, u)
    BY Zenon DEF LinkInv
  <1>2. TypeOK
    BY DEF LinkInv
  <1>3. /\ pc = "returned" /\ pc' = "idle" /\ call' = NoCall /\ got' = <<>>
        /\ m_addr_set' = m_addr_set /\ m_lastaddr' = m_lastaddr /\ m_rdaddr' = m_rdaddr /\ m_readtbl' = m_readtbl
        /\ m_wraddr' = m_wraddr /\ m_wrloaded' = m_wrloaded /\ m_writetbl' = m_writetbl
        /\ m_bus_err' = m_bus_err /\ meant' = meant /\ down' = down /\ up' = up /\ UNCHANGED board
    BY Zenon DEF Return
  <1>4. HostAt(y) /\ PcOf(md) /\ Under(md, x, y, z, u) /\ BoardAt(x) /\ Resting(md, u)
    BY <1>1 DEF Linked
  <1>5. /\ o_wb_addr' = o_wb_addr /\ r_new_addr' = r_new_addr /\ r_inc' = r_inc /\ rdleft' = rdleft
        /\ wr_addr' = wr_addr /\ wr_tbl' = wr_tbl /\ tbl_addr' = tbl_addr /\ tbl_filled' = tbl_filled
        /\ rd_tbl' = rd_tbl /\ mem' = mem /\ Shown(md)' = Shown(md)
        /\ \A e : BoardAt(e) => BoardAt(e)'
        /\ \A e : BoardTable(e) => BoardTable(e)'
    BY <1>3, BoardKept
  <1>6. FromOf' = FromOf /\ IncOf' = IncOf /\ LimOf' = LimOf
    BY <1>3 DEF FromOf, IncOf, LimOf
  <1>7. Under(md, x, y, z, u)'
    BY <1>3, <1>4, <1>5, <1>6, Zenon DEF Under
  <1>8. HostAt(y)'
    <2>1. m_addr_set = TRUE => y.a = m_lastaddr
      BY <1>3, <1>4 DEF HostAt
    <2> QED  BY <1>3, <1>4, <2>1, Zenon DEF HostAt
  <1>9. PcOf(md)' /\ Writing(md)' /\ HostReading(md, z)' /\ BoardReading(md, x, y, u)' /\ Failed(md, u)'
    BY <1>3, <1>4 DEF PcOf, Writing, HostReading, BoardReading, Failed
  <1>10. Resting(md, u)'
    BY <1>3, <1>4, <1>5 DEF Resting
  <1>11. TypeOK'
    <2>1. NoCall \in [a : Address, inc : Bits, n : Nat, cmdrd : Nat]
      <3>1. 0 \in Address /\ 0 \in Bits
        BY Constants
      <3> QED  BY <3>1 DEF NoCall
    <2>2. <<>> \in Seq(Values \cup {Junk})
      OBVIOUS
    <2> QED  BY <1>2, <1>3, <1>5, <2>1, <2>2 DEF TypeOK
  <1>12. Linked(md, x, y, z, u)'
    BY <1>4, <1>5, <1>7, <1>8, <1>9, <1>10 DEF Linked
  <1> QED  BY <1>11, <1>12, Zenon DEF LinkInv

(* A writer drains the line after its burst.                                  *)
LEMMA DrainStep ==
    ASSUME NEW md, LinkInv(md), ReadIdle \/ ReadIdleLook PROVE LinkInv(md)'
  <1>1. PICK x \in Line, y \in Line, z \in Heard, u \in Heard : Linked(md, x, y, z, u)
    BY Zenon DEF LinkInv
  <1>2. TypeOK
    BY DEF LinkInv
  <1>3. /\ pc \in {"drain1", "look1", "drain2", "look2"}
        /\ pc' \in {"drain1", "look1", "drain2", "look2", "idle", "ended"}
        /\ up' = up \/ (up # <<>> /\ up' = Tail(up))
        /\ m_addr_set' = m_addr_set /\ m_lastaddr' = m_lastaddr /\ m_rdaddr' = m_rdaddr /\ m_readtbl' = m_readtbl
        /\ m_wraddr' = m_wraddr /\ m_wrloaded' = m_wrloaded /\ m_writetbl' = m_writetbl
        /\ call' = call /\ got' = got /\ meant' = meant /\ down' = down /\ UNCHANGED board
    <2>1. CASE ReadIdle
      <3>1. /\ pc \in {"drain1", "drain2"}
            /\ \/ pc' = AfterDrain /\ up' = up
               \/ up # <<>> /\ up' = Tail(up) /\ pc' = IF Head(up) = Newline THEN AfterDrain ELSE Look
            /\ m_addr_set' = m_addr_set /\ m_lastaddr' = m_lastaddr /\ m_rdaddr' = m_rdaddr /\ m_readtbl' = m_readtbl
            /\ m_wraddr' = m_wraddr /\ m_wrloaded' = m_wrloaded /\ m_writetbl' = m_writetbl
            /\ call' = call /\ got' = got /\ meant' = meant /\ down' = down /\ UNCHANGED board
        BY <2>1, Zenon DEF ReadIdle
      <3>2. AfterDrain \in {"drain2", "idle"} /\ Look \in {"look1", "look2"}
        BY DEF AfterDrain, Look
      <3> QED  BY <3>1, <3>2
    <2>2. CASE ReadIdleLook
      <3>1. /\ pc \in {"look1", "look2"} /\ up # <<>> /\ up' = Tail(up)
            /\ pc' = IF Head(up).t = "err" THEN Thrown ELSE Drain
            /\ m_addr_set' = m_addr_set /\ m_lastaddr' = m_lastaddr /\ m_rdaddr' = m_rdaddr /\ m_readtbl' = m_readtbl
            /\ m_wraddr' = m_wraddr /\ m_wrloaded' = m_wrloaded /\ m_writetbl' = m_writetbl
            /\ call' = call /\ got' = got /\ meant' = meant /\ down' = down /\ UNCHANGED board
        BY <2>2, Zenon DEF ReadIdleLook
      <3>2. Drain \in {"drain1", "drain2"} /\ Thrown \in {"idle", "ended"}
        BY DEF Drain, Thrown
      <3> QED  BY <3>1, <3>2
    <2> QED  BY <2>1, <2>2
  <1>4. HostAt(y) /\ PcOf(md) /\ Under(md, x, y, z, u) /\ BoardAt(x) /\ Resting(md, u)
    BY <1>1 DEF Linked
  <1>5. /\ o_wb_addr' = o_wb_addr /\ r_new_addr' = r_new_addr /\ r_inc' = r_inc /\ rdleft' = rdleft
        /\ wr_addr' = wr_addr /\ wr_tbl' = wr_tbl /\ tbl_addr' = tbl_addr /\ tbl_filled' = tbl_filled
        /\ rd_tbl' = rd_tbl /\ mem' = mem /\ Shown(md)' = Shown(md)
        /\ \A e : BoardAt(e) => BoardAt(e)'
    BY <1>3, BoardKept
  <1>6. /\ md # "readers" /\ rdleft = 0 /\ pc # "reading" /\ pc' # "reading" /\ pc' # "writing"
        /\ pc \notin {"reading", "ended"}
    BY <1>3, <1>4 DEF PcOf, Resting
  <1>7. FromOf = 0 /\ IncOf = 0 /\ LimOf = 0 /\ FromOf' = 0 /\ IncOf' = 0 /\ LimOf' = 0
    BY <1>6 DEF FromOf, IncOf, LimOf
  <1>8. up \in Seq(Words) /\ up' \in Seq(Words)
    <2>1. up \in Seq(Words)
      BY <1>2 DEF TypeOK
    <2>2. up # <<>> => Tail(up) \in Seq(Words)
      BY <2>1
    <2>3. up' = up \/ (up # <<>> /\ up' = Tail(up))
      BY <1>3
    <2> QED  BY <2>1, <2>2, <2>3, Zenon
  <1>9. \E z2 \in Heard : Under(md, x, y, z2, u)'
    <2>1. Chain(Obeying(md, 0, 0, 0), Line, x, down', y)
      BY <1>3, <1>4, <1>7 DEF Under
    <2>2. CASE md = "writes" \/ up' = up
      <3>1. Under(md, x, y, z, u)'
        BY <1>4, <1>5, <1>7, <2>1, <2>2, Zenon DEF Under
      <3> QED  BY <3>1
    <2>3. CASE md # "writes" /\ up # <<>> /\ up' = Tail(up)
      <3>1. Chain(Hearing(md, Shown(md), 0, 0, 0), Heard, z, up, u)
        BY <1>4, <1>7, <2>3 DEF Under
      <3>2. PICK z2 \in Heard : Chain(Hearing(md, Shown(md), 0, 0, 0), Heard, z2, Tail(up), u)
        BY <1>8, <2>3, <3>1, ChainHead
      <3>3. Under(md, x, y, z2, u)'
        BY <1>5, <1>7, <2>1, <2>3, <3>2, Zenon DEF Under
      <3> QED  BY <3>3
    <2> QED  BY <1>3, <2>2, <2>3
  <1>10. PICK z2 \in Heard : Under(md, x, y, z2, u)'
    BY <1>9
  <1>11. HostAt(y)'
    <2>1. m_addr_set = TRUE => y.a = m_lastaddr
      BY <1>4, <1>6 DEF HostAt
    <2> QED  BY <1>3, <1>4, <2>1, Zenon DEF HostAt
  <1>12. PcOf(md)' /\ Writing(md)' /\ HostReading(md, z2)' /\ BoardReading(md, x, y, u)' /\ Failed(md, u)'
    BY <1>3, <1>6 DEF PcOf, Writing, HostReading, BoardReading, Failed
  <1>13. Resting(md, u)'
    BY <1>5, <1>6 DEF Resting
  <1>14. TypeOK'
    BY <1>2, <1>3, <1>5, <1>8 DEF TypeOK
  <1>15. Linked(md, x, y, z2, u)'
    BY <1>4, <1>5, <1>10, <1>11, <1>12, <1>13 DEF Linked
  <1> QED  BY <1>14, <1>15, Zenon DEF LinkInv

(* Another program starts with tables of its own and knows of no address.     *)
LEMMA RestartStep ==
    ASSUME NEW md, LinkInv(md), Restart PROVE LinkInv(md)'
  <1>1. PICK x \in Line, y \in Line, z \in Heard, u \in Heard : Linked(md, x, y, z, u)
    BY Zenon DEF LinkInv
  <1>2. TypeOK
    BY DEF LinkInv
  <1>3. /\ pc \in {"idle", "ended"} /\ pc' = "idle" /\ m_addr_set' = FALSE
        /\ m_wrloaded' = FALSE /\ m_rdaddr' = 0 /\ m_wraddr' = 0 /\ m_lastaddr' = 0
        /\ m_readtbl' = [i \in 0 .. RDTBL - 1 |-> Junk]
        /\ m_writetbl' = [i \in 0 .. WRTBL - 1 |-> Junk]
        /\ call' = call /\ got' = got /\ meant' = meant /\ down' = down /\ up' = up /\ UNCHANGED board
    BY Zenon DEF Restart
  <1>4. HostAt(y) /\ PcOf(md) /\ Under(md, x, y, z, u) /\ BoardAt(x) /\ Resting(md, u)
    BY <1>1 DEF Linked
  <1>5. /\ o_wb_addr' = o_wb_addr /\ r_new_addr' = r_new_addr /\ r_inc' = r_inc /\ rdleft' = rdleft
        /\ wr_addr' = wr_addr /\ wr_tbl' = wr_tbl /\ tbl_addr' = tbl_addr /\ tbl_filled' = tbl_filled
        /\ rd_tbl' = rd_tbl /\ mem' = mem /\ Shown(md)' = Shown(md)
        /\ \A e : BoardAt(e) => BoardAt(e)'
    BY <1>3, BoardKept
  <1>6. FromOf' = FromOf /\ IncOf' = IncOf /\ LimOf' = LimOf
    BY <1>3 DEF FromOf, IncOf, LimOf
  <1>7. Under(md, x, y, z, u)'
    BY <1>3, <1>4, <1>5, <1>6, Zenon DEF Under
  <1>8. HostAt(y)'
    <2>1. 0 \in 0 .. WRTBL - 1 /\ WRTBL - 1 \in Nat /\ WRTBL \in Nat \ {0} /\ y.h \in Seq(Values)
      BY Constants DEF Line
    <2>2. PICK tbl, h : tbl = m_writetbl' /\ h = y.h
      OBVIOUS
    <2>3. Ring(tbl, 0, h, 0, WRTBL, WRTBL - 1)
      BY <2>1, <2>2, RingEmpty
    <2>4. Reach(0, FALSE, 0, WRTBL)
      BY DEF Reach
    <2>5. y.m = meant
      BY <1>4 DEF HostAt
    <2>6. PICK r \in Nat : r = 0
      OBVIOUS
    <2>7. Ring(m_writetbl', m_wraddr', y.h, r, WRTBL, WRTBL - 1) /\ Reach(m_wraddr', m_wrloaded', r, WRTBL)
      BY <1>3, <2>2, <2>3, <2>4, <2>6
    <2>8. ~(m_addr_set' = TRUE)
      BY <1>3
    <2>9. y.m = meant'
      BY <1>3, <2>5
    <2> QED  BY <2>7, <2>8, <2>9, Zenon DEF HostAt
  <1>9. PcOf(md)' /\ Writing(md)' /\ HostReading(md, z)' /\ BoardReading(md, x, y, u)' /\ Failed(md, u)'
    BY <1>3, <1>4 DEF PcOf, Writing, HostReading, BoardReading, Failed
  <1>10. Resting(md, u)'
    BY <1>3, <1>4, <1>5 DEF Resting
  <1>11. TypeOK'
    <2>1. m_readtbl' \in [0 .. RDTBL - 1 -> Values \cup {Junk}] /\ m_writetbl' \in [0 .. WRTBL - 1 -> Values \cup {Junk}]
      BY <1>3
    <2>2. m_rdaddr' \in 0 .. RDTBL - 1 /\ m_wraddr' \in 0 .. WRTBL - 1 /\ m_lastaddr' \in Int
      BY <1>3, Constants
    <2>3. FALSE \in BOOLEAN
      OBVIOUS
    <2>4. m_addr_set' \in BOOLEAN /\ m_wrloaded' \in BOOLEAN
      BY <1>3, <2>3, Zenon
    <2> QED  BY <1>2, <1>3, <1>5, <2>1, <2>2, <2>4 DEF TypeOK
  <1>12. Linked(md, x, y, z, u)'
    BY <1>4, <1>5, <1>7, <1>8, <1>9, <1>10 DEF Linked
  <1> QED  BY <1>11, <1>12, Zenon DEF LinkInv

LEMMA InitStep ==
    ASSUME NEW md, Init PROVE LinkInv(md)
  <1>1. /\ m_addr_set = FALSE /\ m_lastaddr = 0 /\ m_rdaddr = 0
        /\ m_readtbl = [i \in 0 .. RDTBL - 1 |-> Junk] /\ m_wraddr = 0 /\ m_wrloaded = FALSE
        /\ m_writetbl = [i \in 0 .. WRTBL - 1 |-> Junk]
        /\ pc = "idle" /\ call = NoCall /\ got = <<>> /\ down = <<>> /\ up = <<>>
        /\ o_wb_addr = 0 /\ r_new_addr = 1 /\ r_inc = 0 /\ rdleft = 0
        /\ wr_addr = 0 /\ wr_tbl = [i \in 0 .. WRTBL - 1 |-> Junk]
        /\ tbl_addr = 0 /\ tbl_filled = FALSE
        /\ rd_tbl = [i \in 0 .. RDTBL - 1 |-> Junk]
        /\ mem \in [Address -> Values] /\ meant = mem
    BY DEF Init
  <1>2. 0 \in Address /\ 0 \in 0 .. RDTBL - 1 /\ 0 \in 0 .. WRTBL - 1 /\ 0 \in Bits /\ 1 \in Bits
    BY Constants
  <1>3. FALSE \in BOOLEAN
    OBVIOUS
  <1>4. TypeOK
    <2>1. NoCall \in [a : Address, inc : Bits, n : Nat, cmdrd : Nat]
      BY <1>2 DEF NoCall
    <2>2. <<>> \in Seq(Values \cup {Junk}) /\ <<>> \in Seq(Words)
      OBVIOUS
    <2>3. m_readtbl \in [0 .. RDTBL - 1 -> Values \cup {Junk}] /\ m_writetbl \in [0 .. WRTBL - 1 -> Values \cup {Junk}]
          /\ wr_tbl \in [0 .. WRTBL - 1 -> Values \cup {Junk}] /\ rd_tbl \in [0 .. RDTBL - 1 -> Values \cup {Junk}]
      BY <1>1
    <2>4. m_addr_set \in BOOLEAN /\ m_wrloaded \in BOOLEAN /\ tbl_filled \in BOOLEAN
      BY <1>1, <1>3, Zenon
    <2> QED  BY <1>1, <1>2, <2>1, <2>2, <2>3, <2>4 DEF TypeOK
  <1>5. PICK x \in Line : x.a = 0 /\ x.p = 0 /\ x.h = <<>> /\ x.m = mem /\ x.f = 1 /\ x.t = 0
    <2>1. [a |-> 0, p |-> 0, h |-> <<>>, m |-> mem, f |-> 1, t |-> 0] \in Line
      BY <1>1, <1>2 DEF Line
    <2> QED  BY <2>1
  <1>6. PICK z \in Heard : z.g = 0 /\ z.t = 0 /\ z.q = <<>> /\ z.f = 0
    <2>1. [g |-> 0, t |-> 0, q |-> <<>>, f |-> 0] \in Heard
      BY <1>2 DEF Heard
    <2> QED  BY <2>1
  <1>7. Under(md, x, x, z, z)
    BY <1>1, ChainEmpty DEF Under
  <1>8. \A tbl : Ring(tbl, 0, x.h, 0, WRTBL, WRTBL - 1)
    <2>1. WRTBL - 1 \in Nat /\ WRTBL \in Nat \ {0} /\ x.h \in Seq(Values)
      BY Constants DEF Line
    <2> QED  BY <1>2, <2>1, RingEmpty
  <1>9. BoardAt(x)
    <2>1. Len(x.h) = 0
      BY <1>5
    <2>2. PICK l : l = Len(x.h) /\ l = 0
      BY <2>1
    <2>3. Ring(wr_tbl, wr_addr, x.h, Len(x.h), WRTBL, WRTBL - 1)
      BY <1>1, <1>8, <2>2, Zenon
    <2>4. x.a = o_wb_addr + Times(rdleft, r_inc)
      BY <1>1, <1>5 DEF Times
    <2> QED  BY <1>1, <1>5, <2>3, <2>4 DEF BoardAt
  <1>10. HostAt(x)
    <2>1. Reach(0, FALSE, 0, WRTBL)
      BY DEF Reach
    <2>2. PICK r \in Nat : r = 0
      OBVIOUS
    <2>3. Ring(m_writetbl, m_wraddr, x.h, r, WRTBL, WRTBL - 1) /\ Reach(m_wraddr, m_wrloaded, r, WRTBL)
      BY <1>1, <1>8, <2>1, <2>2
    <2>4. ~(m_addr_set = TRUE)
      BY <1>1
    <2>5. x.m = meant
      BY <1>1, <1>5
    <2> QED  BY <2>3, <2>4, <2>5, Zenon DEF HostAt
  <1>11. PcOf(md) /\ Writing(md) /\ HostReading(md, z) /\ BoardReading(md, x, x, z) /\ Failed(md, z)
         /\ Resting(md, z)
    BY <1>1 DEF PcOf, Writing, HostReading, BoardReading, Failed, Resting
  <1>12. Linked(md, x, x, z, z)
    BY <1>7, <1>9, <1>10, <1>11 DEF Linked
  <1> QED  BY <1>4, <1>12, Zenon DEF LinkInv

(* Further read commands follow those that are with the board.                *)
LEMMA SendReadsStep ==
    ASSUME NEW md, Setting(md), LinkInv(md), SendReads PROVE LinkInv(md)'
  <1>1. PICK x \in Line, y \in Line, z \in Heard, u \in Heard : Linked(md, x, y, z, u)
    BY Zenon DEF LinkInv
  <1>2. TypeOK
    BY DEF LinkInv
  <1>3. PICK cmdrd : cmdrd = Min({call.n, Len(got) + READAHEAD + READBLOCK})
    OBVIOUS
  <1>4. /\ pc = "reading" /\ call.cmdrd < call.n /\ Len(got) >= call.cmdrd - READAHEAD
        /\ down' = down \o ReadCommands(call.cmdrd, cmdrd, call.inc)
        /\ call' = [call EXCEPT !.cmdrd = cmdrd]
        /\ m_addr_set' = m_addr_set /\ m_lastaddr' = m_lastaddr /\ m_rdaddr' = m_rdaddr /\ m_readtbl' = m_readtbl
        /\ m_wraddr' = m_wraddr /\ m_wrloaded' = m_wrloaded /\ m_writetbl' = m_writetbl
        /\ m_bus_err' = m_bus_err /\ pc' = pc /\ got' = got /\ meant' = meant /\ up' = up /\ UNCHANGED board
    BY <1>3, Zenon DEF SendReads
  <1>5. /\ HostAt(y) /\ PcOf(md) /\ Under(md, x, y, z, u) /\ BoardAt(x)
        /\ HostReading(md, z) /\ BoardReading(md, x, y, u) /\ Failed(md, u)
    BY <1>1 DEF Linked
  <1>6. /\ o_wb_addr' = o_wb_addr /\ r_new_addr' = r_new_addr /\ r_inc' = r_inc /\ rdleft' = rdleft
        /\ wr_addr' = wr_addr /\ wr_tbl' = wr_tbl /\ tbl_addr' = tbl_addr /\ tbl_filled' = tbl_filled
        /\ rd_tbl' = rd_tbl /\ mem' = mem /\ Shown(md)' = Shown(md)
        /\ \A e : BoardAt(e) => BoardAt(e)'
        /\ \A e : BoardTable(e) => BoardTable(e)'
    BY <1>4, BoardKept
  <1>7. PICK a \in Nat, inc \in Bits, n \in Nat, c \in Nat :
          /\ a = call.a /\ inc = call.inc /\ n = call.n /\ c = call.cmdrd /\ a \in Address
    BY <1>2, CallFacts
  <1>8. /\ c >= 1 /\ c <= n /\ c < n /\ a + Times(n, inc) < NADDR
        /\ md = "safe" => \A j \in 0 .. n - 1 : a + Times(j, inc) \notin ErrAddrs
        /\ z.f = 0 /\ z.g = Len(got) /\ z.g <= c /\ z.g \in Nat
        /\ z.t = 1 => m_addr_set = TRUE /\ m_lastaddr = a + Times(z.g, inc)
        /\ z.t = 0 => z.g = 0 /\ m_rdaddr = 0
        /\ Failing(md) => READAHEAD = 0
        /\ md = "readers" =>
              /\ GotRight
              /\ z.t = 1 => Ring(m_readtbl, m_rdaddr, z.q, Len(z.q), RDTBL, MAXD)
    <2>1. z.g \in Nat
      BY HeardFacts
    <2>2. c # n
      BY <1>4, <1>7
    <2> QED  BY <1>4, <1>5, <1>7, <2>1, <2>2 DEF HostReading
  <1>9. /\ cmdrd \in Nat /\ c < cmdrd /\ cmdrd <= n /\ cmdrd <= z.g + READAHEAD + READBLOCK
    <2>1. PICK g \in Nat, ra \in Nat, rb \in Nat \ {0} : g = z.g /\ ra = READAHEAD /\ rb = READBLOCK
      BY <1>8, Constants
    <2>2. g + ra + rb \in Nat /\ g >= c - ra
      BY <1>4, <1>7, <1>8, <2>1
    <2>3. cmdrd = Min({n, g + ra + rb})
      BY <1>3, <1>7, <1>8, <2>1
    <2>4. cmdrd = IF n <= g + ra + rb THEN n ELSE g + ra + rb
      BY <2>2, <2>3, MinOfTwo
    <2> QED  BY <1>8, <2>1, <2>2, <2>4
  <1>10. /\ call'.a = a /\ call'.inc = inc /\ call'.n = n /\ call'.cmdrd = cmdrd
         /\ call' \in [a : Address, inc : Bits, n : Nat, cmdrd : Nat]
    <2>1. call \in [a : Address, inc : Bits, n : Nat, cmdrd : Nat]
      BY <1>2 DEF TypeOK
    <2> QED  BY <1>4, <1>7, <1>9, <2>1
  <1>11. /\ FromOf = a /\ IncOf = inc /\ LimOf = c /\ FromOf' = a /\ IncOf' = inc /\ LimOf' = cmdrd
    BY <1>4, <1>7, <1>10 DEF FromOf, IncOf, LimOf
  <1>12. md # "writes" /\ (u.f = 0 \/ Failing(md))
    BY <1>4, <1>5, HeardFacts DEF PcOf, Failed
  <1>13. down \in Seq(Words) /\ up \in Seq(Words) /\ rdleft \in Nat
    BY <1>2 DEF TypeOK
  <1>14. /\ Chain(Obeying(md, a, inc, c), Line, x, down, y)
         /\ Chain(Hearing(md, Shown(md), a, inc, c), Heard, z, up, u)
    <2>1. md # "writes"
      BY <1>12
    <2> QED  BY <1>5, <1>11, <2>1, Zenon DEF Under
  <1>15. ASSUME Failing(md) PROVE u = z /\ z.g = c
    <2>1. z.g >= c
      BY <1>4, <1>7, <1>8, <1>15
    <2>2. z.g = c
      BY <1>8, <2>1
    <2>3. u = z
      BY <1>13, <1>14, <2>1, HeardSettled, SMTT(60)
    <2> QED  BY <2>2, <2>3
  <1>16. u.f = 0
    BY <1>8, <1>12, <1>15
  <1>17. /\ y.p = c /\ y.a = a + Times(c, inc) /\ y.f = 0 /\ y.t = 1
         /\ x.t = u.t /\ x.p = u.g + rdleft /\ x.p <= c /\ (x.f = 1 => x.p = 0)
         /\ rdleft > 0 => /\ r_inc = inc /\ o_wb_addr = a + Times(u.g, inc) /\ x.t = 1 /\ x.f = 0
         /\ md = "readers" => (u.t = 1 => BoardTable(u))
         /\ u.g \in Nat
    BY <1>4, <1>5, <1>7, <1>16, HeardFacts DEF BoardReading
  <1>18. ASSUME Failing(md) PROVE down = <<>> /\ x = y /\ rdleft = 0
    <2>1. rdleft = 0 /\ x.p >= c
      BY <1>13, <1>15, <1>17, <1>18
    <2>2. c \in Nat \ {0}
      BY <1>8
    <2>3. down = <<>>
      BY <1>13, <1>14, <2>1, <2>2, AllTaken
    <2>4. x = y
      BY <1>14, <2>3, ChainEmpty
    <2> QED  BY <2>1, <2>3, <2>4
  <1>19. Chain(Obeying(md, a, inc, cmdrd), Line, x, down, y)
    <2>1. CASE Failing(md)
      BY <1>18, <2>1, ChainEmpty
    <2>2. CASE ~Failing(md)
      <3>1. c <= cmdrd
        BY <1>9
      <3> QED  BY <1>9, <1>13, <1>14, <2>2, <3>1, Raised
    <2> QED  BY <2>1, <2>2
  <1>20. Chain(Hearing(md, Shown(md), a, inc, cmdrd), Heard, z, up, u)
    <2>1. c <= cmdrd
      BY <1>9
    <2> QED  BY <1>9, <1>13, <1>14, <2>1, HeardRaised
  <1>21. /\ ReadCommands(c, cmdrd, inc) \in Seq(Words)
         /\ \E y2 \in Line :
              /\ Chain(Obeying(md, a, inc, cmdrd), Line, y, ReadCommands(c, cmdrd, inc), y2)
              /\ y2.p = cmdrd /\ y2.a = a + Times(cmdrd, inc) /\ y2.h = y.h /\ y2.m = y.m /\ y2.f = 0 /\ y2.t = 1
    <2>1. a + Times(cmdrd, inc) < NADDR
      <3>1. Times(cmdrd, inc) <= Times(n, inc) /\ Times(cmdrd, inc) \in Nat /\ Times(n, inc) \in Nat
        BY <1>9 DEF Times
      <3>2. NADDR \in Int
        BY Constants
      <3> QED  BY <1>8, <3>1, <3>2
    <2>2. (Failing(md) => cmdrd - c <= READBLOCK) /\ (md = "readers" => (y.f = 1 => y.t = 0))
      BY <1>8, <1>9, <1>15, <1>17, Constants
    <2>3. md # "writes"
      BY <1>12
    <2>4. Ready(md, a, inc, c, cmdrd, y)
      BY <1>9, <1>17, <2>1, <2>2, <2>3 DEF Ready
    <2>5. Led(md, a, inc, c, cmdrd, y)
      BY <1>9, <2>4, ReadsSent
    <2> QED  BY <2>5, Zenon DEF Led
  <1>22. PICK y2 \in Line :
              /\ Chain(Obeying(md, a, inc, cmdrd), Line, y, ReadCommands(c, cmdrd, inc), y2)
              /\ y2.p = cmdrd /\ y2.a = a + Times(cmdrd, inc) /\ y2.h = y.h /\ y2.m = y.m /\ y2.f = 0 /\ y2.t = 1
    BY <1>21
  <1>23. Chain(Obeying(md, a, inc, cmdrd), Line, x, down', y2) /\ down' \in Seq(Words)
    <2>1. PICK r \in Seq(Words) : r = ReadCommands(c, cmdrd, inc)
      BY <1>21
    <2>2. Chain(Obeying(md, a, inc, cmdrd), Line, y, r, y2) /\ down' = down \o r
      BY <1>4, <1>7, <1>22, <2>1
    <2>3. Chain(Obeying(md, a, inc, cmdrd), Line, x, down \o r, y2)
      BY <1>13, <1>19, <2>2, ChainConcat
    <2> QED  BY <1>13, <2>2, <2>3
  <1>24. Under(md, x, y2, z, u)'
    BY <1>4, <1>6, <1>11, <1>20, <1>23, Zenon DEF Under
  <1>25. HostAt(y2)'
    <2>1. y2.h = y.h /\ y2.m = y.m
      BY <1>22
    <2> QED  BY <1>4, <1>5, <2>1, Zenon DEF HostAt
  <1>26. HostReading(md, z)'
    <2>1. md = "readers" => GotRight'
      <3>1. call'.a = call.a /\ call'.inc = call.inc
        BY <1>7, <1>10
      <3> QED  BY <1>4, <1>6, <1>8, <3>1, Zenon DEF GotRight
    <2>2. cmdrd >= 1 /\ z.g <= cmdrd
      BY <1>8, <1>9
    <2> QED  BY <1>4, <1>8, <1>9, <1>10, <2>1, <2>2, Zenon DEF HostReading
  <1>27. BoardReading(md, x, y2, u)'
    <2>1. x.p <= cmdrd
      <3>1. x.p \in Nat
        BY DEF Line
      <3> QED  BY <1>9, <1>17, <3>1
    <2>2. Failing(md) => ~(rdleft' > 0)
      BY <1>6, <1>18
    <2>3. md = "readers" => (u.t = 1 => BoardTable(u)')
      BY <1>6, <1>17
    <2> QED  BY <1>6, <1>10, <1>17, <1>22, <2>1, <2>2, <2>3, Zenon DEF BoardReading
  <1>28. PcOf(md)' /\ Writing(md)' /\ Failed(md, u)' /\ Resting(md, u)'
    BY <1>4, <1>5, <1>16 DEF PcOf, Writing, Failed, Resting
  <1>29. TypeOK'
    BY <1>2, <1>4, <1>6, <1>10, <1>23 DEF TypeOK
  <1>30. Linked(md, x, y2, z, u)'
    BY <1>5, <1>6, <1>24, <1>25, <1>26, <1>27, <1>28 DEF Linked
  <1> QED  BY <1>29, <1>30, Zenon DEF LinkInv

(* What the host makes of a word of a read, and what it puts into its table.  *)
TableTakes(w) ==
    /\ m_readtbl' = IF w.t = "raw" THEN [m_readtbl EXCEPT ![m_rdaddr] = w.v] ELSE m_readtbl
    /\ m_rdaddr' = IF w.t = "raw" THEN (m_rdaddr + 1) % RDTBL ELSE m_rdaddr
WordTaken(md, mm, a, inc, z, w, z2) ==
    /\ Decoded(w) \in Values \cup {Junk}
    /\ m_readtbl' \in [0 .. RDTBL - 1 -> Values \cup {Junk}] /\ m_rdaddr' \in 0 .. RDTBL - 1
    /\ md = "readers" /\ Ring(m_readtbl, m_rdaddr, z.q, Len(z.q), RDTBL, MAXD) =>
          /\ Decoded(w) = mm[Plus(a, Times(z.g, inc))]
          /\ Ring(m_readtbl', m_rdaddr', z2.q, Len(z2.q), RDTBL, MAXD)

LEMMA WordRead ==
    ASSUME TypeOK, NEW md, NEW mm, NEW a, NEW inc, NEW lim, NEW z \in Heard, NEW w, NEW z2 \in Heard,
           WordHeard(md, mm, a, inc, lim, z, w, z2), TableTakes(w)
    PROVE  WordTaken(md, mm, a, inc, z, w, z2)
  <1>1. /\ m_readtbl \in [0 .. RDTBL - 1 -> Values \cup {Junk}] /\ m_rdaddr \in 0 .. RDTBL - 1
        /\ RDTBL \in Nat \ {0} /\ MAXD \in Nat /\ MAXD < RDTBL /\ z.q \in Seq(Values)
    BY HeardFacts, Constants DEF TypeOK
  <1>2. CASE w.t = "raw"
    <2>1. /\ w.v \in Values /\ z2.q = Append(z.q, w.v)
          /\ md = "readers" => w.v = mm[Plus(a, Times(z.g, inc))]
      BY <1>2, Zenon DEF WordHeard
    <2>2. m_readtbl' = [m_readtbl EXCEPT ![m_rdaddr] = w.v] /\ m_rdaddr' = (m_rdaddr + 1) % RDTBL
      BY <1>2, Zenon DEF TableTakes
    <2>3. Decoded(w) = w.v
      BY <1>2 DEF Decoded
    <2>4. m_rdaddr' \in 0 .. RDTBL - 1
      <3>1. 1 \in 1 .. RDTBL
        BY <1>1
      <3> QED  BY <1>1, <2>2, <3>1, PlaceFacts
    <2>5. m_readtbl' \in [0 .. RDTBL - 1 -> Values \cup {Junk}]
      BY <1>1, <2>1, <2>2
    <2>6. ASSUME Ring(m_readtbl, m_rdaddr, z.q, Len(z.q), RDTBL, MAXD)
          PROVE  Ring(m_readtbl', m_rdaddr', z2.q, Len(z2.q), RDTBL, MAXD)
      <3>1. Ring([m_readtbl EXCEPT ![m_rdaddr] = w.v], (m_rdaddr + 1) % RDTBL, Append(z.q, w.v), Len(z.q) + 1, RDTBL, MAXD)
        BY <1>1, <2>1, <2>6, RingPushed
      <3>2. Len(Append(z.q, w.v)) = Len(z.q) + 1
        BY <1>1
      <3> QED  BY <2>1, <2>2, <3>1, <3>2, Zenon
    <2>7. Decoded(w) \in Values \cup {Junk}
      BY <2>1, <2>3
    <2> QED  BY <2>1, <2>3, <2>4, <2>5, <2>6, <2>7, Zenon DEF WordTaken
  <1>3. CASE w.t # "raw"
    <2>1. /\ w.v \in 1 .. MAXD /\ z2.q = z.q
          /\ md = "readers" => /\ w.v <= Len(z.q)
                               /\ z.q[Len(z.q) - w.v + 1] = mm[Plus(a, Times(z.g, inc))]
      BY <1>3, Zenon DEF WordHeard
    <2>2. m_readtbl' = m_readtbl /\ m_rdaddr' = m_rdaddr
      BY <1>3, Zenon DEF TableTakes
    <2>3. Decoded(w) = m_readtbl[(m_rdaddr - w.v) % RDTBL]
      BY <1>3 DEF Decoded
    <2>4. (m_rdaddr - w.v) % RDTBL \in 0 .. RDTBL - 1
      <3>1. w.v \in 1 .. RDTBL
        BY <1>1, <2>1
      <3> QED  BY <1>1, <3>1, PlaceFacts
    <2>5. Decoded(w) \in Values \cup {Junk}
      <3>1. PICK k \in 0 .. RDTBL - 1 : k = (m_rdaddr - w.v) % RDTBL
        BY <2>4
      <3>2. m_readtbl[k] \in Values \cup {Junk}
        BY <1>1
      <3> QED  BY <2>3, <3>1, <3>2
    <2>6. ASSUME md = "readers", Ring(m_readtbl, m_rdaddr, z.q, Len(z.q), RDTBL, MAXD)
          PROVE  m_readtbl[(m_rdaddr - w.v) % RDTBL] = z.q[Len(z.q) - w.v + 1]
      BY <2>1, <2>6, Zenon DEF Ring
    <2>7. Ring(m_readtbl, m_rdaddr, z.q, Len(z.q), RDTBL, MAXD) => Ring(m_readtbl', m_rdaddr', z2.q, Len(z2.q), RDTBL, MAXD)
      BY <2>1, <2>2
    <2>8. m_readtbl' \in [0 .. RDTBL - 1 -> Values \cup {Junk}] /\ m_rdaddr' \in 0 .. RDTBL - 1
      BY <1>1, <2>2, Zenon
    <2> QED  BY <2>1, <2>3, <2>5, <2>6, <2>7, <2>8, Zenon DEF WordTaken
  <1> QED  BY <1>2, <1>3

(* One word of the stream.                                                    *)
LEMMA ReadWordStep ==
    ASSUME NEW md, Setting(md), LinkInv(md), ReadWord PROVE LinkInv(md)'
  <1>1. PICK x \in Line, y \in Line, z \in Heard, u \in Heard : Linked(md, x, y, z, u)
    BY Zenon DEF LinkInv
  <1>2. TypeOK
    BY DEF LinkInv
  <1>3. PICK w, data, all, last :
          /\ w = Head(up) /\ data = (w.t \in {"raw", "ref"}) /\ all = (data /\ Len(got) + 1 = call.n)
          /\ last = IF w.t = "addr" THEN w.v ELSE IF data THEN m_lastaddr + w.i ELSE m_lastaddr
    OBVIOUS
  <1>4. /\ pc = "reading" /\ up # <<>> /\ up' = Tail(up)
        /\ m_lastaddr' = last
        /\ m_addr_set' = (m_addr_set \/ w.t = "addr")
        /\ got' = (IF data THEN Append(got, Decoded(w)) ELSE got)
        /\ TableTakes(w)
        /\ pc' = IF w.t = "err" THEN Thrown
                 ELSE IF ~all THEN "reading"
                 ELSE IF last = call.a + call.inc * call.n THEN "returned"
                 ELSE "exit"
        /\ m_wraddr' = m_wraddr /\ m_wrloaded' = m_wrloaded /\ m_writetbl' = m_writetbl
        /\ call' = call /\ meant' = meant /\ down' = down /\ UNCHANGED board
    BY <1>3, Zenon DEF ReadWord, TableTakes
  <1>5. /\ HostAt(y) /\ PcOf(md) /\ Under(md, x, y, z, u) /\ BoardAt(x)
        /\ HostReading(md, z) /\ BoardReading(md, x, y, u) /\ Failed(md, u)
    BY <1>1 DEF Linked
  <1>6. /\ o_wb_addr' = o_wb_addr /\ r_new_addr' = r_new_addr /\ r_inc' = r_inc /\ rdleft' = rdleft
        /\ wr_addr' = wr_addr /\ wr_tbl' = wr_tbl /\ tbl_addr' = tbl_addr /\ tbl_filled' = tbl_filled
        /\ rd_tbl' = rd_tbl /\ mem' = mem /\ Shown(md)' = Shown(md)
        /\ \A e : BoardAt(e) => BoardAt(e)'
        /\ \A e : BoardTable(e) => BoardTable(e)'
    BY <1>4, BoardKept
  <1>7. PICK a \in Nat, inc \in Bits, n \in Nat, c \in Nat :
          /\ a = call.a /\ inc = call.inc /\ n = call.n /\ c = call.cmdrd /\ a \in Address
    BY <1>2, CallFacts
  <1>8. /\ c >= 1 /\ c <= n /\ a + Times(n, inc) < NADDR
        /\ md = "safe" => \A j \in 0 .. n - 1 : a + Times(j, inc) \notin ErrAddrs
        /\ z.f = 0 /\ z.g = Len(got) /\ z.g <= c /\ z.g \in Nat
        /\ z.t = 1 => m_addr_set = TRUE /\ m_lastaddr = a + Times(z.g, inc)
        /\ z.t = 0 => z.g = 0 /\ m_rdaddr = 0
        /\ Failing(md) => c = n \/ READAHEAD = 0
        /\ md = "readers" =>
              /\ GotRight
              /\ z.t = 1 => Ring(m_readtbl, m_rdaddr, z.q, Len(z.q), RDTBL, MAXD)
    <2>1. z.g \in Nat
      BY HeardFacts
    <2> QED  BY <1>4, <1>5, <1>7, <2>1 DEF HostReading
  <1>9. /\ FromOf = a /\ IncOf = inc /\ LimOf = c
        /\ call'.a = a /\ call'.inc = inc /\ call'.n = n /\ call'.cmdrd = c
    BY <1>4, <1>7 DEF FromOf, IncOf, LimOf
  <1>10. /\ down \in Seq(Words) /\ up \in Seq(Words) /\ up' \in Seq(Words) /\ rdleft \in Nat
         /\ got \in Seq(Values \cup {Junk}) /\ m_addr_set \in BOOLEAN /\ m_lastaddr \in Int
         /\ m_readtbl \in [0 .. RDTBL - 1 -> Values \cup {Junk}] /\ m_rdaddr \in 0 .. RDTBL - 1
    <2>1. /\ down \in Seq(Words) /\ up \in Seq(Words) /\ rdleft \in Nat
          /\ got \in Seq(Values \cup {Junk}) /\ m_addr_set \in BOOLEAN /\ m_lastaddr \in Int
          /\ m_readtbl \in [0 .. RDTBL - 1 -> Values \cup {Junk}] /\ m_rdaddr \in 0 .. RDTBL - 1
      BY <1>2 DEF TypeOK
    <2>2. up' \in Seq(Words)
      BY <1>4, <2>1
    <2> QED  BY <2>1, <2>2
  <1>11. /\ md # "writes"
         /\ Chain(Obeying(md, a, inc, c), Line, x, down, y)
         /\ Chain(Hearing(md, Shown(md), a, inc, c), Heard, z, up, u)
    <2>1. md # "writes"
      BY <1>4, <1>5 DEF PcOf
    <2> QED  BY <1>5, <1>9, <2>1, Zenon DEF Under
  <1>12. PICK z2 \in Heard : /\ Hears(md, Shown(md), a, inc, c, z, w, z2) /\ w \in Words
                             /\ Chain(Hearing(md, Shown(md), a, inc, c), Heard, z2, up', u)
    <2>1. PICK z2 \in Heard : /\ <<z, Head(up), z2>> \in Hearing(md, Shown(md), a, inc, c)
                              /\ Chain(Hearing(md, Shown(md), a, inc, c), Heard, z2, Tail(up), u)
      BY <1>4, <1>10, <1>11, ChainHead
    <2> QED  BY <1>3, <1>4, <2>1, HearingFacts
  <1>13. HostAt(y) => WroteRing(y.h)'
    BY <1>4, HostAtFacts, WroteRingKept
  (* The read goes on. *)
  <1>14. ASSUME pc' = "reading", HostReading(md, z2)', TypeOK' PROVE LinkInv(md)'
    <2>1. FromOf' = a /\ IncOf' = inc /\ LimOf' = c
      BY <1>9, <1>14 DEF FromOf, IncOf, LimOf
    <2>2. Under(md, x, y, z2, u)'
      BY <1>4, <1>6, <1>11, <1>12, <2>1, Zenon DEF Under
    <2>3. HostAt(y)'
      <3>1. y.m = meant'
        BY <1>4, <1>5 DEF HostAt
      <3> QED  BY <1>5, <1>13, <1>14, <3>1, Zenon DEF HostAt, WroteRing
    <2>4. BoardReading(md, x, y, u)'
      BY <1>4, <1>5, <1>6, <1>14 DEF BoardReading
    <2>5. PcOf(md)' /\ Writing(md)' /\ Failed(md, u)' /\ Resting(md, u)'
      BY <1>4, <1>5, <1>6, <1>11, <1>14 DEF PcOf, Writing, Failed, Resting
    <2>6. Linked(md, x, y, z2, u)'
      BY <1>5, <1>6, <1>14, <2>2, <2>3, <2>4, <2>5 DEF Linked
    <2> QED  BY <1>14, <2>6, Zenon DEF LinkInv
  <1>15. CASE NothingHeard(md, z, w, z2)
    <2>1. w.t \in {"nl", "ack"} /\ z2 = z /\ ~data /\ ~all
      BY <1>3, <1>15 DEF NothingHeard
    <2>2. m_lastaddr' = m_lastaddr /\ got' = got /\ pc' = "reading" /\ m_readtbl' = m_readtbl /\ m_rdaddr' = m_rdaddr
      BY <1>3, <1>4, <2>1 DEF TableTakes
    <2>3. m_addr_set' = m_addr_set
      BY <1>4, <1>10, <2>1
    <2>4. GotRight' <=> GotRight
      BY <1>4, <1>6, <2>2, Zenon DEF GotRight
    <2>5. HostReading(md, z2)'
      BY <1>4, <1>5, <2>1, <2>2, <2>3, <2>4, Zenon DEF HostReading
    <2>6. TypeOK'
      BY <1>2, <1>4, <1>6, <1>10, <2>2, <2>3 DEF TypeOK
    <2> QED  BY <1>14, <2>2, <2>5, <2>6
  <1>16. CASE AddressHeard(md, a, c, z, w, z2)
    <2>1. /\ w.t = "addr" /\ w.v = a /\ z.g = 0 /\ z2.g = 0 /\ z2.t = 1 /\ z2.q = <<>> /\ z2.f = 0
      BY <1>16 DEF AddressHeard
    <2>2. ~data /\ ~all
      BY <1>3, <2>1
    <2>3. m_lastaddr' = a /\ got' = got /\ pc' = "reading" /\ m_readtbl' = m_readtbl /\ m_rdaddr' = m_rdaddr
      BY <1>3, <1>4, <2>1, <2>2 DEF TableTakes
    <2>4. m_addr_set' = TRUE
      BY <1>4, <2>1
    <2>5. GotRight' <=> GotRight
      BY <1>4, <1>6, <2>3, Zenon DEF GotRight
    <2>6. Ring(m_readtbl', m_rdaddr', z2.q, Len(z2.q), RDTBL, MAXD)
      <3>1. PICK q, l, t, r : q \in Seq(Values) /\ q = z2.q /\ l = Len(z2.q) /\ l = 0 /\ t = m_readtbl' /\ r = m_rdaddr'
        BY <2>1, HeardFacts
      <3>2. RDTBL \in Nat \ {0} /\ MAXD \in Nat /\ r \in 0 .. RDTBL - 1
        BY <1>10, <2>3, <3>1, Constants
      <3>3. Ring(t, r, q, 0, RDTBL, MAXD)
        BY <3>1, <3>2, RingEmpty
      <3> QED  BY <3>1, <3>3
    <2>7. m_lastaddr' = a + Times(0, inc)
      BY <2>3 DEF Times
    <2>8. HostReading(md, z2)'
      <3>1. ~(z2.t = 0) /\ z2.g <= c
        BY <1>8, <2>1
      <3>2. z2.g = Len(got') /\ m_lastaddr' = a + Times(z2.g, inc) /\ z2.f = 0
        BY <1>8, <2>1, <2>3, <2>7
      <3> QED  BY <1>8, <1>9, <2>4, <2>5, <2>6, <3>1, <3>2, Zenon DEF HostReading
    <2>9. TypeOK'
      <3>1. TRUE \in BOOLEAN
        OBVIOUS
      <3>2. m_addr_set' \in BOOLEAN
        BY <2>4, <3>1, Zenon
      <3>3. m_lastaddr' \in Int
        BY <2>3
      <3> QED  BY <1>2, <1>4, <1>6, <1>10, <2>3, <3>2, <3>3 DEF TypeOK
    <2> QED  BY <1>14, <2>3, <2>8, <2>9
  <1>17. CASE WordHeard(md, Shown(md), a, inc, c, z, w, z2)
    <2>1. w.t \in {"raw", "ref"} /\ w.i = inc /\ z.t = 1 /\ z.g < c /\ z2.g = z.g + 1 /\ z2.t = 1 /\ z2.f = 0
      BY <1>17 DEF WordHeard
    <2>2. WordTaken(md, Shown(md), a, inc, z, w, z2)
      BY <1>2, <1>4, <1>17, WordRead
    <2>3. PICK v : v = Decoded(w)
      OBVIOUS
    <2>4. /\ v \in Values \cup {Junk}
          /\ m_readtbl' \in [0 .. RDTBL - 1 -> Values \cup {Junk}] /\ m_rdaddr' \in 0 .. RDTBL - 1
          /\ md = "readers" => v = mem[Plus(a, Times(z.g, inc))]
          /\ md = "readers" => Ring(m_readtbl', m_rdaddr', z2.q, Len(z2.q), RDTBL, MAXD)
      BY <1>8, <2>1, <2>2, <2>3, Zenon DEF WordTaken, Shown
    <2>5. data /\ w.t # "addr" /\ w.t # "err"
      BY <1>3, <2>1
    <2>6. got' = Append(got, v) /\ m_lastaddr' = m_lastaddr + inc /\ last = m_lastaddr'
      BY <1>3, <1>4, <2>1, <2>3, <2>5
    <2>7. m_addr_set' = TRUE
      BY <1>4, <1>8, <2>1
    <2>8. m_lastaddr' = a + Times(z2.g, inc) /\ m_lastaddr' \in Int
      <3>1. Times(z.g + 1, inc) = Times(z.g, inc) + inc /\ Times(z.g, inc) \in Nat
        BY <1>8, Constants DEF Times
      <3>2. inc \in Int
        BY Constants
      <3> QED  BY <1>8, <2>1, <2>6, <3>1, <3>2
    <2>9. z2.g = Len(got') /\ got' \in Seq(Values \cup {Junk}) /\ z2.g <= c /\ z2.g \in Nat
      BY <1>8, <1>10, <2>1, <2>4, <2>6
    <2>10. md = "readers" => GotRight'
      <3>1. ASSUME md = "readers", NEW i \in 1 .. Len(got')
            PROVE  got'[i] = mem'[Plus(call'.a, Times(i - 1, call'.inc))]
        <4>1. CASE i = z.g + 1
          <5>1. got'[i] = v /\ i - 1 = z.g
            BY <1>8, <1>10, <2>4, <2>6, <4>1
          <5> QED  BY <1>6, <1>9, <2>4, <3>1, <5>1
        <4>2. CASE i # z.g + 1
          <5>1. i \in 1 .. Len(got)
            BY <1>8, <2>1, <2>9, <4>2
          <5>2. got'[i] = got[i]
            BY <1>10, <2>4, <2>6, <5>1
          <5>3. got[i] = mem[Plus(call.a, Times(i - 1, call.inc))]
            BY <1>8, <3>1, <5>1 DEF GotRight
          <5> QED  BY <1>4, <1>6, <5>2, <5>3
        <4> QED  BY <4>1, <4>2
      <3> QED  BY <3>1 DEF GotRight
    <2>11. ASSUME pc' \in {"reading", "returned"} PROVE TypeOK'
      <3>1. TRUE \in BOOLEAN
        OBVIOUS
      <3>2. m_addr_set' \in BOOLEAN
        BY <2>7, <3>1, Zenon
      <3> QED  BY <1>2, <1>4, <1>6, <1>10, <2>4, <2>8, <2>9, <2>11, <3>2 DEF TypeOK
    <2>12. CASE ~all
      <3>1. pc' = "reading"
        BY <1>4, <2>5, <2>12
      <3>2. HostReading(md, z2)'
        <4>1. ~(z2.t = 0) /\ z2.f = 0
          BY <2>1
        <4> QED  BY <1>8, <1>9, <2>4, <2>7, <2>8, <2>9, <2>10, <4>1, Zenon DEF HostReading
      <3> QED  BY <1>14, <2>11, <3>1, <3>2
    <2>13. CASE all
      <3>1. z2.g = n /\ n = c
        <4>1. Len(got) + 1 = call.n
          BY <1>3, <2>13
        <4> QED  BY <1>7, <1>8, <2>1, <4>1
      <3>2. pc' = "returned"
        <4>1. Times(n, inc) = inc * n
          BY TimesFacts
        <4>2. last = call.a + call.inc * call.n
          BY <1>7, <2>6, <2>8, <3>1, <4>1
        <4> QED  BY <1>4, <2>5, <2>13, <4>2
      <3>3. u = z2 /\ Chain(Hearing(md, Shown(md), 0, 0, 0), Heard, z2, up', z2)
        <4>1. z2.g >= c
          BY <2>9, <3>1
        <4> QED  BY <1>10, <1>12, <4>1, HeardSettled
      <3>4. /\ y.a = a + Times(c, inc) /\ y.f = 0 /\ x.p = u.g + rdleft /\ x.p <= c
            /\ md = "readers" => BoardTable(u)
        BY <1>4, <1>5, <1>7, <2>1, <3>3 DEF BoardReading
      <3>5. rdleft = 0 /\ x.p >= c
        BY <1>10, <2>9, <3>1, <3>3, <3>4
      <3>6. down = <<>> /\ x = y
        <4>1. c \in Nat \ {0}
          BY <1>8
        <4>2. down = <<>>
          BY <1>10, <1>11, <3>5, <4>1, AllTaken
        <4>3. x = y
          BY <1>11, <4>2, ChainEmpty
        <4> QED  BY <4>2, <4>3
      <3>7. FromOf' = 0 /\ IncOf' = 0 /\ LimOf' = 0
        BY <3>2 DEF FromOf, IncOf, LimOf
      <3>8. Under(md, x, x, z2, z2)'
        <4>1. Chain(Obeying(md, 0, 0, 0), Line, x, down', x)
          BY <1>4, <3>6, ChainEmpty
        <4> QED  BY <1>6, <3>3, <3>7, <4>1, Zenon DEF Under
      <3>9. HostAt(x)'
        <4>1. x.a = m_lastaddr' /\ x.m = meant'
          BY <1>4, <1>5, <2>8, <3>1, <3>4, <3>6 DEF HostAt
        <4> QED  BY <1>5, <1>13, <3>6, <4>1, Zenon DEF HostAt, WroteRing
      <3>10. Resting(md, z2)'
        <4>1. r_new_addr' = 0
          BY <1>5, <1>6, <3>4, <3>6 DEF BoardAt
        <4>2. md = "readers" => BoardTable(z2)'
          BY <1>6, <3>3, <3>4
        <4>3. Len(got') = call'.n
          BY <1>9, <2>9, <3>1
        <4>4. rdleft' = 0 /\ down' = <<>>
          BY <1>4, <1>6, <3>5, <3>6
        <4> QED  BY <2>4, <2>10, <4>1, <4>2, <4>3, <4>4, Zenon DEF Resting
      <3>11. PcOf(md)' /\ Writing(md)' /\ HostReading(md, z2)' /\ BoardReading(md, x, x, z2)' /\ Failed(md, z2)'
        BY <1>11, <3>2 DEF PcOf, Writing, HostReading, BoardReading, Failed
      <3>12. Linked(md, x, x, z2, z2)'
        BY <1>5, <1>6, <3>8, <3>9, <3>10, <3>11 DEF Linked
      <3> QED  BY <2>11, <3>2, <3>12, Zenon DEF LinkInv
    <2> QED  BY <2>12, <2>13
  <1>18. CASE ErrorHeard(md, c, z, w, z2)
    <2>1. w.t = "err" /\ md = "readers" /\ Failing(md) /\ z2.f = 1
      BY <1>18 DEF ErrorHeard, Failing
    <2>2. ~data /\ ~all
      BY <1>3, <2>1
    <2>3. pc' = "ended" /\ m_lastaddr' = m_lastaddr /\ got' = got /\ m_readtbl' = m_readtbl /\ m_rdaddr' = m_rdaddr
      <3>1. Retries = FALSE
        BY <2>1 DEF Setting
      <3> QED  BY <1>3, <1>4, <2>1, <2>2, <3>1 DEF TableTakes, Thrown
    <2>4. m_addr_set' = m_addr_set
      BY <1>4, <1>10, <2>1
    <2>5. u = z2 /\ Chain(Hearing(md, Shown(md), 0, 0, 0), Heard, z2, up', z2)
      BY <1>10, <1>12, <2>1, HeardSettled
    <2>6. down = <<>> /\ rdleft = 0
      BY <1>4, <1>5, <2>1, <2>5 DEF Failed
    <2>7. FromOf' = 0 /\ IncOf' = 0 /\ LimOf' = 0
      BY <2>3 DEF FromOf, IncOf, LimOf
    <2>8. Under(md, x, y, z2, z2)'
      <3>1. x = y
        BY <1>11, <2>6, ChainEmpty
      <3>2. Chain(Obeying(md, 0, 0, 0), Line, x, down', y)
        BY <1>4, <2>6, <3>1, ChainEmpty
      <3> QED  BY <1>6, <2>5, <2>7, <3>2, Zenon DEF Under
    <2>9. HostAt(y)'
      <3>1. y.m = meant'
        BY <1>4, <1>5 DEF HostAt
      <3>2. ~(pc' \notin {"reading", "ended"})
        BY <2>3
      <3> QED  BY <1>5, <1>13, <3>1, <3>2, Zenon DEF HostAt, WroteRing
    <2>10. /\ PcOf(md)' /\ Writing(md)' /\ HostReading(md, z2)' /\ BoardReading(md, x, y, z2)' /\ Failed(md, z2)'
           /\ Resting(md, z2)'
      BY <1>4, <1>6, <2>1, <2>3, <2>6 DEF PcOf, Writing, HostReading, BoardReading, Failed, Resting
    <2>11. TypeOK'
      BY <1>2, <1>4, <1>6, <1>10, <2>3, <2>4 DEF TypeOK
    <2>12. Linked(md, x, y, z2, z2)'
      BY <1>5, <1>6, <2>8, <2>9, <2>10 DEF Linked
    <2> QED  BY <2>11, <2>12, Zenon DEF LinkInv
  <1> QED  BY <1>12, <1>15, <1>16, <1>17, <1>18 DEF Hears
-----------------------------------------------------------------------------
(* Every step keeps the two ends together.                                    *)
LEMMA LinkCases ==
    ASSUME [Next]_vars
    PROVE  \/ \E a \in Address, inc \in Incs, n \in Lens : CallRead(a, inc, n)
           \/ \E a \in Address, inc \in Incs, n \in Lens : CallWrite(a, inc, n)
           \/ \E v \in Values : WriteWord(v)
           \/ SendReads \/ ReadWord \/ Return \/ ReadIdle \/ ReadIdleLook \/ Restart
           \/ BoardAddress \/ BoardWrite \/ BoardEndOfWrite \/ BoardRead
           \/ BoardReadAnswer \/ BoardReadError \/ BoardNewline
           \/ UNCHANGED vars
  BY Zenon DEF Next, Host, Board

LEMMA StutterStep ==
    ASSUME NEW md, LinkInv(md), UNCHANGED vars PROVE LinkInv(md)'
  <1>1. PICK x \in Line, y \in Line, z \in Heard, u \in Heard : Linked(md, x, y, z, u)
    BY Zenon DEF LinkInv
  <1>2. TypeOK
    BY DEF LinkInv
  <1>3. UNCHANGED host /\ UNCHANGED board /\ down' = down /\ up' = up
    BY DEF vars
  <1>4. /\ o_wb_addr' = o_wb_addr /\ r_new_addr' = r_new_addr /\ r_inc' = r_inc /\ rdleft' = rdleft
        /\ wr_addr' = wr_addr /\ wr_tbl' = wr_tbl /\ tbl_addr' = tbl_addr /\ tbl_filled' = tbl_filled
        /\ rd_tbl' = rd_tbl /\ mem' = mem /\ Shown(md)' = Shown(md)
        /\ \A e : BoardAt(e) => BoardAt(e)'
        /\ \A e : BoardTable(e) => BoardTable(e)'
    BY <1>3, BoardKept
  <1>5. /\ Under(md, x, y, z, u) /\ BoardAt(x) /\ HostAt(y) /\ PcOf(md) /\ Writing(md) /\ HostReading(md, z)
        /\ BoardReading(md, x, y, u) /\ Failed(md, u) /\ Resting(md, u)
    BY <1>1 DEF Linked
  <1>6. /\ HostAt(y)' /\ PcOf(md)' /\ Writing(md)' /\ HostReading(md, z)'
        /\ FromOf' = FromOf /\ IncOf' = IncOf /\ LimOf' = LimOf
        /\ pc' = pc /\ call' = call /\ got' = got /\ m_addr_set' = m_addr_set /\ m_rdaddr' = m_rdaddr
        /\ m_readtbl' = m_readtbl /\ m_lastaddr' = m_lastaddr /\ meant' = meant /\ m_wraddr' = m_wraddr
        /\ m_wrloaded' = m_wrloaded /\ m_writetbl' = m_writetbl
    BY <1>3, <1>4, <1>5, HostKept
  <1>7. Under(md, x, y, z, u)'
    BY <1>3, <1>4, <1>5, <1>6, Zenon DEF Under
  <1>8. BoardReading(md, x, y, u)' /\ Failed(md, u)'
    BY <1>3, <1>4, <1>5, <1>6, Zenon DEF BoardReading, Failed
  <1>9. GotRight' <=> GotRight
    BY <1>4, <1>6, Zenon DEF GotRight
  <1>10. Resting(md, u)'
    BY <1>3, <1>4, <1>5, <1>6, <1>9, Zenon DEF Resting
  <1>11. TypeOK'
    BY <1>2, <1>3, <1>4, <1>6, Zenon DEF TypeOK
  <1>12. Linked(md, x, y, z, u)'
    BY <1>4, <1>5, <1>6, <1>7, <1>8, <1>10 DEF Linked
  <1> QED  BY <1>11, <1>12, Zenon DEF LinkInv

LEMMA LinkStep ==
    ASSUME NEW md, Setting(md), LinkInv(md), Allowed(md)', [Next]_vars PROVE LinkInv(md)'
  <1>1. CASE \E a \in Address, inc \in Incs, n \in Lens : CallRead(a, inc, n)
    BY <1>1, CallReadStep, Zenon
  <1>2. CASE \E a \in Address, inc \in Incs, n \in Lens : CallWrite(a, inc, n)
    BY <1>2, CallWriteStep, Zenon
  <1>3. CASE \E v \in Values : WriteWord(v)
    BY <1>3, WriteWordStep, Zenon
  <1>4. CASE SendReads
    BY <1>4, SendReadsStep, Zenon
  <1>5. CASE ReadWord
    BY <1>5, ReadWordStep, Zenon
  <1>6. CASE Return
    BY <1>6, ReturnStep, Zenon
  <1>7. CASE ReadIdle \/ ReadIdleLook
    BY <1>7, DrainStep, Zenon
  <1>8. CASE Restart
    BY <1>8, RestartStep, Zenon
  <1>9. CASE BoardAddress
    BY <1>9, BoardAddressStep, Zenon
  <1>10. CASE BoardWrite
    BY <1>10, BoardWriteStep, Zenon
  <1>11. CASE BoardEndOfWrite
    BY <1>11, BoardEndOfWriteStep, Zenon
  <1>12. CASE BoardRead
    BY <1>12, BoardReadStep, Zenon
  <1>13. CASE BoardReadAnswer
    BY <1>13, BoardReadAnswerStep, Zenon
  <1>14. CASE BoardReadError
    BY <1>14, BoardReadErrorStep, Zenon
  <1>15. CASE BoardNewline
    BY <1>15, BoardNewlineStep, Zenon
  <1>16. CASE UNCHANGED vars
    BY <1>16, StutterStep, Zenon
  <1> QED  BY <1>1, <1>2, <1>3, <1>4, <1>5, <1>6, <1>7, <1>8, <1>9, <1>10, <1>11, <1>12, <1>13, <1>14,
              <1>15, <1>16, LinkCases, Zenon

-----------------------------------------------------------------------------
(* What the two ends together promise.                                        *)
LEMMA LinkPromises ==
    ASSUME NEW md, LinkInv(md)
    PROVE  WritesRight /\ NeverExits /\ (md = "readers" => ReadsRight)
  <1>1. PICK x \in Line, y \in Line, z \in Heard, u \in Heard : Linked(md, x, y, z, u)
    BY Zenon DEF LinkInv
  <1>2. TypeOK
    BY DEF LinkInv
  <1>3. NeverExits
    BY <1>2 DEF TypeOK, NeverExits
  <1>4. ASSUME down = <<>> PROVE mem = meant
    <2>1. Chain(Obeying(md, FromOf, IncOf, LimOf), Line, x, <<>>, y)
      BY <1>1, <1>4, Zenon DEF Linked, Under
    <2>2. x = y
      BY <2>1, ChainEmpty
    <2>3. x.m = mem /\ y.m = meant
      BY <1>1 DEF Linked, BoardAt, HostAt
    <2> QED  BY <2>2, <2>3
  <1>5. ASSUME md = "readers", pc = "returned", NEW i \in 1 .. call.n
        PROVE  got[i] = mem[Plus(call.a, (i - 1) * call.inc)]
    <2>1. Len(got) = call.n /\ GotRight
      BY <1>1, <1>5 DEF Linked, Resting
    <2>2. i \in 1 .. Len(got)
      BY <2>1
    <2>3. got[i] = mem[Plus(call.a, Times(i - 1, call.inc))]
      BY <2>1, <2>2, Zenon DEF GotRight
    <2>4. call.inc \in Bits /\ i - 1 \in Int
      BY <1>2, <1>5 DEF TypeOK
    <2>5. Times(i - 1, call.inc) = (i - 1) * call.inc
      BY <2>4, TimesFacts
    <2> QED  BY <2>3, <2>5
  <1> QED  BY <1>3, <1>4, <1>5, Zenon DEF WritesRight, ReadsRight
-----------------------------------------------------------------------------
(* A program reads only if it calls for it, and writes only if it does; and a
   call has a number of words.                                                *)
Entered ==
    /\ pc' = "reading" => pc = "reading" \/ "read" \in Calls
    /\ pc' = "writing" => pc = "writing" \/ "write" \in Calls
    /\ call'.n \in Int

LEMMA Enters == ASSUME TypeOK, [Next]_vars PROVE Entered
  <1>1. call.n \in Int /\ call \in [a : Address, inc : Bits, n : Nat, cmdrd : Nat]
    BY DEF TypeOK
  <1>2. ASSUME pc' = pc, call' = call PROVE Entered
    BY <1>1, <1>2 DEF Entered
  <1>3. ASSUME UNCHANGED host PROVE Entered
    BY <1>2, <1>3, Zenon DEF host
  <1>4. ASSUME NEW a \in Address, NEW inc \in Incs, NEW n \in Lens, CallRead(a, inc, n) PROVE Entered
    <2>1. n \in Int
      BY LinkAssumption
    <2>2. PICK c : call' = [a |-> a, inc |-> inc, n |-> n, cmdrd |-> c] /\ pc' = "reading" /\ "read" \in Calls
      BY <1>4, Zenon DEF CallRead
    <2> QED  BY <2>1, <2>2 DEF Entered
  <1>5. ASSUME NEW a \in Address, NEW inc \in Incs, NEW n \in Lens, CallWrite(a, inc, n) PROVE Entered
    <2>1. n \in Int
      BY LinkAssumption
    <2>2. call' = [a |-> a, inc |-> inc, n |-> n, cmdrd |-> 0] /\ pc' = "writing" /\ "write" \in Calls
      BY <1>5, Zenon DEF CallWrite
    <2> QED  BY <2>1, <2>2 DEF Entered
  <1>6. ASSUME NEW v \in Values, WriteWord(v) PROVE Entered
    <2>1. /\ pc = "writing"
          /\ IF call.n = 1 THEN pc' = "drain1" /\ call' = NoCall
                           ELSE call' = [call EXCEPT !.n = call.n - 1] /\ pc' = pc
      <3>1. PICK word : word = IF Back(v) # {} THEN Word("wref", Min(Back(v)), call.inc)
                                               ELSE Word("write", v, call.inc)
        OBVIOUS
      <3> QED  BY <1>6, <3>1, Zenon DEF WriteWord
    <2> QED  BY <1>1, <2>1 DEF Entered, NoCall
  <1>7. ASSUME SendReads PROVE Entered
    <2>1. PICK c : call' = [call EXCEPT !.cmdrd = c] /\ pc' = pc
      BY <1>7, Zenon DEF SendReads
    <2> QED  BY <1>1, <2>1 DEF Entered
  <1>8. ASSUME ReadWord PROVE Entered
    <2>1. pc = "reading" /\ call' = call /\ pc' \in {"idle", "ended", "reading", "returned", "exit"}
      BY <1>8 DEF ReadWord, Thrown
    <2> QED  BY <1>1, <2>1 DEF Entered
  <1>9. ASSUME Return PROVE Entered
    BY <1>9 DEF Return, Entered, NoCall
  <1>10. ASSUME ReadIdle \/ ReadIdleLook PROVE Entered
    <2>1. call' = call /\ pc' \notin {"reading", "writing"}
      BY <1>10 DEF ReadIdle, ReadIdleLook, AfterDrain, Look, Drain, Thrown
    <2> QED  BY <1>1, <2>1 DEF Entered
  <1>11. ASSUME Restart PROVE Entered
    BY <1>1, <1>11 DEF Restart, Entered
  <1>12. ASSUME BoardAddress \/ BoardWrite \/ BoardEndOfWrite \/ BoardRead \/ BoardReadAnswer \/ BoardReadError
                \/ BoardNewline \/ UNCHANGED vars
         PROVE UNCHANGED host
    BY <1>12, Zenon DEF BoardAddress, BoardWrite, BoardEndOfWrite, BoardRead, BoardReadAnswer, BoardReadError,
                        BoardNewline, vars
  <1> QED  BY <1>3, <1>4, <1>5, <1>6, <1>7, <1>8, <1>9, <1>10, <1>11, <1>12, LinkCases, Zenon

-----------------------------------------------------------------------------
(* Of a program alone on the link.                                            *)
Alone(md) ==
    /\ Setting(md)
    /\ \/ md = "safe" /\ ErrAddrs = {}
       \/ md = "writes" /\ "read" \notin Calls
       \/ md = "readers" /\ "write" \notin Calls
Promised(md) == WritesRight /\ NeverExits /\ (md = "readers" => ReadsRight)

LEMMA AloneStep ==
    ASSUME NEW md, Alone(md)
    PROVE  /\ Init => LinkInv(md)
           /\ LinkInv(md) /\ [Next]_vars => LinkInv(md)'
           /\ LinkInv(md) => Promised(md)
  <1>1. Init => LinkInv(md)
    BY InitStep
  <1>2. LinkInv(md) /\ [Next]_vars => LinkInv(md)'
    <2> SUFFICES ASSUME LinkInv(md), [Next]_vars PROVE LinkInv(md)'
      OBVIOUS
    <2>1. TypeOK /\ PcOf(md)
      BY Zenon DEF LinkInv, Linked
    <2>2. Entered
      BY <2>1, Enters
    <2>3. Allowed(md)'
      <3>1. CASE md = "safe" /\ ErrAddrs = {}
        BY <3>1 DEF Allowed
      <3>2. CASE md = "writes" /\ "read" \notin Calls
        BY <2>1, <2>2, <3>2 DEF Allowed, Entered, PcOf
      <3>3. CASE md = "readers" /\ "write" \notin Calls
        BY <2>1, <2>2, <3>3 DEF Allowed, Entered, PcOf
      <3> QED  BY <3>1, <3>2, <3>3, Zenon DEF Alone
    <2> QED  BY <2>3, LinkStep DEF Alone
  <1>3. LinkInv(md) => Promised(md)
    BY LinkPromises, Zenon DEF Promised
  <1> QED  BY <1>1, <1>2, <1>3

(* devbus.h's promise for writeio, writei and writez: once the line is quiet the
   bus holds the last word written to every address that answers, and the
   host never ends the program for an address that differs from the board's.
   It is kept by programs that also read as long as every address answers, and
   by programs that only write whatever answers, and however often a program
   ends and another takes over; for tables, memories and increments of any
   size, and any number of words under way when a call begins.                *)
THEOREM WritesAreRight ==
    ErrAddrs = {} \/ "read" \notin Calls => (Spec => [](WritesRight /\ NeverExits))
  <1>1. ASSUME ErrAddrs = {} PROVE Spec => [](WritesRight /\ NeverExits)
    <2>1. Alone("safe")
      BY <1>1 DEF Alone, Setting, Settings, Failing
    <2>2. /\ Init => LinkInv("safe")
          /\ LinkInv("safe") /\ [Next]_vars => LinkInv("safe")'
          /\ LinkInv("safe") => Promised("safe")
      BY <2>1, AloneStep
    <2>3. Promised("safe") => WritesRight /\ NeverExits
      BY DEF Promised
    <2> QED  BY <2>2, <2>3, PTL DEF Spec
  <1>2. ASSUME "read" \notin Calls PROVE Spec => [](WritesRight /\ NeverExits)
    <2>1. Alone("writes")
      BY <1>2 DEF Alone, Setting, Settings, Failing
    <2>2. /\ Init => LinkInv("writes")
          /\ LinkInv("writes") /\ [Next]_vars => LinkInv("writes")'
          /\ LinkInv("writes") => Promised("writes")
      BY <2>1, AloneStep
    <2>3. Promised("writes") => WritesRight /\ NeverExits
      BY DEF Promised
    <2> QED  BY <2>2, <2>3, PTL DEF Spec
  <1> QED  BY <1>1, <1>2

(* devbus.h's promise for readio, readi and readz, of programs that only read:
   the words of a call that returns are those that the bus holds at the
   addresses it named, and the address that comes back is the one the call
   ends at.  The two tables of words never part, though neither end names
   them, an address that is not sent leaves them alone, and a program may end
   and another start.  If an address may not answer, the program ends with that
   error and has one read command under way.                                  *)
THEOREM ReadsAreRight ==
    "write" \notin Calls /\ (ErrAddrs = {} \/ (Retries = FALSE /\ OneCommand))
        => (Spec => [](ReadsRight /\ NeverExits))
  <1>1. ASSUME "write" \notin Calls, ErrAddrs = {} \/ (Retries = FALSE /\ OneCommand)
        PROVE  Spec => [](ReadsRight /\ NeverExits)
    <2>1. Alone("readers")
      BY <1>1 DEF Alone, Setting, Settings, Failing
    <2>2. /\ Init => LinkInv("readers")
          /\ LinkInv("readers") /\ [Next]_vars => LinkInv("readers")'
          /\ LinkInv("readers") => Promised("readers")
      BY <2>1, AloneStep
    <2>3. Promised("readers") => ReadsRight /\ NeverExits
      BY DEF Promised
    <2> QED  BY <2>2, <2>3, PTL DEF Spec
  <1> QED  BY <1>1

-----------------------------------------------------------------------------
(* Of the two kinds of program.                                               *)
MixInv == /\ mix \in BOOLEAN
          /\ mix = TRUE => LinkInv("safe")
          /\ mix = FALSE => LinkInv("readers")

LEMMA MixStep ==
    ASSUME ErrAddrs = {} \/ (Retries = FALSE /\ OneCommand), MixInv, [LinkNext]_link_vars PROVE MixInv'
  <1>1. mix' = mix /\ mix \in BOOLEAN /\ [Next]_vars
    BY Zenon DEF LinkNext, link_vars, MixInv
  <1>2. Setting("safe") /\ Setting("readers")
    BY DEF Setting, Settings, Failing
  <1>3. CASE UNCHANGED link_vars
    <2>1. UNCHANGED vars
      BY <1>3 DEF link_vars
    <2> QED  BY <1>1, <2>1, StutterStep, Zenon DEF MixInv
  <1>4. CASE Next /\ InBounds'
    <2>1. ASSUME mix = TRUE PROVE LinkInv("safe")'
      <3>1. LinkInv("safe") /\ TypeOK
        BY <2>1, Zenon DEF MixInv, LinkInv
      <3>2. call'.n \in Int
        BY <1>1, <3>1, Enters DEF Entered
      <3>3. mix' = TRUE
        BY <1>1, <2>1
      <3>4. call'.n > 0 => call'.inc = 1 /\ \A i \in 0 .. call'.n - 1 : call'.a + i \notin ErrAddrs
        BY <1>4, <3>3, Zenon DEF InBounds
      <3>5. \A j \in 0 .. call'.n - 1 : call'.a + Times(j, call'.inc) \notin ErrAddrs
        BY <3>2, <3>4 DEF Times
      <3>6. Allowed("safe")'
        BY <3>5 DEF Allowed
      <3> QED  BY <1>1, <1>2, <3>1, <3>6, LinkStep
    <2>2. ASSUME mix = FALSE PROVE LinkInv("readers")'
      <3>1. LinkInv("readers")
        BY <2>2, Zenon DEF MixInv
      <3>2. ~mix'
        BY <1>1, <2>2
      <3>3. Allowed("readers")'
        BY <1>4, <3>2 DEF InBounds, Allowed
      <3> QED  BY <1>1, <1>2, <3>1, <3>3, LinkStep
    <2> QED  BY <1>1, <2>1, <2>2, Zenon DEF MixInv
  <1> QED  BY <1>3, <1>4, Zenon DEF LinkNext

(* The same of a link that is used by programs that only read or, in other
   executions, by programs that write as well and keep to addresses that
   answer: what is read is right, what is written arrives, and no program ends
   because the two ends disagree about an address.                            *)
THEOREM LinkIsRight ==
    ErrAddrs = {} \/ (Retries = FALSE /\ OneCommand)
        => (LinkSpec => [](ReadersReadRight /\ WritesRight /\ NeverExits))
  <1>1. ASSUME ErrAddrs = {} \/ (Retries = FALSE /\ OneCommand)
        PROVE  LinkSpec => [](ReadersReadRight /\ WritesRight /\ NeverExits)
    <2>1. LinkInit => MixInv
      BY InitStep DEF LinkInit, MixInv
    <2>2. MixInv /\ [LinkNext]_link_vars => MixInv'
      BY <1>1, MixStep
    <2>3. MixInv => ReadersReadRight /\ WritesRight /\ NeverExits
      BY LinkPromises, Zenon DEF MixInv, ReadersReadRight
    <2> QED  BY <2>1, <2>2, <2>3, PTL DEF LinkSpec
  <1> QED  BY <1>1

(* readio's "This should only happen if there are bugs in the interface": the
   address that readv ends at is the one it computed, so no program exits there.
   The host follows the board's address register through absolute and relative
   addresses, answers, writes, restarts and errors without ever being told.   *)
THEOREM NoProgramExits ==
    ErrAddrs = {} \/ (Retries = FALSE /\ OneCommand) => (LinkSpec => []NeverExits)
  <1>1. ASSUME ErrAddrs = {} \/ (Retries = FALSE /\ OneCommand)
        PROVE  LinkSpec => []NeverExits
    <2>1. LinkSpec => [](ReadersReadRight /\ WritesRight /\ NeverExits)
      BY <1>1, LinkIsRight
    <2>2. ReadersReadRight /\ WritesRight /\ NeverExits => NeverExits
      OBVIOUS
    <2> QED  BY <2>1, <2>2, PTL
  <1> QED  BY <1>1
=============================================================================
