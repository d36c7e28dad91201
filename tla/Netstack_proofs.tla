-------------------------- MODULE Netstack_proofs --------------------------
(***************************************************************************)
(* What holds of the VPN bridge for any number of connections, any channel *)
(* and buffer capacities, and streams of any length.                       *)
(***************************************************************************)
EXTENDS Netstack, SequenceTheorems, TLAPS

-----------------------------------------------------------------------------
(* The inductive invariant *)

Sock == [state: {"closed", "synrcvd", "open", "closewait", "finwait", "lastack"},
         rx: Seq(Nat), tx: Seq(Nat)]
Bridge == [present: BOOLEAN, spawned: BOOLEAN, closing: BOOLEAN, upOpen: BOOLEAN,
           up: Seq(Nat), down: Seq(Nat), toClient: Seq(Nat), done: BOOLEAN]
FlowTask == [stage: {"none", "peek", "dial", "run", "ended"}, peek: Seq(Nat)]
Client == [state: {"none", "syn", "open", "fin", "gone"}, sent: Nat, got: Seq(Nat)]
Remote == [got: Seq(Nat), sent: Nat, eof: BOOLEAN, broken: BOOLEAN, ended: BOOLEAN]

NetTypes ==
    /\ sock \in [Conns -> Sock] /\ bridge \in [Conns -> Bridge]
    /\ flowTask \in [Conns -> FlowTask]
    /\ client \in [Conns -> Client] /\ remote \in [Conns -> Remote]

\* How far a connection has come, at its two ends and in between.
InStep(f) ==
    LET s == sock[f].state
        c == client[f].state
        k == flowTask[f].stage
        b == bridge[f]
    IN /\ c = "none" => /\ s = "closed" /\ client[f].sent = 0 /\ client[f].got = <<>>
                        /\ remote[f].sent = 0 /\ remote[f].got = <<>> /\ flowTask[f].peek = <<>>
       /\ c = "syn" => s = "synrcvd"
       /\ s = "synrcvd" => c = "syn"
       /\ c = "open" => s \in {"open", "finwait"}
       /\ c = "fin" => s \in {"closewait", "lastack", "closed"}
       /\ c = "gone" => s = "closed"
       /\ c \in {"none", "syn"} => ~b.spawned
       /\ b.spawned = (k # "none") /\ (b.upOpen => b.spawned)
       /\ b.done = (k = "ended") /\ (b.closing => b.done)
       /\ s \in {"finwait", "lastack"} \/ (s = "closed" /\ c = "fin") => b.closing
       /\ s # "closed" => b.present
       /\ k \notin {"run", "ended"} => remote[f].got = <<>> /\ ~remote[f].broken
       /\ remote[f].ended => k = "ended"

\* No buffer holds more than its capacity.
WithinCaps(f) ==
    /\ Len(bridge[f].up) <= UpChannel /\ Len(bridge[f].toClient) <= ToClientCap
    /\ Len(sock[f].tx) <= FlowBuf

\* The chunks n + 1, n + 2, ... one after the other.
Run(q, n) == \A i \in DOMAIN q : q[i] = n + i

\* What has left the upward channel: written to the server, or peeked at and waiting.
Taken(f) == remote[f].got \o flowTask[f].peek

\* Upward, what was taken, what is in the channel and what is in the socket follow
\* each other, and are all that was sent unless the client or the task gave up.
UpStream(f) ==
    /\ Run(Taken(f), 0) /\ Len(Taken(f)) <= client[f].sent
    /\ flowTask[f].stage # "ended" /\ ~remote[f].broken =>
          /\ Run(bridge[f].up, Len(Taken(f)))
          /\ Run(sock[f].rx, Len(Taken(f)) + Len(bridge[f].up))
          /\ Len(Taken(f)) + Len(bridge[f].up) + Len(sock[f].rx) <= client[f].sent
          /\ client[f].state # "gone" =>
                Len(Taken(f)) + Len(bridge[f].up) + Len(sock[f].rx) = client[f].sent

\* Downward, as long as the socket is open, what the client has, the transmit buffer,
\* what is staged and the channel follow each other and are all that was read.
DownStream(f) ==
    LET got == Len(client[f].got) + Len(sock[f].tx)
    IN /\ Run(client[f].got, 0) /\ Run(sock[f].tx, Len(client[f].got))
       /\ got <= remote[f].sent
       /\ sock[f].state # "closed" =>
             /\ Run(bridge[f].toClient, got)
             /\ Run(bridge[f].down, got + Len(bridge[f].toClient))
             /\ got + Len(bridge[f].toClient) + Len(bridge[f].down) = remote[f].sent

\* The upward channel is closed behind a client that has said all it will say.
EofTold(f) ==
    /\ bridge[f].spawned /\ ~bridge[f].upOpen /\ ~bridge[f].done =>
          \/ client[f].state = "gone"
          \/ client[f].state = "fin" /\ sock[f].rx = <<>>
    /\ remote[f].eof =>
          /\ flowTask[f].stage \in {"run", "ended"}
          /\ flowTask[f].stage = "run" => /\ ~bridge[f].upOpen /\ bridge[f].up = <<>>
                                          /\ flowTask[f].peek = <<>>
          /\ client[f].state # "gone" /\ ~remote[f].ended =>
                client[f].state = "fin" /\ Len(remote[f].got) = client[f].sent

\* A listed destination is not dialled, or only by a client that has stopped short
\* of a ClientHello, or whose hello cannot be read.
ListedHeld(f) ==
    f \in Listed =>
        /\ filter = "inspect" => /\ client[f].state \in {"none", "gone"}
                                 /\ flowTask[f].stage = "none"
        /\ f \notin Opaque =>
              /\ Len(remote[f].got) < HelloLen
              /\ flowTask[f].stage \in {"dial", "run"} =>
                    /\ Len(Taken(f)) < HelloLen
                    /\ bridge[f].up = <<>> /\ ~bridge[f].upOpen

FlowOK(f) == /\ InStep(f) /\ WithinCaps(f) /\ UpStream(f) /\ DownStream(f)
             /\ EofTold(f) /\ ListedHeld(f)

NetInv == NetTypes /\ filter \in {"inspect", "host"} /\ \A f \in Conns : FlowOK(f)

-----------------------------------------------------------------------------
(* Runs of chunks *)

\* Nothing is a run.
LEMMA RunEmpty == \A n : Run(<<>>, n)
  BY DEF Run

\* The next chunk goes to the end.
LEMMA RunAppend ==
    ASSUME NEW q \in Seq(Nat), NEW n \in Nat, Run(q, n)
    PROVE  /\ Append(q, n + Len(q) + 1) \in Seq(Nat)
           /\ Len(Append(q, n + Len(q) + 1)) = Len(q) + 1
           /\ Run(Append(q, n + Len(q) + 1), n)
<1>. DEFINE x == n + Len(q) + 1
            p == Append(q, x)
<1>1. x \in Nat /\ Len(q) \in Nat /\ x = n + (Len(q) + 1)
  OBVIOUS
<1>. HIDE DEF x
<1>2. /\ p \in Seq(Nat) /\ Len(p) = Len(q) + 1 /\ p[Len(q) + 1] = x
      /\ \A i \in 1..Len(q) : p[i] = q[i]
  BY <1>1, AppendProperties
<1>3. DOMAIN p = 1..Len(q) + 1 /\ DOMAIN q = 1..Len(q)
  BY <1>1, <1>2
<1>. HIDE DEF p
<1>4. ASSUME NEW i \in DOMAIN p PROVE p[i] = n + i
  <2>1. CASE i = Len(q) + 1
    BY <1>1, <1>2, <2>1
  <2>2. CASE i # Len(q) + 1
    <3>1. i \in 1..Len(q)
      BY <1>1, <1>3, <2>2
    <3>. QED
      BY <1>2, <1>3, <3>1 DEF Run
  <2>. QED
    BY <2>1, <2>2
<1>. QED
  BY <1>2, <1>4 DEF Run, p, x

\* The first chunk is taken off.
LEMMA RunTail ==
    ASSUME NEW q \in Seq(Nat), NEW n \in Nat, Run(q, n), q # <<>>
    PROVE  /\ Head(q) = n + 1 /\ Tail(q) \in Seq(Nat) /\ Len(Tail(q)) = Len(q) - 1
           /\ Len(q) \in Nat \ {0} /\ Run(Tail(q), n + 1)
<1>1. /\ Tail(q) \in Seq(Nat) /\ Len(Tail(q)) = Len(q) - 1 /\ Len(q) \in Nat \ {0}
      /\ \A i \in 1..Len(Tail(q)) : Tail(q)[i] = q[i + 1]
  BY HeadTailProperties, EmptySeq
<1>2. DOMAIN Tail(q) = 1..Len(Tail(q)) /\ DOMAIN q = 1..Len(q) /\ Head(q) = q[1]
  BY <1>1
<1>3. Head(q) = n + 1
  BY <1>1, <1>2 DEF Run
<1>4. ASSUME NEW i \in DOMAIN Tail(q) PROVE Tail(q)[i] = n + 1 + i
  <2>1. i + 1 \in DOMAIN q /\ Tail(q)[i] = q[i + 1] /\ i \in Nat
    BY <1>1, <1>2
  <2>. QED
    BY <2>1 DEF Run
<1>. QED
  BY <1>1, <1>3, <1>4 DEF Run

\* A run is cut in two.
LEMMA RunSplit ==
    ASSUME NEW q \in Seq(Nat), NEW n \in Nat, NEW m \in 0..Len(q)
    PROVE  /\ SubSeq(q, 1, m) \in Seq(Nat) /\ Len(SubSeq(q, 1, m)) = m
           /\ SubSeq(q, m + 1, Len(q)) \in Seq(Nat)
           /\ Len(SubSeq(q, m + 1, Len(q))) = Len(q) - m
           /\ Run(q, n) => Run(SubSeq(q, 1, m), n) /\ Run(SubSeq(q, m + 1, Len(q)), n + m)
<1>. DEFINE a == SubSeq(q, 1, m)
            z == SubSeq(q, m + 1, Len(q))
<1>1. /\ Len(q) \in Nat /\ m \in Nat /\ m <= Len(q) /\ DOMAIN q = 1..Len(q)
      /\ \A i \in 1..Len(q) : q[i] \in Nat
  OBVIOUS
<1>2. /\ a \in Seq(Nat) /\ Len(a) = m /\ \A i \in 1..m : a[i] = q[i]
  <2>1. \A i \in 1..m : q[i] \in Nat
    BY <1>1
  <2>2. /\ a \in Seq(Nat) /\ Len(a) = (IF 1 <= m THEN m - 1 + 1 ELSE 0)
        /\ \A i \in 1..m - 1 + 1 : a[i] = q[1 + i - 1]
    BY <1>1, <2>1, SubSeqProperties
  <2>. HIDE DEF a
  <2>. QED
    BY <1>1, <2>2
<1>3. /\ z \in Seq(Nat) /\ Len(z) = Len(q) - m /\ \A i \in 1..Len(q) - m : z[i] = q[m + i]
  <2>1. \A i \in m + 1..Len(q) : q[i] \in Nat
    BY <1>1
  <2>2. /\ z \in Seq(Nat)
        /\ Len(z) = (IF m + 1 <= Len(q) THEN Len(q) - (m + 1) + 1 ELSE 0)
        /\ \A i \in 1..Len(q) - (m + 1) + 1 : z[i] = q[m + 1 + i - 1]
    BY <1>1, <2>1, SubSeqProperties
  <2>. HIDE DEF z
  <2>3. ASSUME NEW i \in 1..Len(q) - m PROVE z[i] = q[m + i]
    <3>1. i \in 1..Len(q) - (m + 1) + 1 /\ m + 1 + i - 1 = m + i
      BY <1>1
    <3>. QED
      BY <2>2, <3>1
  <2>4. Len(z) = Len(q) - m
    <3>1. CASE m + 1 <= Len(q)
      <4>1. Len(z) = Len(q) - (m + 1) + 1
        BY <2>2, <3>1
      <4>2. Len(q) - (m + 1) + 1 = Len(q) - m
        BY <1>1
      <4>. QED
        BY <4>1, <4>2
    <3>2. CASE ~(m + 1 <= Len(q))
      <4>1. Len(z) = 0
        BY <2>2, <3>2
      <4>2. Len(q) \in Nat /\ m \in Nat /\ m <= Len(q)
        BY <1>1
      <4>3. Len(q) = m
        BY <3>2, <4>2
      <4>. QED
        BY <4>1, <4>2, <4>3
    <3>. QED
      BY <3>1, <3>2
  <2>. QED
    BY <2>2, <2>3, <2>4
<1>4. DOMAIN a = 1..m /\ DOMAIN z = 1..Len(q) - m
  BY <1>2, <1>3
<1>. HIDE DEF a, z
<1>5. ASSUME Run(q, n) PROVE Run(a, n) /\ Run(z, n + m)
  <2>1. \A i \in 1..Len(q) : q[i] = n + i
    BY <1>1, <1>5 DEF Run
  <2>2. ASSUME NEW i \in 1..Len(q) - m PROVE z[i] = n + m + i
    <3>1. m + i \in 1..Len(q) /\ n + (m + i) = n + m + i
      BY <1>1
    <3>. QED
      BY <1>3, <2>1, <3>1
  <2>3. ASSUME NEW i \in 1..m PROVE a[i] = n + i
    BY <1>1, <1>2, <2>1
  <2>. QED
    BY <1>4, <2>2, <2>3 DEF Run
<1>. QED
  BY <1>2, <1>3, <1>5 DEF a, z

\* A run is continued by another.
LEMMA RunConcat ==
    ASSUME NEW p \in Seq(Nat), NEW q \in Seq(Nat), NEW n \in Nat
    PROVE  /\ p \o q \in Seq(Nat) /\ Len(p \o q) = Len(p) + Len(q)
           /\ Run(p, n) /\ Run(q, n + Len(p)) => Run(p \o q, n)
<1>. DEFINE r == p \o q
<1>1. /\ r \in Seq(Nat) /\ Len(r) = Len(p) + Len(q)
      /\ \A i \in 1..Len(p) + Len(q) : r[i] = IF i <= Len(p) THEN p[i] ELSE q[i - Len(p)]
  BY ConcatProperties
<1>2. DOMAIN r = 1..Len(p) + Len(q) /\ Len(p) \in Nat /\ Len(q) \in Nat
      /\ DOMAIN p = 1..Len(p) /\ DOMAIN q = 1..Len(q)
  BY <1>1
<1>. HIDE DEF r
<1>3. ASSUME Run(p, n), Run(q, n + Len(p)), NEW i \in DOMAIN r PROVE r[i] = n + i
  <2>1. CASE i <= Len(p)
    BY <1>1, <1>2, <1>3, <2>1 DEF Run
  <2>2. CASE ~(i <= Len(p))
    <3>1. i - Len(p) \in DOMAIN q /\ r[i] = q[i - Len(p)]
      BY <1>1, <1>2, <2>2
    <3>2. q[i - Len(p)] = n + Len(p) + (i - Len(p))
      BY <1>3, <3>1 DEF Run
    <3>. QED
      BY <1>2, <3>1, <3>2
  <2>. QED
    BY <2>1, <2>2
<1>. QED
  BY <1>1, <1>3 DEF r, Run

\* The first chunks of one queue go to the end of the one before it.
Moved(p, q, n, m, a, z) ==
    /\ a \in Seq(Nat) /\ z \in Seq(Nat)
    /\ Len(a) = Len(p) + m /\ Len(z) = Len(q) - m
    /\ n + Len(a) + Len(z) = n + Len(p) + Len(q)
    /\ Run(p, n) /\ Run(q, n + Len(p)) => Run(a, n) /\ Run(z, n + Len(a))
    /\ m = 0 => a = p
    /\ q = <<>> => z = <<>>

\* So they follow each other as before.
LEMMA RunMoves ==
    ASSUME NEW p \in Seq(Nat), NEW q \in Seq(Nat), NEW n \in Nat, NEW m \in 0..Len(q)
    PROVE  Moved(p, q, n, m, p \o SubSeq(q, 1, m), SubSeq(q, m + 1, Len(q)))
<1>. DEFINE h == SubSeq(q, 1, m)
            a == p \o h
            z == SubSeq(q, m + 1, Len(q))
<1>1. Len(p) \in Nat /\ Len(q) \in Nat /\ m \in Nat /\ m <= Len(q)
  OBVIOUS
<1>2. /\ h \in Seq(Nat) /\ Len(h) = m /\ z \in Seq(Nat) /\ Len(z) = Len(q) - m
      /\ \A k \in Nat : Run(q, k) => Run(h, k) /\ Run(z, k + m)
  BY RunSplit
<1>. HIDE DEF h, z
<1>3. /\ a \in Seq(Nat) /\ Len(a) = Len(p) + m
      /\ Run(p, n) /\ Run(h, n + Len(p)) => Run(a, n)
  <2>1. /\ a \in Seq(Nat) /\ Len(a) = Len(p) + Len(h)
        /\ Run(p, n) /\ Run(h, n + Len(p)) => Run(a, n)
    BY <1>2, RunConcat
  <2>. QED
    BY <1>2, <2>1, Zenon
<1>4. n + Len(p) \in Nat /\ n + Len(p) + m = n + (Len(p) + m)
  BY <1>1
<1>5. Run(p, n) /\ Run(q, n + Len(p)) => Run(a, n) /\ Run(z, n + Len(a))
  BY <1>2, <1>3, <1>4
<1>6. m = 0 => a = p
  <2>1. m = 0 => h = <<>>
    BY <1>2, EmptySeq
  <2>. QED
    BY <2>1, ConcatEmptySeq
<1>. HIDE DEF a
<1>7. q = <<>> => z = <<>>
  <2>1. q = <<>> => Len(z) = 0
    BY <1>1, <1>2
  <2>. QED
    BY <1>2, <2>1, EmptySeq
<1>8. n + Len(a) + Len(z) = n + Len(p) + Len(q)
  <2>1. \A i, j, k, l \in Nat : i + (j + l) + (k - l) = i + j + k
    OBVIOUS
  <2>2. n + (Len(p) + m) + (Len(q) - m) = n + Len(p) + Len(q)
    BY <1>1, <2>1
  <2>. QED
    BY <1>2, <1>3, <2>2, Zenon
<1>. QED
  BY <1>2, <1>3, <1>5, <1>6, <1>7, <1>8, Zenon DEF Moved, a, z, h

\* A run from the beginning is a beginning of what was sent.
LEMMA RunIsPrefix ==
    ASSUME NEW q \in Seq(Nat), NEW n \in Nat, Run(q, 0), Len(q) <= n
    PROVE  IsPrefix(q, Numbered(n))
<1>. DEFINE w == Numbered(n)
            a == SubSeq(w, 1, Len(q))
<1>1. Len(q) \in Nat /\ DOMAIN q = 1..Len(q) /\ \A i \in 1..Len(q) : q[i] = i
  <2>1. Len(q) \in Nat /\ DOMAIN q = 1..Len(q)
    OBVIOUS
  <2>. QED
    BY <2>1 DEF Run
<1>2. w \in Seq(Nat) /\ Len(w) = n /\ \A i \in 1..n : w[i] = i
  BY DEF Numbered
<1>. HIDE DEF w
<1>3. \A i \in 1..Len(q) : w[i] = i /\ w[i] \in Nat
  BY <1>1, <1>2
<1>4. /\ a \in Seq(Nat) /\ Len(a) = (IF 1 <= Len(q) THEN Len(q) - 1 + 1 ELSE 0)
      /\ \A i \in 1..Len(q) - 1 + 1 : a[i] = w[1 + i - 1]
  BY <1>1, <1>3, SubSeqProperties
<1>. HIDE DEF a
<1>5. Len(a) = Len(q) /\ \A i \in 1..Len(q) : a[i] = q[i]
  BY <1>1, <1>3, <1>4
<1>6. a = q
  BY <1>4, <1>5, SeqEqual
<1>7. SubSeq(q, 1, Len(q)) = q
  BY SubSeqFull
<1>. QED
  BY <1>2, <1>6, <1>7 DEF IsPrefix, a, w

\* The beginning of a run is one.
LEMMA RunBeginning ==
    ASSUME NEW p \in Seq(Nat), NEW q \in Seq(Nat), Run(p \o q, 0)
    PROVE  Run(p, 0) /\ Len(p) <= Len(p \o q)
<1>. DEFINE r == p \o q
<1>1. /\ r \in Seq(Nat) /\ Len(r) = Len(p) + Len(q)
      /\ \A i \in 1..Len(p) + Len(q) : r[i] = IF i <= Len(p) THEN p[i] ELSE q[i - Len(p)]
  BY ConcatProperties
<1>2. /\ DOMAIN r = 1..Len(p) + Len(q) /\ Len(p) \in Nat /\ Len(q) \in Nat
      /\ DOMAIN p = 1..Len(p) /\ Run(r, 0)
  BY <1>1
<1>. HIDE DEF r
<1>3. ASSUME NEW i \in DOMAIN p PROVE p[i] = 0 + i
  <2>1. i \in 1..Len(p) + Len(q) /\ i <= Len(p) /\ i \in DOMAIN r
    BY <1>2
  <2>2. r[i] = p[i] /\ r[i] = 0 + i
    BY <1>1, <1>2, <2>1 DEF Run
  <2>. QED
    BY <2>2
<1>4. Len(p) <= Len(r)
  BY <1>1, <1>2
<1>. QED
  BY <1>3, <1>4 DEF Run, r

\* The head of what follows moves over to what comes first.
LEMMA HeadMoves ==
    ASSUME NEW p \in Seq(Nat), NEW q \in Seq(Nat), q # <<>>
    PROVE  /\ Append(p, Head(q)) \in Seq(Nat) /\ Tail(q) \in Seq(Nat)
           /\ Append(p, Head(q)) \o Tail(q) = p \o q
<1>. DEFINE a == Append(p, Head(q))
            z == Tail(q)
            x == a \o z
            y == p \o q
<1>1. /\ z \in Seq(Nat) /\ Len(z) = Len(q) - 1 /\ Len(q) \in Nat \ {0} /\ Head(q) \in Nat
      /\ Head(q) = q[1] /\ \A i \in 1..Len(z) : z[i] = q[i + 1]
  BY HeadTailProperties, EmptySeq
<1>2. /\ a \in Seq(Nat) /\ Len(a) = Len(p) + 1 /\ Len(p) \in Nat /\ a[Len(p) + 1] = Head(q)
      /\ \A i \in 1..Len(p) : a[i] = p[i]
  BY <1>1, AppendProperties
<1>. HIDE DEF a, z
<1>3. /\ x \in Seq(Nat) /\ Len(x) = Len(a) + Len(z)
      /\ \A i \in 1..Len(a) + Len(z) : x[i] = IF i <= Len(a) THEN a[i] ELSE z[i - Len(a)]
  BY <1>1, <1>2, ConcatProperties
<1>4. /\ y \in Seq(Nat) /\ Len(y) = Len(p) + Len(q)
      /\ \A i \in 1..Len(p) + Len(q) : y[i] = IF i <= Len(p) THEN p[i] ELSE q[i - Len(p)]
  BY ConcatProperties
<1>. HIDE DEF x, y
<1>5. Len(x) = Len(y)
  BY <1>1, <1>2, <1>3, <1>4
<1>6. ASSUME NEW i \in 1..Len(x) PROVE x[i] = y[i]
  <2>1. i \in 1..Len(a) + Len(z) /\ i \in 1..Len(p) + Len(q) /\ i \in Nat
    BY <1>1, <1>2, <1>3, <1>4, <1>5
  <2>2. CASE i <= Len(p)
    <3>1. i \in 1..Len(p) /\ i <= Len(a)
      BY <1>2, <2>1, <2>2
    <3>. QED
      BY <1>2, <1>3, <1>4, <2>1, <2>2, <3>1
  <2>3. CASE i = Len(p) + 1
    <3>1. ~(i <= Len(p)) /\ i <= Len(a) /\ i - Len(p) = 1
      BY <1>2, <2>1, <2>3
    <3>2. x[i] = a[i] /\ y[i] = q[1]
      BY <1>3, <1>4, <2>1, <3>1
    <3>. QED
      BY <1>1, <1>2, <2>3, <3>2
  <2>4. CASE i > Len(p) + 1
    <3>1. ~(i <= Len(p)) /\ ~(i <= Len(a)) /\ i - Len(a) \in 1..Len(z)
          /\ i - Len(a) + 1 = i - Len(p)
      BY <1>1, <1>2, <2>1, <2>4
    <3>2. x[i] = z[i - Len(a)] /\ y[i] = q[i - Len(p)]
      BY <1>3, <1>4, <2>1, <3>1
    <3>3. z[i - Len(a)] = q[i - Len(a) + 1]
      BY <1>1, <3>1
    <3>. QED
      BY <3>1, <3>2, <3>3
  <2>. QED
    BY <1>2, <2>1, <2>2, <2>3, <2>4
<1>7. x = y
  BY <1>3, <1>4, <1>5, <1>6, SeqEqual
<1>. QED
  BY <1>1, <1>2, <1>7 DEF x, y, a, z

-----------------------------------------------------------------------------
(* Steps *)

\* Sums of lengths.
LEMMA Sums ==
    /\ \A a, b, c \in Nat : a + b <= c => a <= c /\ a + 0 <= c
    /\ \A a, b, c \in Nat : a = b + c => c <= a /\ b <= a
    /\ \A a, b \in Nat : a + b \in Nat
    /\ \A a, b \in Nat : a + 1 + (b - 1) = a + b
  OBVIOUS

\* The fields of a connection.
LEMMA Fields ==
    ASSUME NetTypes, NEW f \in Conns
    PROVE  /\ sock[f] \in Sock /\ bridge[f] \in Bridge /\ flowTask[f] \in FlowTask
           /\ client[f] \in Client /\ remote[f] \in Remote
           /\ sock[f].rx \in Seq(Nat) /\ sock[f].tx \in Seq(Nat)
           /\ bridge[f].up \in Seq(Nat) /\ bridge[f].down \in Seq(Nat)
           /\ bridge[f].toClient \in Seq(Nat) /\ flowTask[f].peek \in Seq(Nat)
           /\ client[f].got \in Seq(Nat) /\ remote[f].got \in Seq(Nat)
           /\ client[f].sent \in Nat /\ remote[f].sent \in Nat
           /\ Taken(f) \in Seq(Nat)
<1>1. /\ sock[f] \in Sock /\ bridge[f] \in Bridge /\ flowTask[f] \in FlowTask
      /\ client[f] \in Client /\ remote[f] \in Remote
      /\ sock[f].rx \in Seq(Nat) /\ sock[f].tx \in Seq(Nat)
      /\ bridge[f].up \in Seq(Nat) /\ bridge[f].down \in Seq(Nat)
      /\ bridge[f].toClient \in Seq(Nat) /\ flowTask[f].peek \in Seq(Nat)
      /\ client[f].got \in Seq(Nat) /\ remote[f].got \in Seq(Nat)
      /\ client[f].sent \in Nat /\ remote[f].sent \in Nat
  BY DEF NetTypes, Sock, Bridge, FlowTask, Client, Remote
<1>. QED
  BY <1>1, ConcatProperties DEF Taken

\* A step of one connection leaves the others alone.
LEMMA OthersSame ==
    ASSUME NetInv, NEW f \in Conns, NetTypes', FlowOK(f)', UNCHANGED filter,
           \A g \in Conns \ {f} : /\ sock'[g] = sock[g] /\ bridge'[g] = bridge[g]
                                  /\ flowTask'[g] = flowTask[g] /\ client'[g] = client[g]
                                  /\ remote'[g] = remote[g]
    PROVE  NetInv'
<1>1. ASSUME NEW g \in Conns \ {f} PROVE FlowOK(g)'
  <2>1. FlowOK(g)
    BY DEF NetInv
  <2>2. /\ sock'[g] = sock[g] /\ bridge'[g] = bridge[g] /\ flowTask'[g] = flowTask[g]
        /\ client'[g] = client[g] /\ remote'[g] = remote[g]
    OBVIOUS
  <2>t. Taken(g)' = Taken(g)
    BY <2>2 DEF Taken
  <2>3. InStep(g)' /\ WithinCaps(g)' /\ ListedHeld(g)' /\ EofTold(g)'
    BY <2>1, <2>2, <2>t DEF FlowOK, InStep, WithinCaps, ListedHeld, EofTold
  <2>4. UpStream(g)' /\ DownStream(g)'
    BY <2>1, <2>2 DEF FlowOK, UpStream, DownStream, Taken
  <2>. QED
    BY <2>3, <2>4 DEF FlowOK
<1>. QED
  BY <1>1 DEF NetInv

\* handle_inbound, a SYN.
LEMMA SynKeeps ==
    ASSUME NetInv, NEW f \in Conns, Syn(f)
    PROVE  NetInv'
<1>1. NetTypes /\ FlowOK(f) /\ client[f].state = "none" /\ UNCHANGED <<filter, flowTask, remote>>
  BY DEF NetInv, Syn
<1>2. /\ sock[f].state = "closed" /\ client[f].sent = 0 /\ client[f].got = <<>>
      /\ remote[f].sent = 0 /\ remote[f].got = <<>> /\ flowTask[f].peek = <<>>
      /\ ~bridge[f].spawned /\ flowTask[f].stage = "none" /\ ~remote[f].broken
      /\ Taken(f) = <<>> /\ ~remote[f].eof /\ Len(<<>>) = 0 /\ ~bridge[f].upOpen
      /\ ~remote[f].ended
  BY <1>1, Fields DEF FlowOK, InStep, EofTold, Taken, Bridge, Remote
<1>3. client[f] \in Client /\ client \in [Conns -> Client]
  BY <1>1, Fields DEF NetTypes
<1>4. CASE Refused(f)
  <2>. DEFINE c == [client[f] EXCEPT !.state = "gone"]
  <2>1. client' = [client EXCEPT ![f] = c] /\ UNCHANGED <<sock, bridge>>
    BY <1>4, Zenon DEF Syn
  <2>2. c \in Client /\ c.state = "gone" /\ c.sent = 0 /\ c.got = <<>>
    BY <1>2, <1>3 DEF Client
  <2>. HIDE DEF c
  <2>3. client' \in [Conns -> Client] /\ client'[f] = c
        /\ \A g \in Conns \ {f} : client'[g] = client[g]
    BY <1>3, <2>1, <2>2
  <2>4. NetTypes'
    BY <1>1, <2>1, <2>3 DEF NetTypes
  <2>5. InStep(f)' /\ WithinCaps(f)' /\ EofTold(f)' /\ ListedHeld(f)'
    BY <1>1, <1>2, <2>1, <2>2, <2>3 DEF FlowOK, InStep, WithinCaps, EofTold, ListedHeld
  <2>6. UpStream(f)'
    BY <1>1, <1>2, <2>1, <2>2, <2>3 DEF FlowOK, UpStream, Taken
  <2>7. DownStream(f)'
    BY <1>1, <1>2, <2>1, <2>2, <2>3 DEF FlowOK, DownStream
  <2>. QED
    BY <1>1, <2>1, <2>3, <2>4, <2>5, <2>6, <2>7, OthersSame DEF FlowOK
<1>5. CASE ~Refused(f)
  <2>. DEFINE c == [client[f] EXCEPT !.state = "syn"]
              s == [NoSock EXCEPT !.state = "synrcvd"]
              b == [NoBridge EXCEPT !.present = TRUE]
  <2>1. /\ client' = [client EXCEPT ![f] = c] /\ sock' = [sock EXCEPT ![f] = s]
        /\ bridge' = [bridge EXCEPT ![f] = b]
    BY <1>5, Zenon DEF Syn
  <2>2. /\ c \in Client /\ c.state = "syn" /\ c.sent = 0 /\ c.got = <<>>
        /\ s \in Sock /\ s.state = "synrcvd" /\ s.rx = <<>> /\ s.tx = <<>>
        /\ b \in Bridge /\ b.up = <<>> /\ b.down = <<>> /\ b.toClient = <<>>
        /\ ~b.spawned /\ ~b.upOpen /\ ~b.done /\ ~b.closing /\ b.present
    BY <1>2, <1>3 DEF Client, NoSock, Sock, NoBridge, Bridge
  <2>. HIDE DEF c, s, b
  <2>3. /\ client' \in [Conns -> Client] /\ client'[f] = c
        /\ sock' \in [Conns -> Sock] /\ sock'[f] = s
        /\ bridge' \in [Conns -> Bridge] /\ bridge'[f] = b
        /\ \A g \in Conns \ {f} : /\ client'[g] = client[g] /\ sock'[g] = sock[g]
                                  /\ bridge'[g] = bridge[g]
    BY <1>1, <2>1, <2>2 DEF NetTypes
  <2>4. NetTypes'
    BY <1>1, <2>3 DEF NetTypes
  <2>5. InStep(f)'
    BY <1>1, <1>2, <2>2, <2>3 DEF InStep, Bridge
  <2>6. WithinCaps(f)' /\ EofTold(f)'
    BY <1>1, <1>2, <2>2, <2>3, NetstackAssumption DEF WithinCaps, EofTold
  <2>7. ListedHeld(f)'
    BY <1>1, <1>2, <1>5, <2>2, <2>3 DEF ListedHeld, FlowOK, Refused
  <2>8. UpStream(f)' /\ DownStream(f)'
    <3>1. Taken(f)' = <<>>
      BY <1>1, <1>2 DEF Taken
    <3>2. /\ client'[f].sent = 0 /\ client'[f].got = <<>> /\ remote'[f].sent = 0
          /\ sock'[f].rx = <<>> /\ sock'[f].tx = <<>> /\ bridge'[f].up = <<>>
          /\ bridge'[f].down = <<>> /\ bridge'[f].toClient = <<>>
      BY <1>1, <1>2, <2>2, <2>3
    <3>3. Len(<<>>) = 0 /\ 0 + 0 = 0 /\ 0 <= 0
      OBVIOUS
    <3>4. UpStream(f)'
      BY <3>1, <3>2, <3>3, RunEmpty DEF UpStream
    <3>5. DownStream(f)'
      BY <3>2, <3>3, RunEmpty DEF DownStream
    <3>. QED
      BY <3>4, <3>5
  <2>. QED
    BY <1>1, <2>3, <2>4, <2>5, <2>6, <2>7, <2>8, OthersSame DEF FlowOK
<1>. QED
  BY <1>4, <1>5

\* The socket changes state, and nothing that carries bytes does.
LEMMA StateKeeps ==
    ASSUME NetInv, NEW f \in Conns,
           NEW cs \in {"open", "fin"}, NEW ss \in {"open", "closewait", "lastack", "closed"},
           client' = [client EXCEPT ![f] = [client[f] EXCEPT !.state = cs]],
           sock' = [sock EXCEPT ![f] = [sock[f] EXCEPT !.state = ss]],
           UNCHANGED <<filter, bridge, flowTask, remote>>,
           client[f].state \in {"syn", "open", "fin"}, sock[f].state # "closed",
           cs = "open" => client[f].state = "syn" /\ ss = "open",
           cs = "fin" => /\ client[f].state \in {"open", "fin"} /\ ss # "open"
                         /\ ss \in {"closed", "lastack"} => bridge[f].closing
    PROVE  NetInv'
<1>. DEFINE c == [client[f] EXCEPT !.state = cs]
            s == [sock[f] EXCEPT !.state = ss]
<1>1. NetTypes /\ FlowOK(f)
  BY DEF NetInv
<1>2. /\ c \in Client /\ c.state = cs /\ c.sent = client[f].sent /\ c.got = client[f].got
      /\ s \in Sock /\ s.state = ss /\ s.rx = sock[f].rx /\ s.tx = sock[f].tx
  BY <1>1, Fields DEF Client, Sock
<1>. HIDE DEF c, s
<1>3. /\ client' \in [Conns -> Client] /\ client'[f] = c
      /\ sock' \in [Conns -> Sock] /\ sock'[f] = s
      /\ \A g \in Conns \ {f} : client'[g] = client[g] /\ sock'[g] = sock[g]
  BY <1>1, <1>2 DEF NetTypes, c, s
<1>4. NetTypes'
  BY <1>1, <1>3 DEF NetTypes
<1>5. InStep(f)'
  BY <1>1, <1>2, <1>3 DEF FlowOK, InStep
<1>6. WithinCaps(f)' /\ EofTold(f)'
  BY <1>1, <1>2, <1>3 DEF FlowOK, WithinCaps, EofTold, InStep
<1>t. Taken(f)' = Taken(f)
  BY DEF Taken
<1>7. ListedHeld(f)'
  BY <1>1, <1>2, <1>3, <1>t DEF FlowOK, ListedHeld
<1>8. UpStream(f)'
  <2>1. Taken(f)' = Taken(f)
    BY DEF Taken
  <2>2. /\ client'[f].sent = client[f].sent /\ sock'[f].rx = sock[f].rx
        /\ client[f].state # "gone"
    BY <1>2, <1>3
  <2>. QED
    BY <1>1, <2>1, <2>2 DEF FlowOK, UpStream
<1>9. DownStream(f)'
  BY <1>1, <1>2, <1>3 DEF FlowOK, DownStream
<1>. QED
  BY <1>3, <1>4, <1>5, <1>6, <1>7, <1>8, <1>9, OthersSame DEF FlowOK

\* The end of the handshake, a FIN, and the acknowledgement of ours.
LEMMA HandshakeKeeps ==
    ASSUME NetInv, NEW f \in Conns, ClientAck(f) \/ ClientFins(f) \/ ClientAcksFin(f)
    PROVE  NetInv'
<1>1. NetTypes /\ FlowOK(f) /\ client[f] \in Client /\ client \in [Conns -> Client]
  BY Fields DEF NetInv, NetTypes
<1>2. CASE ClientAck(f)
  <2>1. /\ client' = [client EXCEPT ![f] = [client[f] EXCEPT !.state = "open"]]
        /\ sock' = [sock EXCEPT ![f] = [sock[f] EXCEPT !.state = "open"]]
    BY <1>2, Zenon DEF ClientAck
  <2>2. /\ UNCHANGED <<filter, bridge, flowTask, remote>> /\ client[f].state = "syn"
        /\ sock[f].state # "closed"
    BY <1>1, <1>2 DEF ClientAck, FlowOK, InStep
  <2>. QED
    BY <2>1, <2>2, StateKeeps
<1>3. CASE ClientFins(f)
  <2>. DEFINE old == sock[f].state
              ss == CASE old = "open" -> "closewait"
                      [] old = "finwait" /\ sock[f].tx = <<>> -> "closed"
                      [] OTHER -> "lastack"
  <2>1. /\ client' = [client EXCEPT ![f] = [client[f] EXCEPT !.state = "fin"]]
        /\ sock' = [sock EXCEPT ![f] = [sock[f] EXCEPT !.state = ss]]
    BY <1>3, Zenon DEF ClientFins
  <2>2. /\ UNCHANGED <<filter, bridge, flowTask, remote>> /\ client[f].state = "open"
        /\ old \in {"open", "finwait"} /\ (old = "finwait" => bridge[f].closing)
    BY <1>1, <1>3 DEF ClientFins, FlowOK, InStep
  <2>3. /\ ss \in {"closewait", "lastack", "closed"}
        /\ ss \in {"closed", "lastack"} => bridge[f].closing
    BY <2>2
  <2>. HIDE DEF ss
  <2>. QED
    BY <2>1, <2>2, <2>3, StateKeeps
<1>4. CASE ClientAcksFin(f)
  <2>1. sock' = [sock EXCEPT ![f] = [sock[f] EXCEPT !.state = "closed"]]
    BY <1>4, Zenon DEF ClientAcksFin
  <2>2. /\ UNCHANGED <<filter, bridge, flowTask, client, remote>> /\ sock[f].state = "lastack"
    BY <1>4 DEF ClientAcksFin
  <2>3. client[f].state = "fin" /\ bridge[f].closing
    BY <1>1, <2>2 DEF FlowOK, InStep, Client
  <2>4. client' = [client EXCEPT ![f] = [client[f] EXCEPT !.state = "fin"]]
    <3>1. [client[f] EXCEPT !.state = "fin"] = client[f]
      BY <1>1, <2>3 DEF Client
    <3>. QED
      BY <1>1, <2>2, <3>1
  <2>. QED
    BY <2>1, <2>2, <2>3, <2>4, StateKeeps
<1>. QED
  BY <1>2, <1>3, <1>4

\* Bytes from the client.
LEMMA ClientSendsKeeps ==
    ASSUME NetInv, NEW f \in Conns, ClientSends(f)
    PROVE  NetInv'
<1>. DEFINE n == client[f].sent + 1
            q == Append(sock[f].rx, n)
            c == [client[f] EXCEPT !.sent = n]
            s == [sock[f] EXCEPT !.rx = q]
<1>1. NetTypes /\ FlowOK(f) /\ client[f].state = "open"
      /\ UNCHANGED <<filter, bridge, flowTask, remote>>
  BY DEF NetInv, ClientSends
<1>2. client' = [client EXCEPT ![f] = c] /\ sock' = [sock EXCEPT ![f] = s]
  BY Zenon DEF ClientSends
<1>3. n \in Nat /\ q \in Seq(Nat)
  BY <1>1, Fields, AppendProperties
<1>. HIDE DEF n
<1>. HIDE DEF q
<1>4. /\ c \in Client /\ c.state = "open" /\ c.sent = n /\ c.got = client[f].got
      /\ s \in Sock /\ s.state = sock[f].state /\ s.rx = q /\ s.tx = sock[f].tx
  BY <1>1, <1>3, Fields DEF Client, Sock
<1>. HIDE DEF c, s
<1>5. /\ client' \in [Conns -> Client] /\ client'[f] = c
      /\ sock' \in [Conns -> Sock] /\ sock'[f] = s
      /\ \A g \in Conns \ {f} : client'[g] = client[g] /\ sock'[g] = sock[g]
  BY <1>1, <1>2, <1>4 DEF NetTypes
<1>6. NetTypes'
  BY <1>1, <1>5 DEF NetTypes
<1>7. InStep(f)' /\ WithinCaps(f)'
  BY <1>1, <1>4, <1>5 DEF FlowOK, InStep, WithinCaps
<1>t. Taken(f)' = Taken(f)
  BY <1>1 DEF Taken
<1>8. EofTold(f)' /\ ListedHeld(f)'
  BY <1>1, <1>4, <1>5, <1>t DEF FlowOK, EofTold, ListedHeld
<1>9. UpStream(f)'
  <2>. DEFINE t == Len(Taken(f))
              m == t + Len(bridge[f].up)
  <2>1. t \in Nat /\ m \in Nat /\ Len(sock[f].rx) \in Nat /\ client[f].sent \in Nat
    BY <1>1, Fields
  <2>2. Taken(f)' = Taken(f)
    BY <1>1 DEF Taken
  <2>. HIDE DEF t, m
  <2>3. t <= n /\ Run(Taken(f), 0)
    BY <1>1, <2>1 DEF FlowOK, UpStream, n, t
  <2>4. ASSUME flowTask[f].stage # "ended", ~remote[f].broken
        PROVE  Run(bridge[f].up, t) /\ Run(q, m) /\ m + Len(q) = n
    <3>1. /\ Run(bridge[f].up, t) /\ Run(sock[f].rx, m)
          /\ m + Len(sock[f].rx) = client[f].sent
      BY <1>1, <2>4 DEF FlowOK, UpStream, t, m
    <3>2. n = m + Len(sock[f].rx) + 1
      BY <3>1 DEF n
    <3>3. Run(q, m) /\ Len(q) = Len(sock[f].rx) + 1
      BY <1>1, <2>1, <3>1, <3>2, Fields, RunAppend DEF q
    <3>. QED
      BY <2>1, <3>1, <3>2, <3>3
  <2>5. m + Len(q) = n => m + Len(q) <= n
    BY <1>3
  <2>6. /\ Taken(f)' = Taken(f) /\ bridge'[f].up = bridge[f].up /\ sock'[f].rx = q
        /\ client'[f].sent = n /\ flowTask'[f] = flowTask[f] /\ remote'[f] = remote[f]
    BY <1>1, <1>4, <1>5, <2>2
  <2>. QED
    BY <2>3, <2>4, <2>5, <2>6 DEF UpStream, t, m
<1>10. DownStream(f)'
  BY <1>1, <1>4, <1>5 DEF FlowOK, DownStream
<1>. QED
  BY <1>1, <1>5, <1>6, <1>7, <1>8, <1>9, <1>10, OthersSame DEF FlowOK

\* A reset from the client: the socket and what it holds are gone.
LEMMA ResetKeeps ==
    ASSUME NetInv, NEW f \in Conns, ClientResets(f)
    PROVE  NetInv'
<1>. DEFINE c == [client[f] EXCEPT !.state = "gone"]
<1>1. NetTypes /\ FlowOK(f) /\ client[f].state \in {"open", "fin"}
      /\ UNCHANGED <<filter, bridge, flowTask, remote>>
  BY DEF NetInv, ClientResets
<1>2. client' = [client EXCEPT ![f] = c] /\ sock' = [sock EXCEPT ![f] = NoSock]
  BY Zenon DEF ClientResets
<1>3. /\ c \in Client /\ c.state = "gone" /\ c.sent = client[f].sent /\ c.got = client[f].got
      /\ NoSock \in Sock /\ NoSock.state = "closed" /\ NoSock.rx = <<>> /\ NoSock.tx = <<>>
      /\ Len(<<>>) = 0
  BY <1>1, Fields DEF Client, Sock, NoSock
<1>. HIDE DEF c
<1>4. /\ client' \in [Conns -> Client] /\ client'[f] = c
      /\ sock' \in [Conns -> Sock] /\ sock'[f] = NoSock
      /\ \A g \in Conns \ {f} : client'[g] = client[g] /\ sock'[g] = sock[g]
  BY <1>1, <1>2, <1>3 DEF NetTypes
<1>5. NetTypes'
  BY <1>1, <1>4 DEF NetTypes
<1>6. InStep(f)' /\ WithinCaps(f)'
  BY <1>1, <1>3, <1>4, NetstackAssumption DEF FlowOK, InStep, WithinCaps
<1>t. Taken(f)' = Taken(f)
  BY <1>1 DEF Taken
<1>7. EofTold(f)' /\ ListedHeld(f)'
  BY <1>1, <1>3, <1>4, <1>t DEF FlowOK, EofTold, ListedHeld
<1>8. UpStream(f)'
  <2>1. /\ Len(Taken(f)) \in Nat /\ Len(bridge[f].up) \in Nat /\ Len(sock[f].rx) \in Nat
        /\ client[f].sent \in Nat /\ Taken(f)' = Taken(f)
    BY <1>1, <1>t, Fields, LenProperties
  <2>2. /\ Run(Taken(f), 0) /\ Len(Taken(f)) <= client[f].sent
        /\ flowTask[f].stage # "ended" /\ ~remote[f].broken =>
              /\ Run(bridge[f].up, Len(Taken(f)))
              /\ Len(Taken(f)) + Len(bridge[f].up) + Len(sock[f].rx) <= client[f].sent
    BY <1>1 DEF FlowOK, UpStream
  <2>3. Len(Taken(f)) + Len(bridge[f].up) + Len(sock[f].rx) <= client[f].sent =>
            Len(Taken(f)) + Len(bridge[f].up) + 0 <= client[f].sent
    <3>. DEFINE a == Len(Taken(f)) + Len(bridge[f].up)
    <3>1. a \in Nat
      BY <2>1
    <3>. HIDE DEF a
    <3>2. a + Len(sock[f].rx) <= client[f].sent => a + 0 <= client[f].sent
      BY <2>1, <3>1, Sums
    <3>. QED
      BY <3>2 DEF a
  <2>4. /\ client'[f].state = "gone" /\ client'[f].sent = client[f].sent /\ sock'[f].rx = <<>>
        /\ UNCHANGED <<flowTask, remote, bridge>>
    BY <1>1, <1>3, <1>4
  <2>. QED
    BY <1>3, <2>1, <2>2, <2>3, <2>4, RunEmpty DEF UpStream
<1>9. DownStream(f)'
  <2>1. Len(client[f].got) \in Nat /\ Len(sock[f].tx) \in Nat /\ remote[f].sent \in Nat
    BY <1>1, Fields
  <2>2. Run(client[f].got, 0) /\ Len(client[f].got) + Len(sock[f].tx) <= remote[f].sent
    BY <1>1 DEF FlowOK, DownStream
  <2>3. Len(client[f].got) + 0 <= remote[f].sent
    BY <2>1, <2>2, Sums
  <2>4. /\ client'[f].got = client[f].got /\ sock'[f].tx = <<>> /\ sock'[f].state = "closed"
        /\ UNCHANGED remote
    BY <1>1, <1>3, <1>4
  <2>. QED
    BY <1>3, <2>2, <2>3, <2>4, RunEmpty DEF DownStream
<1>. QED
  BY <1>1, <1>4, <1>5, <1>6, <1>7, <1>8, <1>9, OthersSame DEF FlowOK

\* An acknowledgement.
LEMMA ClientAcksKeeps ==
    ASSUME NetInv, NEW f \in Conns, ClientAcks(f)
    PROVE  NetInv'
<1>. DEFINE old == sock[f].tx
            ss == IF sock[f].state = "lastack" /\ Len(sock[f].tx) = 1 THEN "closed" ELSE sock[f].state
            q == Tail(old)
            g == Append(client[f].got, Head(old))
            c == [client[f] EXCEPT !.got = g]
            s == [sock[f] EXCEPT !.tx = q, !.state = ss]
<1>1. NetTypes /\ FlowOK(f) /\ sock[f].state # "closed" /\ old # <<>>
      /\ UNCHANGED <<filter, bridge, flowTask, remote>>
  BY DEF NetInv, ClientAcks, IsOpen
<1>2. client' = [client EXCEPT ![f] = c] /\ sock' = [sock EXCEPT ![f] = s]
  <2>1. client' = [client EXCEPT ![f] = c]
    BY Zenon DEF ClientAcks
  <2>2. sock' = [sock EXCEPT ![f] = s]
    BY Zenon DEF ClientAcks
  <2>. QED
    BY <2>1, <2>2
<1>3. /\ client[f].got \in Seq(Nat) /\ old \in Seq(Nat) /\ Len(client[f].got) \in Nat
      /\ Len(old) \in Nat /\ Run(client[f].got, 0) /\ Run(old, Len(client[f].got))
      /\ remote[f].sent \in Nat /\ Len(client[f].got) + Len(old) <= remote[f].sent
  <2>1. /\ client[f].got \in Seq(Nat) /\ old \in Seq(Nat) /\ remote[f].sent \in Nat
    BY <1>1, Fields
  <2>2. /\ Run(client[f].got, 0) /\ Run(old, Len(client[f].got))
        /\ Len(client[f].got) + Len(old) <= remote[f].sent
    BY <1>1 DEF FlowOK, DownStream
  <2>3. Len(client[f].got) \in Nat /\ Len(old) \in Nat
    BY <2>1, LenProperties
  <2>. QED
    BY <2>1, <2>2, <2>3, Zenon
<1>4. /\ Head(old) = Len(client[f].got) + 1 /\ q \in Seq(Nat) /\ Len(q) = Len(old) - 1
      /\ Len(old) \in Nat \ {0} /\ Run(q, Len(client[f].got) + 1)
  BY <1>1, <1>3, RunTail
<1>5. g \in Seq(Nat) /\ Len(g) = Len(client[f].got) + 1 /\ Run(g, 0)
  <2>1. Head(old) = 0 + Len(client[f].got) + 1
    BY <1>3, <1>4
  <2>. QED
    BY <1>3, <2>1, RunAppend
<1>6. /\ ss \in {"closed", "synrcvd", "open", "closewait", "finwait", "lastack"}
      /\ ss = sock[f].state \/ (ss = "closed" /\ sock[f].state = "lastack")
  BY <1>1, Fields DEF Sock
<1>. HIDE DEF q, g, ss
<1>7. /\ c \in Client /\ c.state = client[f].state /\ c.sent = client[f].sent /\ c.got = g
      /\ s \in Sock /\ s.state = ss /\ s.rx = sock[f].rx /\ s.tx = q
  BY <1>1, <1>4, <1>5, <1>6, Fields DEF Client, Sock
<1>. HIDE DEF c, s
<1>8. /\ client' \in [Conns -> Client] /\ client'[f] = c
      /\ sock' \in [Conns -> Sock] /\ sock'[f] = s
      /\ \A h \in Conns \ {f} : client'[h] = client[h] /\ sock'[h] = sock[h]
  BY <1>1, <1>2, <1>7 DEF NetTypes
<1>9. NetTypes'
  BY <1>1, <1>8 DEF NetTypes
<1>10. InStep(f)'
  <2>1. client[f].state # "none" /\ (sock[f].state = "lastack" => client[f].state = "fin")
    BY <1>1, Fields DEF FlowOK, InStep, Client
  <2>. QED
    BY <1>1, <1>6, <1>7, <1>8, <2>1 DEF FlowOK, InStep
<1>11. WithinCaps(f)'
  BY <1>1, <1>3, <1>4, <1>7, <1>8, NetstackAssumption DEF FlowOK, WithinCaps
<1>t. Taken(f)' = Taken(f)
  BY <1>1 DEF Taken
<1>12. EofTold(f)' /\ ListedHeld(f)'
  BY <1>1, <1>7, <1>8, <1>t DEF FlowOK, EofTold, ListedHeld
<1>13. UpStream(f)'
  BY <1>1, <1>7, <1>8 DEF FlowOK, UpStream, Taken
<1>14. DownStream(f)'
  <2>0. Run(q, Len(g))
    BY <1>4, <1>5
  <2>1. Len(g) + Len(q) = Len(client[f].got) + Len(old)
    <3>1. Len(client[f].got) + 1 + (Len(old) - 1) = Len(client[f].got) + Len(old)
      BY <1>3, Sums
    <3>. QED
      BY <1>4, <1>5, <3>1, Zenon
  <2>2. /\ Run(client'[f].got, 0) /\ Run(sock'[f].tx, Len(client'[f].got))
        /\ Len(client'[f].got) + Len(sock'[f].tx) = Len(client[f].got) + Len(old)
    BY <1>5, <1>7, <1>8, <2>0, <2>1
  <2>. HIDE DEF old
  <2>. QED
    BY <1>1, <1>3, <1>6, <1>7, <1>8, <2>2 DEF FlowOK, DownStream, old
<1>. QED
  BY <1>1, <1>8, <1>9, <1>10, <1>11, <1>12, <1>13, <1>14, OthersSame DEF FlowOK

\* The smaller of two counts.
LEMMA LeastBounds ==
    \A m, n \in Nat : Least(m, n) \in 0..m /\ Least(m, n) <= n
  BY DEF Least

\* The pump's first visit: the tasks of the flow are spawned.
LEMMA SpawnKeeps ==
    ASSUME NetInv, NEW f \in Conns, PumpMoves(f), Spawns(f)
    PROVE  NetInv'
<1>. DEFINE b == [bridge[f] EXCEPT !.spawned = TRUE, !.upOpen = TRUE]
            k == IF filter = "host" THEN "peek" ELSE "dial"
            w == [flowTask[f] EXCEPT !.stage = k]
<1>1. NetTypes /\ FlowOK(f) /\ sock[f].state = "open" /\ bridge[f].spawned = FALSE
      /\ UNCHANGED <<filter, sock, client, remote>>
  BY Fields DEF NetInv, PumpMoves, Spawns, Bridge
<1>2. bridge' = [bridge EXCEPT ![f] = b] /\ flowTask' = [flowTask EXCEPT ![f] = w]
  BY Zenon DEF PumpMoves
<1>3. k \in {"peek", "dial"} /\ (k = "dial" => filter # "host")
  OBVIOUS
<1>. HIDE DEF k
<1>4. /\ b \in Bridge /\ b.spawned = TRUE /\ b.upOpen = TRUE /\ b.done = bridge[f].done
      /\ b.closing = bridge[f].closing /\ b.up = bridge[f].up /\ b.down = bridge[f].down
      /\ b.toClient = bridge[f].toClient /\ b.present = bridge[f].present
      /\ w \in FlowTask /\ w.stage = k /\ w.peek = flowTask[f].peek
  BY <1>1, <1>3, Fields DEF Bridge, FlowTask
<1>. HIDE DEF b, w
<1>5. /\ bridge' \in [Conns -> Bridge] /\ bridge'[f] = b
      /\ flowTask' \in [Conns -> FlowTask] /\ flowTask'[f] = w
      /\ \A g \in Conns \ {f} : bridge'[g] = bridge[g] /\ flowTask'[g] = flowTask[g]
  BY <1>1, <1>2, <1>4 DEF NetTypes
<1>6. NetTypes'
  BY <1>1, <1>5 DEF NetTypes
<1>7. /\ client[f].state = "open" /\ flowTask[f].stage = "none" /\ bridge[f].done = FALSE
      /\ bridge[f].closing = FALSE /\ remote[f].eof = FALSE /\ remote[f].broken = FALSE
      /\ remote[f].got = <<>> /\ remote[f].ended = FALSE
  BY <1>1, Fields DEF FlowOK, InStep, EofTold, Client, Bridge, Remote
<1>8. InStep(f)' /\ WithinCaps(f)'
  BY <1>1, <1>3, <1>4, <1>5, <1>7 DEF FlowOK, InStep, WithinCaps
<1>t. Taken(f)' = Taken(f)
  BY <1>1, <1>4, <1>5 DEF Taken
<1>9. EofTold(f)' /\ ListedHeld(f)'
  BY <1>1, <1>3, <1>4, <1>5, <1>7, <1>t DEF FlowOK, EofTold, ListedHeld, NetInv
<1>10. UpStream(f)'
  <2>. QED
    BY <1>1, <1>3, <1>4, <1>5, <1>7, <1>t DEF FlowOK, UpStream
<1>11. DownStream(f)'
  BY <1>1, <1>4, <1>5 DEF FlowOK, DownStream
<1>. QED
  BY <1>1, <1>5, <1>6, <1>8, <1>9, <1>10, <1>11, OthersSame DEF FlowOK

\* A later visit: bytes go up, and what has come down is staged.
LEMMA MovesKeep ==
    ASSUME NetInv, NEW f \in Conns, PumpMoves(f), ~Spawns(f)
    PROVE  NetInv'
<1>. DEFINE o == bridge[f]
            rx == sock[f].rx
            u == MovedUp(f)
            d == MovedDown(f)
            up == o.up \o SubSeq(rx, 1, u)
            left == SubSeq(rx, u + 1, Len(rx))
            stage == o.toClient \o SubSeq(o.down, 1, d)
            down == SubSeq(o.down, d + 1, Len(o.down))
            b == [o EXCEPT !.up = up, !.down = down, !.toClient = stage]
            s == [sock[f] EXCEPT !.rx = left]
            t == Len(Taken(f))
            got == Len(client[f].got) + Len(sock[f].tx)
<1>1. NetTypes /\ FlowOK(f) /\ UNCHANGED <<filter, flowTask, client, remote>>
  BY DEF NetInv, PumpMoves
<1>2. bridge' = [bridge EXCEPT ![f] = b] /\ sock' = [sock EXCEPT ![f] = s]
  BY Zenon DEF PumpMoves
<1>3. /\ o \in Bridge /\ sock[f] \in Sock /\ rx \in Seq(Nat) /\ o.up \in Seq(Nat)
      /\ o.down \in Seq(Nat) /\ o.toClient \in Seq(Nat) /\ sock[f].tx \in Seq(Nat)
      /\ client[f].got \in Seq(Nat) /\ Taken(f) \in Seq(Nat)
  BY <1>1, Fields
<1>4. /\ t \in Nat /\ got \in Nat /\ Len(rx) \in Nat /\ Len(o.up) \in Nat
      /\ Len(o.down) \in Nat /\ Len(o.toClient) \in Nat
  <2>1. /\ Len(client[f].got) \in Nat /\ Len(sock[f].tx) \in Nat
    BY <1>3, LenProperties
  <2>2. got \in Nat
    BY <2>1, Sums, Zenon
  <2>3. /\ Len(Taken(f)) \in Nat /\ Len(rx) \in Nat /\ Len(o.up) \in Nat
        /\ Len(o.down) \in Nat /\ Len(o.toClient) \in Nat
    BY <1>3, LenProperties
  <2>. QED
    BY <2>2, <2>3
<1>. HIDE DEF t, got
<1>5. u \in 0..Len(rx) /\ Len(o.up) + u <= UpChannel /\ (~o.upOpen => u = 0)
  <2>1. UpChannel - Len(o.up) \in Nat /\ UpChannel \in Nat
    BY <1>1, <1>4, NetstackAssumption DEF FlowOK, WithinCaps
  <2>2. CASE o.upOpen /\ flowTask[f].stage # "ended" /\ ~remote[f].broken
    <3>1. u = Least(Len(rx), UpChannel - Len(o.up))
      BY <2>2, Zenon DEF MovedUp
    <3>2. u \in 0..Len(rx) /\ u <= UpChannel - Len(o.up)
      BY <1>4, <2>1, <3>1, LeastBounds
    <3>. QED
      BY <1>4, <2>1, <2>2, <3>2
  <2>3. CASE ~(o.upOpen /\ flowTask[f].stage # "ended" /\ ~remote[f].broken)
    <3>1. u = 0
      BY <2>3, Zenon DEF MovedUp
    <3>. QED
      BY <1>1, <1>4, <3>1 DEF FlowOK, WithinCaps
  <2>. QED
    BY <2>2, <2>3
<1>6. d \in 0..Len(o.down) /\ Len(o.toClient) + d <= ToClientCap
  <2>1. ToClientCap - Len(o.toClient) \in Nat /\ ToClientCap \in Nat
    BY <1>1, <1>4, NetstackAssumption DEF FlowOK, WithinCaps
  <2>2. d \in 0..Len(o.down) /\ d <= ToClientCap - Len(o.toClient)
    BY <1>4, <2>1, LeastBounds DEF MovedDown
  <2>. QED
    BY <1>4, <2>1, <2>2
<1>. HIDE DEF u, d
<1>7. /\ up \in Seq(Nat) /\ left \in Seq(Nat)
      /\ Len(up) = Len(o.up) + u /\ t + Len(up) + Len(left) = t + Len(o.up) + Len(rx)
      /\ Run(o.up, t) /\ Run(rx, t + Len(o.up)) => Run(up, t) /\ Run(left, t + Len(up))
      /\ u = 0 => up = o.up
      /\ rx = <<>> => left = <<>>
  <2>1. o.up \in Seq(Nat) /\ rx \in Seq(Nat) /\ t \in Nat /\ u \in 0..Len(rx)
    BY <1>3, <1>4, <1>5, Zenon
  <2>2. Moved(o.up, rx, t, u, up, left)
    BY <2>1, RunMoves, Zenon
  <2>. HIDE DEF up, left
  <2>. QED
    BY <2>2, Zenon DEF Moved
<1>8. /\ stage \in Seq(Nat) /\ down \in Seq(Nat)
      /\ Len(stage) = Len(o.toClient) + d
      /\ got + Len(stage) + Len(down) = got + Len(o.toClient) + Len(o.down)
      /\ Run(o.toClient, got) /\ Run(o.down, got + Len(o.toClient)) =>
            Run(stage, got) /\ Run(down, got + Len(stage))
  <2>1. o.toClient \in Seq(Nat) /\ o.down \in Seq(Nat) /\ got \in Nat /\ d \in 0..Len(o.down)
    BY <1>3, <1>4, <1>6, Zenon
  <2>2. Moved(o.toClient, o.down, got, d, stage, down)
    BY <2>1, RunMoves, Zenon
  <2>. HIDE DEF stage, down
  <2>. QED
    BY <2>2, Zenon DEF Moved
<1>. HIDE DEF up, left, stage, down
<1>9. /\ b \in Bridge /\ b.up = up /\ b.down = down /\ b.toClient = stage
      /\ b.spawned = o.spawned /\ b.upOpen = o.upOpen /\ b.done = o.done
      /\ b.closing = o.closing /\ b.present = o.present
      /\ s \in Sock /\ s.state = sock[f].state /\ s.rx = left /\ s.tx = sock[f].tx
  BY <1>3, <1>7, <1>8 DEF Bridge, Sock
<1>. HIDE DEF b, s
<1>10. /\ bridge' \in [Conns -> Bridge] /\ bridge'[f] = b
       /\ sock' \in [Conns -> Sock] /\ sock'[f] = s
       /\ \A g \in Conns \ {f} : bridge'[g] = bridge[g] /\ sock'[g] = sock[g]
  BY <1>1, <1>2, <1>9 DEF NetTypes
<1>11. NetTypes'
  BY <1>1, <1>10 DEF NetTypes
<1>12. InStep(f)'
  BY <1>1, <1>9, <1>10 DEF FlowOK, InStep
<1>13. WithinCaps(f)'
  BY <1>1, <1>5, <1>6, <1>7, <1>8, <1>9, <1>10 DEF FlowOK, WithinCaps
<1>t. Taken(f)' = Taken(f)
  BY <1>1 DEF Taken
<1>14. EofTold(f)' /\ ListedHeld(f)'
  BY <1>1, <1>5, <1>7, <1>9, <1>10, <1>t DEF FlowOK, EofTold, ListedHeld
<1>15. UpStream(f)'
  <2>1. Taken(f)' = Taken(f)
    BY <1>1 DEF Taken
  <2>. QED
    BY <1>1, <1>7, <1>9, <1>10, <2>1 DEF FlowOK, UpStream, t
<1>16. DownStream(f)'
  BY <1>1, <1>8, <1>9, <1>10 DEF FlowOK, DownStream, got
<1>. QED
  BY <1>1, <1>10, <1>11, <1>12, <1>13, <1>14, <1>15, <1>16, OthersSame DEF FlowOK

\* The second half of a visit: bytes go down, the client's FIN is passed on, the
\* flow is closed.
LEMMA ClosesKeep ==
    ASSUME NetInv, NEW f \in Conns, PumpCloses(f)
    PROVE  NetInv'
<1>. DEFINE o == bridge[f]
            old == sock[f]
            n == IF MaySend(old) THEN Least(Len(o.toClient), FlowBuf - Len(old.tx)) ELSE 0
            tx == old.tx \o SubSeq(o.toClient, 1, n)
            staged == SubSeq(o.toClient, n + 1, Len(o.toClient))
            close == Closes(f, staged)
            ss == IF close THEN AfterClose(old.state) ELSE old.state
            open == o.upOpen /\ ~FinPasses(old)
            closing == o.closing \/ close
            s == [old EXCEPT !.tx = tx, !.state = ss]
            b == [o EXCEPT !.toClient = staged, !.upOpen = open, !.closing = closing]
            g == Len(client[f].got)
<1>1. NetTypes /\ FlowOK(f) /\ UNCHANGED <<filter, flowTask, client, remote>>
  BY DEF NetInv, PumpCloses
<1>2. sock' = [sock EXCEPT ![f] = s] /\ bridge' = [bridge EXCEPT ![f] = b]
  BY Zenon DEF PumpCloses
<1>3. /\ o \in Bridge /\ old \in Sock /\ old.tx \in Seq(Nat) /\ o.toClient \in Seq(Nat)
      /\ o.down \in Seq(Nat) /\ client[f].got \in Seq(Nat) /\ client[f] \in Client
      /\ remote[f].sent \in Nat
  BY <1>1, Fields
<1>4. g \in Nat /\ Len(old.tx) \in Nat /\ Len(o.toClient) \in Nat /\ Len(o.down) \in Nat
  BY <1>3, LenProperties
<1>. HIDE DEF g
<1>5. n \in 0..Len(o.toClient) /\ Len(old.tx) + n <= FlowBuf /\ (~MaySend(old) => n = 0)
  <2>1. FlowBuf - Len(old.tx) \in Nat /\ FlowBuf \in Nat /\ Len(old.tx) <= FlowBuf
    BY <1>1, <1>4, NetstackAssumption DEF FlowOK, WithinCaps
  <2>2. CASE MaySend(old)
    <3>1. n \in 0..Len(o.toClient) /\ n <= FlowBuf - Len(old.tx)
      BY <1>4, <2>1, <2>2, LeastBounds
    <3>. HIDE DEF n
    <3>. QED
      BY <1>4, <2>1, <2>2, <3>1
  <2>3. CASE ~MaySend(old)
    <3>1. n = 0
      BY <2>3
    <3>. HIDE DEF n
    <3>. QED
      BY <1>4, <2>1, <2>3, <3>1
  <2>. QED
    BY <2>2, <2>3
<1>. HIDE DEF n
<1>6. Moved(old.tx, o.toClient, g, n, tx, staged)
  BY <1>3, <1>4, <1>5, RunMoves, Zenon
<1>. HIDE DEF tx, staged
<1>7. /\ tx \in Seq(Nat) /\ staged \in Seq(Nat) /\ Len(tx) = Len(old.tx) + n
      /\ Len(staged) = Len(o.toClient) - n
      /\ g + Len(tx) + Len(staged) = g + Len(old.tx) + Len(o.toClient)
      /\ Run(old.tx, g) /\ Run(o.toClient, g + Len(old.tx)) =>
            Run(tx, g) /\ Run(staged, g + Len(tx))
      /\ n = 0 => tx = old.tx
  BY <1>6, Zenon DEF Moved
<1>8. /\ close => /\ o.done /\ old.state \in {"open", "closewait"}
                  /\ old.state = "open" => client[f].state = "open"
                  /\ old.state = "closewait" => client[f].state = "fin"
      /\ close \in BOOLEAN
  BY <1>1, <1>3 DEF FlowOK, InStep, Closes, IsOpen, Client, Sock, Bridge
<1>. HIDE DEF close
<1>9. /\ ~close => ss = old.state
      /\ close /\ old.state = "open" => ss = "finwait"
      /\ close /\ old.state = "closewait" => ss = "lastack"
      /\ ss \in {"closed", "synrcvd", "open", "closewait", "finwait", "lastack"}
  BY <1>3, <1>8 DEF Sock, AfterClose
<1>10. /\ open \in BOOLEAN /\ closing \in BOOLEAN
       /\ open => o.upOpen
       /\ o.upOpen /\ ~open => old.state \notin {"open", "finwait"} /\ old.rx = <<>>
       /\ o.closing => closing
       /\ closing /\ ~o.closing => close
       /\ close => closing
  BY <1>3, <1>8 DEF Bridge, FinPasses, MayRecv
<1>. HIDE DEF ss, open, closing
<1>11. /\ b \in Bridge /\ b.up = o.up /\ b.down = o.down /\ b.toClient = staged
       /\ b.spawned = o.spawned /\ b.upOpen = open /\ b.done = o.done
       /\ b.closing = closing /\ b.present = o.present
       /\ s \in Sock /\ s.state = ss /\ s.rx = old.rx /\ s.tx = tx
  BY <1>3, <1>7, <1>9, <1>10 DEF Bridge, Sock
<1>. HIDE DEF b, s
<1>12. /\ bridge' \in [Conns -> Bridge] /\ bridge'[f] = b
       /\ sock' \in [Conns -> Sock] /\ sock'[f] = s
       /\ \A h \in Conns \ {f} : bridge'[h] = bridge[h] /\ sock'[h] = sock[h]
  BY <1>1, <1>2, <1>11 DEF NetTypes
<1>13. NetTypes'
  BY <1>1, <1>12 DEF NetTypes
<1>14. InStep(f)'
  BY <1>1, <1>8, <1>9, <1>10, <1>11, <1>12 DEF FlowOK, InStep
<1>15. WithinCaps(f)'
  <2>1. Len(tx) <= FlowBuf
    BY <1>5, <1>7
  <2>2. Len(staged) <= ToClientCap
    <3>1. n \in Nat /\ Len(o.toClient) <= ToClientCap /\ ToClientCap \in Nat
      BY <1>1, <1>4, <1>5, NetstackAssumption DEF FlowOK, WithinCaps
    <3>2. Len(o.toClient) - n <= ToClientCap
      BY <1>4, <3>1
    <3>. QED
      BY <1>7, <3>2
  <2>. QED
    BY <1>1, <1>11, <1>12, <2>1, <2>2 DEF FlowOK, WithinCaps
<1>16. EofTold(f)'
  <2>1. o.spawned /\ o.upOpen /\ ~open =>
           client[f].state \in {"fin", "gone"} /\ old.rx = <<>>
    BY <1>1, <1>3, <1>10 DEF FlowOK, InStep, Client
  <2>2. remote[f].eof /\ flowTask[f].stage = "run" => ~open
    BY <1>1, <1>10 DEF FlowOK, EofTold
  <2>. QED
    BY <1>1, <1>11, <1>12, <2>1, <2>2 DEF FlowOK, EofTold
<1>t. Taken(f)' = Taken(f)
  BY <1>1 DEF Taken
<1>17. ListedHeld(f)'
  BY <1>1, <1>10, <1>11, <1>12, <1>t DEF FlowOK, ListedHeld
<1>18. UpStream(f)'
  <2>1. Taken(f)' = Taken(f)
    BY <1>1 DEF Taken
  <2>. QED
    BY <1>1, <1>11, <1>12, <2>1 DEF FlowOK, UpStream
<1>19. DownStream(f)'
  <2>1. /\ Run(client[f].got, 0) /\ Run(old.tx, g) /\ g + Len(old.tx) <= remote[f].sent
        /\ old.state # "closed" =>
              /\ Run(o.toClient, g + Len(old.tx))
              /\ Run(o.down, g + Len(old.tx) + Len(o.toClient))
              /\ g + Len(old.tx) + Len(o.toClient) + Len(o.down) = remote[f].sent
    BY <1>1 DEF FlowOK, DownStream, g
  <2>2. ss # "closed" <=> old.state # "closed"
    BY <1>8, <1>9
  <2>3. CASE old.state = "closed"
    <3>1. tx = old.tx
      BY <1>5, <1>7, <2>3 DEF MaySend
    <3>. QED
      BY <1>1, <1>11, <1>12, <2>1, <2>2, <2>3, <3>1 DEF DownStream, g
  <2>4. CASE old.state # "closed"
    <3>1. /\ Run(tx, g) /\ Run(staged, g + Len(tx))
          /\ Run(o.down, g + Len(tx) + Len(staged))
          /\ g + Len(tx) + Len(staged) + Len(o.down) = remote[f].sent
      BY <1>7, <2>1, <2>4, Zenon
    <3>2. g + Len(tx) <= remote[f].sent
      <4>1. \A i, j, k, l \in Nat : i + j + k \in Nat /\ i + j <= i + j + k + l
        OBVIOUS
      <4>2. Len(tx) \in Nat /\ Len(staged) \in Nat
        BY <1>7, LenProperties
      <4>. QED
        BY <1>4, <3>1, <4>1, <4>2
    <3>. QED
      BY <1>1, <1>11, <1>12, <2>1, <2>2, <3>1, <3>2 DEF DownStream, g
  <2>. QED
    BY <2>3, <2>4
<1>. QED
  BY <1>1, <1>12, <1>13, <1>14, <1>15, <1>16, <1>17, <1>18, <1>19, OthersSame DEF FlowOK

\* reap_flows.
LEMMA ReapKeeps ==
    ASSUME NetInv, ReapFlows
    PROVE  NetInv'
<1>. DEFINE reaped(f) == [bridge[f] EXCEPT !.present = FALSE, !.upOpen = FALSE,
                                           !.down = <<>>, !.toClient = <<>>]
<1>1. NetTypes /\ UNCHANGED <<filter, sock, flowTask, client, remote>>
      /\ bridge' = [f \in Conns |-> IF f \in Dead THEN reaped(f) ELSE bridge[f]]
  BY DEF NetInv, ReapFlows
<1>2. ASSUME NEW f \in Conns
      PROVE  /\ reaped(f) \in Bridge /\ reaped(f).upOpen = FALSE /\ reaped(f).up = bridge[f].up
             /\ reaped(f).toClient = <<>> /\ reaped(f).spawned = bridge[f].spawned
             /\ reaped(f).done = bridge[f].done /\ reaped(f).closing = bridge[f].closing
  <2>1. <<>> \in Seq(Nat) /\ bridge[f] \in Bridge
    BY <1>1, Fields, EmptySeq, Zenon
  <2>2. PICK e \in Seq(Nat) : e = <<>>
    BY <2>1
  <2>3. reaped(f) = [bridge[f] EXCEPT !.present = FALSE, !.upOpen = FALSE,
                                     !.down = e, !.toClient = e]
    BY <2>2, Zenon
  <2>. HIDE DEF reaped
  <2>. QED
    BY <2>1, <2>2, <2>3 DEF Bridge
<1>. HIDE DEF reaped
<1>3. bridge' \in [Conns -> Bridge]
  BY <1>1, <1>2, Fields
<1>4. NetTypes'
  BY <1>1, <1>3 DEF NetTypes
<1>5. ASSUME NEW f \in Conns PROVE FlowOK(f)'
  <2>1. FlowOK(f) /\ client[f] \in Client
    BY <1>1, Fields DEF NetInv
  <2>2. CASE f \in Dead
    <3>1. bridge'[f] = reaped(f) /\ sock[f].state = "closed"
      BY <1>1, <2>2 DEF Dead, IsOpen
    <3>t. Taken(f)' = Taken(f)
      BY <1>1 DEF Taken
    <3>2. InStep(f)' /\ ListedHeld(f)'
      BY <1>1, <1>2, <2>1, <3>1, <3>t DEF FlowOK, InStep, ListedHeld
    <3>3. WithinCaps(f)'
      <4>1. Len(<<>>) = 0 /\ 0 <= ToClientCap
        BY NetstackAssumption
      <4>. QED
        BY <1>1, <1>2, <2>1, <3>1, <4>1 DEF FlowOK, WithinCaps
    <3>4. EofTold(f)'
      <4>1. bridge[f].spawned /\ ~bridge[f].done => client[f].state = "gone"
        BY <2>1, <3>1 DEF FlowOK, InStep, Client
      <4>. QED
        BY <1>1, <1>2, <2>1, <3>1, <4>1 DEF FlowOK, EofTold
    <3>5. UpStream(f)'
      <4>1. Taken(f)' = Taken(f)
        BY <1>1 DEF Taken
      <4>. QED
        BY <1>1, <1>2, <2>1, <3>1, <4>1 DEF FlowOK, UpStream
    <3>6. DownStream(f)'
      BY <1>1, <2>1, <3>1 DEF FlowOK, DownStream
    <3>. QED
      BY <3>2, <3>3, <3>4, <3>5, <3>6 DEF FlowOK
  <2>3. CASE f \notin Dead
    <3>1. bridge'[f] = bridge[f]
      BY <1>1, <2>3
    <3>t. Taken(f)' = Taken(f)
      BY <1>1 DEF Taken
    <3>2. InStep(f)' /\ WithinCaps(f)' /\ EofTold(f)' /\ ListedHeld(f)'
      BY <1>1, <2>1, <3>1, <3>t DEF FlowOK, InStep, WithinCaps, EofTold, ListedHeld
    <3>3. UpStream(f)' /\ DownStream(f)'
      BY <1>1, <2>1, <3>1 DEF FlowOK, UpStream, DownStream, Taken
    <3>. QED
      BY <3>2, <3>3 DEF FlowOK
  <2>. QED
    BY <2>2, <2>3
<1>. QED
  BY <1>1, <1>4, <1>5 DEF NetInv

\* The pump stops.
LEMMA StopKeeps ==
    ASSUME NetInv, PumpStops
    PROVE  NetInv'
<1>. DEFINE dropped(f) == [bridge[f] EXCEPT !.present = FALSE, !.upOpen = FALSE,
                                            !.down = <<>>, !.toClient = <<>>]
            left(f) == [client[f] EXCEPT !.state = IF @ = "none" THEN @ ELSE "gone"]
<1>1. NetTypes /\ UNCHANGED <<filter, flowTask, remote>>
      /\ bridge' = [f \in Conns |-> dropped(f)] /\ client' = [f \in Conns |-> left(f)]
      /\ sock' = [f \in Conns |-> NoSock]
  BY DEF NetInv, PumpStops
<1>2. ASSUME NEW f \in Conns
      PROVE  /\ dropped(f) \in Bridge /\ dropped(f).upOpen = FALSE
             /\ dropped(f).up = bridge[f].up
             /\ dropped(f).toClient = <<>> /\ dropped(f).spawned = bridge[f].spawned
             /\ dropped(f).done = bridge[f].done /\ dropped(f).closing = bridge[f].closing
  <2>1. <<>> \in Seq(Nat) /\ bridge[f] \in Bridge
    BY <1>1, Fields, EmptySeq, Zenon
  <2>2. PICK e \in Seq(Nat) : e = <<>>
    BY <2>1
  <2>3. dropped(f) = [bridge[f] EXCEPT !.present = FALSE, !.upOpen = FALSE,
                                      !.down = e, !.toClient = e]
    BY <2>2, Zenon
  <2>. HIDE DEF dropped
  <2>. QED
    BY <2>1, <2>2, <2>3 DEF Bridge
<1>3. ASSUME NEW f \in Conns
      PROVE  /\ left(f) \in Client /\ left(f).sent = client[f].sent /\ left(f).got = client[f].got
             /\ left(f).state = IF client[f].state = "none" THEN "none" ELSE "gone"
  BY <1>1, Fields DEF Client
<1>4. /\ NoSock \in Sock /\ NoSock.state = "closed" /\ NoSock.rx = <<>> /\ NoSock.tx = <<>>
      /\ Len(<<>>) = 0
  BY DEF Sock, NoSock
<1>. HIDE DEF dropped, left
<1>5. /\ bridge' \in [Conns -> Bridge] /\ client' \in [Conns -> Client] /\ sock' \in [Conns -> Sock]
  BY <1>1, <1>2, <1>3, <1>4
<1>6. NetTypes'
  BY <1>1, <1>5 DEF NetTypes
<1>7. ASSUME NEW f \in Conns PROVE FlowOK(f)'
  <2>1. FlowOK(f) /\ client[f] \in Client
    BY <1>1, Fields DEF NetInv
  <2>2. bridge'[f] = dropped(f) /\ client'[f] = left(f) /\ sock'[f] = NoSock
    BY <1>1
  <2>3. InStep(f)'
    BY <1>1, <1>2, <1>3, <1>4, <2>1, <2>2 DEF FlowOK, InStep
  <2>4. WithinCaps(f)'
    <3>1. 0 <= ToClientCap /\ 0 <= FlowBuf
      BY NetstackAssumption
    <3>. QED
      BY <1>2, <1>4, <2>1, <2>2, <3>1 DEF FlowOK, WithinCaps
  <2>5. Taken(f)' = Taken(f)
    BY <1>1 DEF Taken
  <2>6. EofTold(f)' /\ ListedHeld(f)'
    BY <1>1, <1>2, <1>3, <1>4, <2>1, <2>2, <2>5 DEF FlowOK, EofTold, ListedHeld, InStep
  <2>7. UpStream(f)'
    <3>1. /\ Len(Taken(f)) \in Nat /\ Len(bridge[f].up) \in Nat /\ Len(sock[f].rx) \in Nat
          /\ client[f].sent \in Nat
      BY <1>1, Fields, LenProperties
    <3>2. Len(Taken(f)) + Len(bridge[f].up) + Len(sock[f].rx) <= client[f].sent =>
              Len(Taken(f)) + Len(bridge[f].up) + 0 <= client[f].sent
      <4>. DEFINE a == Len(Taken(f)) + Len(bridge[f].up)
      <4>1. a \in Nat
        BY <3>1
      <4>. HIDE DEF a
      <4>2. a + Len(sock[f].rx) <= client[f].sent => a + 0 <= client[f].sent
        BY <3>1, <4>1, Sums
      <4>. QED
        BY <4>2 DEF a
    <3>3. CASE client[f].state = "none"
      <4>1. client[f].sent = 0 /\ client'[f].sent = 0 /\ flowTask[f].stage = "none"
            /\ ~remote[f].broken
        BY <1>1, <1>3, <2>1, <2>2, <3>3 DEF FlowOK, InStep
      <4>2. /\ Run(Taken(f), 0) /\ Len(Taken(f)) <= 0 /\ Run(bridge[f].up, Len(Taken(f)))
            /\ Len(Taken(f)) + Len(bridge[f].up) + Len(sock[f].rx) <= 0
        BY <2>1, <4>1 DEF FlowOK, UpStream
      <4>3. \A i, j, k \in Nat : i + j + k <= 0 => i + j + 0 = 0
        OBVIOUS
      <4>4. Len(Taken(f)) + Len(bridge[f].up) + 0 = 0
        BY <3>1, <4>2, <4>3
      <4>5. Len(Taken(f)) + Len(bridge[f].up) + 0 <= 0
        BY <4>4
      <4>. QED
        BY <1>1, <1>2, <1>4, <2>2, <2>5, <4>1, <4>2, <4>4, <4>5, RunEmpty DEF UpStream
    <3>4. CASE client[f].state # "none"
      <4>1. client'[f].state = "gone" /\ client'[f].sent = client[f].sent
        BY <1>3, <2>2, <3>4
      <4>2. /\ Run(Taken(f), 0) /\ Len(Taken(f)) <= client[f].sent
            /\ flowTask[f].stage # "ended" /\ ~remote[f].broken =>
                  /\ Run(bridge[f].up, Len(Taken(f)))
                  /\ Len(Taken(f)) + Len(bridge[f].up) + Len(sock[f].rx) <= client[f].sent
        BY <2>1 DEF FlowOK, UpStream
      <4>. QED
        BY <1>1, <1>2, <1>4, <2>2, <2>5, <3>2, <4>1, <4>2, RunEmpty DEF UpStream
    <3>. QED
      BY <3>3, <3>4
  <2>8. DownStream(f)'
    <3>1. Len(client[f].got) \in Nat /\ Len(sock[f].tx) \in Nat /\ remote[f].sent \in Nat
      BY <1>1, Fields, LenProperties
    <3>2. Run(client[f].got, 0) /\ Len(client[f].got) + Len(sock[f].tx) <= remote[f].sent
      BY <2>1 DEF FlowOK, DownStream
    <3>3. Len(client[f].got) + 0 <= remote[f].sent
      BY <3>1, <3>2, Sums
    <3>. QED
      BY <1>1, <1>3, <1>4, <2>2, <3>2, <3>3, RunEmpty DEF DownStream
  <2>. QED
    BY <2>3, <2>4, <2>6, <2>7, <2>8 DEF FlowOK
<1>. QED
  BY <1>1, <1>6, <1>7 DEF NetInv

\* The flow's tasks end: a dial that fails, a listed name, the server's close or a
\* flow that is no longer there.
LEMMA TaskEndKeeps ==
    ASSUME NetInv, NEW f \in Conns, TaskEnds(f), flowTask[f].stage \in {"peek", "dial", "run"},
           UNCHANGED <<filter, sock, client>>,
           NEW r \in Remote, remote' = [remote EXCEPT ![f] = r],
           r.got = remote[f].got, r.broken = remote[f].broken,
           r.sent \in {remote[f].sent, remote[f].sent + 1},
           r.sent = remote[f].sent \/ sock[f].state = "closed",
           r.eof /\ ~r.ended => remote[f].eof \/ client[f].state = "gone"
    PROVE  NetInv'
<1>. DEFINE w == [flowTask[f] EXCEPT !.stage = "ended"]
            b == [bridge[f] EXCEPT !.done = TRUE, !.up = <<>>]
<1>1. NetTypes /\ FlowOK(f) /\ flowTask[f] \in FlowTask /\ bridge[f] \in Bridge
      /\ client[f].sent \in Nat /\ remote[f].sent \in Nat /\ remote[f] \in Remote
  BY Fields DEF NetInv
<1>2. flowTask' = [flowTask EXCEPT ![f] = w] /\ bridge' = [bridge EXCEPT ![f] = b]
  BY Zenon DEF TaskEnds
<1>3. /\ w \in FlowTask /\ w.stage = "ended" /\ w.peek = flowTask[f].peek
      /\ b \in Bridge /\ b.done = TRUE /\ b.up = <<>> /\ b.down = bridge[f].down
      /\ b.toClient = bridge[f].toClient /\ b.spawned = bridge[f].spawned
      /\ b.upOpen = bridge[f].upOpen /\ b.closing = bridge[f].closing
      /\ b.present = bridge[f].present
  <2>1. w \in FlowTask /\ w.stage = "ended" /\ w.peek = flowTask[f].peek
    BY <1>1 DEF FlowTask
  <2>2. PICK e \in Seq(Nat) : e = <<>>
    BY EmptySeq, Zenon
  <2>3. b = [bridge[f] EXCEPT !.done = TRUE, !.up = e]
    BY <2>2, Zenon
  <2>. HIDE DEF w, b
  <2>. QED
    BY <1>1, <2>1, <2>2, <2>3 DEF Bridge
<1>. HIDE DEF w, b
<1>4. /\ bridge' \in [Conns -> Bridge] /\ bridge'[f] = b
      /\ flowTask' \in [Conns -> FlowTask] /\ flowTask'[f] = w
      /\ remote' \in [Conns -> Remote] /\ remote'[f] = r
      /\ \A g \in Conns \ {f} : /\ bridge'[g] = bridge[g] /\ flowTask'[g] = flowTask[g]
                                /\ remote'[g] = remote[g]
  BY <1>1, <1>2, <1>3 DEF NetTypes
<1>5. NetTypes'
  BY <1>1, <1>4 DEF NetTypes
<1>6. InStep(f)'
  <2>1. client[f].state \notin {"none", "syn"}
    BY <1>1 DEF FlowOK, InStep
  <2>. QED
    BY <1>1, <1>3, <1>4, <2>1 DEF FlowOK, InStep
<1>7. WithinCaps(f)'
  <2>1. Len(<<>>) = 0 /\ 0 <= UpChannel
    BY NetstackAssumption
  <2>. QED
    BY <1>1, <1>3, <1>4, <2>1 DEF FlowOK, WithinCaps
<1>8. EofTold(f)' /\ ListedHeld(f)'
  <2>1. ~remote[f].ended
    BY <1>1 DEF FlowOK, InStep
  <2>. QED
    BY <1>1, <1>3, <1>4, <2>1 DEF FlowOK, EofTold, ListedHeld
<1>9. UpStream(f)'
  <2>1. Taken(f)' = Taken(f)
    BY <1>3, <1>4 DEF Taken
  <2>. QED
    BY <1>1, <1>3, <1>4, <2>1 DEF FlowOK, UpStream
<1>10. DownStream(f)'
  <2>1. CASE r.sent = remote[f].sent
    BY <1>1, <1>3, <1>4, <2>1 DEF FlowOK, DownStream
  <2>2. CASE r.sent # remote[f].sent
    <3>1. sock[f].state = "closed" /\ r.sent = remote[f].sent + 1
      BY <2>2
    <3>2. /\ client[f].got \in Seq(Nat) /\ sock[f].tx \in Seq(Nat)
          /\ Len(client[f].got) \in Nat /\ Len(sock[f].tx) \in Nat
      BY <1>1, Fields, LenProperties
    <3>3. Len(client[f].got) + Len(sock[f].tx) <= r.sent
      <4>1. Len(client[f].got) + Len(sock[f].tx) <= remote[f].sent
        BY <1>1 DEF FlowOK, DownStream
      <4>2. \A i, j, k \in Nat : i + j <= k => i + j <= k + 1
        OBVIOUS
      <4>. QED
        BY <1>1, <3>1, <3>2, <4>1, <4>2
    <3>. QED
      BY <1>1, <1>4, <3>1, <3>3 DEF FlowOK, DownStream
  <2>. QED
    BY <2>1, <2>2
<1>. QED
  BY <1>4, <1>5, <1>6, <1>7, <1>8, <1>9, <1>10, OthersSame DEF FlowOK

\* So it is when the other end is not concerned.
LEMMA TaskEndAlone ==
    ASSUME NetInv, NEW f \in Conns, TaskEnds(f), flowTask[f].stage \in {"peek", "dial", "run"},
           UNCHANGED <<filter, sock, client, remote>>
    PROVE  NetInv'
<1>1. remote[f] \in Remote /\ remote \in [Conns -> Remote]
  BY Fields DEF NetInv, NetTypes
<1>2. remote' = [remote EXCEPT ![f] = remote[f]]
  BY <1>1
<1>. QED
  BY <1>1, <1>2, TaskEndKeeps

\* The server closes, or the flow has been dropped.
LEMMA DownEndKeeps ==
    ASSUME NetInv, NEW f \in Conns, DownEnds(f) \/ DownDrops(f)
    PROVE  NetInv'
<1>1. NetTypes /\ FlowOK(f) /\ remote[f] \in Remote /\ remote[f].sent \in Nat
      /\ client[f] \in Client
  BY Fields DEF NetInv
<1>. DEFINE e == HalfShut(f)
<1>2. CASE DownEnds(f)
  <2>. DEFINE r == [remote[f] EXCEPT !.ended = TRUE, !.eof = e]
  <2>1. TaskEnds(f) /\ flowTask[f].stage = "run" /\ UNCHANGED <<filter, sock, client>>
    BY <1>2 DEF DownEnds
  <2>t. remote' = [remote EXCEPT ![f] = r]
    BY <1>2, Zenon DEF DownEnds
  <2>2. e \in BOOLEAN
    BY <1>1 DEF HalfShut, Remote
  <2>. HIDE DEF e
  <2>3. /\ r \in Remote /\ r.got = remote[f].got /\ r.broken = remote[f].broken
        /\ r.sent = remote[f].sent /\ r.ended
    BY <1>1, <2>2 DEF Remote
  <2>. HIDE DEF r
  <2>. QED
    BY <2>1, <2>t, <2>3, TaskEndKeeps
<1>3. CASE DownDrops(f)
  <2>. DEFINE m == remote[f].sent + 1
              r == [remote[f] EXCEPT !.eof = e, !.sent = m]
  <2>1. TaskEnds(f) /\ flowTask[f].stage = "run" /\ UNCHANGED <<filter, sock, client>>
    BY <1>3 DEF DownDrops
  <2>t. remote' = [remote EXCEPT ![f] = r]
    BY <1>3, Zenon DEF DownDrops
  <2>2. e \in BOOLEAN /\ m \in Nat
    BY <1>1 DEF HalfShut, Remote
  <2>. HIDE DEF e, m
  <2>3. /\ r \in Remote /\ r.got = remote[f].got /\ r.broken = remote[f].broken /\ r.sent = m
    BY <1>1, <2>2 DEF Remote
  <2>. HIDE DEF r
  <2>4. sock[f].state = "closed" /\ client[f].state = "gone"
    BY <1>1, <1>3 DEF DownDrops, FlowOK, InStep, Client
  <2>. QED
    BY <2>1, <2>t, <2>3, <2>4, TaskEndKeeps DEF m
<1>. QED
  BY <1>2, <1>3

\* connect_via_proxy, or the direct dial.
LEMMA DialKeeps ==
    ASSUME NetInv, NEW f \in Conns, NEW ok \in BOOLEAN, Dial(f, ok)
    PROVE  NetInv'
<1>1. CASE ~ok
  BY <1>1, TaskEndAlone DEF Dial
<1>2. CASE ok
  <2>. DEFINE w == [flowTask[f] EXCEPT !.stage = "run"]
  <2>1. NetTypes /\ FlowOK(f) /\ flowTask[f] \in FlowTask
    BY Fields DEF NetInv
  <2>2. /\ UNCHANGED <<filter, sock, bridge, client, remote>> /\ flowTask[f].stage = "dial"
        /\ flowTask' = [flowTask EXCEPT ![f] = w]
    BY <1>2, Zenon DEF Dial
  <2>3. w \in FlowTask /\ w.stage = "run" /\ w.peek = flowTask[f].peek
    BY <2>1 DEF FlowTask
  <2>. HIDE DEF w
  <2>4. /\ flowTask' \in [Conns -> FlowTask] /\ flowTask'[f] = w
        /\ \A g \in Conns \ {f} : flowTask'[g] = flowTask[g]
    BY <2>1, <2>2, <2>3 DEF NetTypes
  <2>5. NetTypes'
    BY <2>1, <2>2, <2>4 DEF NetTypes
  <2>6. InStep(f)' /\ WithinCaps(f)'
    BY <2>1, <2>2, <2>3, <2>4 DEF FlowOK, InStep, WithinCaps
  <2>7. Taken(f)' = Taken(f)
    BY <2>2, <2>3, <2>4 DEF Taken
  <2>8. EofTold(f)' /\ ListedHeld(f)'
    BY <2>1, <2>2, <2>3, <2>4, <2>7 DEF FlowOK, EofTold, ListedHeld
  <2>9. UpStream(f)'
    BY <2>1, <2>2, <2>3, <2>4, <2>7 DEF FlowOK, UpStream
  <2>10. DownStream(f)'
    BY <2>1, <2>2 DEF FlowOK, DownStream
  <2>. QED
    BY <2>2, <2>4, <2>5, <2>6, <2>8, <2>9, <2>10, OthersSame DEF FlowOK
<1>. QED
  BY <1>1, <1>2

\* The verdict on the name: a connection that goes on to dial is not listed, or has
\* ended before its hello was whole.
LEMMA VerdictKeeps ==
    ASSUME NetInv, NEW f \in Conns, PeekVerdict(f)
    PROVE  NetInv'
<1>1. CASE SniRefused(f)
  BY <1>1, TaskEndAlone DEF PeekVerdict
<1>2. CASE ~SniRefused(f)
  <2>. DEFINE w == [flowTask[f] EXCEPT !.stage = "dial"]
  <2>1. NetTypes /\ FlowOK(f) /\ flowTask[f] \in FlowTask /\ flowTask[f].peek \in Seq(Nat)
    BY Fields DEF NetInv
  <2>2. /\ UNCHANGED <<filter, sock, bridge, client, remote>> /\ flowTask[f].stage = "peek"
        /\ flowTask' = [flowTask EXCEPT ![f] = w]
    BY <1>2, Zenon DEF PeekVerdict
  <2>3. w \in FlowTask /\ w.stage = "dial" /\ w.peek = flowTask[f].peek
    BY <2>1 DEF FlowTask
  <2>. HIDE DEF w
  <2>4. /\ flowTask' \in [Conns -> FlowTask] /\ flowTask'[f] = w
        /\ \A g \in Conns \ {f} : flowTask'[g] = flowTask[g]
    BY <2>1, <2>2, <2>3 DEF NetTypes
  <2>5. NetTypes'
    BY <2>1, <2>2, <2>4 DEF NetTypes
  <2>6. InStep(f)' /\ WithinCaps(f)' /\ EofTold(f)'
    BY <2>1, <2>2, <2>3, <2>4 DEF FlowOK, InStep, WithinCaps, EofTold
  <2>7. ListedHeld(f)'
    <3>1. ASSUME f \in Listed \ Opaque
          PROVE  /\ Len(flowTask[f].peek) < HelloLen
                 /\ bridge[f].up = <<>> /\ ~bridge[f].upOpen
      <4>1. Len(flowTask[f].peek) \in Nat /\ ~(Len(flowTask[f].peek) >= HelloLen)
        BY <1>2, <2>1, <3>1, LenProperties DEF SniRefused, HelloComplete
      <4>2. Len(flowTask[f].peek) < HelloLen
        BY <4>1, NetstackAssumption
      <4>3. ~(Len(flowTask[f].peek) >= PeekCap) /\ f \notin Plain
        BY <3>1, <4>1, <4>2, NetstackAssumption
      <4>. QED
        BY <4>1, <4>2, <4>3 DEF PeekVerdict, PeekEnds, HelloComplete
    <3>2. Taken(f)' = flowTask[f].peek
      <4>1. remote'[f].got = <<>> /\ flowTask'[f].peek = flowTask[f].peek
        BY <2>1, <2>2, <2>3, <2>4 DEF FlowOK, InStep
      <4>. QED
        BY <2>1, <4>1, ConcatEmptySeq DEF Taken
    <3>. QED
      BY <2>1, <2>2, <2>3, <2>4, <3>1, <3>2 DEF FlowOK, ListedHeld
  <2>8. UpStream(f)'
    <3>1. Taken(f)' = Taken(f)
      BY <2>2, <2>3, <2>4 DEF Taken
    <3>. QED
      BY <2>1, <2>2, <2>3, <2>4, <3>1 DEF FlowOK, UpStream
  <2>9. DownStream(f)'
    BY <2>1, <2>2 DEF FlowOK, DownStream
  <2>. QED
    BY <2>2, <2>4, <2>5, <2>6, <2>7, <2>8, <2>9, OthersSame DEF FlowOK
<1>. QED
  BY <1>1, <1>2

\* A chunk leaves the upward channel, peeked at or written.
LEMMA ChunkTaken ==
    ASSUME NEW q \in Seq(Nat), NEW p \in Seq(Nat), NEW k \in Nat, NEW n \in Nat, p # <<>>,
           Run(q, 0), Run(p, Len(q)), Len(q) + Len(p) + k <= n
    PROVE  /\ Append(q, Head(p)) \in Seq(Nat) /\ Tail(p) \in Seq(Nat)
           /\ Run(Append(q, Head(p)), 0) /\ Run(Tail(p), Len(Append(q, Head(p))))
           /\ Len(Append(q, Head(p))) + Len(Tail(p)) = Len(q) + Len(p)
           /\ Len(Append(q, Head(p))) <= n /\ Len(Tail(p)) <= Len(p)
<1>. DEFINE a == Append(q, Head(p))
            z == Tail(p)
<1>1. Len(q) \in Nat /\ Len(p) \in Nat
  BY LenProperties
<1>2. /\ Head(p) = Len(q) + 1 /\ z \in Seq(Nat) /\ Len(z) = Len(p) - 1
      /\ Len(p) \in Nat \ {0} /\ Run(z, Len(q) + 1)
  BY <1>1, RunTail
<1>3. a \in Seq(Nat) /\ Len(a) = Len(q) + 1 /\ Run(a, 0)
  <2>1. Head(p) = 0 + Len(q) + 1
    BY <1>1, <1>2
  <2>. QED
    BY <2>1, RunAppend
<1>. HIDE DEF a, z
<1>4. Run(z, Len(a))
  BY <1>2, <1>3
<1>5. Len(a) + Len(z) = Len(q) + Len(p) /\ Len(a) <= n /\ Len(z) <= Len(p)
  <2>1. \A i, j \in Nat : i + 1 + (j - 1) = i + j /\ j - 1 <= j
    OBVIOUS
  <2>2. \A i \in Nat, j \in Nat \ {0} : i + j + k <= n => i + 1 <= n
    OBVIOUS
  <2>. QED
    BY <1>1, <1>2, <1>3, <2>1, <2>2
<1>. QED
  BY <1>2, <1>3, <1>4, <1>5 DEF a, z

\* Another piece of the ClientHello.
LEMMA PeekKeeps ==
    ASSUME NetInv, NEW f \in Conns, PeekMore(f)
    PROVE  NetInv'
<1>. DEFINE o == bridge[f]
            old == flowTask[f].peek
            p == Append(old, Head(o.up))
            up == Tail(o.up)
            w == [flowTask[f] EXCEPT !.peek = p]
            b == [o EXCEPT !.up = up]
            n == client[f].sent
            k == Len(sock[f].rx)
<1>1. /\ NetTypes /\ FlowOK(f) /\ UNCHANGED <<filter, sock, client, remote>>
      /\ flowTask[f].stage = "peek" /\ o.up # <<>>
  BY DEF NetInv, PeekMore
<1>2. flowTask' = [flowTask EXCEPT ![f] = w] /\ bridge' = [bridge EXCEPT ![f] = b]
  BY Zenon DEF PeekMore
<1>3. /\ o \in Bridge /\ flowTask[f] \in FlowTask /\ old \in Seq(Nat) /\ o.up \in Seq(Nat)
      /\ n \in Nat /\ sock[f].rx \in Seq(Nat) /\ client[f] \in Client
  BY <1>1, Fields
<1>4. k \in Nat /\ Len(o.up) \in Nat /\ ~remote[f].broken /\ Taken(f) = old
  <2>1. remote[f].got = <<>> /\ ~remote[f].broken
    BY <1>1 DEF FlowOK, InStep
  <2>. QED
    BY <1>3, <2>1, LenProperties, ConcatEmptySeq DEF Taken
<1>5. /\ Run(old, 0) /\ Run(o.up, Len(old)) /\ Run(sock[f].rx, Len(old) + Len(o.up))
      /\ Len(old) + Len(o.up) + k <= n
      /\ client[f].state # "gone" => Len(old) + Len(o.up) + k = n
  BY <1>1, <1>4 DEF FlowOK, UpStream
<1>. HIDE DEF n, k
<1>6. /\ p \in Seq(Nat) /\ up \in Seq(Nat) /\ Run(p, 0) /\ Run(up, Len(p))
      /\ Len(p) + Len(up) = Len(old) + Len(o.up) /\ Len(p) <= n /\ Len(up) <= Len(o.up)
  BY <1>1, <1>3, <1>4, <1>5, ChunkTaken
<1>. HIDE DEF p, up
<1>7. /\ w \in FlowTask /\ w.stage = "peek" /\ w.peek = p
      /\ b \in Bridge /\ b.up = up /\ b.down = o.down /\ b.toClient = o.toClient
      /\ b.spawned = o.spawned /\ b.upOpen = o.upOpen /\ b.done = o.done
      /\ b.closing = o.closing /\ b.present = o.present
  BY <1>1, <1>3, <1>6 DEF FlowTask, Bridge
<1>. HIDE DEF w, b
<1>8. /\ bridge' \in [Conns -> Bridge] /\ bridge'[f] = b
      /\ flowTask' \in [Conns -> FlowTask] /\ flowTask'[f] = w
      /\ \A g \in Conns \ {f} : bridge'[g] = bridge[g] /\ flowTask'[g] = flowTask[g]
  BY <1>1, <1>2, <1>7 DEF NetTypes
<1>9. NetTypes'
  BY <1>1, <1>8 DEF NetTypes
<1>10. InStep(f)'
  BY <1>1, <1>7, <1>8 DEF FlowOK, InStep
<1>11. WithinCaps(f)'
  <2>1. Len(up) <= UpChannel
    <3>1. Len(o.up) <= UpChannel /\ Len(up) \in Nat /\ UpChannel \in Nat
      BY <1>1, <1>6, NetstackAssumption, LenProperties DEF FlowOK, WithinCaps
    <3>2. \A i, j, m \in Nat : i <= j /\ j <= m => i <= m
      OBVIOUS
    <3>. QED
      BY <1>4, <1>6, <3>1, <3>2
  <2>. QED
    BY <1>1, <1>7, <1>8, <2>1 DEF FlowOK, WithinCaps
<1>12. EofTold(f)' /\ ListedHeld(f)'
  BY <1>1, <1>7, <1>8 DEF FlowOK, EofTold, ListedHeld
<1>13. UpStream(f)'
  <2>1. Taken(f)' = p
    <3>1. remote'[f].got = <<>> /\ flowTask'[f].peek = p
      BY <1>1, <1>7, <1>8 DEF FlowOK, InStep
    <3>. QED
      BY <1>6, <3>1, ConcatEmptySeq DEF Taken
  <2>2. /\ Run(sock[f].rx, Len(p) + Len(up)) /\ Len(p) + Len(up) + k <= n
        /\ client[f].state # "gone" => Len(p) + Len(up) + k = n
    BY <1>5, <1>6, Zenon
  <2>. QED
    BY <1>1, <1>6, <1>7, <1>8, <2>1, <2>2 DEF UpStream, n, k
<1>14. DownStream(f)'
  BY <1>1, <1>7, <1>8 DEF FlowOK, DownStream
<1>. QED
  BY <1>1, <1>8, <1>9, <1>10, <1>11, <1>12, <1>13, <1>14, OthersSame DEF FlowOK

\* A chunk that was peeked at is written to the server.
LEMMA ReplayKeeps ==
    ASSUME NetInv, NEW f \in Conns, UpWrites(f, TRUE), flowTask[f].peek # <<>>
    PROVE  NetInv'
<1>. DEFINE old == remote[f].got
            q == flowTask[f].peek
            g == Append(old, Head(q))
            z == Tail(q)
            w == [flowTask[f] EXCEPT !.peek = z]
            r == [remote[f] EXCEPT !.got = g]
<1>1. /\ NetTypes /\ FlowOK(f) /\ UNCHANGED <<filter, sock, client, bridge>>
      /\ flowTask[f].stage = "run" /\ ~remote[f].broken
      /\ filter \in {"inspect", "host"}
  BY DEF NetInv, UpWrites, UpNext
<1>2. flowTask' = [flowTask EXCEPT ![f] = w] /\ remote' = [remote EXCEPT ![f] = r]
  BY Zenon DEF UpWrites, UpNext
<1>3. /\ flowTask[f] \in FlowTask /\ remote[f] \in Remote /\ old \in Seq(Nat) /\ q \in Seq(Nat)
      /\ client[f] \in Client /\ Taken(f) \in Seq(Nat) /\ client[f].sent \in Nat
  BY <1>1, Fields
<1>4. g \in Seq(Nat) /\ z \in Seq(Nat) /\ g \o z = old \o q
  BY <1>3, HeadMoves
<1>. HIDE DEF g, z
<1>5. /\ r \in Remote /\ r.got = g /\ r.sent = remote[f].sent /\ r.eof = remote[f].eof
      /\ r.broken = remote[f].broken /\ r.ended = remote[f].ended
      /\ w \in FlowTask /\ w.stage = "run" /\ w.peek = z
  BY <1>1, <1>3, <1>4 DEF Remote, FlowTask
<1>. HIDE DEF r, w
<1>6. /\ flowTask' \in [Conns -> FlowTask] /\ flowTask'[f] = w
      /\ remote' \in [Conns -> Remote] /\ remote'[f] = r
      /\ \A h \in Conns \ {f} : flowTask'[h] = flowTask[h] /\ remote'[h] = remote[h]
  BY <1>1, <1>2, <1>5 DEF NetTypes
<1>7. NetTypes'
  BY <1>1, <1>6 DEF NetTypes
<1>8. Taken(f)' = Taken(f)
  BY <1>4, <1>5, <1>6 DEF Taken
<1>9. InStep(f)'
  <2>1. client[f].state \notin {"none", "syn"}
    BY <1>1 DEF FlowOK, InStep
  <2>. QED
    BY <1>1, <1>5, <1>6, <2>1 DEF FlowOK, InStep
<1>10. WithinCaps(f)'
  BY <1>1 DEF FlowOK, WithinCaps
<1>11. EofTold(f)'
  <2>1. ~remote[f].eof
    BY <1>1 DEF FlowOK, EofTold
  <2>. QED
    BY <1>1, <1>5, <1>6, <2>1 DEF FlowOK, EofTold
<1>12. ListedHeld(f)'
  <2>1. ASSUME f \in Listed \ Opaque PROVE Len(g) < HelloLen
    <3>1. Len(Taken(f)) < HelloLen /\ Run(Taken(f), 0)
      BY <1>1, <2>1 DEF FlowOK, ListedHeld, UpStream
    <3>2. Taken(f) = g \o z
      BY <1>4 DEF Taken
    <3>3. Len(g) <= Len(Taken(f)) /\ Len(g) \in Nat /\ Len(Taken(f)) \in Nat
      BY <1>3, <1>4, <3>1, <3>2, RunBeginning, LenProperties
    <3>. QED
      BY <3>1, <3>3, NetstackAssumption
  <2>. QED
    BY <1>1, <1>5, <1>6, <1>8, <2>1 DEF FlowOK, ListedHeld
<1>13. UpStream(f)'
  BY <1>1, <1>5, <1>6, <1>8 DEF FlowOK, UpStream
<1>14. DownStream(f)'
  BY <1>1, <1>5, <1>6 DEF FlowOK, DownStream
<1>. QED
  BY <1>1, <1>6, <1>7, <1>9, <1>10, <1>11, <1>12, <1>13, <1>14, OthersSame DEF FlowOK

\* A write to the server fails.
LEMMA WriteFailKeeps ==
    ASSUME NetInv, NEW f \in Conns, UpWrites(f, FALSE)
    PROVE  NetInv'
<1>. DEFINE o == bridge[f]
<1>1. /\ NetTypes /\ FlowOK(f) /\ UNCHANGED <<filter, sock, client, flowTask>>
      /\ flowTask[f].stage = "run" /\ ~remote[f].broken
  BY DEF NetInv, UpWrites
<1>2. o \in Bridge /\ remote[f] \in Remote
  BY <1>1, Fields
<1>3. PICK e \in Seq(Nat) : e = <<>>
  BY EmptySeq, Zenon
<1>. DEFINE b == [o EXCEPT !.up = e]
            r == [remote[f] EXCEPT !.broken = TRUE]
<1>4. bridge' = [bridge EXCEPT ![f] = b] /\ remote' = [remote EXCEPT ![f] = r]
  BY <1>3, Zenon DEF UpWrites
<1>5. /\ r \in Remote /\ r.got = remote[f].got /\ r.sent = remote[f].sent
      /\ r.eof = remote[f].eof /\ r.broken = TRUE /\ r.ended = remote[f].ended
      /\ b \in Bridge /\ b.up = e /\ b.down = o.down /\ b.toClient = o.toClient
      /\ b.spawned = o.spawned /\ b.upOpen = o.upOpen /\ b.done = o.done
      /\ b.closing = o.closing /\ b.present = o.present
  BY <1>2 DEF Remote, Bridge
<1>. HIDE DEF r, b
<1>6. /\ bridge' \in [Conns -> Bridge] /\ bridge'[f] = b
      /\ remote' \in [Conns -> Remote] /\ remote'[f] = r
      /\ \A h \in Conns \ {f} : bridge'[h] = bridge[h] /\ remote'[h] = remote[h]
  BY <1>1, <1>4, <1>5 DEF NetTypes
<1>7. NetTypes'
  BY <1>1, <1>6 DEF NetTypes
<1>8. InStep(f)'
  BY <1>1, <1>5, <1>6 DEF FlowOK, InStep
<1>9. WithinCaps(f)'
  <2>1. Len(e) = 0 /\ 0 <= UpChannel
    BY <1>3, NetstackAssumption, EmptySeq
  <2>. QED
    BY <1>1, <1>5, <1>6, <2>1 DEF FlowOK, WithinCaps
<1>10. Taken(f)' = Taken(f)
  BY <1>1, <1>5, <1>6 DEF Taken
<1>11. EofTold(f)' /\ ListedHeld(f)'
  BY <1>1, <1>3, <1>5, <1>6, <1>10 DEF FlowOK, EofTold, ListedHeld
<1>12. UpStream(f)'
  BY <1>1, <1>5, <1>6, <1>10 DEF FlowOK, UpStream
<1>13. DownStream(f)'
  BY <1>1, <1>5, <1>6 DEF FlowOK, DownStream
<1>. QED
  BY <1>1, <1>6, <1>7, <1>8, <1>9, <1>11, <1>12, <1>13, OthersSame DEF FlowOK

\* A chunk of the channel is written to the server.
LEMMA WriteKeeps ==
    ASSUME NetInv, NEW f \in Conns, UpWrites(f, TRUE), flowTask[f].peek = <<>>
    PROVE  NetInv'
<1>. DEFINE o == bridge[f]
            old == remote[f].got
            n == client[f].sent
            k == Len(sock[f].rx)
<1>1. /\ NetTypes /\ FlowOK(f) /\ UNCHANGED <<filter, sock, client, flowTask>>
      /\ flowTask[f].stage = "run" /\ o.up # <<>> /\ ~remote[f].broken
      /\ filter \in {"inspect", "host"}
  BY DEF NetInv, UpWrites, UpNext
<1>2. /\ o \in Bridge /\ remote[f] \in Remote /\ old \in Seq(Nat) /\ o.up \in Seq(Nat)
      /\ n \in Nat /\ sock[f].rx \in Seq(Nat) /\ client[f] \in Client
  BY <1>1, Fields
<1>3. k \in Nat /\ Len(o.up) \in Nat /\ Taken(f) = old
  BY <1>2, LenProperties, ConcatEmptySeq DEF Taken
<1>4. /\ Run(old, 0) /\ Run(o.up, Len(old)) /\ Run(sock[f].rx, Len(old) + Len(o.up))
      /\ Len(old) + Len(o.up) + k <= n /\ Len(old) <= n
      /\ client[f].state # "gone" => Len(old) + Len(o.up) + k = n
  BY <1>1, <1>3 DEF FlowOK, UpStream
<1>5. remote[f].eof = FALSE /\ f \notin Listed \ Opaque /\ (f \in Listed => filter = "host")
  BY <1>1, <1>2 DEF FlowOK, EofTold, ListedHeld, Remote
<1>. HIDE DEF n, k
<1>. DEFINE g == Append(old, Head(o.up))
            up == Tail(o.up)
            b == [o EXCEPT !.up = up]
            r == [remote[f] EXCEPT !.got = g]
<1>6. bridge' = [bridge EXCEPT ![f] = b] /\ remote' = [remote EXCEPT ![f] = r]
  BY Zenon DEF UpWrites, UpNext
<1>7. /\ g \in Seq(Nat) /\ up \in Seq(Nat) /\ Run(g, 0) /\ Run(up, Len(g))
      /\ Len(g) + Len(up) = Len(old) + Len(o.up) /\ Len(g) <= n /\ Len(up) <= Len(o.up)
  BY <1>1, <1>2, <1>3, <1>4, ChunkTaken
<1>. HIDE DEF g, up
<1>8. /\ r \in Remote /\ r.got = g /\ r.sent = remote[f].sent /\ r.eof = remote[f].eof
      /\ r.broken = remote[f].broken
      /\ b \in Bridge /\ b.up = up /\ b.down = o.down /\ b.toClient = o.toClient
      /\ b.spawned = o.spawned /\ b.upOpen = o.upOpen /\ b.done = o.done
      /\ b.closing = o.closing /\ b.present = o.present /\ r.ended = remote[f].ended
  BY <1>2, <1>7 DEF Remote, Bridge
<1>. HIDE DEF r, b
<1>9. /\ bridge' \in [Conns -> Bridge] /\ bridge'[f] = b
      /\ remote' \in [Conns -> Remote] /\ remote'[f] = r
      /\ \A h \in Conns \ {f} : bridge'[h] = bridge[h] /\ remote'[h] = remote[h]
  BY <1>1, <1>6, <1>8 DEF NetTypes
<1>10. NetTypes'
  BY <1>1, <1>9 DEF NetTypes
<1>11. InStep(f)'
  <2>1. client[f].state \notin {"none", "syn"}
    BY <1>1 DEF FlowOK, InStep
  <2>. QED
    BY <1>1, <1>8, <1>9, <2>1 DEF FlowOK, InStep
<1>12. WithinCaps(f)'
  <2>1. Len(o.up) <= UpChannel /\ Len(up) \in Nat /\ UpChannel \in Nat
    BY <1>1, <1>7, NetstackAssumption, LenProperties DEF FlowOK, WithinCaps
  <2>2. \A i, j, m \in Nat : i <= j /\ j <= m => i <= m
    OBVIOUS
  <2>3. Len(up) <= UpChannel
    BY <1>3, <1>7, <2>1, <2>2
  <2>. QED
    BY <1>1, <1>8, <1>9, <2>3 DEF FlowOK, WithinCaps
<1>13. EofTold(f)' /\ ListedHeld(f)'
  BY <1>1, <1>5, <1>8, <1>9 DEF FlowOK, EofTold, ListedHeld
<1>14. UpStream(f)'
  <2>1. Taken(f)' = g
    BY <1>1, <1>7, <1>8, <1>9, ConcatEmptySeq DEF Taken
  <2>2. /\ Run(sock[f].rx, Len(g) + Len(up)) /\ Len(g) + Len(up) + k <= n
        /\ client[f].state # "gone" => Len(g) + Len(up) + k = n
    BY <1>4, <1>7, Zenon
  <2>. QED
    BY <1>1, <1>7, <1>8, <1>9, <2>1, <2>2 DEF UpStream, n, k
<1>15. DownStream(f)'
  BY <1>1, <1>8, <1>9 DEF FlowOK, DownStream
<1>. QED
  BY <1>1, <1>9, <1>10, <1>11, <1>12, <1>13, <1>14, <1>15, OthersSame DEF FlowOK

\* The channel is closed and empty: the server is told.
LEMMA ShutKeeps ==
    ASSUME NetInv, NEW f \in Conns, UpShuts(f)
    PROVE  NetInv'
<1>. DEFINE r == [remote[f] EXCEPT !.eof = TRUE]
<1>1. /\ NetTypes /\ FlowOK(f) /\ UNCHANGED <<filter, sock, bridge, client, flowTask>>
      /\ flowTask[f].stage = "run" /\ bridge[f].up = <<>> /\ ~bridge[f].upOpen
      /\ ~remote[f].broken /\ flowTask[f].peek = <<>>
  BY DEF NetInv, UpShuts, UpNext
<1>2. remote' = [remote EXCEPT ![f] = r]
  BY Zenon DEF UpShuts
<1>3. /\ remote[f] \in Remote /\ remote[f].got \in Seq(Nat) /\ client[f].sent \in Nat
  BY <1>1, Fields
<1>4. /\ r \in Remote /\ r.got = remote[f].got /\ r.sent = remote[f].sent /\ r.eof = TRUE
      /\ r.broken = remote[f].broken /\ r.ended = remote[f].ended
  BY <1>3 DEF Remote
<1>. HIDE DEF r
<1>5. /\ remote' \in [Conns -> Remote] /\ remote'[f] = r
      /\ \A g \in Conns \ {f} : remote'[g] = remote[g]
  BY <1>1, <1>2, <1>4 DEF NetTypes
<1>6. NetTypes'
  BY <1>1, <1>5 DEF NetTypes
<1>7. InStep(f)' /\ WithinCaps(f)' /\ ListedHeld(f)'
  BY <1>1, <1>4, <1>5 DEF FlowOK, InStep, WithinCaps, ListedHeld, Taken
<1>8. EofTold(f)'
  <2>1. /\ bridge[f].spawned /\ ~bridge[f].done
        /\ client[f].state \in {"fin", "gone"}
        /\ client[f].state = "fin" => sock[f].rx = <<>>
    BY <1>1 DEF FlowOK, InStep, EofTold
  <2>2. ASSUME client[f].state = "fin" PROVE Len(remote[f].got) = client[f].sent
    <3>1. Len(remote[f].got) + Len(<<>>) + Len(<<>>) = client[f].sent
      <4>1. Taken(f) = remote[f].got
        BY <1>1, <1>3, ConcatEmptySeq DEF Taken
      <4>. QED
        BY <1>1, <2>1, <2>2, <4>1 DEF FlowOK, UpStream
    <3>2. Len(remote[f].got) \in Nat /\ Len(<<>>) = 0
      BY <1>3, LenProperties, EmptySeq
    <3>3. \A i \in Nat : i + 0 + 0 = i
      OBVIOUS
    <3>. QED
      BY <3>1, <3>2, <3>3
  <2>. QED
    BY <1>1, <1>4, <1>5, <2>1, <2>2 DEF EofTold
<1>9. UpStream(f)' /\ DownStream(f)'
  BY <1>1, <1>4, <1>5 DEF FlowOK, UpStream, DownStream, Taken
<1>. QED
  BY <1>1, <1>5, <1>6, <1>7, <1>8, <1>9, OthersSame DEF FlowOK

\* The server sends.
LEMMA ReadKeeps ==
    ASSUME NetInv, NEW f \in Conns, DownReads(f)
    PROVE  NetInv'
<1>. DEFINE o == bridge[f]
            m == remote[f].sent
            q == Append(o.down, m + 1)
            b == [o EXCEPT !.down = q]
            r == [remote[f] EXCEPT !.sent = m + 1]
            got == Len(client[f].got) + Len(sock[f].tx)
            x == got + Len(o.toClient)
<1>1. /\ NetTypes /\ FlowOK(f) /\ UNCHANGED <<filter, sock, client, flowTask>>
      /\ flowTask[f].stage = "run"
  BY DEF NetInv, DownReads
<1>2. bridge' = [bridge EXCEPT ![f] = b] /\ remote' = [remote EXCEPT ![f] = r]
  BY Zenon DEF DownReads
<1>3. /\ o \in Bridge /\ remote[f] \in Remote /\ o.down \in Seq(Nat) /\ o.toClient \in Seq(Nat)
      /\ m \in Nat /\ client[f].got \in Seq(Nat) /\ sock[f].tx \in Seq(Nat)
  BY <1>1, Fields
<1>4. m + 1 \in Nat /\ q \in Seq(Nat) /\ got \in Nat /\ x \in Nat /\ Len(o.down) \in Nat
  <2>1. /\ Len(client[f].got) \in Nat /\ Len(sock[f].tx) \in Nat /\ Len(o.toClient) \in Nat
        /\ Len(o.down) \in Nat
    BY <1>3, LenProperties
  <2>2. m + 1 \in Nat /\ q \in Seq(Nat)
    BY <1>3, AppendProperties
  <2>3. got \in Nat
    BY <2>1, Sums, Zenon
  <2>. HIDE DEF got
  <2>4. x \in Nat
    BY <2>1, <2>3, Sums, Zenon
  <2>. QED
    BY <2>1, <2>2, <2>3, <2>4, Zenon
<1>. HIDE DEF m, q, got, x
<1>5. /\ r \in Remote /\ r.got = remote[f].got /\ r.sent = m + 1 /\ r.eof = remote[f].eof
      /\ r.broken = remote[f].broken /\ r.ended = remote[f].ended /\ b.present = o.present
      /\ b \in Bridge /\ b.down = q /\ b.up = o.up /\ b.toClient = o.toClient
      /\ b.spawned = o.spawned /\ b.upOpen = o.upOpen /\ b.done = o.done
      /\ b.closing = o.closing /\ b.present = o.present
  BY <1>3, <1>4 DEF Remote, Bridge
<1>. HIDE DEF r, b
<1>6. /\ bridge' \in [Conns -> Bridge] /\ bridge'[f] = b
      /\ remote' \in [Conns -> Remote] /\ remote'[f] = r
      /\ \A g \in Conns \ {f} : bridge'[g] = bridge[g] /\ remote'[g] = remote[g]
  BY <1>1, <1>2, <1>5 DEF NetTypes
<1>7. NetTypes'
  BY <1>1, <1>6 DEF NetTypes
<1>8. InStep(f)' /\ WithinCaps(f)'
  BY <1>1, <1>5, <1>6 DEF FlowOK, InStep, WithinCaps
<1>t. Taken(f)' = Taken(f)
  BY <1>1, <1>5, <1>6 DEF Taken
<1>9. EofTold(f)' /\ ListedHeld(f)'
  BY <1>1, <1>5, <1>6, <1>t DEF FlowOK, EofTold, ListedHeld
<1>10. UpStream(f)'
  BY <1>1, <1>5, <1>6 DEF FlowOK, UpStream, Taken
<1>11. DownStream(f)'
  <2>1. /\ Run(client[f].got, 0) /\ Run(sock[f].tx, Len(client[f].got)) /\ got <= m
        /\ sock[f].state # "closed" =>
              Run(o.toClient, got) /\ Run(o.down, x) /\ x + Len(o.down) = m
    BY <1>1 DEF FlowOK, DownStream, got, x, m
  <2>2. got <= m + 1
    BY <1>3, <1>4, <2>1 DEF m
  <2>3. ASSUME sock[f].state # "closed" PROVE Run(q, x) /\ x + Len(q) = m + 1
    <3>1. m + 1 = x + Len(o.down) + 1 /\ Run(o.down, x)
      BY <2>1, <2>3
    <3>2. Run(q, x) /\ Len(q) = Len(o.down) + 1
      BY <1>3, <1>4, <3>1, RunAppend DEF q
    <3>. QED
      BY <1>4, <3>1, <3>2
  <2>. QED
    BY <1>1, <1>5, <1>6, <2>1, <2>2, <2>3 DEF DownStream, got, x
<1>. QED
  BY <1>1, <1>6, <1>7, <1>8, <1>9, <1>10, <1>11, OthersSame DEF FlowOK

\* A step that leaves every connection as it is.
LEMMA SameKeeps ==
    ASSUME NetInv, UNCHANGED <<filter, sock, bridge, flowTask, client, remote>>
    PROVE  NetInv'
<1>1. NetTypes'
  BY DEF NetInv, NetTypes
<1>2. ASSUME NEW f \in Conns PROVE FlowOK(f)'
  <2>1. FlowOK(f)
    BY DEF NetInv
  <2>2. InStep(f)' /\ WithinCaps(f)' /\ EofTold(f)' /\ ListedHeld(f)'
    BY <2>1 DEF FlowOK, InStep, WithinCaps, EofTold, ListedHeld, Taken
  <2>3. UpStream(f)' /\ DownStream(f)'
    BY <2>1 DEF FlowOK, UpStream, DownStream, Taken
  <2>. QED
    BY <2>2, <2>3 DEF FlowOK
<1>. QED
  BY <1>1, <1>2 DEF NetInv

-----------------------------------------------------------------------------
(* The bridge *)

\* Before the first packet.
LEMMA NetStart ==
    ASSUME NetInit
    PROVE  NetInv
<1>1. NetTypes /\ filter \in {"inspect", "host"}
  BY DEF NetInit, NetTypes, NoSock, NoBridge, Sock, Bridge, FlowTask, Client, Remote
<1>2. ASSUME NEW f \in Conns PROVE FlowOK(f)
  <2>1. /\ sock[f].state = "closed" /\ sock[f].rx = <<>> /\ sock[f].tx = <<>>
        /\ bridge[f].spawned = FALSE /\ bridge[f].upOpen = FALSE /\ bridge[f].done = FALSE
        /\ bridge[f].closing = FALSE /\ bridge[f].up = <<>> /\ bridge[f].toClient = <<>>
        /\ flowTask[f].stage = "none" /\ flowTask[f].peek = <<>>
        /\ client[f].state = "none" /\ client[f].sent = 0 /\ client[f].got = <<>>
        /\ remote[f].got = <<>> /\ remote[f].sent = 0 /\ remote[f].eof = FALSE
        /\ remote[f].broken = FALSE /\ remote[f].ended = FALSE
    BY DEF NetInit, NoSock, NoBridge
  <2>2. Len(<<>>) = 0 /\ Taken(f) = <<>> /\ 0 + 0 = 0 /\ 0 <= 0
    BY <2>1 DEF Taken
  <2>3. InStep(f) /\ EofTold(f)
    BY <2>1 DEF InStep, EofTold
  <2>4. WithinCaps(f) /\ ListedHeld(f)
    BY <2>1, <2>2, NetstackAssumption DEF WithinCaps, ListedHeld
  <2>5. UpStream(f) /\ DownStream(f)
    BY <2>1, <2>2, RunEmpty DEF UpStream, DownStream
  <2>. QED
    BY <2>3, <2>4, <2>5 DEF FlowOK
<1>. QED
  BY <1>1, <1>2 DEF NetInv

\* Every step of the pump, of the tasks and of the two ends.
LEMMA NetSteps ==
    ASSUME NetInv, [NetNext]_netVars
    PROVE  NetInv'
<1>1. CASE UNCHANGED netVars
  BY <1>1, SameKeeps DEF netVars
<1>2. CASE Wake
  BY <1>2, SameKeeps DEF Wake
<1>3. CASE ReapFlows
  BY <1>3, ReapKeeps
<1>4. ASSUME NEW f \in Conns,
             \/ Syn(f) \/ ClientAck(f) \/ ClientSends(f) \/ ClientFins(f) \/ ClientResets(f)
             \/ ClientAcks(f) \/ ClientAcksFin(f)
      PROVE  NetInv'
  BY <1>4, SynKeeps, HandshakeKeeps, ClientSendsKeeps, ResetKeeps, ClientAcksKeeps
<1>5. ASSUME NEW f \in Conns, PumpMoves(f) \/ PumpCloses(f)
      PROVE  NetInv'
  BY <1>5, SpawnKeeps, MovesKeep, ClosesKeep
<1>6. ASSUME NEW f \in Conns, NEW ok \in BOOLEAN, Dial(f, ok) \/ UpWrites(f, ok)
      PROVE  NetInv'
  <2>1. CASE Dial(f, ok)
    BY <2>1, DialKeeps
  <2>2. CASE UpWrites(f, ok) /\ ok
    <3>1. UpWrites(f, TRUE)
      BY <2>2
    <3>. QED
      BY <3>1, ReplayKeeps, WriteKeeps
  <2>3. CASE UpWrites(f, ok) /\ ~ok
    <3>1. UpWrites(f, FALSE)
      BY <2>3
    <3>. QED
      BY <3>1, WriteFailKeeps
  <2>. QED
    BY <1>6, <2>1, <2>2, <2>3
<1>7. ASSUME NEW f \in Conns, DownEnds(f) \/ DownDrops(f)
      PROVE  NetInv'
  BY <1>7, DownEndKeeps
<1>8. ASSUME NEW f \in Conns,
             PeekMore(f) \/ PeekVerdict(f) \/ UpShuts(f) \/ DownReads(f)
      PROVE  NetInv'
  BY <1>8, PeekKeeps, VerdictKeeps, ShutKeeps, ReadKeeps
<1>9. CASE PumpStops
  BY <1>9, StopKeeps
<1>. QED
  BY <1>1, <1>2, <1>3, <1>4, <1>5, <1>6, <1>7, <1>8, <1>9 DEF NetNext

\* So the invariant always holds.
LEMMA NetAlways == NetInit /\ [][NetNext]_netVars => []NetInv
<1>1. NetInit => NetInv
  BY NetStart
<1>2. NetInv /\ [NetNext]_netVars => NetInv'
  BY NetSteps
<1>. QED
  BY <1>1, <1>2, PTL

\* Through channels of any capacity, backpressure, peeking and replay, half-closes,
\* resets and reaping, each side of a bridged connection has received a beginning of
\* what the other sent, in order and nothing twice.
THEOREM StreamsAlwaysIntact == NetInit /\ [][NetNext]_netVars => []StreamsIntact
<1>1. NetInv => StreamsIntact
  <2>. SUFFICES ASSUME NetInv, NEW f \in Conns
                PROVE  /\ IsPrefix(remote[f].got, Numbered(client[f].sent))
                       /\ IsPrefix(client[f].got \o sock[f].tx, Numbered(remote[f].sent))
    BY DEF StreamsIntact
  <2>. DEFINE x == client[f].got \o sock[f].tx
  <2>1. /\ FlowOK(f) /\ remote[f].got \in Seq(Nat) /\ client[f].sent \in Nat
        /\ client[f].got \in Seq(Nat) /\ sock[f].tx \in Seq(Nat) /\ remote[f].sent \in Nat
    BY Fields DEF NetInv
  <2>2. Run(remote[f].got, 0) /\ Len(remote[f].got) <= client[f].sent
    <3>1. Run(Taken(f), 0) /\ Len(Taken(f)) <= client[f].sent
      BY <2>1 DEF FlowOK, UpStream
    <3>2. flowTask[f].peek \in Seq(Nat) /\ Taken(f) \in Seq(Nat)
      BY Fields DEF NetInv
    <3>3. Run(remote[f].got, 0) /\ Len(remote[f].got) <= Len(Taken(f))
      BY <2>1, <3>1, <3>2, RunBeginning DEF Taken
    <3>4. Len(remote[f].got) \in Nat /\ Len(Taken(f)) \in Nat
      BY <2>1, <3>2, LenProperties
    <3>5. \A i, j, k \in Nat : i <= j /\ j <= k => i <= k
      OBVIOUS
    <3>. QED
      BY <2>1, <3>1, <3>3, <3>4, <3>5
  <2>3. IsPrefix(remote[f].got, Numbered(client[f].sent))
    BY <2>1, <2>2, RunIsPrefix
  <2>4. /\ Run(client[f].got, 0) /\ Run(sock[f].tx, Len(client[f].got))
        /\ Len(client[f].got) + Len(sock[f].tx) <= remote[f].sent
    BY <2>1 DEF FlowOK, DownStream
  <2>5. Len(client[f].got) \in Nat /\ \A i \in Nat : 0 + i = i
    BY <2>1, LenProperties
  <2>6. Run(sock[f].tx, 0 + Len(client[f].got))
    BY <2>4, <2>5
  <2>7. x \in Seq(Nat) /\ Len(x) = Len(client[f].got) + Len(sock[f].tx) /\ Run(x, 0)
    BY <2>1, <2>4, <2>6, RunConcat
  <2>. HIDE DEF x
  <2>8. Len(x) <= remote[f].sent
    BY <2>4, <2>7
  <2>9. IsPrefix(x, Numbered(remote[f].sent))
    BY <2>1, <2>7, <2>8, RunIsPrefix
  <2>. QED
    BY <2>3, <2>9 DEF x
<1>. QED
  BY <1>1, NetAlways, PTL

\* A destination on the guardian's blocklist gets nothing through the inspecting pump
\* and never a whole ClientHello that can be read through the other, however the client
\* cuts its hello into packets, closes or resets.
THEOREM ListedStayUnreached == NetInit /\ [][NetNext]_netVars => []ListedNeverReached
<1>1. NetInv => ListedNeverReached
  <2>. SUFFICES ASSUME NetInv, NEW f \in Listed
                PROVE  /\ filter = "inspect" => remote[f].got = <<>>
                       /\ f \notin Opaque => Len(remote[f].got) < HelloLen
    BY DEF ListedNeverReached
  <2>1. f \in Conns /\ FlowOK(f)
    BY NetstackAssumption DEF NetInv
  <2>. QED
    BY <2>1 DEF FlowOK, InStep, ListedHeld
<1>. QED
  BY <1>1, NetAlways, PTL

\* The server is told that the client has finished only when it has everything the
\* client sent, unless the client gave up with a reset or with the tunnel, or the server
\* itself has ended its half first.
THEOREM EofComesLast == NetInit /\ [][NetNext]_netVars => []EofAfterAll
<1>1. NetInv => EofAfterAll
  BY DEF NetInv, FlowOK, EofTold, EofAfterAll
<1>. QED
  BY <1>1, NetAlways, PTL
=============================================================================
