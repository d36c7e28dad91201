------------------------------ MODULE Netstack ------------------------------
(***************************************************************************)
(* The transparent VPN bridge (crates/bulwark-net/src/vpn/netstack.rs):    *)
(* one thread pumps every captured TCP connection between a user-space TCP *)
(* socket and a pair of tasks that talk to the inspecting proxy            *)
(* (run_netstack), or, in the mode without a trust anchor, straight to the *)
(* destination after a look at the name in the ClientHello                 *)
(* (run_netstack_host_filter).  The pump handles at most one packet, then  *)
(* visits every flow, then reaps; the tasks run on other threads between   *)
(* any two of its steps.  Bytes are numbered chunks and the buffers count  *)
(* chunks.  DNS, QUIC and the packet formats keep no state here.  Bounds:  *)
(* MaxUp and MaxDown chunks each way.                                      *)
(***************************************************************************)
EXTENDS Naturals, Sequences, FiniteSets, SequencesExt

CONSTANTS
    Conns,          \* connections of the device: address, port, destination
    Listed,         \* those on the guardian's blocklist, by address or by the name in
                    \* the ClientHello
    Plain,          \* those that do not speak TLS
    Opaque,         \* those whose ClientHello client_hello_sni never reads: longer than
                    \* the cap, or split over two TLS records
    HelloLen,       \* chunks that make up a ClientHello
    PeekCap,        \* SNI_PEEK_CAP
    UpChannel, DownChannel, ToClientCap, FlowBuf,
    MaxUp, MaxDown

ASSUME NetstackAssumption ==
    /\ Listed \subseteq Conns /\ Plain \subseteq Conns \ Listed
    /\ Opaque \subseteq Conns \ Plain
    /\ HelloLen \in Nat \ {0} /\ PeekCap \in Nat /\ HelloLen <= PeekCap
    /\ UpChannel \in Nat \ {0} /\ DownChannel \in Nat \ {0}
    /\ ToClientCap \in Nat \ {0} /\ FlowBuf \in Nat \ {0}
    /\ MaxUp \in Nat /\ MaxDown \in Nat

VARIABLES
    filter,     \* which pump runs: "inspect" or "host"
    pump,       \* where it is: polling, visiting flows, or inside one visit
    sock,       \* the user-space socket: state, receive and transmit buffers
    bridge,     \* the Flow record: channels, staged bytes and flags
    flowTask,       \* what the flow's tasks are doing, and the bytes peeked at
    client,     \* the app on the device: what it sent and received
    remote      \* the other end: what it received and sent

netVars == <<filter, pump, sock, bridge, flowTask, client, remote>>

NoSock   == [state |-> "closed", rx |-> <<>>, tx |-> <<>>]
NoBridge == [present |-> FALSE, spawned |-> FALSE, closing |-> FALSE, upOpen |-> FALSE,
             up |-> <<>>, down |-> <<>>, toClient |-> <<>>, done |-> FALSE]
Polling  == [stage |-> "poll", todo |-> {}, at |-> {}]

NetInit ==
    /\ filter \in {"inspect", "host"}
    /\ pump = Polling
    /\ sock = [f \in Conns |-> NoSock]
    /\ bridge = [f \in Conns |-> NoBridge]
    /\ flowTask = [f \in Conns |-> [stage |-> "none", peek |-> <<>>]]
    /\ client = [f \in Conns |-> [state |-> "none", sent |-> 0, got |-> <<>>]]
    /\ remote = [f \in Conns |-> [got |-> <<>>, sent |-> 0, eof |-> FALSE, broken |-> FALSE,
                                  ended |-> FALSE]]

\* smoltcp's is_open, may_recv and may_send.
IsOpen(s)  == s.state # "closed"
MayRecv(s) == s.state \in {"open", "finwait"} \/ s.rx # <<>>
MaySend(s) == s.state \in {"open", "closewait"}

----------------------------------------------------------------------------
\* The captured packets: one per turn of the loop, which then visits the flows.
Visits(flows) == pump' = [stage |-> "flows", todo |-> flows, at |-> {}]
Present == {f \in Conns : bridge[f].present}

\* handle_inbound: a SYN opens a listener unless the flow has one already; the
\* inspecting pump opens none for a listed destination, so it is refused.
Refused(f) == filter = "inspect" /\ f \in Listed

Syn(f) ==
    /\ pump.stage = "poll" /\ client[f].state = "none"
    /\ IF Refused(f)
       THEN /\ client' = [client EXCEPT ![f].state = "gone"]
            /\ Visits(Present)
            /\ UNCHANGED <<sock, bridge>>
       ELSE /\ client' = [client EXCEPT ![f].state = "syn"]
            /\ sock' = [sock EXCEPT ![f] = [NoSock EXCEPT !.state = "synrcvd"]]
            /\ bridge' = [bridge EXCEPT ![f] = [NoBridge EXCEPT !.present = TRUE]]
            /\ Visits(Present \cup {f})
    /\ UNCHANGED <<filter, flowTask, remote>>

\* The end of the handshake.
ClientAck(f) ==
    /\ pump.stage = "poll" /\ client[f].state = "syn"
    /\ client' = [client EXCEPT ![f].state = "open"]
    /\ sock' = [sock EXCEPT ![f].state = "open"]
    /\ Visits(Present)
    /\ UNCHANGED <<filter, bridge, flowTask, remote>>

ClientSends(f) ==
    /\ pump.stage = "poll" /\ client[f].state = "open"
    /\ client[f].sent < MaxUp /\ Len(sock[f].rx) < FlowBuf
    /\ client' = [client EXCEPT ![f].sent = @ + 1]
    /\ sock' = [sock EXCEPT ![f].rx = Append(@, client[f].sent + 1)]
    /\ Visits(Present)
    /\ UNCHANGED <<filter, bridge, flowTask, remote>>

\* A FIN; after ours the connection is over once all is acknowledged.
ClientFins(f) ==
    /\ pump.stage = "poll" /\ client[f].state = "open"
    /\ client' = [client EXCEPT ![f].state = "fin"]
    /\ sock' = [sock EXCEPT ![f].state = CASE @ = "open" -> "closewait"
                                           [] @ = "finwait" /\ sock[f].tx = <<>> -> "closed"
                                           [] OTHER -> "lastack"]
    /\ Visits(Present)
    /\ UNCHANGED <<filter, bridge, flowTask, remote>>

ClientResets(f) ==
    /\ pump.stage = "poll" /\ client[f].state \in {"open", "fin"} /\ IsOpen(sock[f])
    /\ client' = [client EXCEPT ![f].state = "gone"]
    /\ sock' = [sock EXCEPT ![f] = NoSock]
    /\ Visits(Present)
    /\ UNCHANGED <<filter, bridge, flowTask, remote>>

\* An acknowledgement takes a chunk out of the transmit buffer; the last one also
\* acknowledges our FIN.
ClientAcks(f) ==
    /\ pump.stage = "poll" /\ IsOpen(sock[f]) /\ sock[f].tx # <<>>
    /\ client' = [client EXCEPT ![f].got = Append(@, Head(sock[f].tx))]
    /\ sock' = [sock EXCEPT ![f] =
                   [@ EXCEPT !.tx = Tail(sock[f].tx),
                             !.state = IF sock[f].state = "lastack" /\ Len(sock[f].tx) = 1
                                       THEN "closed" ELSE sock[f].state]]
    /\ Visits(Present)
    /\ UNCHANGED <<filter, bridge, flowTask, remote>>

ClientAcksFin(f) ==
    /\ pump.stage = "poll" /\ sock[f].state = "lastack" /\ sock[f].tx = <<>>
    /\ sock' = [sock EXCEPT ![f].state = "closed"]
    /\ Visits(Present)
    /\ UNCHANGED <<filter, bridge, flowTask, client, remote>>

\* poll(2) returns without a packet: the self-pipe or the timer.  A SYN that is sent
\* again finds its flow and does no more than this.
Wake ==
    /\ pump.stage = "poll" /\ Present # {}
    /\ Visits(Present)
    /\ UNCHANGED <<filter, sock, bridge, flowTask, client, remote>>

----------------------------------------------------------------------------
\* The pump's visit of a flow, pump_tcp_flows and pump_host_filtered_flows.
Least(m, n) == IF m < n THEN m ELSE n

\* How many chunks move up: what is there, while the channel has room and its
\* receiver lives.
MovedUp(f) ==
    IF bridge[f].upOpen /\ flowTask[f].stage # "ended" /\ ~remote[f].broken
    THEN Least(Len(sock[f].rx), UpChannel - Len(bridge[f].up)) ELSE 0

MovedDown(f) == Least(Len(bridge[f].down), ToClientCap - Len(bridge[f].toClient))

Spawns(f) == ~bridge[f].spawned /\ sock[f].state = "open"

\* First half: spawn the tasks of a new flow, move bytes up and stage what has
\* come down.
PumpMoves(f) ==
    LET b == bridge[f]
        rx == sock[f].rx
        up == MovedUp(f)
        down == MovedDown(f)
    IN /\ pump.stage = "flows" /\ f \in pump.todo
       /\ pump' = [stage |-> "visit", todo |-> pump.todo \ {f}, at |-> {f}]
       /\ IF Spawns(f)
          THEN /\ bridge' = [bridge EXCEPT ![f] = [@ EXCEPT !.spawned = TRUE, !.upOpen = TRUE]]
               /\ flowTask' = [flowTask EXCEPT ![f].stage = IF filter = "host" THEN "peek" ELSE "dial"]
               /\ UNCHANGED sock
          ELSE /\ bridge' = [bridge EXCEPT ![f] =
                                [@ EXCEPT !.up = b.up \o SubSeq(rx, 1, up),
                                          !.down = SubSeq(b.down, down + 1, Len(b.down)),
                                          !.toClient = b.toClient \o SubSeq(b.down, 1, down)]]
               /\ sock' = [sock EXCEPT ![f].rx = SubSeq(rx, up + 1, Len(rx))]
               /\ UNCHANGED flowTask
       /\ UNCHANGED <<filter, client, remote>>

\* Second half: hand what was staged to the socket, pass on the client's FIN,
\* and close when the task is done and nothing is staged.
Closes(f, staged) ==
    /\ bridge[f].done /\ staged = <<>> /\ ~bridge[f].closing /\ IsOpen(sock[f])

AfterClose(state) == IF state = "closewait" THEN "lastack" ELSE "finwait"

\* Mutant: a FIN is passed on although bytes still wait in the socket.
FinPassesEarly(s) == s.state \notin {"open", "finwait"}
FinPasses(s) == ~MayRecv(s)

PumpCloses(f) ==
    LET b == bridge[f]
        s == sock[f]
        sent == IF MaySend(s) THEN Least(Len(b.toClient), FlowBuf - Len(s.tx)) ELSE 0
        staged == SubSeq(b.toClient, sent + 1, Len(b.toClient))
        close == Closes(f, staged)
    IN /\ pump.stage = "visit" /\ pump.at = {f}
       /\ pump' = [pump EXCEPT !.stage = "flows", !.at = {}]
       /\ sock' = [sock EXCEPT ![f] =
                      [@ EXCEPT !.tx = s.tx \o SubSeq(b.toClient, 1, sent),
                                !.state = IF close THEN AfterClose(s.state) ELSE s.state]]
       /\ bridge' = [bridge EXCEPT ![f] =
                        [@ EXCEPT !.toClient = staged,
                                  !.upOpen = b.upOpen /\ ~FinPasses(s),
                                  !.closing = b.closing \/ close]]
       /\ UNCHANGED <<filter, flowTask, client, remote>>

\* reap_flows: a flow whose socket is no longer open goes, and its channels with it.
\* Mutant: only flows the pump itself has closed are reaped.
DeadClosed == {f \in Present : ~IsOpen(sock[f]) /\ bridge[f].closing}
Dead == {f \in Present : ~IsOpen(sock[f])}

ReapFlows ==
    /\ pump.stage = "flows" /\ pump.todo = {}
    /\ pump' = Polling
    /\ bridge' = [f \in Conns |->
                     IF f \in Dead
                     THEN [bridge[f] EXCEPT !.present = FALSE, !.upOpen = FALSE,
                                            !.down = <<>>, !.toClient = <<>>]
                     ELSE bridge[f]]
    /\ UNCHANGED <<filter, sock, flowTask, client, remote>>

\* The loop ends: the flows and the sockets are dropped, which closes the channels,
\* and the apps' connections through the tunnel die with it.
PumpStops ==
    /\ pump.stage = "poll"
    /\ pump' = [Polling EXCEPT !.stage = "off"]
    /\ sock' = [f \in Conns |-> NoSock]
    /\ bridge' = [f \in Conns |-> [bridge[f] EXCEPT !.present = FALSE, !.upOpen = FALSE,
                                                  !.down = <<>>, !.toClient = <<>>]]
    /\ client' = [f \in Conns |-> [client[f] EXCEPT !.state = IF @ = "none" THEN @ ELSE "gone"]]
    /\ UNCHANGED <<filter, flowTask, remote>>

----------------------------------------------------------------------------
\* The tasks of a flow: proxy_flow and direct_flow.
TaskEnds(f) == /\ flowTask' = [flowTask EXCEPT ![f].stage = "ended"]
           /\ bridge' = [bridge EXCEPT ![f] = [@ EXCEPT !.done = TRUE, !.up = <<>>]]

\* connect_via_proxy, or the direct dial.
Dial(f, ok) ==
    /\ flowTask[f].stage = "dial"
    /\ IF ok THEN /\ flowTask' = [flowTask EXCEPT ![f].stage = "run"]
                  /\ UNCHANGED bridge
             ELSE TaskEnds(f)
    /\ UNCHANGED <<filter, pump, sock, client, remote>>

\* The name in the ClientHello can be read.
HelloComplete(f) == f \notin Opaque /\ Len(flowTask[f].peek) >= HelloLen

\* What ends the peeking: the name, the cap, bytes that are no handshake, or the
\* client's FIN.
PeekEnds(f) ==
    \/ HelloComplete(f) \/ Len(flowTask[f].peek) >= PeekCap
    \/ f \in Plain /\ flowTask[f].peek # <<>>
    \/ bridge[f].up = <<>> /\ ~bridge[f].upOpen

PeekMore(f) ==
    /\ flowTask[f].stage = "peek"
    /\ ~PeekEnds(f)
    /\ bridge[f].up # <<>>
    /\ flowTask' = [flowTask EXCEPT ![f].peek = Append(@, Head(bridge[f].up))]
    /\ bridge' = [bridge EXCEPT ![f].up = Tail(@)]
    /\ UNCHANGED <<filter, pump, sock, client, remote>>

\* Only a listed name is refused; whatever cannot be read passes.
\* Mutant: a hello that came in several pieces is not looked at.
SniRefusedFirstPiece(f) == f \in Listed /\ Len(flowTask[f].peek) = 1 /\ HelloComplete(f)
SniRefused(f) == f \in Listed /\ HelloComplete(f)

PeekVerdict(f) ==
    /\ flowTask[f].stage = "peek" /\ PeekEnds(f)
    /\ IF SniRefused(f) THEN TaskEnds(f)
                        ELSE flowTask' = [flowTask EXCEPT ![f].stage = "dial"] /\ UNCHANGED bridge
    /\ UNCHANGED <<filter, pump, sock, client, remote>>

\* client -> server: first the bytes peeked at, then the channel's.
\* Mutant: what waits in the channel goes first.
UpNextWaiting(f) == IF bridge[f].up # <<>> THEN bridge[f].up ELSE flowTask[f].peek
UpNext(f) == IF flowTask[f].peek # <<>> THEN flowTask[f].peek ELSE bridge[f].up

\* A chunk is written, or the write fails: the task drops its half and the channel.
UpWrites(f, ok) ==
    /\ flowTask[f].stage = "run" /\ UpNext(f) # <<>> /\ ~remote[f].broken
    /\ IF ok THEN /\ remote' = [remote EXCEPT ![f].got = Append(@, Head(UpNext(f)))]
                  /\ IF UpNext(f) = flowTask[f].peek
                     THEN /\ flowTask' = [flowTask EXCEPT ![f].peek = Tail(@)]
                          /\ UNCHANGED bridge
                     ELSE /\ bridge' = [bridge EXCEPT ![f].up = Tail(@)]
                          /\ UNCHANGED flowTask
             ELSE /\ remote' = [remote EXCEPT ![f].broken = TRUE]
                  /\ bridge' = [bridge EXCEPT ![f].up = <<>>]
                  /\ UNCHANGED flowTask
    /\ UNCHANGED <<filter, pump, sock, client>>

\* The channel is closed and empty: shutdown.
UpShuts(f) ==
    /\ flowTask[f].stage = "run" /\ UpNext(f) = <<>> /\ ~bridge[f].upOpen
    /\ ~remote[f].eof /\ ~remote[f].broken
    /\ remote' = [remote EXCEPT ![f].eof = TRUE]
    /\ UNCHANGED <<filter, pump, sock, bridge, flowTask, client>>

\* server -> client: read and hand over, waiting for room in the channel.
DownReads(f) ==
    /\ flowTask[f].stage = "run" /\ bridge[f].present
    /\ remote[f].sent < MaxDown /\ Len(bridge[f].down) < DownChannel
    /\ remote' = [remote EXCEPT ![f].sent = @ + 1]
    /\ bridge' = [bridge EXCEPT ![f].down = Append(@, remote[f].sent + 1)]
    /\ UNCHANGED <<filter, pump, sock, flowTask, client>>

\* A write half that is dropped is shut: a server that can still be reached sees FIN.
HalfShut(f) == remote[f].eof \/ ~remote[f].broken

\* The server closes or a read fails: the upward task is aborted with whatever it had
\* left to write, which drops its write half, and the pump is told.
DownEnds(f) ==
    /\ flowTask[f].stage = "run"
    /\ TaskEnds(f)
    /\ remote' = [remote EXCEPT ![f] = [@ EXCEPT !.ended = TRUE, !.eof = HalfShut(f)]]
    /\ UNCHANGED <<filter, pump, sock, client>>

\* So is it when the flow has been dropped and what was read has nowhere to go.
DownDrops(f) ==
    /\ flowTask[f].stage = "run" /\ ~bridge[f].present /\ remote[f].sent < MaxDown
    /\ TaskEnds(f)
    /\ remote' = [remote EXCEPT ![f] = [@ EXCEPT !.eof = HalfShut(f), !.sent = remote[f].sent + 1]]
    /\ UNCHANGED <<filter, pump, sock, client>>

NetNext ==
    \/ \E f \in Conns :
          \/ Syn(f) \/ ClientAck(f) \/ ClientSends(f) \/ ClientFins(f) \/ ClientResets(f)
          \/ ClientAcks(f) \/ ClientAcksFin(f)
          \/ PumpMoves(f) \/ PumpCloses(f)
          \/ \E ok \in BOOLEAN : Dial(f, ok) \/ UpWrites(f, ok)
          \/ PeekMore(f) \/ PeekVerdict(f)
          \/ UpShuts(f) \/ DownReads(f) \/ DownEnds(f) \/ DownDrops(f)
    \/ Wake \/ ReapFlows \/ PumpStops

----------------------------------------------------------------------------
(* What the bridge promises. *)

Numbered(n) == [i \in 1..n |-> i]

\* Both byte streams stay intact through channels, staging, peeking and replay,
\* half-closes and backpressure: each side has received a beginning of what the
\* other sent, in order, nothing twice.
StreamsIntact ==
    \A f \in Conns :
        /\ IsPrefix(remote[f].got, Numbered(client[f].sent))
        /\ IsPrefix(client[f].got \o sock[f].tx, Numbered(remote[f].sent))

\* A listed destination never learns enough to serve the child: nothing reaches it
\* from the inspecting pump, and never a whole ClientHello from the other, however
\* the hello is cut into pieces, if it is one the parser can read at all.
ListedNeverReached ==
    \A f \in Listed :
        /\ filter = "inspect" => remote[f].got = <<>>
        /\ f \notin Opaque => Len(remote[f].got) < HelloLen

\* The server sees the client's FIN only after everything the client sent, unless the
\* client gave up with a reset or with the tunnel, or the server has ended its own
\* half first, on which the bridge cuts the other one short.
EofAfterAll ==
    \A f \in Conns :
        (remote[f].eof /\ client[f].state # "gone" /\ ~remote[f].ended) =>
            Len(remote[f].got) = client[f].sent

\* Every flow whose client is gone or has finished is reaped in the end.
FlowsReaped ==
    \A f \in Conns :
        (bridge[f].spawned /\ client[f].state \in {"fin", "gone"}) ~> ~bridge[f].present

\* pump_tcp_flows: "proxy finished and everything flushed -> close our half".  When
\* the pump closes a flow, all that the task had read for it has been handed on.
FlushedBeforeClose ==
    \A f \in Conns :
        bridge[f].closing => bridge[f].down = <<>> /\ bridge[f].toClient = <<>>
=============================================================================
