------------------------------- MODULE Remote -------------------------------
(***************************************************************************)
(* Hops between nodes: the bridge SendRemote fills (distribution.rs), the  *)
(* pump and the writer of the reference transport, the sessions that read  *)
(* its frames (transport/mod.rs, router.rs), and deliver_frame with its    *)
(* replay filter (runtime.rs, distribution.rs).                            *)
(*                                                                         *)
(* A frame is named by its hop, whose (sender, request_id) is its key.     *)
(* The connections and the network are external: a connection may fail, be *)
(* reset with what it still carries, or carry a prefix of a frame, and a   *)
(* datagram that was ever sent may arrive again, late or never.  The       *)
(* registry and the inbox of the receiver are Lifecycle's and Inbox's; here *)
(* they accept a hop or refuse it.                                         *)
(***************************************************************************)
EXTENDS Integers, Sequences, FiniteSets, FiniteSetsExt, SequencesExt

CONSTANTS
    Scenes,        \* bound: [sends: flow -> the hops it sends, in order; conns: the connections
                   \* that are made; datagrams: those that arrive; listen: whether the peer
                   \* accepts; shutdown: whether the embedder shuts the outbound side down]
    Cost,          \* hop -> hop_byte_cost
    Node,          \* hop -> OutboundHop::node
    Peers,         \* StaticNodeRouter::peers: node -> socket address
    Unencodable,   \* hops encode_frame refuses: a Pid in the payload, the name's length
    Oversize,      \* hops whose frame exceeds max_wire_bytes
    MaxHops,       \* DistributionConfig::max_pending_hops
    MaxBytes,      \* DistributionConfig::max_pending_bytes
    QueueCapacity, \* TcpOutboundConfig::queue_capacity
    MaxSessions,   \* TcpInboundConfig::max_sessions, at least 1
    Window,        \* RuntimeConfig::remote_dedup_window, at least 1
    MaxConns,      \* bound: connections of every scene
    Readers,       \* bound: threads that read datagrams
    Word           \* usize::MAX + 1

Hop == DOMAIN Cost

ASSUME RemoteAssumption ==
    /\ {MaxHops, MaxBytes, QueueCapacity, MaxSessions, Window} \subseteq Nat \ {0}
    /\ {MaxConns, Readers} \subseteq Nat
    /\ \A h \in Hop : Cost[h] \in Nat /\ h \in Nat \ {0}

VARIABLES
    scene,         \* the member of Scenes that is run
    hops, bytes,   \* BridgeAccounts
    queue,         \* DistributionBridge::queue
    taken,         \* history: the hops push accepted
    snd,           \* flow -> [pc, i: the next hop, h, u: the loaded counters]
    pump,          \* [pc, hop, last: it ends after this hop]
    channel,       \* the bounded channel to the writer
    wire,          \* wire_pending
    writer,        \* [pc, frame: in hand, retry: 0 or the frame to retry, conn, peer]
    written,       \* history: the frames write_wire_frame wrote, in order
    stop,          \* the stop flag of the outbound handle
    host,          \* the shutdown of the outbound side: [pc, hop, clean, given: history, the
                   \* hops accepted before it began]
    conns,         \* connection -> [q: frames in flight, up, st]
    active,        \* active_sessions
    inbound,       \* [flag: stop, acceptor, handle]
    th,            \* session or datagram thread -> [pc, frame, ix, failed]
    seen,          \* RemoteFrameDedup::seen: [key, accepted]
    reserved,      \* history: the keys of the fresh reservations, in order
    accepted,      \* history: the reservations whose hop the inbox accepted
    datagrams      \* datagrams that have arrived

bridgeVars == <<hops, bytes, queue, taken, snd>>
outVars == <<scene, pump, channel, wire, writer, written, stop, host>>
inVars == <<scene, active, inbound, th, seen, reserved, accepted, datagrams>>
vars == <<bridgeVars, outVars, conns, inVars>>

Flow == UNION {DOMAIN sc.sends : sc \in Scenes}
Session == 1..MaxConns
Reader == (MaxConns + 1)..(MaxConns + Readers)
Deliverer == Session \cup Reader
Idle == [pc |-> "idle", frame |-> 0, ix |-> 0, failed |-> FALSE]

Init ==
    /\ scene \in Scenes /\ hops = 0 /\ bytes = 0 /\ queue = <<>> /\ taken = {}
    /\ snd = [f \in Flow |-> [pc |-> "ready", i |-> 1, h |-> 0, u |-> 0]]
    /\ pump = [pc |-> "poll", hop |-> 0, last |-> FALSE]
    /\ channel = <<>> /\ wire = 0 /\ written = <<>> /\ stop = FALSE
    /\ writer = [pc |-> "top", frame |-> 0, retry |-> 0, conn |-> 0, peer |-> 0]
    /\ host = [pc |-> "run", hop |-> 0, clean |-> TRUE, given |-> {}]
    /\ conns = <<>> /\ active = 0
    /\ inbound = [flag |-> FALSE, acceptor |-> "check", handle |-> "run"]
    /\ th = [d \in Deliverer |-> Idle]
    /\ seen = <<>> /\ reserved = <<>> /\ accepted = {} /\ datagrams = 0

-----------------------------------------------------------------------------
(* SendRemote: deliver, DistributionBridge::push, BridgeAccounts.          *)

HopOf(f) == scene.sends[f][snd[f].i]
SendStep(f, pc, next) == snd[f].pc = pc /\ snd' = [snd EXCEPT ![f].pc = next]

\* deliver: the SEND right, a hop without a live capability, the send bucket
SendRemote(f) ==
    /\ f \in DOMAIN scene.sends /\ snd[f].i <= Len(scene.sends[f])
    /\ SendStep(f, "ready", "load_hops") \/ SendStep(f, "ready", "failed")
    /\ UNCHANGED <<hops, bytes, queue, taken, outVars, conns, inVars>>

\* try_charge: the two loads and their checks
LoadHops(f) ==
    /\ snd[f].pc = "load_hops"
    /\ snd' = [snd EXCEPT ![f].pc = IF hops >= MaxHops THEN "failed" ELSE "load_bytes", ![f].h = hops]
    /\ UNCHANGED <<hops, bytes, queue, taken, outVars, conns, inVars>>

LoadBytes(f) ==
    /\ snd[f].pc = "load_bytes"
    /\ snd' = [snd EXCEPT ![f].pc = IF bytes + Cost[HopOf(f)] > MaxBytes THEN "failed" ELSE "cas_hops",
                          ![f].u = bytes]
    /\ UNCHANGED <<hops, bytes, queue, taken, outVars, conns, inVars>>

\* compare_exchange_weak: it may also fail when the values agree
CasHops(f) ==
    /\ \/ /\ SendStep(f, "cas_hops", "cas_bytes")
          /\ hops = snd[f].h /\ hops' = hops + 1
       \/ SendStep(f, "cas_hops", "load_hops") /\ UNCHANGED hops
    /\ UNCHANGED <<bytes, queue, taken, outVars, conns, inVars>>

CasBytes(f) ==
    /\ \/ /\ SendStep(f, "cas_bytes", "push")
          /\ bytes = snd[f].u /\ bytes' = bytes + Cost[HopOf(f)]
       \/ SendStep(f, "cas_bytes", "undo") /\ UNCHANGED bytes
    /\ UNCHANGED <<hops, queue, taken, outVars, conns, inVars>>

Undo(f) ==
    /\ SendStep(f, "undo", "load_hops")
    /\ hops' = hops - 1
    /\ UNCHANGED <<bytes, queue, taken, outVars, conns, inVars>>

\* push: the charged hop goes on the queue
Push(f) ==
    /\ snd[f].pc = "push"
    /\ queue' = Append(queue, HopOf(f)) /\ taken' = taken \cup {HopOf(f)}
    /\ snd' = [snd EXCEPT ![f] = [pc |-> "ready", i |-> snd[f].i + 1, h |-> 0, u |-> 0]]
    /\ UNCHANGED <<hops, bytes, outVars, conns, inVars>>

-----------------------------------------------------------------------------
(* pump_bridge_to_routed_channel.                                          *)

PumpIs(pc, hop, last) == pump' = [pc |-> pc, hop |-> hop, last |-> last]
\* StaticNodeRouter::resolve, 0 for UnknownNode
resolve(node) == IF node \in DOMAIN Peers THEN Peers[node] ELSE 0
Peer(h) == resolve(Node[h])
WriterGone == writer.pc = "end"
PumpGone == pump.pc = "end"

\* the stop flag, then recv_timeout; an empty queue is polled again
PumpRecv ==
    /\ pump.pc = "poll"
    /\ \/ stop /\ PumpIs("end", 0, FALSE) /\ UNCHANGED queue
       \/ ~stop /\ queue # <<>> /\ PumpIs("encode", Head(queue), FALSE) /\ queue' = Tail(queue)
    /\ UNCHANGED <<hops, bytes, taken, snd, channel, wire, writer, written, stop, host, conns, inVars>>

\* resolve_hop_peer and encode_frame: the pump stops fail-closed, and the hop is lost
PumpEncode ==
    /\ pump.pc = "encode"
    /\ IF Peer(pump.hop) = 0 \/ pump.hop \in Unencodable THEN PumpIs("drop", pump.hop, TRUE)
       ELSE PumpIs("send", pump.hop, FALSE)
    /\ UNCHANGED <<bridgeVars, channel, wire, writer, written, stop, host, conns, inVars>>

\* the channel of queue_capacity frames
ChannelHasRoom == Len(channel) < QueueCapacity

\* mutant of PumpSend: a send on a full channel does not notice that the writer is gone
PumpSendDeaf ==
    /\ pump.pc = "send" /\ ChannelHasRoom
    /\ IF WriterGone THEN PumpIs("drop", pump.hop, TRUE) /\ UNCHANGED channel
       ELSE channel' = Append(channel, pump.hop) /\ PumpIs("count", pump.hop, FALSE)
    /\ UNCHANGED <<bridgeVars, wire, writer, written, stop, host, conns, inVars>>

\* wire_tx.send blocks while the channel is full and fails when the writer is gone
PumpSend ==
    /\ pump.pc = "send"
    /\ \/ WriterGone /\ PumpIs("drop", pump.hop, TRUE) /\ UNCHANGED channel
       \/ /\ ~WriterGone /\ ChannelHasRoom
          /\ channel' = Append(channel, pump.hop) /\ PumpIs("count", pump.hop, FALSE)
    /\ UNCHANGED <<bridgeVars, wire, writer, written, stop, host, conns, inVars>>

PumpCount ==
    /\ pump.pc = "count"
    /\ wire' = (wire + 1) % Word
    /\ PumpIs("drop", pump.hop, FALSE)
    /\ UNCHANGED <<bridgeVars, channel, writer, written, stop, host, conns, inVars>>

\* BridgeCharge::drop: release takes the slot back, then the bytes
PumpDrop ==
    /\ pump.pc = "drop"
    /\ hops' = hops - 1
    /\ PumpIs("free", pump.hop, pump.last)
    /\ UNCHANGED <<bytes, queue, taken, snd, channel, wire, writer, written, stop, host, conns, inVars>>

PumpFree ==
    /\ pump.pc = "free"
    /\ bytes' = bytes - Cost[pump.hop]
    /\ PumpIs(IF pump.last THEN "end" ELSE "poll", 0, FALSE)
    /\ UNCHANGED <<hops, queue, taken, snd, channel, wire, writer, written, stop, host, conns, inVars>>

-----------------------------------------------------------------------------
(* run_tcp_routed_writer.                                                  *)

Conn(q, up, st) == [q |-> q, up |-> up, st |-> st]
Ended == Conn(<<>>, FALSE, "ended")
\* the writer lets go of its stream: what is in flight still arrives
Closed(cs, c) == IF c = 0 THEN cs ELSE [cs EXCEPT ![c].up = FALSE]

\* the loop's head: stop, the retry frame, the channel, its disconnection
WriterTake ==
    /\ writer.pc = "top"
    /\ \/ /\ stop
          /\ writer' = [writer EXCEPT !.pc = "end", !.conn = 0, !.peer = 0]
          /\ conns' = Closed(conns, writer.conn) /\ UNCHANGED channel
       \/ /\ ~stop /\ writer.retry # 0
          /\ writer' = [writer EXCEPT !.pc = "connect", !.frame = writer.retry, !.retry = 0]
          /\ UNCHANGED <<channel, conns>>
       \/ /\ ~stop /\ writer.retry = 0 /\ channel # <<>>
          /\ writer' = [writer EXCEPT !.pc = "connect", !.frame = Head(channel)]
          /\ channel' = Tail(channel) /\ UNCHANGED conns
       \/ /\ ~stop /\ writer.retry = 0 /\ channel = <<>> /\ PumpGone
          /\ writer' = [writer EXCEPT !.pc = "end", !.conn = 0, !.peer = 0]
          /\ conns' = Closed(conns, writer.conn) /\ UNCHANGED channel
    /\ UNCHANGED <<bridgeVars, pump, wire, written, stop, host, inVars>>

Retry == [pc |-> "top", frame |-> 0, retry |-> writer.frame, conn |-> 0, peer |-> 0]

\* a stream to the frame's peer: the one it has, a new one, or another round
WriterConnect ==
    /\ writer.pc = "connect"
    /\ IF writer.conn # 0 /\ writer.peer = Peer(writer.frame)
       THEN writer' = [writer EXCEPT !.pc = "write"] /\ UNCHANGED conns
       ELSE \/ /\ Len(conns) < scene.conns
               /\ conns' = Append(Closed(conns, writer.conn), Conn(<<>>, TRUE, "new"))
               /\ writer' = [writer EXCEPT !.pc = "write", !.conn = Len(conns) + 1,
                                           !.peer = Peer(writer.frame)]
            \/ conns' = Closed(conns, writer.conn) /\ writer' = Retry
    /\ UNCHANGED <<bridgeVars, pump, channel, wire, written, stop, host, inVars>>

\* mutant of WriterWrite: a failed write is taken for a written one
WriterWriteForgets ==
    /\ writer.pc = "write"
    /\ \/ /\ writer.frame \notin Oversize
          /\ conns' = IF conns[writer.conn].up THEN [conns EXCEPT ![writer.conn].q = Append(@, writer.frame)]
                      ELSE conns
          /\ written' = Append(written, writer.frame)
          /\ writer' = [writer EXCEPT !.pc = "sub", !.frame = 0]
       \/ /\ conns' = Closed(conns, writer.conn)
          /\ writer' = [writer EXCEPT !.pc = "sub", !.frame = 0, !.conn = 0, !.peer = 0]
          /\ UNCHANGED written
    /\ UNCHANGED <<bridgeVars, pump, channel, wire, stop, host, inVars>>

\* write_wire_frame: all of the frame is on the stream, or the stream is given up and the
\* same frame retried; a frame that is too large fails every time
WriterWrite ==
    /\ writer.pc = "write"
    /\ \/ /\ writer.frame \notin Oversize
          /\ conns' = IF conns[writer.conn].up THEN [conns EXCEPT ![writer.conn].q = Append(@, writer.frame)]
                      ELSE conns
          /\ written' = Append(written, writer.frame)
          /\ writer' = [writer EXCEPT !.pc = "sub", !.frame = 0]
       \/ /\ conns' = Closed(conns, writer.conn) /\ writer' = Retry
          /\ UNCHANGED written
    /\ UNCHANGED <<bridgeVars, pump, channel, wire, stop, host, inVars>>

WriterSub ==
    /\ writer.pc = "sub"
    /\ wire' = (wire - 1) % Word
    /\ writer' = [writer EXCEPT !.pc = "top"]
    /\ UNCHANGED <<bridgeVars, pump, channel, written, stop, host, conns, inVars>>

\* the network resets a connection; what it carries is lost
Reset(c) ==
    /\ c \in DOMAIN conns /\ conns[c].up
    /\ conns' = [conns EXCEPT ![c].up = FALSE, ![c].q = <<>>]
    /\ UNCHANGED <<bridgeVars, outVars, inVars>>

-----------------------------------------------------------------------------
(* The embedder ends the outbound side: wait_bridge_drained, then          *)
(* wait_wire_drained, then TcpOutboundHandle::stop.                        *)

HostIs(pc) == host' = [host EXCEPT !.pc = pc]

BeginShutdown ==
    /\ scene.shutdown /\ host.pc = "run" /\ \A f \in Flow : snd[f].pc \in {"ready", "failed"}
    /\ host' = [host EXCEPT !.pc = "bridge", !.given = taken]
    /\ UNCHANGED <<bridgeVars, pump, channel, wire, writer, written, stop, conns, inVars>>

\* one round of wait_bridge_drained: try_recv, and what it returns is dropped
DrainBridge ==
    /\ host.pc = "bridge"
    /\ IF queue = <<>> THEN HostIs("wire") /\ UNCHANGED <<queue, hops>>
       ELSE /\ host' = [host EXCEPT !.pc = "free", !.hop = Head(queue)]
            /\ queue' = Tail(queue) /\ hops' = hops - 1
    /\ UNCHANGED <<bytes, taken, snd, pump, channel, wire, writer, written, stop, conns, inVars>>

DrainFree ==
    /\ host.pc = "free"
    /\ bytes' = bytes - Cost[host.hop]
    /\ host' = [host EXCEPT !.pc = "bridge", !.hop = 0]
    /\ UNCHANGED <<hops, queue, taken, snd, pump, channel, wire, writer, written, stop, conns, inVars>>

WireDrained ==
    /\ host.pc = "wire" /\ wire = 0
    /\ HostIs("stop")
    /\ UNCHANGED <<bridgeVars, pump, channel, wire, writer, written, stop, conns, inVars>>

\* either wait times out; the handle is stopped all the same
DrainTimeout ==
    /\ host.pc \in {"bridge", "wire"}
    /\ host' = [host EXCEPT !.pc = "stop", !.clean = FALSE]
    /\ UNCHANGED <<bridgeVars, pump, channel, wire, writer, written, stop, conns, inVars>>

Stop ==
    /\ host.pc = "stop"
    /\ stop' = TRUE /\ HostIs("join")
    /\ UNCHANGED <<bridgeVars, pump, channel, wire, writer, written, conns, inVars>>

\* the pump is joined, then the writer
Join ==
    /\ host.pc = "join" /\ PumpGone /\ WriterGone
    /\ HostIs("done")
    /\ UNCHANGED <<bridgeVars, pump, channel, wire, writer, written, stop, conns, inVars>>

-----------------------------------------------------------------------------
(* accept_inbound_loop, SessionGuard, serve_tcp_connection and the         *)
(* embedder's datagram loop.                                               *)

\* the stop flag is read, then the next connection is taken
AcceptCheck ==
    /\ scene.listen /\ inbound.acceptor = "check"
    /\ inbound' = [inbound EXCEPT !.acceptor = IF inbound.flag THEN "end" ELSE "accept"]
    /\ UNCHANGED <<bridgeVars, outVars, conns, active, th, seen, reserved, accepted, datagrams>>

\* SessionGuard::try_start
HasSession == active < MaxSessions

Accept ==
    /\ scene.listen /\ inbound.acceptor = "accept"
    /\ \/ \E c \in DOMAIN conns :
             /\ conns[c].st = "new"
             /\ IF HasSession
                THEN /\ active' = active + 1
                     /\ conns' = [conns EXCEPT ![c].st = "served"]
                     /\ th' = [th EXCEPT ![c].pc = "read"]
                ELSE UNCHANGED <<active, th>> /\ conns' = [conns EXCEPT ![c] = Ended]
       \/ \E c \in DOMAIN conns :                 \* no thread: the guard is dropped again
             /\ conns[c].st = "new" /\ HasSession
             /\ conns' = [conns EXCEPT ![c] = Ended] /\ UNCHANGED <<active, th>>
       \/ UNCHANGED <<conns, active, th>>        \* WouldBlock
    /\ inbound' = [inbound EXCEPT !.acceptor = "check"]
    /\ UNCHANGED <<bridgeVars, outVars, seen, reserved, accepted, datagrams>>

\* TcpInboundHandle::stop: the flag, the join of the accept loop, then the sessions or 5 s
InboundStop ==
    /\ scene.listen /\ inbound.handle = "run"
    /\ inbound' = [inbound EXCEPT !.flag = TRUE, !.handle = "drain"]
    /\ UNCHANGED <<bridgeVars, outVars, conns, active, th, seen, reserved, accepted, datagrams>>

InboundDrained ==
    /\ inbound.handle = "drain" /\ inbound.acceptor = "end"
    /\ inbound' = [inbound EXCEPT !.handle = IF active = 0 THEN "stopped" ELSE "timed_out"]
    /\ UNCHANGED <<bridgeVars, outVars, conns, active, th, seen, reserved, accepted, datagrams>>

\* the session ends: the stream and then the guard are dropped
EndSession(c, t) ==
    /\ conns' = [conns EXCEPT ![c] = Ended]
    /\ active' = active - 1
    /\ th' = [t EXCEPT ![c] = Idle]

\* read_wire_frame: the next frame; a prefix or nothing before the end is the end
Read(c) ==
    /\ th[c].pc = "read"
    /\ \/ /\ conns[c].q # <<>>
          /\ th' = [th EXCEPT ![c] = [Idle EXCEPT !.pc = "reserve", !.frame = Head(conns[c].q)]]
          /\ conns' = [conns EXCEPT ![c].q = Tail(@)] /\ UNCHANGED active
       \/ conns[c].q = <<>> /\ ~conns[c].up /\ EndSession(c, th)
    /\ UNCHANGED <<bridgeVars, outVars, inbound, seen, reserved, accepted, datagrams>>

\* recv_wire_frame_udp: a copy of a frame that is or was on its way
Datagram(d) ==
    /\ d \in Reader /\ th[d].pc = "idle" /\ datagrams < scene.datagrams
    /\ datagrams' = datagrams + 1
    /\ \E k \in ToSet(written) : th' = [th EXCEPT ![d] = [Idle EXCEPT !.pc = "reserve", !.frame = k]]
    /\ UNCHANGED <<bridgeVars, outVars, conns, active, inbound, seen, reserved, accepted>>

-----------------------------------------------------------------------------
(* deliver_frame and RemoteFrameDedup.                                     *)

Entry(k, acc) == [key |-> k, accepted |-> acc]
At(k) == {i \in DOMAIN seen : seen[i].key = k}

\* mutant of evict_accepted: the window is one short
evict_one_more(q) ==
    LET n == CHOOSE n \in 0..Len(q) :
                /\ \A i \in 1..n : q[i].accepted /\ Len(q) - i + 1 >= Window
                /\ n < Len(q) => ~q[n + 1].accepted \/ Len(q) - n < Window
    IN  SubSeq(q, n + 1, Len(q))

\* evict_accepted: accepted entries leave from the front while there are too many; an
\* entry that is pending keeps what is behind it
evict_accepted(q) ==
    LET n == CHOOSE n \in 0..Len(q) :
                /\ \A i \in 1..n : q[i].accepted /\ Len(q) - i + 1 > Window
                /\ n < Len(q) => ~q[n + 1].accepted \/ Len(q) - n <= Window
    IN  SubSeq(q, n + 1, Len(q))

\* the session reads on, or returns its error; a datagram thread takes the next one
Finished(d, failed, t) ==
    IF d \in Session /\ failed THEN EndSession(d, t)
    ELSE /\ th' = [t EXCEPT ![d] = IF d \in Reader THEN Idle ELSE [Idle EXCEPT !.pc = "read"]]
         /\ UNCHANGED <<conns, active>>

\* reserve: a duplicate, a wait for the thread that has the key, or a fresh reservation
Reserve(d) ==
    /\ th[d].pc = "reserve"
    /\ LET k == th[d].frame
       IN  CASE \E i \in At(k) : seen[i].accepted ->
                  Finished(d, FALSE, th) /\ UNCHANGED <<seen, reserved>>
             [] At(k) # {} /\ \A i \in At(k) : ~seen[i].accepted ->
                  th' = [th EXCEPT ![d].pc = "waiting"] /\ UNCHANGED <<seen, reserved, conns, active>>
             [] OTHER ->
                  /\ seen' = evict_accepted(Append(seen, Entry(k, FALSE)))
                  /\ reserved' = Append(reserved, k)
                  /\ th' = [th EXCEPT ![d].pc = "deliver", ![d].ix = Len(reserved) + 1]
                  /\ UNCHANGED <<conns, active>>
    /\ UNCHANGED <<bridgeVars, outVars, inbound, accepted, datagrams>>

\* deliver_frame_after_dedup: refused before the inbox has the hop (NoSuchName, a full
\* inbox), accepted, or accepted by a flow that then cannot resume
Deliver(d) ==
    /\ th[d].pc = "deliver"
    /\ \/ th' = [th EXCEPT ![d].pc = "rollback", ![d].failed = TRUE] /\ UNCHANGED accepted
       \/ /\ accepted' = accepted \cup {th[d].ix}
          /\ \E late \in BOOLEAN : th' = [th EXCEPT ![d].pc = "commit", ![d].failed = late]
    /\ UNCHANGED <<bridgeVars, outVars, conns, active, inbound, seen, reserved, datagrams>>

\* notify_all, in the critical section of commit and rollback
Woken(t) == [d \in Deliverer |-> IF t[d].pc = "waiting" THEN [t[d] EXCEPT !.pc = "reserve"] ELSE t[d]]

Commit(d) ==
    /\ th[d].pc = "commit"
    /\ seen' = evict_accepted([i \in DOMAIN seen |-> IF seen[i].key = th[d].frame
                                                     THEN [seen[i] EXCEPT !.accepted = TRUE] ELSE seen[i]])
    /\ Finished(d, th[d].failed, Woken(th))
    /\ UNCHANGED <<bridgeVars, outVars, inbound, reserved, accepted, datagrams>>

\* mutant of Rollback: nobody is woken
RollbackSilent(d) ==
    /\ th[d].pc = "rollback"
    /\ seen' = SelectSeq(seen, LAMBDA e : ~(e.key = th[d].frame /\ ~e.accepted))
    /\ Finished(d, TRUE, th)
    /\ UNCHANGED <<bridgeVars, outVars, inbound, reserved, accepted, datagrams>>

Rollback(d) ==
    /\ th[d].pc = "rollback"
    /\ seen' = SelectSeq(seen, LAMBDA e : ~(e.key = th[d].frame /\ ~e.accepted))
    /\ Finished(d, th[d].failed, Woken(th))
    /\ UNCHANGED <<bridgeVars, outVars, inbound, reserved, accepted, datagrams>>

-----------------------------------------------------------------------------
PumpStep == PumpRecv \/ PumpEncode \/ PumpSend \/ PumpCount \/ PumpDrop \/ PumpFree
WriterStep == WriterTake \/ WriterConnect \/ WriterWrite \/ WriterSub
FlowStep(f) ==
    SendRemote(f) \/ LoadHops(f) \/ LoadBytes(f) \/ CasHops(f) \/ CasBytes(f) \/ Undo(f) \/ Push(f)
HostStep ==
    BeginShutdown \/ DrainBridge \/ DrainFree \/ WireDrained \/ DrainTimeout \/ Stop \/ Join
InboundStep == AcceptCheck \/ Accept \/ InboundStop \/ InboundDrained
DeliverStep(d) == Reserve(d) \/ Deliver(d) \/ Commit(d) \/ Rollback(d)

Next ==
    \/ \E f \in Flow : FlowStep(f)
    \/ PumpStep \/ WriterStep \/ HostStep \/ InboundStep
    \/ \E c \in Session : Reset(c) \/ Read(c)
    \/ \E d \in Deliverer : Datagram(d) \/ DeliverStep(d)

\* the pump, the writer and the threads inside deliver_frame are threads of their own that
\* nothing stops from running; flows, the network and the embedder owe nothing
Spec ==
    /\ Init /\ [][Next]_vars
    /\ WF_vars(PumpStep) /\ WF_vars(WriterStep)
    /\ \A d \in Deliverer : WF_vars(DeliverStep(d))

-----------------------------------------------------------------------------
(* Properties.                                                             *)

\* the counters are naturals of their width, and no queue outgrows its bound
TypeOK ==
    /\ hops \in Nat /\ bytes \in Nat /\ wire \in 0..(Word - 1)
    /\ taken \subseteq Hop /\ ToSet(queue) \cup ToSet(channel) \cup ToSet(written) \subseteq taken
    /\ Len(channel) <= QueueCapacity
    /\ pump.hop \in taken \cup {0} /\ {writer.frame, writer.retry} \subseteq taken \cup {0}
    /\ \A d \in Deliverer : th[d].frame \in taken \cup {0} /\ th[d].ix \in 0..Len(reserved)

Charging(pcs) == {f \in Flow : snd[f].pc \in pcs}
Held(pcs) == IF pump.pc \in pcs THEN {pump.hop} ELSE {}
Bytes(hs) == MapThenSumSet(LAMBDA h : Cost[h], hs)

\* distribution.rs try_charge, release: whatever races are lost and undone, the bridge has
\* charged exactly the hops it holds or a thread is charging or dropping, and never more
\* than its limits
BridgeExact ==
    /\ hops = Len(queue) + Cardinality(Held({"encode", "send", "count", "drop"}))
              + Cardinality(Charging({"cas_bytes", "undo", "push"}))
    /\ bytes = Bytes(ToSet(queue) \cup Held({"encode", "send", "count", "drop", "free"})
                     \cup {HopOf(f) : f \in Charging({"push"})}
                     \cup (IF host.pc = "free" THEN {host.hop} ELSE {}))
    /\ hops <= MaxHops /\ bytes <= MaxBytes

Count(s, h) == Cardinality({i \in DOMAIN s : s[i] = h})
Places(h) ==
    Count(queue, h) + Count(channel, h) + Count(written, h)
    + Count(<<writer.frame, writer.retry>>, h) + Cardinality(Held({"encode", "send"}) \cap {h})

\* transport/mod.rs: a hop that SendRemote handed over is in one place from the bridge to
\* the socket: reconnects and retries neither lose it nor write it twice; only a pump that
\* fails closed, a writer that ended and the drain of a shutdown let go of one
HopInOnePlace ==
    \A h \in taken :
       /\ Places(h) <= 1
       /\ ~PumpGone /\ ~pump.last /\ ~WriterGone /\ host.pc = "run" => Places(h) = 1

\* wait_wire_drained: outside the pump's window between its send and its count, a count of
\* 0 means that every frame of the channel is written
DrainedWhenPumpIsIdle ==
    pump.pc # "count" /\ wire = 0 => channel = <<>> /\ writer.frame = 0 /\ writer.retry = 0

\* SessionGuard: a place for every session that runs, never more than max_sessions; once
\* TcpInboundHandle::stop returns Ok, no session runs and none will
SessionsExact ==
    /\ active = Cardinality({c \in Session : th[c].pc # "idle"})
    /\ active <= MaxSessions
    /\ inbound.handle = "stopped" => active = 0

\* distribution.rs reserve: a reservation that is pending belongs to exactly one thread,
\* which will commit it or roll it back
OneDelivererPerKey ==
    \A k \in Hop :
       LET owners == {d \in Deliverer : th[d].frame = k /\ th[d].pc \in {"deliver", "commit", "rollback"}}
       IN  Cardinality(owners) <= 1 /\ Cardinality({i \in At(k) : ~seen[i].accepted}) = Cardinality(owners)

\* distribution.rs evict_accepted: an inbox takes the same frame a second time only after at
\* least `capacity` other reservations, however deliveries overlap, fail or are retried
WindowHolds ==
    \A i, j \in accepted : i < j /\ reserved[i] = reserved[j] => j - i > Window

\* TcpOutboundHandle::stop joins: the pump and the writer end once they are told to, also
\* when the channel is full, the peer is away or a frame can never be written
StopEnds == stop ~> PumpGone /\ WriterGone

\* RemoteFrameDedup::reserve: a thread that waits for another one's delivery goes on
WaiterReleased == \A d \in Deliverer : th[d].pc = "waiting" ~> th[d].pc # "waiting"

\* Every hop is accounted for from SendRemote to the socket, and every counter that stands
\* for hops, frames or sessions is exact.
HopsAccounted == TypeOK /\ BridgeExact /\ HopInOnePlace /\ DrainedWhenPumpIsIdle /\ SessionsExact

\* A retransmitted frame is delivered once per window: one thread at a time owns its
\* reservation, and an accepted one is not accepted again before the window has passed.
DeliveredOnce == OneDelivererPerKey /\ WindowHolds
=============================================================================
