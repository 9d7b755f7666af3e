------------------------------- MODULE Frames -------------------------------
(***************************************************************************)
(* How a hop leaves the node: the stamps of the SendRemote effect, the     *)
(* BFH1 frame of one hop (scheduler/distribution.rs) and the BFT1 envelope *)
(* it travels in (transport/mod.rs), as sequences of field words.          *)
(*                                                                         *)
(* An OutboundHop is [sender, node, name, message].                        *)
(***************************************************************************)
EXTENDS ModuleFormat

CONSTANTS
    MaxFrameName,  \* MAX_FRAME_NAME
    MaxWire        \* max_wire_bytes

FRAME_MAGIC == 7171
FRAME_VERSION == 1
WIRE_MAGIC == 8181
WIRE_VERSION == 1

OutboundHop(sender, node, name, message) ==
    [sender |-> sender, node |-> node, name |-> name, message |-> message]
NoHop == OutboundHop(0, 0, Str(0, 0), Unit)

-----------------------------------------------------------------------------
(* Stamping.  A walk gives [v, id]: the value and the next request id.     *)

\* every envelope inside v without a sender or a request id gets one, the
\* innermost first; a map's keys are not values
RECURSIVE Stamped(_, _, _)
Stamped(v, sender, id) ==
    LET part(acc, i) ==
            IF v.t = "Map" /\ i % 2 = 1 THEN [acc EXCEPT !.v = Append(@, v.s[i])]
            ELSE LET r == Stamped(v.s[i], sender, acc.id)
                 IN  [v |-> Append(acc.v, r.v), id |-> r.id]
        parts == FoldLeft(part, [v |-> <<>>, id |-> id], [i \in DOMAIN v.s |-> i])
    IN  CASE v.t = "Msg" ->
               LET p == Stamped(v.s[1], sender, id)
                   from == IF v.s[2].n = 0 THEN Pid(sender) ELSE v.s[2]
                   fresh == v.d = 0
               IN  [v |-> [v EXCEPT !.d = IF fresh THEN Minted(p.id) ELSE @, !.s = <<p.v, from, v.s[3]>>],
                    id |-> IF fresh THEN NextId(p.id) ELSE p.id]
          [] v.t \in {"List", "Record", "Map"} -> [v |-> [v EXCEPT !.s = parts.v], id |-> parts.id]
          [] OTHER -> [v |-> v, id |-> id]

\* mutant of stamp_unset_envelopes: only the hop's own envelope is stamped
StampOuterOnly(v, sender, id) == [v |-> v, id |-> id]

stamp_unset_envelopes(v, sender, id) == Stamped(v, sender, id)

\* stamp: the flow is the sender and no reply capability leaves the node
stamp(hop, sender) == [hop EXCEPT !.s = <<hop.s[1], Pid(sender), Cap(0)>>]

\* what deliver may refuse in the hop itself
Deliverable(hop) == within_nesting_limit(hop.s[1]) /\ ~contains_live_cap(hop.s[1])

\* deliver: the hop's own request id is minted first, then those of its payload
DeliveredHop(hop, sender, id) ==
    LET own == hop.d = 0
        p == stamp_unset_envelopes(hop.s[1], sender, IF own THEN NextId(id) ELSE id)
    IN  [hop |-> stamp([hop EXCEPT !.d = IF own THEN Minted(id) ELSE @, !.s[1] = p.v], sender),
         id |-> p.id]

-----------------------------------------------------------------------------
(* Frames.  A refused hop is <<>>, a refused frame NoHop.                  *)

\* screen_value and screen_message: a message is at its own depth, its payload below
RECURSIVE Screened(_, _)
Screened(v, depth) ==
    /\ depth <= MaxValueDepth
    /\ v.t \notin {"Pid", "Cap"}
    /\ v.t = "Msg" => v.s[3].n = 0
    /\ v.t \in {"List", "Record", "Map"} => Len(Children(v)) <= MaxItems
    /\ \A i \in DOMAIN Children(v) : Screened(Children(v)[i], depth + 1)
screen_value(v, depth) == Screened(v, depth)

screen_message(hop, depth) ==
    /\ depth <= MaxValueDepth
    /\ hop.s[3].n = 0
    /\ screen_value(hop.s[1], depth + 1)

encode_frame(hop) ==
    IF /\ hop.sender # 0
       /\ hop.name.n \in 1..MaxFrameName
       /\ hop.message.s[2].n = hop.sender
       /\ screen_message(hop.message, 0)
    THEN <<FRAME_MAGIC, FRAME_VERSION, hop.node>> \o write_blob(hop.name)
         \o <<hop.sender>> \o write_value(hop.message)
    ELSE <<>>

\* the header, the name and the sender, then one value to the last word
decode_frame(words) ==
    LET name == read_blob(words, 3, "Str", MaxFrameName)
        sender == Word(words, name.pos)
        r == read_value(words, name.pos + 1, TRUE, 0, ABI_VERSION_RECORDS)
    IN  IF /\ Has(words, 0, 3)
           /\ Word(words, 0) = FRAME_MAGIC /\ Word(words, 1) = FRAME_VERSION
           /\ name.ok /\ name.v.n > 0
           /\ Has(words, name.pos, 1) /\ sender # 0
           /\ r.ok /\ r.pos = Len(words)
           /\ r.v.t = "Msg" /\ r.v.s[2].n = sender
           /\ screen_message(r.v, 0)
        THEN OutboundHop(sender, Word(words, 2), name.v, r.v)
        ELSE NoHop

-----------------------------------------------------------------------------
(* The envelope.                                                           *)

\* encode_wire_bytes, which write_wire_frame and send_wire_frame_udp write
encode_wire_bytes(frame) ==
    IF Len(frame) <= MaxWire THEN <<WIRE_MAGIC, WIRE_VERSION, Len(frame)>> \o frame ELSE <<>>

\* wire_payload_len; -1 for a header it refuses
wire_payload_len(wire, pos) ==
    IF /\ Has(wire, pos, 3)
       /\ Word(wire, pos) = WIRE_MAGIC /\ Word(wire, pos + 1) = WIRE_VERSION
       /\ Word(wire, pos + 2) \in 0..MaxWire
    THEN Word(wire, pos + 2) ELSE -1

\* read_wire_frame: one frame from the front of what is left of a stream
read_wire_frame(stream, pos) ==
    LET len == wire_payload_len(stream, pos)
    IN  IF len <= 0 \/ ~Has(stream, pos + 3, len) THEN Failed
        ELSE Got(pos + 3 + len, SubSeq(stream, pos + 4, pos + 3 + len))

\* decode_wire_bytes: a datagram holds exactly one frame
decode_wire_bytes(wire) ==
    LET len == wire_payload_len(wire, 0)
    IN  IF len < 0 \/ Len(wire) # 3 + len THEN Failed ELSE Got(3 + len, SubSeq(wire, 4, 3 + len))
=============================================================================
