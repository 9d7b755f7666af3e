----------------------------- MODULE Execution ------------------------------
(***************************************************************************)
(* From source to a running flow: a host writes a chunk with Program and   *)
(* Fn, or has one from elsewhere; the chunk is packed (encode), the        *)
(* bytes may be damaged on the way, they are decoded and verified, a       *)
(* machine is built on the result (Vm::with_native_gate, Vm::set_quota)    *)
(* and its worker runs it instruction by instruction, answering the        *)
(* effects it asks for, while other flows use the same memory budget.  A   *)
(* hop it sends to another node is stamped and framed.                     *)
(***************************************************************************)
EXTENDS Listing, Frames, Jit, Builder

CONSTANTS
    Sources,       \* the chunks a build may produce
    Damage,        \* the words a damaged field may read as
    Arguments,     \* the argument lists a host may spawn function 0 with
    Answers,       \* the values a worker may resume an effect with
    Hops,          \* the messages that may be in the flow's mailbox
    OtherBytes,    \* what the other flows may hold of the memory budget
    FlowId,        \* the id of the flow
    Slices,        \* the budgets a worker may probe a trace with
    MaxCalls,      \* bound: calls of a host writing a program
    MaxSteps       \* bound: instructions of one behaviour

VARIABLES
    source,        \* the chunk that was built
    trusted,       \* the trust level it is loaded with is Trusted
    wire,          \* the module's words
    damaged,       \* some word was lost, added or changed
    phase,         \* "writing", "built", "packed", "loaded", "running", "effect", "done", "refused"
    chunk,         \* the chunk that was loaded
    vm,            \* the machine
    out,           \* the last VmResult
    given,         \* the capabilities the runtime handed to the flow
    others,        \* bytes of the memory budget the other flows hold
    sent,          \* the hop the last instruction gave to the bridge, or NoHop
    script         \* the program a host writes, and what it should compute

loading == <<source, trusted, wire, damaged, chunk, script>>
vars == <<source, trusted, wire, damaged, phase, chunk, vm, out, given, others, sent, script>>

Gate == [live |-> TRUE, right |-> TRUE, mask |-> {0} \cup 2..7]
NoMachine == [frames |-> <<>>, steps |-> 0, nextId |-> 1, dict |-> <<>>, dictBytes |-> 0,
              used |-> 0, mem |-> 0, gate |-> Gate]

\* A script is the host's side of a program being written: the builder, the
\* registers Fn gave back for its variables, and what each variable should hold;
\* `result` is the value the finished program should return.
NoScript == [b |-> NewBuilder, regs |-> <<>>, vals |-> <<>>, calls |-> 0, ids |-> 0, result |-> NoValue]

MainName == Str(1, 97)

\* function("main", 0, ...): two variables, and then `used` registers of the frame
Opened(used) ==
    LET one == Result(begin_function(NewBuilder, MainName, 0, 0), "load_imm", <<1>>)
        three == load_const(one.b, I64(3))
    IN  [NoScript EXCEPT !.b = reserve(three.b, used), !.regs = <<one.r, three.r>>,
                         !.vals = <<I64(1), I64(3)>>]

Init ==
    /\ \/ source \in Sources /\ trusted \in BOOLEAN /\ phase = "built" /\ script = NoScript
       \/ source = NoChunk /\ trusted = FALSE /\ phase = "writing"
          /\ \E room \in {4, MaxRegs} : script = Opened(MaxRegs - room)
    /\ wire = <<>> /\ damaged = FALSE
    /\ chunk = NoChunk /\ vm = NoMachine /\ out = Go(NoMachine)
    /\ given = {} /\ others = 0 /\ sent = NoHop

-----------------------------------------------------------------------------
(* Writing: each call of the host, beside what it should mean.             *)

\* a call that gives back a new variable, and one that assigns to variable i
New(s, r, v) == [s EXCEPT !.b = r.b, !.regs = Append(@, r.r), !.vals = Append(@, v), !.calls = @ + 1]
Assign(s, b, i, v) == [s EXCEPT !.b = b, !.vals[i] = v, !.calls = @ + 1]

Ints(s) == {i \in DOMAIN s.vals : s.vals[i].t = "Int"}
Msgs(s) == {i \in DOMAIN s.vals : s.vals[i].t = "Msg"}
Minus(x, y) == I64(Wrap(x.n - y.n))

\* label, branch_if_falsy over a set, bind
SetIf(b, cond, r, n) ==
    LET over == emit_branch(new_label(b), cond, b.nextLabel)
    IN  bind_label(Emit(over, "load_imm", <<r, n>>), b.nextLabel)

Computed(s) ==
    {New(s, load_const(s.b, I64(3)), I64(3))}
    \cup {New(s, Result(s.b, "sub", <<s.regs[i], s.regs[j]>>), Minus(s.vals[i], s.vals[j])) : i, j \in Ints(s)}
    \cup {New(s, call(s.b, 1, <<s.regs[i], s.regs[j]>>), Minus(s.vals[i], s.vals[j])) : i, j \in Ints(s)}

Assigned(s) ==
    {Assign(s, Emit(s.b, "move", <<s.regs[i], s.regs[j]>>), i, s.vals[j]) : i, j \in DOMAIN s.vals}
    \cup {Assign(s, SetIf(s.b, s.regs[i], s.regs[j], 0), j, IF is_truthy(s.vals[i]) THEN I64(0) ELSE s.vals[j]) :
              i, j \in DOMAIN s.vals}
    \cup {Assign(s, while_lt(s.b, Emit(while_lt_head(s.b, s.regs[i], s.regs[j]), "add_imm", <<s.regs[i], s.regs[i], 1>>)), i,
                 IF s.vals[i].n < s.vals[j].n THEN s.vals[j] ELSE s.vals[i]) : i, j \in Ints(s)}

Packed(s) ==
    {New(s, PackRegs(s.b, "list_pack", <<s.regs[i], s.regs[j]>>, 2), List(<<s.vals[i], s.vals[j]>>)) :
        i, j \in DOMAIN s.vals}
    \cup {New(s, PackRegs(s.b, "map_pack", <<s.regs[i], s.regs[j]>>, 1), Map(<<s.vals[i], s.vals[j]>>)) :
        i \in Ints(s), j \in DOMAIN s.vals}

Sent(s) ==
    {[New(s, hop_fresh(s.b, 1, s.regs[i]), Msg(0, 0, s.ids + 1, 1, s.vals[i])) EXCEPT !.ids = @ + 1] :
        i \in DOMAIN s.vals}
    \cup {New(s, reply_to(s.b, s.regs[i], 2, s.regs[j]), Msg(0, 0, s.vals[i].d, 2, s.vals[j])) :
        i \in Msgs(s), j \in DOMAIN s.vals}
    \cup {New(s, Result(s.b, "native1_from", <<s.regs[i], MSG_PAYLOAD>>), s.vals[i].s[1]) : i \in Msgs(s)}
    \cup {New(s, Result(s.b, "native1_from", <<s.regs[i], MSG_TAG>>), I64(s.vals[i].n)) : i \in Msgs(s)}

Write ==
    /\ phase = "writing" /\ script.calls < MaxCalls
    /\ script' \in Computed(script) \cup Assigned(script) \cup Packed(script) \cup Sent(script)
    /\ \A i \in DOMAIN script'.vals : within_nesting_limit(script'.vals[i])
    /\ UNCHANGED <<source, trusted, wire, damaged, phase, chunk, vm, out, given, others, sent>>

\* function("minus", 2, ...), the function the calls are to
MinusFunction(b) ==
    LET d == Result(begin_function(b, MainName, 2, 2), "sub", <<0, 1>>) IN Emit(d.b, "return", <<d.r>>)

\* return_ of a variable, the second function, build
Build ==
    /\ phase = "writing"
    /\ \E i \in DOMAIN script.regs :
         /\ source' = finish(MinusFunction(Emit(script.b, "return", <<script.regs[i]>>)), MainName)
         /\ script' = [NoScript EXCEPT !.result = script.vals[i]]
    /\ phase' = "built"
    /\ UNCHANGED <<trusted, wire, damaged, chunk, vm, out, given, others, sent>>

Written == script.result # NoValue

-----------------------------------------------------------------------------
(* Loading.                                                                *)

Pack ==
    /\ phase = "built"
    /\ wire' = encode(source)
    /\ phase' = "packed"
    /\ UNCHANGED <<source, trusted, damaged, chunk, vm, out, given, others, sent, script>>

\* one fault of the medium: the module is cut, extended, or a word reads differently
Harm ==
    /\ phase = "packed" /\ ~damaged /\ ~Written
    /\ \/ \E n \in 0..(Len(wire) - 1) : wire' = SubSeq(wire, 1, n)
       \/ \E w \in Damage : wire' = Append(wire, w)
       \/ \E i \in DOMAIN wire : \E w \in Damage \ {wire[i]} : wire' = [wire EXCEPT ![i] = w]
    /\ damaged' = TRUE
    /\ UNCHANGED <<source, trusted, phase, chunk, vm, out, given, others, sent, script>>

Verified(ch, trust) == IF ch # NoChunk /\ verify_with(ch, trust) THEN ch ELSE NoChunk

\* mutant of Admitted: the module is loaded at the host's trust level
AdmittedAsTrusted(words) == Verified(decode_with(words, TRUE), TRUE)

\* decode_with, then verify_with, at the trust level of the load
Admitted(words) == Verified(decode_with(words, trusted), trusted)

Load ==
    /\ phase = "packed"
    /\ chunk' = Admitted(wire)
    /\ phase' = IF chunk' = NoChunk THEN "refused" ELSE "loaded"
    /\ UNCHANGED <<source, trusted, wire, damaged, vm, out, given, others, sent, script>>

CapsOf(vals) == UNION {CapsIn(vals[i]) : i \in DOMAIN vals}

\* with_native_gate on function 0, then set_quota
Start ==
    /\ phase = "loaded"
    /\ \E args \in Arguments :
         LET r == set_quota([NewMachine(chunk, 0, args, Gate) EXCEPT !.mem = others])
         IN  /\ vm' = r.vm /\ out' = [r EXCEPT !.vm = NoMachine]
             /\ phase' = IF r.k = "go" THEN "running" ELSE "done"
             /\ given' = CapsOf(args)
    /\ UNCHANGED <<loading, others, sent>>

-----------------------------------------------------------------------------
(* Running.                                                                *)

After(r) ==
    CASE r.k \in {"go", "Yield"} -> "running"
      [] r.k \in {"Complete", "Trap"} -> "done"
      [] OTHER -> "effect"

\* the machine goes on with result r
Ran(r) == vm' = r.vm /\ out' = [r EXCEPT !.vm = NoMachine] /\ phase' = After(r)

Step ==
    /\ phase = "running" /\ vm.steps < MaxSteps
    /\ Ran(run_one(chunk, vm))
    /\ sent' = NoHop
    /\ UNCHANGED <<loading, given, others>>

\* the effects the worker answers in a register
Answered == {"Spawn", "SelfPid", "Receive", "Ask", "IsAlive", "Monitor", "Link", "Whereis", "Delegate",
             "TableOpen", "TableGet", "HostAwait", "StartChild"}

\* resume_with: the answer is stored as any other value
Resume(v) ==
    /\ Ran(set_reg(vm, out.dest, v))
    /\ given' = given \cup CapsIn(v)
    /\ UNCHANGED <<loading, others, sent>>

\* the worker hands over a hop the filter lets through, or Unit at the deadline
Hop ==
    /\ phase = "effect" /\ out.k = "Receive"
    /\ \/ \E h \in Hops : HopPasses(out.arg[1], h) /\ Resume(h)
       \/ out.arg[1].timeout >= 0 /\ Resume(Unit)

Reply ==
    /\ phase = "effect" /\ out.k \in Answered \ {"Receive"}
    /\ \E v \in Answers : Resume(v)

\* an effect with no answer: the flow goes on with its next instruction
Proceed ==
    /\ phase = "effect" /\ out.k \notin Answered \cup {"SendRemote"}
    /\ phase' = "running"
    /\ UNCHANGED <<loading, vm, out, given, others, sent>>

\* SendRemote: the hop, stamped, goes to the bridge; a hop that may not leave the
\* node, a missing right or bridge, an empty quota or a full bridge ends the flow
Deliver ==
    /\ phase = "effect" /\ out.k = "SendRemote"
    /\ LET r == DeliveredHop(out.arg[3], FlowId, vm.nextId)
       IN  \/ /\ Deliverable(out.arg[3])
              /\ vm' = [vm EXCEPT !.nextId = r.id]
              /\ sent' = OutboundHop(FlowId, out.arg[1].n, out.arg[2], r.hop)
              /\ phase' = "running"
              /\ UNCHANGED out
           \/ /\ phase' = "done" /\ out' = [out EXCEPT !.k = "Failed"]
              /\ UNCHANGED <<vm, sent>>
    /\ UNCHANGED <<loading, given, others>>

\* the flow's authority is revoked: its native gate is no longer live
Revoke ==
    /\ phase \in {"running", "effect"} /\ vm.gate.live /\ ~Written
    /\ vm' = [vm EXCEPT !.gate.live = FALSE]
    /\ UNCHANGED <<loading, phase, out, given, others, sent>>

\* another flow reserves or releases bytes of the memory budget
OtherFlow ==
    /\ phase \in {"running", "effect"} /\ ~Written
    /\ \E n \in OtherBytes \ {others} :
         /\ vm.used + n <= MemLimit
         /\ others' = n
         /\ vm' = [vm EXCEPT !.mem = @ - others + n]
    /\ UNCHANGED <<loading, phase, out, given, sent>>

Next == Write \/ Build \/ Pack \/ Harm \/ Load \/ Start \/ Step \/ Hop \/ Reply \/ Proceed \/ Deliver \/ Revoke \/ OtherFlow

Spec == Init /\ [][Next]_vars

-----------------------------------------------------------------------------
(* Properties.                                                             *)

Started == phase \in {"running", "effect", "done"}

\* The machine has the shape vm/machine/mod.rs gives it: every frame runs a
\* function of the chunk with that function's register file and the call stack
\* stays under MAX_CALL_DEPTH.
TypeOK ==
    /\ phase \in {"writing", "built", "packed", "loaded", "running", "effect", "done", "refused"}
    /\ Len(vm.frames) <= MaxCallDepth
    /\ \A i \in DOMAIN vm.frames :
          /\ HasFunction(chunk, vm.frames[i].fn)
          /\ Len(vm.frames[i].regs) = Function(chunk, vm.frames[i].fn).regs
          /\ vm.frames[i].dest = -1 <=> i = 1

\* A module that was not damaged decodes to the chunk that was encoded unless the
\* verifier refuses that chunk at the trust level of the load; one that was cut or extended is refused;
\* and whatever is accepted is the encoding of what it was decoded to, up to a
\* newer ABI in the header (format.rs: encode and decode_with are inverse).
DecodingIsExact ==
    /\ phase = "refused" /\ ~damaged => ~verify_with(source, trusted)
    /\ phase = "loaded" =>
          /\ ~damaged => chunk = source
          /\ Len(wire) = Len(encode(chunk))
          /\ \A i \in DOMAIN wire : i # 2 => wire[i] = encode(chunk)[i]
          /\ wire[2] >= encode(chunk)[2]

\* the chunks whose listing the assembler promises to read back: constants without
\* authority, instructions whose unprinted operand fields are unused
Printable(ch) ==
    /\ \A i \in DOMAIN ch.constants : AuthorityFree(ch.constants[i])
    /\ \A at \in DOMAIN ch.code :
          LET ins == ch.code[at]
              d == Display(ins)
          IN  \A f \in {"a", "b", "c", "imm"} :
                f \in {d[i][2] : i \in DOMAIN d} \/ ins[f] = (IF ins.op = "Delegate" /\ f = "c" THEN 255 ELSE 0)

\* a constant whose listing line ends in an empty run of hex digits
RECURSIVE EndsInNothing(_)
EndsInNothing(v) == (v.t = "Bytes" /\ v.n = 0) \/ (v.t = "Msg" /\ EndsInNothing(v.s[1]))

\* The listing of a chunk assembles to that chunk again (disasm.rs, asm.rs), for
\* every chunk with no empty Bytes constant.
ListingReadsBack ==
    phase = "loaded" /\ Printable(chunk)
    /\ (\A i \in DOMAIN chunk.constants : ~EndsInNothing(chunk.constants[i]))
        => assemble(disassemble(chunk)) = chunk

\* A verified chunk never leaves the function it is in except by a call or a
\* return: every frame's program counter is inside the span of its function or at
\* the end of the code; only a flow that ended may have fetched the last
\* instruction of its function (verify.rs: JumpOutOfRange, FallThrough).
PcStaysInItsFunction ==
    Started =>
        \A i \in DOMAIN vm.frames :
            LET pc == vm.frames[i].pc
                start == Function(chunk, vm.frames[i].fn).entry
                over == IF phase = "done" /\ i = Len(vm.frames) THEN 1 ELSE 0
            IN  pc = CodeLen(chunk) \/ pc \in start..(exclusive_end(chunk, start) - 1 + over)

\* What the verifier checked cannot fail at run time: a verified chunk reaches no
\* missing constant, function or jump target, no arity mismatch, and no argument
\* window of a call or a spawn outside the caller's registers.
VerifiedNeverFails ==
    phase = "done" /\ out.k = "Trap" =>
        /\ out.fault \notin {"BadConstant", "BadFunction", "BadArity", "BadJump"}
        /\ out.fault = "RegisterOutOfRange" =>
              CodeAt(chunk, Top(vm).pc - 1).op \notin {"Call", "TailCall", "Spawn"}

\* The quota holds exactly what the flow can reach: each frame's charge is the sum
\* over its registers, the dictionary's the sum over its entries, and the quota and
\* the memory budget hold those and nothing else, through calls, tail calls,
\* refused stores and dictionary moves (vm/machine/heap.rs, set_reg, pop_frame).
ChargesAreExact ==
    Started =>
        LET frames == SumOver([i \in DOMAIN vm.frames |-> vm.frames[i].charge])
            kept == IF out.k = "Complete" /\ vm.frames = <<>> THEN heap_charge_of(out.arg[1]) ELSE 0
        IN  /\ \A i \in DOMAIN vm.frames : vm.frames[i].charge = ArgCharge(vm.frames[i].regs)
            /\ vm.dictBytes = SumOver([i \in 1..Cardinality(DOMAIN vm.dict) |->
                                  dict_owned_bytes(vm.dict[SetToSeq(DOMAIN vm.dict)[i]])])
            /\ vm.used = frames + vm.dictBytes + kept
            /\ vm.mem = vm.used + others
            /\ vm.used <= QuotaLimit /\ vm.mem <= MemLimit

\* A flow loaded below Trusted holds no capability it was not given: whatever its
\* code computes, every live token in its registers and its dictionary came from
\* its arguments or from an answer of the runtime.
CapabilitiesAreGiven ==
    Started /\ ~trusted =>
        /\ \A i \in DOMAIN vm.frames : CapsOf(vm.frames[i].regs) \subseteq given
        /\ \A k \in DOMAIN vm.dict : CapsIn(vm.dict[k]) \subseteq given

RECURSIVE Envelopes(_)
Envelopes(v) ==
    (IF v.t = "Msg" THEN {v} ELSE {}) \cup UNION {Envelopes(Children(v)[i]) : i \in DOMAIN Children(v)}

\* No hop leaves the node with an open envelope: every envelope in a hop on the
\* bridge, however nested, names a sender and a request id, the outer one this
\* flow, and an id minted for it is below the flow's counter, so that no later hop
\* repeats it (distribution.rs: deliver; value.rs: stamp_unset_envelopes).
HopsAreStamped ==
    sent # NoHop =>
        /\ sent.message.s[2] = Pid(FlowId)
        /\ \A e \in Envelopes(sent.message) :
              /\ e.s[2].n # 0 /\ e.d # 0
              /\ e.d < vm.nextId \/ \E f \in Envelopes(out.arg[3]) : f.d = e.d

\* A frame carries its hop whole and nothing else: what encode_frame accepts decodes
\* to that very hop, no authority of this node is in it, a frame that was cut or
\* extended is refused, and two frames on one stream are read back as those two
\* while a datagram holding both is refused (distribution.rs: "Inverse of
\* [`encode_frame`]", "No capability leaves the node").
FramesReadBack ==
    LET frame == encode_frame(sent)
        packet == encode_wire_bytes(frame)
        first == read_wire_frame(packet \o packet, 0)
        cuts == {SubSeq(frame, 1, n) : n \in 0..(Len(frame) - 1)}
    IN  sent # NoHop /\ frame # <<>> =>
            /\ decode_frame(frame) = sent
            /\ CapsIn(sent.message) = {} /\ ~ContainsTag(sent.message, "Pid")
            /\ \A f \in cuts \cup {Append(frame, w) : w \in Damage} : decode_frame(f) = NoHop
            /\ packet # <<>> =>
                  /\ first.ok /\ first.v = frame /\ first.pos = Len(packet)
                  /\ read_wire_frame(packet \o packet, first.pos).v = frame
                  /\ decode_wire_bytes(packet).v = frame
                  /\ ~decode_wire_bytes(packet \o packet).ok

\* A program written with Program and Fn does what its calls say: with room for its
\* variables it loads and returns the value of the variable it was told to return,
\* through every call window, pack, loop, label and hop; without room, or with a
\* pack of registers that are not next to each other, it is refused or traps, and
\* never completes with something else (program.rs: "Fail-closed pack: Trap so the
\* VM never runs a half-built Call/Spawn").
WrittenCodeMeansItsScript ==
    Written =>
        LET open == \E i \in DOMAIN source.code : source.code[i].op = "Trap"
        IN  /\ phase = "refused" => open
            /\ phase = "done" =>
                  IF out.k = "Complete" THEN ~open /\ out.arg[1] = script.result
                  ELSE open \/ out.fault = "QuotaExceeded"

\* the interpreter's results after 0, 1, ... n instructions, up to the first that
\* is not "go"
RECURSIVE Interpreted(_, _, _)
Interpreted(ch, r, n) ==
    IF n = 0 \/ r.k # "go" THEN <<r>> ELSE <<r>> \o Interpreted(ch, run_one(ch, r.vm), n - 1)

\* the assignments a trace's block makes, and a copy whose source the block assigns
\* again or that is its own source
Assigns(ch, pc, r) == CodeAt(ch, pc).op \in LeafOps \ {"Nop"} /\ CodeAt(ch, pc).a = r
CopyIsStable(ch, pcs, i) ==
    LET ins == CodeAt(ch, pcs[i])
    IN  ins.op = "Move" /\ (\A k \in 1..(i - 1) : ~Assigns(ch, pcs[k], ins.b)) =>
            \A k \in i..Len(pcs) : ~Assigns(ch, pcs[k], ins.b)

\* the regions a trace is exact on: one return register when nothing in it calls,
\* and no copy of a register that the same block assigns later
RegionIsExact(c) ==
    LET returns == {pc \in UNION {ToSet(c.blocks[b]) : b \in DOMAIN c.blocks} : CodeAt(c.chunk, pc).op = "Return"}
    IN  /\ c.calls \/ Cardinality({CodeAt(c.chunk, pc).a : pc \in returns}) <= 1
        /\ \A b \in DOMAIN c.blocks : \A i \in DOMAIN c.blocks[b] : CopyIsStable(c.chunk, c.blocks[b], i)

\* the runs it is exact on: operands of the types and registers the interpreter
\* accepts, comparisons of two values of one type, calls within MAX_CALL_DEPTH
Comparable(ch, v) ==
    LET ins == CodeAt(ch, Top(v).pc)
    IN  Top(v).pc < CodeLen(ch) =>
            /\ ins.op = "Eq" => HasReg(v, ins.b) /\ HasReg(v, ins.c) /\ Reg(v, ins.b).t = Reg(v, ins.c).t
            /\ ins.op = "EqImm" => HasReg(v, ins.b) /\ Reg(v, ins.b).t = "Int"
RunIsTyped(ch, ref) ==
    \A i \in DOMAIN ref :
        /\ ref[i].k = "Trap" => ref[i].fault \notin {"TypeMismatch", "RegisterOutOfRange", "CallStackOverflow"}
        /\ ref[i].k = "go" => Comparable(ch, ref[i].vm)

SameOutcome(p, r) ==
    IF p.k = "Trap" THEN r.k = "Trap" /\ r.fault = p.fault
    ELSE /\ r.k = (IF p.k = "Yield" THEN "go" ELSE p.k) /\ r.arg = p.arg
         /\ [r.vm EXCEPT !.steps = 0] = [p.vm EXCEPT !.steps = 0]

TraceMatches(p, ref) ==
    p.hit /\ RunIsTyped(chunk, ref) /\ RegionIsExact(p.trace) =>
        \E i \in DOMAIN ref : SameOutcome(p.result, ref[i]) /\ (p.result.k = "Trap" \/ p.spent \in {i - 1, i})

\* A trace does what the interpreter does: wherever a worker may probe one, and
\* whatever is left of its slice, the frames, the registers with their tags, the
\* result or the fault are those the interpreter reaches in the instructions the
\* trace reports, or one fewer when it stops at a call it leaves to the interpreter
\* (jit/parity.rs: "the observable `VmResult` still has to match").
TracesMatch ==
    phase = "running" /\ others = 0 =>
        \A n \in Slices :
            TraceMatches(try_jit_step(chunk, vm, n), Interpreted(chunk, Go(vm), n))

\* Both written forms of a chunk read back: the module and the listing.
ModulesReadBack == DecodingIsExact /\ ListingReadsBack

\* What the verifier accepted runs inside its frames, its functions and its pools.
VerifiedIsSafe == TypeOK /\ PcStaysInItsFunction /\ VerifiedNeverFails

\* A hop that leaves the node is closed, and arrives as it left.
HopsReadBack == HopsAreStamped /\ FramesReadBack
=============================================================================
