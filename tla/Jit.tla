-------------------------------- MODULE Jit ---------------------------------
(***************************************************************************)
(* The trace compiler (jit/compiler.rs, jit/call.rs) and the way a worker  *)
(* runs a trace in place of the interpreter (jit/dispatch.rs, frame.rs,    *)
(* exit.rs).                                                               *)
(*                                                                         *)
(* A trace is a region of basic blocks.  It runs on a native frame:        *)
(*   slots    the raw words of the registers: an Int, or a Float's bits    *)
(*   tag      the tag each word is to be written back with, "None" for a   *)
(*            register the trace did not write (the words written,         *)
(*            as_bool, as_unit and as_float)                               *)
(*   entry    the tags the registers had when the trace was entered        *)
(*   map      RegisterMap: what the block computed, [v, tag, src] with tag *)
(*            "Inherited" for a copy of a register the block did not set   *)
(*   at, i    the block and the position in it                             *)
(*   fn, regs the function and its register count                          *)
(*   calls    the call records with the windows they spilled               *)
(*   budget   instructions left;  exit  why the trace stopped              *)
(***************************************************************************)
EXTENDS Machine

CONSTANTS
    MaxTrace,        \* MAX_TRACE_LENGTH
    MaxLeaf,         \* MAX_LEAF_INSNS
    MaxJitCallDepth  \* MAX_JIT_CALL_DEPTH

ASSUME JitAssumption == {MaxTrace, MaxLeaf, MaxJitCallDepth} \subseteq Nat \ {0}

-----------------------------------------------------------------------------
(* The region.                                                             *)

Bitwises == {"BitAnd", "BitOr", "BitXor", "BitNot", "Shl", "Shr"}

\* the opcodes of a straight-line leaf, and all that emit_instruction lowers
LeafOps == {"LoadImm", "LoadConst", "Move", "AddImm", "SubImm", "MulImm", "EqImm", "LtImm", "LeImm",
            "Add", "Sub", "Mul", "Div", "Mod", "Neg", "Eq", "Lt", "Le", "Nop"} \cup Bitwises
Lowered == LeafOps \cup {"Jump", "Branch", "Return", "Call"}
Unlowered == {"Ne", "Gt", "Ge", "NeImm", "GtImm", "GeImm", "Ushr", "BranchTrue", "StrLen", "BytesLen", "TailCall"}
is_effect_opcode(op) == op \notin Lowered \cup Unlowered

ConstantIs(ch, i, types) == HasConstant(ch, i) /\ Constant(ch, i).t \in types

\* the instructions a block takes in; the others end it
Taken(ch, floats, ins) ==
    /\ ~is_effect_opcode(ins.op)
    /\ ins.op = "LoadConst" => ConstantIs(ch, ins.imm, IF floats THEN {"Float"} ELSE {"Int", "Bool"})
    /\ floats => ins.op \notin {"LoadImm", "Call", "Mod", "EqImm"} \cup Bitwises

RECURSIVE Block(_, _, _, _)
Block(ch, floats, pc, room) ==
    IF pc \notin 0..(CodeLen(ch) - 1) \/ ~Taken(ch, floats, CodeAt(ch, pc)) THEN <<>>
    ELSE IF room = 1 \/ CodeAt(ch, pc).op \in {"Return", "Jump", "Branch", "Call"} THEN <<pc>>
    ELSE <<pc>> \o Block(ch, floats, pc + 1, room - 1)

jump_target(ch, pc) == pc + 1 + CodeAt(ch, pc).imm

\* the block starts an instruction adds to the queue
Successors(ch, pc) ==
    LET ins == CodeAt(ch, pc)
    IN  CASE ins.op = "Jump" -> <<jump_target(ch, pc)>>
          [] ins.op = "Branch" -> <<pc + 1, jump_target(ch, pc)>>
          [] ins.op = "Call" /\ HasFunction(ch, ins.imm) -> <<Function(ch, ins.imm).entry, pc + 1>>
          [] ins.op = "Call" -> <<pc + 1>>
          [] OTHER -> <<>>

RECURSIVE Collect(_, _, _, _, _)
Collect(ch, floats, queue, seen, blocks) ==
    LET total == SumOver([i \in DOMAIN blocks |-> Len(blocks[i])])
        pcs == Block(ch, floats, Head(queue), MaxTrace - total)
        next == IF pcs = <<>> \/ total + Len(pcs) >= MaxTrace THEN <<>> ELSE Successors(ch, Last(pcs))
    IN  IF queue = <<>> THEN blocks
        ELSE IF Head(queue) \in seen THEN Collect(ch, floats, Tail(queue), seen, blocks)
        ELSE IF total >= MaxTrace THEN blocks
        ELSE Collect(ch, floats, Tail(queue) \o next, seen \cup {Head(queue)},
                     IF pcs = <<>> THEN blocks ELSE Append(blocks, pcs))
collect_trace_region(ch, floats, entry) == Collect(ch, floats, <<entry>>, {}, <<>>)

\* leaf_body: the instructions of a function that runs straight to a return, or <<>>
RECURSIVE LeafFrom(_, _, _)
LeafFrom(ch, pc, pcs) ==
    LET ins == CodeAt(ch, pc)
    IN  IF Len(pcs) >= MaxLeaf \/ pc >= CodeLen(ch) \/ (pcs # <<>> /\ pc \in {e \in Entries(ch) : e > pcs[1]})
        THEN <<>>
        ELSE IF ins.op = "Return" THEN Append(pcs, pc)
        ELSE IF ins.op \in LeafOps /\ (ins.op = "LoadConst" => ConstantIs(ch, ins.imm, {"Int", "Bool"}))
        THEN LeafFrom(ch, pc + 1, Append(pcs, pc))
        ELSE <<>>
leaf_body(ch, fn) == IF HasFunction(ch, fn) THEN LeafFrom(ch, Function(ch, fn).entry, <<>>) ELSE <<>>

\* compile_trace: the blocks by their start, whether the region has calls, the
\* instructions whose budget their call pays, the return its return block names
compile_trace(ch, fn, floats, entry) ==
    LET region == collect_trace_region(ch, floats, entry)
        pcs == FlattenSeq(region)
        calls == {pc \in ToSet(pcs) : CodeAt(ch, pc).op = "Call"}
        returns == {i \in DOMAIN pcs : CodeAt(ch, pcs[i]).op = "Return"}
        paid == {pc \in calls : HasFunction(ch, CodeAt(ch, pc).imm)
                                       /\ CodeAt(ch, pc).b = Function(ch, CodeAt(ch, pc).imm).arity}
    IN  [ok |-> HasFunction(ch, fn) /\ region # <<>> /\ \A i \in DOMAIN pcs : CodeAt(ch, pcs[i]).op \in Lowered,
         chunk |-> ch, floats |-> floats, entry |-> entry,
         blocks |-> [start \in {region[i][1] : i \in DOMAIN region} |->
                        region[CHOOSE i \in DOMAIN region : region[i][1] = start]],
         calls |-> calls # {},
         skip |-> UNION {ToSet(leaf_body(ch, CodeAt(ch, pc).imm)) : pc \in paid},
         ret |-> IF returns = {} THEN entry ELSE pcs[Max(returns)]]

-----------------------------------------------------------------------------
(* Slots and tags.                                                         *)

NoExit == [kind |-> "none", pc |-> 0, reg |-> 0]
Exit(j, kind, pc, reg) == [j EXCEPT !.exit = [kind |-> kind, pc |-> pc, reg |-> reg]]

\* a word of the slot file, and a word read as an f64: a small integer's bits are
\* those of a denormal
SlotWord(v) == IF v.t = "Float" THEN v ELSE I64(v.n)
f64_bits(w) == IF w.t = "Float" THEN w ELSE Float(w.n, 2 ^ Width)
IsZero(w) == w.n = 0 /\ w.d # 0

\* tagged_value: a word as the value its tag says
tagged_value(w, tag) ==
    CASE tag = "Unit" -> Unit
      [] tag = "Bool" -> Bool(~IsZero(w))
      [] tag = "Float" -> f64_bits(w)
      [] OTHER -> I64(w.n)

\* inherited_bit: the tag this run stored, else the one at entry
inherited(j, r) == IF j.tag[r] = "None" THEN j.entry[r] ELSE j.tag[r]

\* store_slot: `written` is set before an inherited tag is read
store_slot(j, r, e) ==
    LET marked == IF j.tag[r] = "None" THEN [j EXCEPT !.tag[r] = "Int"] ELSE j
    IN  [marked EXCEPT !.slots[r] = e.v,
                       !.tag[r] = IF e.tag = "Inherited" THEN inherited(marked, e.src) ELSE e.tag]

\* flush_registers: what the block computed, in the order of the registers
RECURSIVE FlushFrom(_, _)
FlushFrom(j, r) ==
    IF r \notin DOMAIN j.slots THEN j
    ELSE FlushFrom(IF r \in DOMAIN j.map THEN store_slot(j, r, j.map[r]) ELSE j, r + 1)
flush_registers(j) == FlushFrom(j, 0)

load_reg(j, r) == IF r \in DOMAIN j.map THEN j.map[r].v ELSE j.slots[r]
define(j, r, v, tag, src) == [j EXCEPT !.map = (r :> [v |-> v, tag |-> tag, src |-> src]) @@ @]
defined_tag(j, r) == IF r \in DOMAIN j.map THEN j.map[r].tag ELSE "Inherited"
TagSource(j, r) == IF r \in DOMAIN j.map THEN j.map[r].src ELSE r

-----------------------------------------------------------------------------
(* Instructions.                                                           *)

\* two words as integers that wrap, and as the floats their bits are
int_binop(op, x, y) == IF op = "Eq" THEN Bool(x.n = y.n) ELSE IntOp(op, x.n, y.n)
float_binop(op, x, y) ==
    IF op = "Eq" THEN Bool(FEq(f64_bits(x), f64_bits(y))) ELSE FloatOp(op, f64_bits(x), f64_bits(y))

\* what an instruction computes
Lower(c, j, ins) ==
    LET op == IF ins.op \in DOMAIN ImmOp THEN ImmOp[ins.op] ELSE ins.op
        x == load_reg(j, ins.b)
        y == IF ins.op \in DOMAIN ImmOp THEN (IF c.floats THEN Float(ins.imm, 1) ELSE I64(ins.imm))
             ELSE load_reg(j, ins.c)
    IN  CASE op = "LoadImm" -> I64(ins.imm)
          [] op = "LoadConst" -> Constant(c.chunk, ins.imm)
          [] op = "Neg" -> IF c.floats THEN FNeg(f64_bits(x)) ELSE IntOp("Sub", 0, x.n)
          [] op = "BitNot" -> I64(-1 - x.n)
          [] op \in Bitwises -> I64(BitOp(op, x.n, y.n))
          [] OTHER -> IF c.floats THEN float_binop(op, x, y) ELSE int_binop(op, x, y)

\* branch_to_pc: the block at `pc`, or a side exit
Goto(c, j, pc) ==
    IF pc \in DOMAIN c.blocks THEN [j EXCEPT !.at = pc, !.i = 1, !.map = <<>>]
    ELSE Exit(j, "Continue", pc, 0)

\* Branch: zero is falsy unless the word is a float
Falsy(j, flushed, r) ==
    IF defined_tag(j, r) = "Inherited"
    THEN IsZero(load_reg(j, r)) /\ inherited(flushed, TagSource(j, r)) # "Float"
    ELSE IsZero(load_reg(j, r)) /\ defined_tag(j, r) # "Float"

\* Div and Mod on integers: the zero divisor leaves through the trap
Divide(c, j, pc, ins) ==
    IF IsZero(load_reg(j, ins.c)) THEN Exit(j, "Trap", pc, 0)
    ELSE LET v == Lower(c, j, ins) IN define(j, ins.a, SlotWord(v), v.t, 0)

\* the window and the tags are spilled; the callee starts with its arguments, and
\* Unit in every other register
Enter(j, pc, ins, def) ==
    [j EXCEPT !.slots = [r \in DOMAIN @ |->
                            IF r < ins.b THEN j.slots[ins.a + r] ELSE IF r < def.regs THEN I64(0) ELSE @[r]],
              !.tag = [r \in DOMAIN @ |-> IF r < ins.b THEN inherited(j, ins.a + r)
                                          ELSE IF r < def.regs THEN "Unit" ELSE "None"],
              !.calls = Append(@, [pc |-> pc + 1, fn |-> j.fn, dest |-> ins.a, regs |-> j.regs,
                                   slots |-> j.slots, tag |-> j.tag]),
              !.fn = ins.imm, !.regs = def.regs]

\* emit_call: a callee outside the region, a full stack or a leaf the budget cannot
\* finish is left to the interpreter, at the call; a leaf is paid for at once
emit_call(c, j, pc, ins) ==
    LET def == Function(c.chunk, ins.imm)
        leaf == Len(leaf_body(c.chunk, ins.imm))
    IN  IF ~HasFunction(c.chunk, ins.imm) \/ ins.b # def.arity \/ def.entry \notin DOMAIN c.blocks
        THEN Exit(j, "Continue", pc, 0)
        ELSE IF Len(j.calls) >= MaxJitCallDepth THEN Exit([j EXCEPT !.budget = @ + 1], "Continue", pc, 0)
        ELSE IF j.budget < leaf THEN Exit(j, "Continue", pc, 0)
        ELSE Goto(c, Enter([j EXCEPT !.budget = @ - leaf], pc, ins, def), def.entry)

\* emit_return: out of the trace, or back into the caller's window with the result
emit_return(c, j, pc, r) ==
    LET rec == Last(j.calls)
    IN  IF j.calls = <<>> THEN Exit(j, "Return", pc, r)
        ELSE Goto(c, [j EXCEPT
                 !.slots = [[k \in DOMAIN @ |-> IF k < rec.regs THEN rec.slots[k] ELSE @[k]]
                               EXCEPT ![rec.dest] = j.slots[r]],
                 !.tag = [rec.tag EXCEPT ![rec.dest] = IF j.tag[r] = "None" THEN "Int" ELSE j.tag[r]],
                 !.fn = rec.fn, !.regs = rec.regs, !.calls = Front(@)], rec.pc)

\* Return: through the region's one return block when nothing in it calls
ReturnFrom(c, j0, pc, ins) ==
    LET j == IF ins.a \in DOMAIN j0.map THEN store_slot(j0, ins.a, j0.map[ins.a]) ELSE j0
    IN  IF c.calls THEN emit_return(c, j, pc, ins.a)
        ELSE Exit(j, "Return", c.ret, CodeAt(c.chunk, c.ret).a)

\* what leaves the block, and a division, is emitted after a flush
emit_instruction(c, j, pc, ins) ==
    LET v == Lower(c, j, ins)
        f == flush_registers(j)
    IN  CASE ins.op = "Nop" -> j
          [] ins.op = "Move" -> define(j, ins.a, load_reg(j, ins.b), defined_tag(j, ins.b), TagSource(j, ins.b))
          [] ins.op = "Jump" -> Goto(c, f, jump_target(c.chunk, pc))
          [] ins.op = "Branch" -> Goto(c, f, IF Falsy(j, f, ins.a) THEN jump_target(c.chunk, pc) ELSE pc + 1)
          [] ins.op = "Return" -> ReturnFrom(c, j, pc, ins)
          [] ins.op = "Call" -> emit_call(c, f, pc, ins)
          [] ins.op \in {"Div", "Mod"} /\ ~c.floats -> Divide(c, f, pc, ins)
          [] OTHER -> define(j, ins.a, SlotWord(v), v.t, 0)

\* mutant of emit_budget_tick: what the block computed is not stored first
TickUnflushed(j, pc) ==
    IF j.budget = 0 THEN Exit(j, "Budget", pc, 0) ELSE [j EXCEPT !.budget = @ - 1]

emit_budget_tick(j, pc) ==
    LET f == flush_registers(j)
    IN  IF f.budget = 0 THEN Exit(f, "Budget", pc, 0) ELSE [f EXCEPT !.budget = @ - 1]

\* the compiled code: block after block until it exits
RECURSIVE RunFrom(_, _)
RunFrom(c, j) ==
    LET pcs == c.blocks[j.at]
        pc == pcs[j.i]
        t == IF pc \in c.skip THEN j ELSE emit_budget_tick(j, pc)
    IN  IF j.exit # NoExit THEN j
        ELSE IF j.i > Len(pcs) THEN Exit(flush_registers(j), "Continue", Last(pcs) + 1, 0)
        ELSE IF t.exit # NoExit THEN t
        ELSE RunFrom(c, emit_instruction(c, [t EXCEPT !.i = @ + 1], pc, CodeAt(c.chunk, pc)))

-----------------------------------------------------------------------------
(* A worker's side.                                                        *)

\* sync_slots_from_vm: integers or floats, not both, and nothing else but Bool and Unit
SlotKind(vm) ==
    LET types == {v.t : v \in ToSet(Top(vm).regs)}
    IN  IF types \subseteq {"Int", "Bool", "Unit"} THEN "Ok"
        ELSE IF types \subseteq {"Float", "Bool", "Unit"} THEN "Float" ELSE "Deopt"

\* slot_capacity
Capacity(ch) == Max({Function(ch, i).regs : i \in 0..(Len(ch.functions) - 1)})

\* run_compiled_trace_with_tags
run_compiled_trace(c, vm, budget) ==
    LET regs == Top(vm).regs
        held(r) == r < Len(regs)
    IN  RunFrom(c, [slots |-> [r \in 0..(Capacity(c.chunk) - 1) |-> IF held(r) THEN SlotWord(regs[r + 1]) ELSE I64(0)],
                    tag |-> [r \in 0..(Capacity(c.chunk) - 1) |-> "None"],
                    entry |-> [r \in 0..(Capacity(c.chunk) - 1) |-> IF held(r) THEN regs[r + 1].t ELSE "Int"],
                    map |-> <<>>, at |-> c.entry, i |-> 1, fn |-> Top(vm).fn, regs |-> Len(regs),
                    calls |-> <<>>, budget |-> budget, exit |-> NoExit])

\* sync_slots_tagged, written_updates: only the registers the trace wrote
WriteBack(regs, slots, tag) ==
    [i \in DOMAIN regs |-> IF tag[i - 1] = "None" THEN regs[i] ELSE tagged_value(slots[i - 1], tag[i - 1])]
sync_slots_tagged(vm, j) == WithTop(vm, [Top(vm) EXCEPT !.regs = WriteBack(@, j.slots, j.tag)])

\* apply_exit_tagged, and what finish_probe makes of it
apply_exit_tagged(vm, j) ==
    LET at == set_pc(vm, j.exit.pc)
        synced == sync_slots_tagged(vm, j)
    IN  CASE j.exit.kind = "Return" ->
               IF HasReg(synced, j.exit.reg)
               THEN pop_frame(set_pc(synced, Top(vm).pc + 1), Reg(synced, j.exit.reg))
               ELSE TrapWith(synced, "RegisterOutOfRange")
          [] j.exit.kind = "Trap" -> TrapWith(at, "DivideByZero")
          [] j.exit.kind = "Budget" -> Answer(sync_slots_tagged(at, j), "Yield", 0, <<>>)
          [] j.exit.kind = "Continue" -> Go(sync_slots_tagged(at, j))

\* install_unwind, install_jit_frames: the caller's registers, then a frame for
\* each activation the trace is inside of
Units(n) == [i \in 1..n |-> Unit]
install_unwind(vm, j) ==
    LET rec == j.calls[1]
        caller == WithTop(vm, [Top(vm) EXCEPT !.pc = rec.pc, !.regs = WriteBack(@, rec.slots, rec.tag)])
        frame(i) == IF i = Len(j.calls)
                    THEN Frame(j.fn, j.exit.pc, WriteBack(Units(j.regs), j.slots, j.tag), j.calls[i].dest)
                    ELSE LET r == j.calls[i + 1]
                         IN  Frame(r.fn, r.pc, WriteBack(Units(r.regs), r.slots, r.tag), j.calls[i].dest)
        installed == [caller EXCEPT !.frames = @ \o [i \in DOMAIN j.calls |-> frame(i)]]
    IN  IF Len(vm.frames) + Len(j.calls) > MaxCallDepth THEN TrapWith(vm, "CallStackOverflow")
        ELSE CASE j.exit.kind = "Trap" -> TrapWith(installed, "DivideByZero")
               [] j.exit.kind = "Budget" -> Answer(installed, "Yield", 0, <<>>)
               [] j.exit.kind = "Return" -> TrapWith(installed, "Invariant")
               [] OTHER -> Go(installed)

\* finish_probe
finish_probe(vm, j) == IF j.calls = <<>> THEN apply_exit_tagged(vm, j) ELSE install_unwind(vm, j)

\* try_jit_step_runtime at a hot pc: the registers decide the kind of the trace; a
\* region that does not compile is a miss
NoProbe == [hit |-> FALSE, spent |-> 0, result |-> NoExit, trace |-> NoExit]
Probed(c, vm, budget, j) ==
    [hit |-> TRUE, spent |-> budget - j.budget, result |-> finish_probe(vm, j), trace |-> c]
Probe(c, vm, budget) ==
    IF c.ok THEN Probed(c, vm, budget, run_compiled_trace(c, vm, budget)) ELSE NoProbe
try_jit_step(ch, vm, budget) ==
    IF SlotKind(vm) = "Deopt" THEN NoProbe
    ELSE Probe(compile_trace(ch, Top(vm).fn, SlotKind(vm) = "Float", Top(vm).pc), vm, budget)
=============================================================================
