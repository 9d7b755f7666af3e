------------------------------ MODULE Machine -------------------------------
(***************************************************************************)
(* The register interpreter (vm/machine/mod.rs, vm/machine/heap.rs,        *)
(* vm/frame.rs, vm/native.rs, vm/result.rs).                               *)
(*                                                                         *)
(* A machine is a record:                                                  *)
(*   frames   the call stack, each [fn, pc, regs, dest, charge]; dest is   *)
(*            the caller's register, -1 for the outermost frame            *)
(*   steps    instructions_executed                                        *)
(*   nextId   next_request_id                                              *)
(*   dict     the process dictionary, dictBytes its charge                 *)
(*   used     bytes reserved on the flow's quota                           *)
(*   mem      bytes reserved on the runtime's memory budget, all flows     *)
(*   gate     the native gate: [live, right, mask]                         *)
(* Every operator of an opcode takes the chunk, the machine after the      *)
(* fetch and the instruction, and gives [vm, k, dest, fault, arg]: the     *)
(* machine, "go" when the loop continues or the VmResult it returns, the   *)
(* register the scheduler answers in, the fault and the operands.          *)
(***************************************************************************)
EXTENDS Bytecode, Bitwise, TLC

CONSTANTS
    MaxCallDepth,  \* MAX_CALL_DEPTH
    QuotaLimit,    \* the flow's max_heap
    MemLimit,      \* the runtime's memory budget
    NumNatives     \* natives.len()

ASSUME MachineAssumption ==
    {MaxCallDepth, QuotaLimit, MemLimit, NumNatives} \subseteq Nat /\ MaxCallDepth > 0

-----------------------------------------------------------------------------
(* Results.                                                                *)

Answer(vm, k, dest, arg) == [vm |-> vm, k |-> k, dest |-> dest, fault |-> "none", arg |-> arg]
Go(vm) == Answer(vm, "go", 0, <<>>)
TrapWith(vm, fault) == [vm |-> vm, k |-> "Trap", dest |-> 0, fault |-> fault, arg |-> <<>>]

-----------------------------------------------------------------------------
(* Frames, registers and their heap charge.                                *)

Frame(fn, pc, regs, dest) == [fn |-> fn, pc |-> pc, regs |-> regs, dest |-> dest, charge |-> 0]

Top(vm) == vm.frames[Len(vm.frames)]
WithTop(vm, f) == [vm EXCEPT !.frames[Len(vm.frames)] = f]
set_pc(vm, pc) == WithTop(vm, [Top(vm) EXCEPT !.pc = pc])
HasReg(vm, r) == r \in 0..(Len(Top(vm).regs) - 1)
Reg(vm, r) == Top(vm).regs[r + 1]

\* charge_pair: the quota, then the budget; a refused budget gives the quota back
CanCharge(vm, n) == n = 0 \/ (vm.used + n <= QuotaLimit /\ vm.mem + n <= MemLimit)
charge_pair(vm, n) == [vm EXCEPT !.used = @ + n, !.mem = @ + n]
release_pair(vm, n) == [vm EXCEPT !.used = @ - n, !.mem = @ - n]

\* set_reg: the slot first, then the difference between what it held and the value
Recharge(vm, r, v, old, new) ==
    LET f == Top(vm)
        stored == [f EXCEPT !.charge = @ + new - old, !.regs[r + 1] = v]
    IN  IF old < 0 \/ new < 0 \/ ~CanCharge(vm, IF new > old THEN new - old ELSE 0)
        THEN TrapWith(vm, "QuotaExceeded")
        ELSE Go(WithTop([vm EXCEPT !.used = @ + new - old, !.mem = @ + new - old], stored))
set_reg(vm, r, v) ==
    IF ~HasReg(vm, r) THEN TrapWith(vm, "RegisterOutOfRange")
    ELSE Recharge(vm, r, v, heap_charge_of(Reg(vm, r)), heap_charge_of(v))

\* the arm of an opcode that reads registers and stores one value:
\* `when` lists its checks in order, each <<holds, fault>>
Compute(vm, r, when, v) ==
    LET bad == SelectSeq(when, LAMBDA w : ~w[1])
    IN  IF bad # <<>> THEN TrapWith(vm, bad[1][2]) ELSE set_reg(vm, r, v)

\* reads that must be in range
InRange(vm, regs) == <<\A r \in regs : HasReg(vm, r), "RegisterOutOfRange">>
Typed(vm, r, types) == <<HasReg(vm, r) => Reg(vm, r).t \in types, "TypeMismatch">>

-----------------------------------------------------------------------------
(* Loads and arithmetic.                                                   *)

LoadConst(ch, vm, ins) ==
    IF HasConstant(ch, ins.imm) THEN set_reg(vm, ins.a, Constant(ch, ins.imm))
    ELSE TrapWith(vm, "BadConstant")
LoadImm(ch, vm, ins) == set_reg(vm, ins.a, I64(ins.imm))
Move(ch, vm, ins) ==
    IF ins.a = ins.b THEN Go(vm)
    ELSE IF HasReg(vm, ins.b) THEN set_reg(vm, ins.a, Reg(vm, ins.b))
    ELSE TrapWith(vm, "RegisterOutOfRange")

as_f64(v) == IF v.t = "Int" THEN Float(v.n, 1) ELSE v

\* what an arithmetic or ordering operator gives on two ints, on two floats
IntOp(op, x, y) ==
    CASE op = "Add" -> I64(Wrap(x + y))
      [] op = "Sub" -> I64(Wrap(x - y))
      [] op = "Mul" -> I64(Wrap(x * y))
      [] op = "Div" -> I64(TruncDiv(x, y))
      [] op = "Mod" -> I64(TruncRem(x, y))
      [] op = "Lt" -> Bool(x < y)
      [] op = "Le" -> Bool(x <= y)
      [] op = "Gt" -> Bool(x > y)
      [] op = "Ge" -> Bool(x >= y)
FloatOp(op, x, y) ==
    CASE op = "Add" -> FAdd(x, y)
      [] op = "Sub" -> FSub(x, y)
      [] op = "Mul" -> FMul(x, y)
      [] op = "Div" -> FDiv(x, y)
      [] op = "Lt" -> Bool(FLt(x, y))
      [] op = "Le" -> Bool(FLe(x, y))
      [] op = "Gt" -> Bool(FLt(y, x))
      [] op = "Ge" -> Bool(FLe(y, x))

\* the fault of a numeric operator on two values, "none" when it has a result
BinopFault(op, a, b) ==
    CASE op \in {"Eq", "Ne"} -> "none"
      [] a.t \notin {"Int", "Float"} \/ b.t \notin {"Int", "Float"} -> "TypeMismatch"
      [] op \in {"Div", "Mod"} /\ a.t = "Int" /\ b.t = "Int" /\ b.n = 0 -> "DivideByZero"
      [] op = "Mod" /\ ~(a.t = "Int" /\ b.t = "Int") -> "TypeMismatch"
      [] OTHER -> "none"
BinopValue(op, a, b) ==
    CASE op = "Eq" -> Bool(ValueEq(a, b))
      [] op = "Ne" -> Bool(~ValueEq(a, b))
      [] a.t = "Int" /\ b.t = "Int" -> IntOp(op, a.n, b.n)
      [] OTHER -> FloatOp(op, as_f64(a), as_f64(b))

numeric_binop(ch, vm, ins) ==
    IF ~HasReg(vm, ins.b) \/ ~HasReg(vm, ins.c) THEN TrapWith(vm, "RegisterOutOfRange")
    ELSE LET a == Reg(vm, ins.b)
             b == Reg(vm, ins.c)
         IN  IF BinopFault(ins.op, a, b) # "none" THEN TrapWith(vm, BinopFault(ins.op, a, b))
             ELSE set_reg(vm, ins.a, BinopValue(ins.op, a, b))

\* AddImm, SubImm, MulImm, LtImm, LeImm, GtImm, GeImm: the operator with Int(imm).
\* EqImm and NeImm compare with an Int only: any other type is unequal.
ImmOp == [AddImm |-> "Add", SubImm |-> "Sub", MulImm |-> "Mul", LtImm |-> "Lt", LeImm |-> "Le",
          GtImm |-> "Gt", GeImm |-> "Ge", EqImm |-> "Eq", NeImm |-> "Ne"]
immediate_op(ch, vm, ins) ==
    LET op == ImmOp[ins.op]
        a == Reg(vm, ins.b)
    IN  IF ~HasReg(vm, ins.b) THEN TrapWith(vm, "RegisterOutOfRange")
        ELSE IF BinopFault(op, a, I64(ins.imm)) # "none" THEN TrapWith(vm, "TypeMismatch")
        ELSE set_reg(vm, ins.a, BinopValue(op, a, I64(ins.imm)))

Neg(ch, vm, ins) ==
    Compute(vm, ins.a, <<InRange(vm, {ins.b}), Typed(vm, ins.b, {"Int", "Float"})>>,
            LET v == Reg(vm, ins.b) IN IF v.t = "Int" THEN I64(Wrap(-v.n)) ELSE FNeg(v))

\* i64 bit operations, on the two's complement bits of the operands
Bits(i) == i % (2 ^ Width)
BitOp(op, x, y) ==
    LET amount == y % Width IN
    CASE op = "BitAnd" -> Wrap(Bits(x) & Bits(y))
      [] op = "BitOr" -> Wrap(Bits(x) | Bits(y))
      [] op = "BitXor" -> Wrap(Bits(x) ^^ Bits(y))
      [] op = "Shl" -> Wrap(x * 2 ^ amount)
      [] op = "Shr" -> x \div 2 ^ amount
      [] op = "Ushr" -> Wrap(Bits(x) \div 2 ^ amount)
bit_binop(ch, vm, ins) ==
    Compute(vm, ins.a, <<InRange(vm, {ins.b, ins.c}), Typed(vm, ins.b, {"Int"}), Typed(vm, ins.c, {"Int"})>>,
            I64(BitOp(ins.op, Reg(vm, ins.b).n, Reg(vm, ins.c).n)))
bit_not(ch, vm, ins) ==
    Compute(vm, ins.a, <<InRange(vm, {ins.b}), Typed(vm, ins.b, {"Int"})>>, I64(-1 - Reg(vm, ins.b).n))

-----------------------------------------------------------------------------
(* Lists, records, maps and lengths.                                       *)

Gather(vm, base, count) == [i \in 1..count |-> Reg(vm, base + i - 1)]
GatherOk(vm, base, count) == <<\A i \in 0..(count - 1) : HasReg(vm, base + i), "RegisterOutOfRange">>

sequence_pack(ch, vm, ins) ==
    IF ins.imm \notin 0..MaxItems THEN TrapWith(vm, "TypeMismatch")
    ELSE IF ~GatherOk(vm, ins.b, ins.imm)[1] THEN TrapWith(vm, "RegisterOutOfRange")
    ELSE LET items == Gather(vm, ins.b, ins.imm)
             v == IF ins.op = "ListPack" THEN try_list(items) ELSE try_record(items)
         IN  IF v = NoValue THEN TrapWith(vm, "QuotaExceeded") ELSE set_reg(vm, ins.a, v)

SequenceTag(op) == IF op \in {"ListGet", "ListLen"} THEN "List" ELSE "Record"
sequence_get(ch, vm, ins) ==
    Compute(vm, ins.a,
            <<<<ins.imm >= 0, "TypeMismatch">>, InRange(vm, {ins.b}),
              Typed(vm, ins.b, {SequenceTag(ins.op)}),
              <<HasReg(vm, ins.b) => ins.imm < Len(Reg(vm, ins.b).s), "TypeMismatch">>>>,
            Reg(vm, ins.b).s[ins.imm + 1])

map_pack(ch, vm, ins) ==
    LET n == 2 * ins.imm IN
    IF ins.imm \notin 0..MaxItems THEN TrapWith(vm, "TypeMismatch")
    ELSE IF ~GatherOk(vm, ins.b, n)[1] THEN TrapWith(vm, "RegisterOutOfRange")
    ELSE LET items == Gather(vm, ins.b, n)
         IN  IF \/ \E i \in 1..ins.imm : items[2 * i - 1].t \notin {"Int", "Str"}
                \/ try_map(items) = NoValue
             THEN TrapWith(vm, "TypeMismatch")
             ELSE set_reg(vm, ins.a, try_map(items))

MapGet(ch, vm, ins) ==
    Compute(vm, ins.a, <<InRange(vm, {ins.b, ins.c}), Typed(vm, ins.b, {"Map"}), Typed(vm, ins.c, {"Int", "Str"})>>,
            map_get(Reg(vm, ins.b), Reg(vm, ins.c)))

LenTag == [ListLen |-> "List", RecordLen |-> "Record", MapLen |-> "Map", StrLen |-> "Str", BytesLen |-> "Bytes"]
length_of(ch, vm, ins) ==
    Compute(vm, ins.a, <<InRange(vm, {ins.b}), Typed(vm, ins.b, {LenTag[ins.op]})>>,
            LET v == Reg(vm, ins.b)
            IN  I64(CASE v.t \in {"Str", "Bytes"} -> v.n
                      [] v.t = "Map" -> Len(v.s) \div 2
                      [] OTHER -> Len(v.s)))

-----------------------------------------------------------------------------
(* Control.                                                                *)

\* apply_relative_jump, from the pc after the fetch
apply_relative_jump(ch, vm, imm) ==
    LET target == Top(vm).pc + imm
    IN  IF target \in 0..CodeLen(ch) THEN Go(set_pc(vm, target)) ELSE TrapWith(vm, "BadJump")

Jump(ch, vm, ins) == apply_relative_jump(ch, vm, ins.imm)
Branch(ch, vm, ins) ==
    IF ~HasReg(vm, ins.a) THEN TrapWith(vm, "RegisterOutOfRange")
    ELSE IF is_truthy(Reg(vm, ins.a)) = (ins.op = "BranchTrue")
         THEN apply_relative_jump(ch, vm, ins.imm) ELSE Go(vm)

\* load_frame_args_charged: the arguments paid one by one, all given back when
\* one is refused or does not fit; the frame carries the sum
ArgCharge(args) == SumOver([i \in DOMAIN args |-> heap_charge_of(args[i])])
LoadArgs(vm, frame, args) ==
    CASE \E i \in DOMAIN args : heap_charge_of(args[i]) < 0 -> TrapWith(vm, "QuotaExceeded")
      [] ~CanCharge(vm, ArgCharge(args)) -> TrapWith(vm, "QuotaExceeded")
      [] Len(args) > Len(frame.regs) -> TrapWith(vm, "RegisterOutOfRange")
      [] OTHER ->
           Go([charge_pair(vm, ArgCharge(args)) EXCEPT !.frames =
                 Append(@, [frame EXCEPT !.charge = ArgCharge(args),
                                         !.regs = [i \in DOMAIN frame.regs |->
                                             IF i <= Len(args) THEN args[i] ELSE frame.regs[i]]])])

UnitRegs(n) == [i \in 1..n |-> Unit]

\* what Call and TailCall check before they gather
CallFault(ch, vm, ins) ==
    CASE ins.op = "Call" /\ Len(vm.frames) >= MaxCallDepth -> "CallStackOverflow"
      [] ~HasFunction(ch, ins.imm) -> "BadFunction"
      [] ins.b # Function(ch, ins.imm).arity -> "BadArity"
      [] ~GatherOk(vm, ins.a, ins.b)[1] -> "RegisterOutOfRange"
      [] OTHER -> "none"

Callee(ch, ins, dest) ==
    LET def == Function(ch, ins.imm) IN Frame(ins.imm, def.entry, UnitRegs(def.regs), dest)

Call(ch, vm, ins) ==
    IF CallFault(ch, vm, ins) # "none" THEN TrapWith(vm, CallFault(ch, vm, ins))
    ELSE LoadArgs(vm, Callee(ch, ins, ins.a), Gather(vm, ins.a, ins.b))

PopTop(vm) == [vm EXCEPT !.frames = Front(@)]

\* mutant of TailCall: the frame that ends is dropped without its charge
LeakyTailCall(ch, vm, ins) ==
    IF CallFault(ch, vm, ins) # "none" THEN TrapWith(vm, CallFault(ch, vm, ins))
    ELSE LoadArgs(PopTop(vm), Callee(ch, ins, Top(vm).dest), Gather(vm, ins.a, ins.b))

\* TailCall: the frame is popped and its charge released before the new one pays
TailCall(ch, vm, ins) ==
    IF CallFault(ch, vm, ins) # "none" THEN TrapWith(vm, CallFault(ch, vm, ins))
    ELSE LoadArgs(release_pair(PopTop(vm), Top(vm).charge), Callee(ch, ins, Top(vm).dest),
                  Gather(vm, ins.a, ins.b))

\* pop_frame: into the caller's register, or out of the flow.  The value that
\* leaves the outermost frame stays charged until the flow is finalized.
pop_frame(vm, v) ==
    LET f == Top(vm)
        keep == heap_charge_of(v)
    IN  IF f.dest >= 0 THEN set_reg(release_pair(PopTop(vm), f.charge), f.dest, v)
        ELSE IF keep < 0 THEN TrapWith(vm, "QuotaExceeded")
        ELSE Answer(release_pair(PopTop(vm), IF f.charge > keep THEN f.charge - keep ELSE 0),
                    "Complete", 0, <<v>>)

Return(ch, vm, ins) ==
    IF HasReg(vm, ins.a) THEN pop_frame(vm, Reg(vm, ins.a)) ELSE TrapWith(vm, "RegisterOutOfRange")

\* check_native_gate: range, liveness, right, mask
NativeFault(vm, idx) ==
    CASE idx \notin 0..(NumNatives - 1) -> "BadNative"
      [] ~vm.gate.live \/ ~vm.gate.right \/ idx \notin vm.gate.mask -> "NativeDenied"
      [] OTHER -> "none"

\* expect_u64: an unsigned envelope field from an Int or a Pid
IsU64(args, i) == i \in DOMAIN args /\ (args[i].t = "Pid" \/ (args[i].t = "Int" /\ args[i].n >= 0))

\* make_msg: (request_id, tag, payload), or the same after a sender that is ignored
make_msg(args) ==
    LET at == IF Len(args) >= 4 THEN 1 ELSE 0
    IN  IF IsU64(args, at + 1) /\ IsU64(args, at + 2) /\ at + 3 <= Len(args) /\ args[at + 2].n <= MaxTag
        THEN Msg(0, 0, args[at + 1].n, args[at + 2].n, args[at + 3]) ELSE NoValue

\* std_native_table_with; the clock always reads 1
NativeFn(idx, args) ==
    CASE idx = 0 -> Unit
      [] idx = 1 -> I64(1)
      [] idx = 2 -> make_msg(args)
      [] args = <<>> \/ args[1].t # "Msg" -> NoValue
      [] idx = 3 -> args[1].s[2]
      [] idx = 4 -> I64(args[1].d)
      [] idx = 5 -> I64(args[1].n)
      [] idx = 6 -> args[1].s[1]
      [] idx = 7 -> args[1].s[3]

CallNative(ch, vm, ins) ==
    LET from == ins.op = "CallNativeFrom"
        base == IF from THEN ins.b ELSE ins.a
        argc == IF from THEN 1 ELSE ins.b
    IN  IF NativeFault(vm, ins.imm) # "none" THEN TrapWith(vm, NativeFault(vm, ins.imm))
        ELSE IF ~GatherOk(vm, base, argc)[1] THEN TrapWith(vm, "RegisterOutOfRange")
        ELSE LET v == NativeFn(ins.imm, Gather(vm, base, argc))
             IN  IF v = NoValue THEN TrapWith(vm, "NativeError") ELSE set_reg(vm, ins.a, v)

-----------------------------------------------------------------------------
(* The process dictionary.                                                 *)

\* dict_owned_bytes: scalars are free, Str and Bytes their length, -1 for the rest
dict_owned_bytes(v) ==
    CASE v.t \in {"Unit", "Bool", "Int", "Float"} -> 0
      [] v.t \in {"Str", "Bytes"} -> v.n
      [] OTHER -> -1

DictLookup(vm, key) == IF key \in DOMAIN vm.dict THEN vm.dict[key] ELSE Unit

\* adjust_dict_quota: move the dictionary's charge from old to new bytes
CanAdjust(vm, old, new) == CanCharge(vm, IF new > old THEN new - old ELSE 0)
adjust_dict_quota(vm, old, new) ==
    [vm EXCEPT !.used = @ + new - old, !.mem = @ + new - old, !.dictBytes = @ + new - old]

\* DictPut: charge the slot, move the previous value into r[a], then replace it;
\* a refused store gives the charge back and leaves the slot alone
DictPut(ch, vm, ins) ==
    LET key == Reg(vm, ins.b).n
        value == Reg(vm, ins.c)
        prev == DictLookup(vm, key)
        old == dict_owned_bytes(prev)
        new == dict_owned_bytes(value)
        r == set_reg(adjust_dict_quota(vm, old, new), ins.a, prev)
    IN  CASE ~HasReg(vm, ins.b) -> TrapWith(vm, "RegisterOutOfRange")
          [] Reg(vm, ins.b).t # "Int" -> TrapWith(vm, "TypeMismatch")
          [] ~HasReg(vm, ins.c) -> TrapWith(vm, "RegisterOutOfRange")
          [] new < 0 -> TrapWith(vm, "TypeMismatch")
          [] ~CanAdjust(vm, old, new) -> TrapWith(vm, "QuotaExceeded")
          [] r.k = "Trap" /\ ~CanAdjust(adjust_dict_quota(vm, old, new), new, old) ->
               TrapWith(adjust_dict_quota(vm, old, new), "QuotaExceeded")
          [] r.k = "Trap" -> TrapWith(vm, r.fault)
          [] OTHER -> Go([r.vm EXCEPT !.dict = (key :> value) @@ @])

DictGet(ch, vm, ins) ==
    Compute(vm, ins.a, <<InRange(vm, {ins.b}), Typed(vm, ins.b, {"Int"})>>, DictLookup(vm, Reg(vm, ins.b).n))

\* DictErase: the destination is checked first; the entry leaves with its charge
\* and comes back, paid again if it can be, when the store is refused
DictErase(ch, vm, ins) ==
    LET key == Reg(vm, ins.b).n
        prev == DictLookup(vm, key)
        old == dict_owned_bytes(prev)
        freed == [adjust_dict_quota(vm, old, 0) EXCEPT
                     !.dict = [k \in DOMAIN @ \ {key} |-> @[k]]]
        r == set_reg(freed, ins.a, prev)
    IN  CASE ~HasReg(vm, ins.b) -> TrapWith(vm, "RegisterOutOfRange")
          [] Reg(vm, ins.b).t # "Int" -> TrapWith(vm, "TypeMismatch")
          [] ~HasReg(vm, ins.a) -> TrapWith(vm, "RegisterOutOfRange")
          [] key \notin DOMAIN vm.dict -> set_reg(vm, ins.a, Unit)
          [] r.k = "Trap" -> TrapWith(vm, r.fault)
          [] OTHER -> r

-----------------------------------------------------------------------------
(* Effects: the instructions that hand the flow back to its worker.        *)

\* the operands of an effect, checked in order; the answer carries `arg`
Effect(vm, k, dest, when, arg) ==
    LET bad == SelectSeq(when, LAMBDA w : ~w[1])
    IN  IF bad # <<>> THEN TrapWith(vm, bad[1][2]) ELSE Answer(vm, k, dest, arg)

Operand(vm, r, types) == <<HasReg(vm, r) /\ Reg(vm, r).t \in types,
                           IF HasReg(vm, r) THEN "TypeMismatch" ELSE "RegisterOutOfRange">>
AnyOperand(vm, r) == <<HasReg(vm, r), "RegisterOutOfRange">>
IntIn(vm, r, S) == <<HasReg(vm, r) /\ Reg(vm, r).t = "Int" /\ Reg(vm, r).n \in S,
                     IF HasReg(vm, r) THEN "TypeMismatch" ELSE "RegisterOutOfRange">>
ImmIn(imm, S) == <<imm \in S, "TypeMismatch">>
Millis == 0..MaxInt
NumberAt(vm, r) == Reg(vm, r).n

\* a receive filter: what each receive asks of the hop; -1 and <<>> ask nothing
AnyHop == [timeout |-> -1, tag |-> -1, id |-> -1, kind |-> -1, eq |-> <<>>, cmp |-> <<>>]

TagIn(vm, r) == IntIn(vm, r, 0..MaxTag)
Want(vm, ins, when, f) == Effect(vm, "Receive", ins.a, when, <<f>>)

\* Receive, ReceiveTimeout, ReceiveMatch, ReceiveMatchImm and their timeouts
receive(ch, vm, ins) ==
    CASE ins.op = "Receive" -> Want(vm, ins, <<>>, AnyHop)
      [] ins.op = "ReceiveTimeout" ->
           Want(vm, ins, <<IntIn(vm, ins.b, Millis)>>, [AnyHop EXCEPT !.timeout = NumberAt(vm, ins.b)])
      [] ins.op = "ReceiveMatch" ->
           Want(vm, ins, <<TagIn(vm, ins.b)>>, [AnyHop EXCEPT !.tag = NumberAt(vm, ins.b)])
      [] ins.op = "ReceiveMatchImm" ->
           Want(vm, ins, <<ImmIn(ins.imm, 0..MaxTag)>>, [AnyHop EXCEPT !.tag = ins.imm])
      [] ins.op = "ReceiveMatchTimeout" ->
           Want(vm, ins, <<TagIn(vm, ins.b), IntIn(vm, ins.c, Millis)>>,
                [AnyHop EXCEPT !.tag = NumberAt(vm, ins.b), !.timeout = NumberAt(vm, ins.c)])
      [] ins.op = "ReceiveMatchImmTimeout" ->
           Want(vm, ins, <<ImmIn(ins.imm, 0..MaxTag), IntIn(vm, ins.b, Millis)>>,
                [AnyHop EXCEPT !.tag = ins.imm, !.timeout = NumberAt(vm, ins.b)])

\* ReceiveMatchEq (an Int) and ReceiveMatchValue (any value)
receive_payload(ch, vm, ins) ==
    Want(vm, ins,
         <<TagIn(vm, ins.b),
           IF ins.op = "ReceiveMatchEq" THEN Operand(vm, ins.c, {"Int"}) ELSE AnyOperand(vm, ins.c)>>,
         [AnyHop EXCEPT !.tag = NumberAt(vm, ins.b), !.eq = <<Reg(vm, ins.c)>>])

receive_cmp(ch, vm, ins) ==
    Want(vm, ins, <<TagIn(vm, ins.b), Operand(vm, ins.c, {"Int"}), ImmIn(ins.imm, 0..2)>>,
         [AnyHop EXCEPT !.tag = NumberAt(vm, ins.b), !.cmp = <<ins.imm, NumberAt(vm, ins.c)>>])

receive_kind(ch, vm, ins) == Want(vm, ins, <<ImmIn(ins.imm, 0..10)>>, [AnyHop EXCEPT !.kind = ins.imm])

\* ReceiveMatchCorr and ReceiveMatchCorrImm
receive_corr(ch, vm, ins) ==
    IF ins.op = "ReceiveMatchCorr"
    THEN Want(vm, ins, <<TagIn(vm, ins.b), IntIn(vm, ins.c, Millis)>>,
              [AnyHop EXCEPT !.tag = NumberAt(vm, ins.b), !.id = NumberAt(vm, ins.c)])
    ELSE Want(vm, ins, <<ImmIn(ins.imm, 0..MaxTag), IntIn(vm, ins.b, Millis)>>,
              [AnyHop EXCEPT !.tag = ins.imm, !.id = NumberAt(vm, ins.b)])

\* the hops a filter lets through (payload_matches, MatchFilter::matches)
CmpHolds(cmp, n) == CASE cmp[1] = 0 -> n = cmp[2] [] cmp[1] = 1 -> n < cmp[2] [] OTHER -> n <= cmp[2]
HopPasses(f, hop) ==
    /\ hop.t = "Msg"
    /\ f.tag >= 0 => hop.n = f.tag
    /\ f.id >= 0 => hop.d = f.id
    /\ f.kind >= 0 => wire_tag(hop.s[1]) = f.kind
    /\ f.eq # <<>> => ValueEq(f.eq[1], hop.s[1])
    /\ f.cmp # <<>> => hop.s[1].t = "Int" /\ CmpHolds(f.cmp, hop.s[1].n)

Send(ch, vm, ins) ==
    Effect(vm, "Send", 0, <<Operand(vm, ins.a, {"Cap"}), Operand(vm, ins.b, {"Msg"})>>,
           <<Reg(vm, ins.a), Reg(vm, ins.b)>>)
SendRemote(ch, vm, ins) ==
    Effect(vm, "SendRemote", 0,
           <<IntIn(vm, ins.a, 0..MaxInt), Operand(vm, ins.b, {"Str"}), Operand(vm, ins.c, {"Msg"})>>,
           <<Reg(vm, ins.a), Reg(vm, ins.b), Reg(vm, ins.c)>>)
\* Ask and AskTimeout, whose deadline is in r[imm]
Ask(ch, vm, ins) ==
    Effect(vm, "Ask", ins.a,
           (IF ins.op = "Ask" THEN <<>> ELSE <<ImmIn(ins.imm, 0..255), IntIn(vm, ins.imm, Millis)>>)
           \o <<Operand(vm, ins.b, {"Cap"}), Operand(vm, ins.c, {"Msg"})>>,
           <<Reg(vm, ins.b), Reg(vm, ins.c)>>)
HostAwait(ch, vm, ins) ==
    Effect(vm, "HostAwait", ins.a, <<AnyOperand(vm, ins.b), <<ins.imm >= 0, "TypeMismatch">>>>,
           <<I64(ins.imm), Reg(vm, ins.b)>>)

\* Monitor, Link, IsAlive take a capability; Demonitor and Unlink a register
relations(ch, vm, ins) ==
    IF ins.op \in {"Demonitor", "Unlink"} THEN Answer(vm, ins.op, ins.a, <<>>)
    ELSE Effect(vm, ins.op, ins.a, <<Operand(vm, ins.b, {"Cap"})>>, <<Reg(vm, ins.b)>>)
ExitSignal(ch, vm, ins) ==
    Effect(vm, "ExitSignal", 0, <<Operand(vm, ins.a, {"Cap"}), IntIn(vm, ins.b, 0..6)>>,
           <<Reg(vm, ins.a), Reg(vm, ins.b)>>)
\* SetTrapExit and SetRestartPolicy
flow_flags(ch, vm, ins) ==
    IF ins.op = "SetTrapExit"
    THEN Effect(vm, ins.op, 0, <<AnyOperand(vm, ins.a)>>, <<Bool(is_truthy(Reg(vm, ins.a)))>>)
    ELSE Effect(vm, ins.op, 0, <<ImmIn(ins.imm, 0..2)>>, <<I64(ins.imm)>>)
\* RegisterName and Whereis
names(ch, vm, ins) ==
    IF ins.op = "RegisterName"
    THEN Effect(vm, ins.op, 0, <<Operand(vm, ins.a, {"Str"})>>, <<Reg(vm, ins.a)>>)
    ELSE Effect(vm, ins.op, ins.a, <<Operand(vm, ins.b, {"Str"})>>, <<Reg(vm, ins.b)>>)
Delegate(ch, vm, ins) ==
    Effect(vm, "Delegate", ins.a,
           <<Operand(vm, ins.b, {"Cap"})>>
           \o (IF ins.c = 255 THEN <<>> ELSE <<Operand(vm, ins.c, {"Cap"})>>),
           <<Reg(vm, ins.b), I64(ins.imm)>>)

tables(ch, vm, ins) ==
    LET op == ins.op IN
    CASE op = "TableOpen" -> Effect(vm, op, ins.a, <<Operand(vm, ins.b, {"Str"})>>, <<Reg(vm, ins.b)>>)
      [] op = "TableGet" ->
           Effect(vm, op, ins.a, <<Operand(vm, ins.b, {"Cap"}), AnyOperand(vm, ins.c)>>,
                  <<Reg(vm, ins.b), Reg(vm, ins.c)>>)
      [] op = "TablePut" ->
           Effect(vm, op, 0, <<Operand(vm, ins.a, {"Cap"}), AnyOperand(vm, ins.b), AnyOperand(vm, ins.c)>>,
                  <<Reg(vm, ins.a), Reg(vm, ins.b), Reg(vm, ins.c)>>)

\* Spawn gathers r[a+1..]; r[a] receives the child's capability
Spawn(ch, vm, ins) ==
    Effect(vm, "Spawn", ins.a, <<GatherOk(vm, ins.a + 1, ins.b)>>,
           <<I64(ins.imm)>> \o Gather(vm, ins.a + 1, ins.b))
\* StartSupervisor and StartChild
supervision(ch, vm, ins) ==
    IF ins.op = "StartSupervisor" THEN Effect(vm, ins.op, 0, <<ImmIn(ins.imm, 0..2)>>, <<I64(ins.imm)>>)
    ELSE Effect(vm, ins.op, ins.a, <<<<HasFunction(ch, ins.imm), "BadFunction">>, ImmIn(ins.b, 0..2)>>,
                <<I64(ins.imm)>>)
\* Yield, Sleep, Exit, SelfPid
scheduling(ch, vm, ins) ==
    CASE ins.op = "Yield" -> Answer(vm, "Yield", 0, <<>>)
      [] ins.op = "Sleep" -> Effect(vm, "Sleep", 0, <<IntIn(vm, ins.a, Millis)>>, <<Reg(vm, ins.a)>>)
      [] ins.op = "Exit" -> Effect(vm, "Complete", 0, <<AnyOperand(vm, ins.a)>>, <<Reg(vm, ins.a)>>)
      [] ins.op = "SelfPid" -> Answer(vm, "SelfPid", ins.a, <<>>)

FreshRequestId(ch, vm, ins) ==
    set_reg([vm EXCEPT !.nextId = NextId(@)], ins.a, I64(Minted(vm.nextId)))

-----------------------------------------------------------------------------
(* The loop.                                                               *)

Execute(ch, vm, ins) ==
    CASE ins.op = "LoadConst" -> LoadConst(ch, vm, ins)
      [] ins.op = "LoadImm" -> LoadImm(ch, vm, ins)
      [] ins.op = "Move" -> Move(ch, vm, ins)
      [] ins.op \in {"Add", "Sub", "Mul", "Div", "Mod", "Eq", "Ne", "Lt", "Le", "Gt", "Ge"} ->
           numeric_binop(ch, vm, ins)
      [] ins.op \in DOMAIN ImmOp -> immediate_op(ch, vm, ins)
      [] ins.op = "Neg" -> Neg(ch, vm, ins)
      [] ins.op \in {"BitAnd", "BitOr", "BitXor", "Shl", "Shr", "Ushr"} -> bit_binop(ch, vm, ins)
      [] ins.op = "BitNot" -> bit_not(ch, vm, ins)
      [] ins.op \in {"ListPack", "RecordPack"} -> sequence_pack(ch, vm, ins)
      [] ins.op \in {"ListGet", "RecordGet"} -> sequence_get(ch, vm, ins)
      [] ins.op = "MapPack" -> map_pack(ch, vm, ins)
      [] ins.op = "MapGet" -> MapGet(ch, vm, ins)
      [] ins.op \in DOMAIN LenTag -> length_of(ch, vm, ins)
      [] ins.op = "Jump" -> Jump(ch, vm, ins)
      [] ins.op \in {"Branch", "BranchTrue"} -> Branch(ch, vm, ins)
      [] ins.op = "Call" -> Call(ch, vm, ins)
      [] ins.op = "TailCall" -> TailCall(ch, vm, ins)
      [] ins.op = "Return" -> Return(ch, vm, ins)
      [] ins.op \in {"CallNative", "CallNativeFrom"} -> CallNative(ch, vm, ins)
      [] ins.op = "DictPut" -> DictPut(ch, vm, ins)
      [] ins.op = "DictGet" -> DictGet(ch, vm, ins)
      [] ins.op = "DictErase" -> DictErase(ch, vm, ins)
      [] ins.op = "FreshRequestId" -> FreshRequestId(ch, vm, ins)
      [] ins.op = "Send" -> Send(ch, vm, ins)
      [] ins.op = "SendRemote" -> SendRemote(ch, vm, ins)
      [] ins.op \in {"Ask", "AskTimeout"} -> Ask(ch, vm, ins)
      [] ins.op = "HostAwait" -> HostAwait(ch, vm, ins)
      [] ins.op \in {"Monitor", "Demonitor", "Link", "Unlink", "IsAlive"} -> relations(ch, vm, ins)
      [] ins.op = "ExitSignal" -> ExitSignal(ch, vm, ins)
      [] ins.op \in {"SetTrapExit", "SetRestartPolicy"} -> flow_flags(ch, vm, ins)
      [] ins.op \in {"RegisterName", "Whereis"} -> names(ch, vm, ins)
      [] ins.op = "Delegate" -> Delegate(ch, vm, ins)
      [] ins.op \in {"TableOpen", "TableGet", "TablePut"} -> tables(ch, vm, ins)
      [] ins.op \in {"ReceiveMatchEq", "ReceiveMatchValue"} -> receive_payload(ch, vm, ins)
      [] ins.op = "ReceiveMatchCmp" -> receive_cmp(ch, vm, ins)
      [] ins.op = "ReceiveMatchKind" -> receive_kind(ch, vm, ins)
      [] ins.op \in {"ReceiveMatchCorr", "ReceiveMatchCorrImm"} -> receive_corr(ch, vm, ins)
      [] ins.op \in {"Receive", "ReceiveTimeout", "ReceiveMatch", "ReceiveMatchImm",
                     "ReceiveMatchTimeout", "ReceiveMatchImmTimeout"} -> receive(ch, vm, ins)
      [] ins.op = "Spawn" -> Spawn(ch, vm, ins)
      [] ins.op \in {"StartSupervisor", "StartChild"} -> supervision(ch, vm, ins)
      [] ins.op \in {"Yield", "Sleep", "Exit", "SelfPid"} -> scheduling(ch, vm, ins)
      [] ins.op = "Halt" -> Effect(vm, "Complete", 0, <<AnyOperand(vm, 0)>>, <<Reg(vm, 0)>>)
      [] ins.op = "Trap" -> TrapWith(vm, "Explicit")
      [] ins.op = "Nop" -> Go(vm)

\* one iteration of Vm::run: count, fetch, execute; past the end, return Unit
run_one(ch, vm) ==
    LET pc == Top(vm).pc
        counted == [vm EXCEPT !.steps = @ + 1]
    IN  IF pc < CodeLen(ch) THEN Execute(ch, set_pc(counted, pc + 1), CodeAt(ch, pc))
        ELSE pop_frame(counted, Unit)

\* with_native_gate then set_quota: the arguments in r0.., one reservation for all
NewMachine(ch, fn, args, gate) ==
    LET def == Function(ch, fn)
        regs == [i \in 1..def.regs |-> IF i <= Len(args) /\ i <= def.arity THEN args[i] ELSE Unit]
    IN  [frames |-> <<Frame(fn, def.entry, regs, -1)>>, steps |-> 0, nextId |-> 1,
         dict |-> <<>>, dictBytes |-> 0, used |-> 0, mem |-> 0, gate |-> gate]
set_quota(vm) ==
    LET charge == [i \in DOMAIN vm.frames |-> ArgCharge(vm.frames[i].regs)]
    IN  IF \/ \E i \in DOMAIN vm.frames : \E j \in DOMAIN vm.frames[i].regs :
                 heap_charge_of(vm.frames[i].regs[j]) < 0
           \/ ~CanCharge(vm, SumOver(charge) + vm.dictBytes)
        THEN TrapWith(vm, "QuotaExceeded")
        ELSE Go([charge_pair(vm, SumOver(charge) + vm.dictBytes) EXCEPT
                    !.frames = [i \in DOMAIN @ |-> [@[i] EXCEPT !.charge = charge[i]]]])
=============================================================================
