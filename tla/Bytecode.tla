------------------------------ MODULE Bytecode ------------------------------
(***************************************************************************)
(* The instruction set (bytecode/opcode.rs, instruction.rs), the chunk     *)
(* (bytecode/chunk.rs) and the load-time verifier (bytecode/verify.rs).    *)
(*                                                                         *)
(* An instruction is [op, a, b, c, imm]; program counters, function and    *)
(* constant indices are the code's own, from 0.                            *)
(***************************************************************************)
EXTENDS Values

CONSTANTS
    MaxTag,        \* u16::MAX, the largest message tag
    MaxRegs        \* u8::MAX: a frame has registers 0 to MaxRegs - 1

\* Opcode as u8
OpcodeByte ==
    [Halt |-> 0, LoadConst |-> 1, Move |-> 2, LoadImm |-> 3,
     Add |-> 16, Sub |-> 17, Mul |-> 18, Div |-> 19, Mod |-> 20, Neg |-> 21,
     Eq |-> 24, Lt |-> 25, Le |-> 26, Jump |-> 32, Branch |-> 33,
     Call |-> 48, Return |-> 49, CallNative |-> 50,
     Spawn |-> 64, Yield |-> 65, Sleep |-> 66, Exit |-> 67, SelfPid |-> 68,
     Send |-> 80, Receive |-> 81, ReceiveTimeout |-> 82, ReceiveMatch |-> 83,
     ReceiveMatchImm |-> 84, Ask |-> 85, Monitor |-> 86, Demonitor |-> 87,
     Link |-> 88, Unlink |-> 89, AskTimeout |-> 90, Delegate |-> 91,
     FreshRequestId |-> 92, ReceiveMatchCorr |-> 93, ReceiveMatchCorrImm |-> 94,
     SetTrapExit |-> 95, Trap |-> 96, Nop |-> 97, RegisterName |-> 98,
     Whereis |-> 99, ReceiveMatchKind |-> 100, SetRestartPolicy |-> 101,
     HostAwait |-> 102, ReceiveMatchTimeout |-> 103, ReceiveMatchImmTimeout |-> 104,
     IsAlive |-> 105, ExitSignal |-> 106, DictPut |-> 107, DictGet |-> 108,
     DictErase |-> 109, ReceiveMatchEq |-> 110, StartChild |-> 111,
     ReceiveMatchValue |-> 112, SendRemote |-> 113, StartSupervisor |-> 114,
     AddImm |-> 115, CallNativeFrom |-> 116, SubImm |-> 117, LtImm |-> 118,
     ListPack |-> 119, ListGet |-> 120, ListLen |-> 121, MulImm |-> 122,
     EqImm |-> 123, LeImm |-> 124, BitAnd |-> 125, BitOr |-> 126, BitXor |-> 127,
     BitNot |-> 128, Shl |-> 129, Shr |-> 130, ReceiveMatchCmp |-> 131,
     MapPack |-> 132, MapGet |-> 133, MapLen |-> 134, TableOpen |-> 135,
     TableGet |-> 136, TablePut |-> 137, RecordPack |-> 138, RecordGet |-> 139,
     RecordLen |-> 140, Ne |-> 141, Gt |-> 142, Ge |-> 143, NeImm |-> 144,
     GtImm |-> 145, GeImm |-> 146, Ushr |-> 147, BranchTrue |-> 148,
     StrLen |-> 149, BytesLen |-> 150, TailCall |-> 151]

Opcode == DOMAIN OpcodeByte

\* Opcode::from_u8, the set of opcodes of a byte: one or none
from_u8(byte) == {op \in Opcode : OpcodeByte[op] = byte}

Instr(op, a, b, c, imm) == [op |-> op, a |-> a, b |-> b, c |-> c, imm |-> imm]
FunctionDef(name, entry, arity, regs) ==
    [name |-> name, entry |-> entry, arity |-> arity, regs |-> regs]
Chunk(name, constants, functions, code) ==
    [name |-> name, constants |-> constants, functions |-> functions, code |-> code]

CodeLen(ch) == Len(ch.code)
CodeAt(ch, pc) == ch.code[pc + 1]
HasConstant(ch, i) == i \in 0..(Len(ch.constants) - 1)
Constant(ch, i) == ch.constants[i + 1]
HasFunction(ch, i) == i \in 0..(Len(ch.functions) - 1)
Function(ch, i) == ch.functions[i + 1]

-----------------------------------------------------------------------------
(* The verifier.                                                           *)

Entries(ch) == {Function(ch, i).entry : i \in 0..(Len(ch.functions) - 1)}

\* exclusive_end: the next entry after `start`, or the end of the code
exclusive_end(ch, start) == Min({CodeLen(ch)} \cup {e \in Entries(ch) : e > start})

\* function_span: the start of the function that owns pc; {} outside every span
SpanStart(ch, pc) == {e \in Entries(ch) : e <= pc /\ \A f \in Entries(ch) : f <= pc => f <= e}

\* register_limits: the smallest register file among the functions that own pc
HasLimit(ch, pc) == SpanStart(ch, pc) # {}
register_limit(ch, pc) ==
    Min({Function(ch, i).regs : i \in {j \in 0..(Len(ch.functions) - 1) :
                                          Function(ch, j).entry \in SpanStart(ch, pc)}})

\* check_slot, check_window: skipped outside every span
SlotOk(ch, pc, r) == HasLimit(ch, pc) => r < register_limit(ch, pc)
WindowOk(ch, pc, base, count) ==
    HasLimit(ch, pc) => (count = 0 \/ base + count <= register_limit(ch, pc))

\* check_pack: register MaxRegs is never a slot
PackOk(base, count, width) ==
    /\ count \in 0..MaxItems
    /\ count = 0 \/ base + count * width <= MaxRegs

\* validate_constant
ConstantOk(v, trusted) == trusted \/ (within_nesting_limit(v) /\ AuthorityFree(v))

FunctionOk(ch, def) == def.entry < CodeLen(ch) /\ def.arity <= def.regs

CallOk(ch, at, ins) ==
    /\ HasFunction(ch, ins.imm)
    /\ ins.b = Function(ch, ins.imm).arity
    /\ SlotOk(ch, at, ins.a)
    /\ WindowOk(ch, at, IF ins.op = "Spawn" THEN ins.a + 1 ELSE ins.a, ins.b)

StartChildOk(ch, at, ins) ==
    /\ HasFunction(ch, ins.imm)
    /\ Function(ch, ins.imm).arity = 0
    /\ ins.b <= 2
    /\ SlotOk(ch, at, ins.a)

NativeOk(ch, at, ins) ==
    IF ins.op = "CallNativeFrom" THEN SlotOk(ch, at, ins.a) /\ SlotOk(ch, at, ins.b)
    ELSE WindowOk(ch, at, ins.a, ins.b)

\* mutant of JumpOk: a jump need only stay inside the chunk
JumpAnywhere(ch, at, ins) == at + 1 + ins.imm \in 0..CodeLen(ch)

JumpOk(ch, at, ins) ==
    LET target == at + 1 + ins.imm
    IN  /\ target \in 0..CodeLen(ch)
        /\ \A start \in SpanStart(ch, at) :
              target = CodeLen(ch) \/ target \in start..(exclusive_end(ch, start) - 1)

InstrOk(ch, at) ==
    LET ins == CodeAt(ch, at)
    IN  CASE ins.op = "LoadConst" -> HasConstant(ch, ins.imm)
          [] ins.op \in {"Call", "TailCall", "Spawn"} -> CallOk(ch, at, ins)
          [] ins.op = "StartChild" -> StartChildOk(ch, at, ins)
          [] ins.op \in {"CallNative", "CallNativeFrom"} -> NativeOk(ch, at, ins)
          [] ins.op \in {"ListPack", "RecordPack"} -> PackOk(ins.b, ins.imm, 1)
          [] ins.op = "MapPack" -> PackOk(ins.b, ins.imm, 2)
          [] ins.op = "ReceiveMatchKind" -> ins.imm \in 0..10
          [] ins.op = "ReceiveMatchCmp" -> ins.imm \in 0..2
          [] ins.op \in {"ReceiveMatchImm", "ReceiveMatchCorrImm"} -> ins.imm \in 0..MaxTag
          [] ins.op = "SetRestartPolicy" -> ins.imm \in 0..2
          [] ins.op = "AskTimeout" -> ins.imm >= 0 /\ SlotOk(ch, at, ins.imm)
          [] ins.op \in {"Jump", "Branch", "BranchTrue"} -> JumpOk(ch, at, ins)
          [] OTHER -> TRUE

is_terminator(op) == op \in {"Jump", "Return", "Halt", "Exit", "Trap", "TailCall"}

\* reject_fallthrough: a function followed by another one ends in a terminator
FallThroughOk(ch, def) ==
    LET end == exclusive_end(ch, def.entry)
    IN  end < CodeLen(ch) => is_terminator(CodeAt(ch, end - 1).op)

\* verify_with
verify_with(ch, trusted) ==
    /\ ch.functions # <<>>
    /\ \A i \in DOMAIN ch.constants : ConstantOk(ch.constants[i], trusted)
    /\ \A i \in DOMAIN ch.functions : FunctionOk(ch, ch.functions[i])
    /\ \A at \in 0..(CodeLen(ch) - 1) : InstrOk(ch, at)
    /\ \A i \in DOMAIN ch.functions : FallThroughOk(ch, ch.functions[i])
=============================================================================
