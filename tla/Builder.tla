------------------------------ MODULE Builder -------------------------------
(***************************************************************************)
(* How a host assembles a chunk: ChunkBuilder (bytecode/builder.rs), one   *)
(* row per emit method, and Program / Fn (bytecode/program.rs), which      *)
(* choose the registers.                                                   *)
(*                                                                         *)
(* A builder is a record:                                                  *)
(*   constants, functions, code   as in a chunk                            *)
(*   targets    label_targets, the address each bound label stands for     *)
(*   pending    pending_jumps, pairs <<instruction index, label>>          *)
(*   nextLabel, nextReg                                                    *)
(* The open function is the last one.  An operator that gives a register   *)
(* back gives [b, r]: the builder and the register.                        *)
(***************************************************************************)
EXTENDS Bytecode, TLC

-----------------------------------------------------------------------------
(* The emit methods: an opcode and the field of each parameter, in order.  *)

Row(op, fields) == <<op, fields>>
ABC == <<"a", "b", "c">>
AB == <<"a", "b">>
ABImm == <<"a", "b", "imm">>

RegisterEmits ==
    [halt |-> Row("Halt", <<>>), load_const |-> Row("LoadConst", <<"a", "imm">>),
     load_imm |-> Row("LoadImm", <<"a", "imm">>), move |-> Row("Move", AB),
     add_imm |-> Row("AddImm", ABImm), sub_imm |-> Row("SubImm", ABImm), lt_imm |-> Row("LtImm", ABImm),
     mul_imm |-> Row("MulImm", ABImm), eq_imm |-> Row("EqImm", ABImm), ne_imm |-> Row("NeImm", ABImm),
     le_imm |-> Row("LeImm", ABImm), gt_imm |-> Row("GtImm", ABImm), ge_imm |-> Row("GeImm", ABImm),
     bit_and |-> Row("BitAnd", ABC), bit_or |-> Row("BitOr", ABC), bit_xor |-> Row("BitXor", ABC),
     shl |-> Row("Shl", ABC), shr |-> Row("Shr", ABC), ushr |-> Row("Ushr", ABC), bit_not |-> Row("BitNot", AB)]

DataEmits ==
    [list_pack |-> Row("ListPack", ABImm), list_get |-> Row("ListGet", ABImm), list_len |-> Row("ListLen", AB),
     str_len |-> Row("StrLen", AB), bytes_len |-> Row("BytesLen", AB),
     record_pack |-> Row("RecordPack", ABImm), record_get |-> Row("RecordGet", ABImm),
     record_len |-> Row("RecordLen", AB), map_pack |-> Row("MapPack", ABImm), map_get |-> Row("MapGet", ABC),
     map_len |-> Row("MapLen", AB), receive_match_cmp |-> Row("ReceiveMatchCmp", <<"a", "b", "c", "imm">>),
     table_open |-> Row("TableOpen", AB), table_get |-> Row("TableGet", ABC), table_put |-> Row("TablePut", ABC)]

ArithmeticEmits ==
    [add |-> Row("Add", ABC), sub |-> Row("Sub", ABC), mul |-> Row("Mul", ABC), div |-> Row("Div", ABC),
     modulo |-> Row("Mod", ABC), eq |-> Row("Eq", ABC), lt |-> Row("Lt", ABC), le |-> Row("Le", ABC),
     neg |-> Row("Neg", AB)]

AuthorityEmits ==
    [spawn |-> Row("Spawn", <<"a", "imm", "b", "c">>), delegate |-> Row("Delegate", <<"a", "b", "imm", "c">>)]

WaitEmits ==
    [yield |-> Row("Yield", <<>>), sleep |-> Row("Sleep", <<"a">>), exit |-> Row("Exit", <<"a">>),
     self_pid |-> Row("SelfPid", <<"a">>), fresh_request_id |-> Row("FreshRequestId", <<"a">>),
     send |-> Row("Send", AB), receive |-> Row("Receive", <<"a">>), receive_timeout |-> Row("ReceiveTimeout", AB),
     receive_match |-> Row("ReceiveMatch", AB), receive_match_imm |-> Row("ReceiveMatchImm", <<"a", "imm">>),
     receive_match_corr |-> Row("ReceiveMatchCorr", ABC),
     receive_match_corr_imm |-> Row("ReceiveMatchCorrImm", <<"a", "imm", "b">>),
     receive_match_timeout |-> Row("ReceiveMatchTimeout", ABC),
     receive_match_imm_timeout |-> Row("ReceiveMatchImmTimeout", <<"a", "imm", "b">>)]

FlowEmits ==
    [is_alive |-> Row("IsAlive", AB), exit_signal |-> Row("ExitSignal", AB), dict_put |-> Row("DictPut", ABC),
     dict_get |-> Row("DictGet", AB), dict_erase |-> Row("DictErase", AB),
     receive_match_eq |-> Row("ReceiveMatchEq", ABC), receive_match_value |-> Row("ReceiveMatchValue", ABC),
     send_remote |-> Row("SendRemote", ABC), start_supervisor |-> Row("StartSupervisor", <<"imm">>),
     start_child |-> Row("StartChild", <<"a", "imm", "b">>), receive_match_kind |-> Row("ReceiveMatchKind", <<"a", "imm">>)]

RelationEmits ==
    [ask |-> Row("Ask", ABC), ask_timeout |-> Row("AskTimeout", <<"a", "b", "c", "imm">>),
     monitor |-> Row("Monitor", AB), demonitor |-> Row("Demonitor", <<"a">>), link |-> Row("Link", AB),
     unlink |-> Row("Unlink", <<"a">>), set_trap_exit |-> Row("SetTrapExit", <<"a">>),
     set_restart_policy |-> Row("SetRestartPolicy", <<"imm">>), host_await |-> Row("HostAwait", ABImm),
     register_name |-> Row("RegisterName", <<"a">>), whereis |-> Row("Whereis", AB), trap |-> Row("Trap", <<"imm">>)]

CallEmits ==
    [call |-> Row("Call", <<"a", "imm", "b">>), call_native |-> Row("CallNative", <<"a", "imm", "b">>),
     native1_from |-> Row("CallNativeFrom", ABImm), return |-> Row("Return", <<"a">>)]

Emits == RegisterEmits @@ DataEmits @@ ArithmeticEmits @@ AuthorityEmits @@ WaitEmits @@ FlowEmits
         @@ RelationEmits @@ CallEmits

\* the instruction a method emits for its arguments; a field it does not set is 0
Emitted(method, args) ==
    LET row == Emits[method]
        field(f) == SumOver([i \in DOMAIN row[2] |-> IF row[2][i] = f THEN args[i] ELSE 0])
    IN  Instr(row[1], field("a"), field("b"), field("c"), field("imm"))

-----------------------------------------------------------------------------
(* ChunkBuilder.                                                           *)

NewBuilder == [constants |-> <<>>, functions |-> <<>>, code |-> <<>>, targets |-> <<>>, pending |-> <<>>,
               nextLabel |-> 0, nextReg |-> 0]

\* emit_<method>; a move of a register to itself emits nothing
Emit(b, method, args) ==
    IF method = "move" /\ args[1] = args[2] THEN b
    ELSE [b EXCEPT !.code = Append(@, Emitted(method, args))]

\* const_: an equal constant is used again
const_(b, v) ==
    LET same == {i \in DOMAIN b.constants : ValueEq(b.constants[i], v)}
    IN  IF same # {} THEN [b |-> b, at |-> Min(same) - 1]
        ELSE [b |-> [b EXCEPT !.constants = Append(@, v)], at |-> Len(b.constants)]

new_label(b) == [b EXCEPT !.nextLabel = @ + 1]
bind_label(b, label) == [b EXCEPT !.targets = (label :> Len(b.code)) @@ @]

\* emit_jump, emit_branch: the offset is left open
EmitTo(b, ins, label) ==
    [b EXCEPT !.code = Append(@, ins), !.pending = Append(@, <<Len(b.code), label>>)]
emit_jump(b, label) == EmitTo(b, Instr("Jump", 0, 0, 0, 0), label)
emit_branch(b, cond, label) == EmitTo(b, Instr("Branch", cond, 0, 0, 0), label)

begin_function(b, name, arity, regs) ==
    [b EXCEPT !.functions = Append(@, FunctionDef(name, Len(b.code), arity, regs)), !.nextReg = regs]

\* a jump to a bound label gets its offset, one to an unbound label becomes a trap
Patched(b, idx, ins) ==
    LET to == {p[2] : p \in {q \in ToSet(b.pending) : q[1] = idx}}
    IN  IF to = {} THEN ins
        ELSE IF to \subseteq DOMAIN b.targets
        THEN [ins EXCEPT !.imm = b.targets[CHOOSE l \in to : TRUE] - (idx + 1)]
        ELSE [ins EXCEPT !.op = "Trap", !.imm = 0]

finish(b, name) ==
    Chunk(name, b.constants, b.functions, [i \in DOMAIN b.code |-> Patched(b, i - 1, b.code[i])])

-----------------------------------------------------------------------------
(* Fn: the registers.                                                      *)

\* a fresh register, or a trap and r0 when the frame is full
local(b) ==
    IF b.nextReg = MaxRegs THEN [b |-> Emit(b, "trap", <<0>>), r |-> 0]
    ELSE [b |-> [b EXCEPT !.nextReg = @ + 1, !.functions[Len(b.functions)].regs = b.nextReg + 1], r |-> b.nextReg]

reserve(b, count) ==
    IF count > b.nextReg THEN [b EXCEPT !.nextReg = count, !.functions[Len(b.functions)].regs = count] ELSE b

\* n calls of local that are known to fit
Locals(b, n) == [b EXCEPT !.nextReg = @ + n, !.functions[Len(b.functions)].regs = IF n = 0 THEN @ ELSE b.nextReg + n]
Fits(b, n) == b.nextReg + n <= MaxRegs

\* window: its base and, when it does not fit, one trap
window(b, count) ==
    [b |-> IF count = 0 \/ Fits(b, count) THEN Locals(b, count) ELSE Emit(b, "trap", <<0>>), r |-> b.nextReg]

\* RegWindow::at
At(base, i) == IF base + i <= MaxRegs THEN base + i ELSE MaxRegs

\* fail_pack
fail_pack(b) == local(Emit(b, "trap", <<0>>))

\* copy_window: each argument into its slot, in order
copy_window(b, base, args) ==
    FoldLeft(LAMBDA acc, i : Emit(acc, "move", <<base + i - 1, args[i]>>), b, [i \in DOMAIN args |-> i])

\* the methods that put the result of one instruction in a fresh local
Result(b, method, args) == LET l == local(b) IN [b |-> Emit(l.b, method, <<l.r>> \o args), r |-> l.r]

\* load_int, load_str, load_bytes: the constant first, then the register
load_const(b, v) ==
    LET c == const_(b, v)
        l == local(c.b)
    IN  [b |-> Emit(l.b, "load_const", <<l.r, c.at>>), r |-> l.r]

-----------------------------------------------------------------------------
(* Fn: packs, calls, loops and hops.                                       *)

\* contiguous_regs and, for the flattened pairs, contiguous_pairs
Contiguous(regs) == \A i \in DOMAIN regs : regs[i] = regs[1] + i - 1 /\ regs[i] < MaxRegs

\* mutant of PackRegs: the pack starts at the first register, whatever the others are
PackFromFirst(b, method, regs, count) ==
    IF count > MaxItems THEN fail_pack(b)
    ELSE LET l == local(b)
         IN  [b |-> Emit(l.b, method, <<l.r, IF regs = <<>> THEN 0 ELSE regs[1], count>>), r |-> l.r]

\* pack_sequence and map_pack: the registers are taken from where they are
PackRegs(b, method, regs, count) ==
    IF count > MaxItems \/ ~Contiguous(regs) THEN fail_pack(b)
    ELSE LET l == local(b)
         IN  [b |-> Emit(l.b, method, <<l.r, IF regs = <<>> THEN 0 ELSE regs[1], count>>), r |-> l.r]

\* call: the arguments are copied into a fresh window, which the result reuses
call(b, fn, args) ==
    LET argc == Len(args)
        l == local(b)
    IN  IF argc = 0 THEN [b |-> Emit(l.b, "call", <<l.r, fn, 0>>), r |-> l.r]
        ELSE IF ~Fits(b, argc) THEN fail_pack(b)
        ELSE [b |-> Emit(copy_window(Locals(b, argc), b.nextReg, args), "call", <<b.nextReg, fn, argc>>),
              r |-> b.nextReg]

\* while_lt up to its body: the two labels, the condition and the branch out of the loop
while_lt_head(b, counter, limit) ==
    LET l == local(new_label(new_label(b)))
        top == Emit(bind_label(l.b, b.nextLabel), "lt", <<l.r, counter, limit>>)
    IN  emit_branch(top, l.r, b.nextLabel + 1)

\* while_lt: `body` is what its body made of that head
while_lt(b, body) == bind_label(emit_jump(body, b.nextLabel), b.nextLabel + 1)

MAKE_MSG == 2
MSG_REQUEST_ID == 4
MSG_TAG == 5
MSG_PAYLOAD == 6

\* fill_msg_window: the id, the tag and the payload, then make_msg over them
fill_msg_window(b, base, id, tag, payload) ==
    LET ids == Emit(b, "move", <<At(base, 0), id>>)
        tags == Emit(ids, "load_imm", <<At(base, 1), tag>>)
    IN  [b |-> Emit(Emit(tags, "move", <<At(base, 2), payload>>), "call_native", <<base, MAKE_MSG, 3>>), r |-> base]

\* make_msg, hop
hop(b, id, tag, payload) == LET w == window(b, 3) IN fill_msg_window(w.b, w.r, id, tag, payload)

\* hop_fresh: the id is minted in its slot of the window
hop_fresh(b, tag, payload) ==
    LET w == window(b, 3)
    IN  fill_msg_window(Emit(w.b, "fresh_request_id", <<At(w.r, 0)>>), w.r, At(w.r, 0), tag, payload)

\* reply_to: the request's id in a new hop
reply_to(b, req, tag, payload) ==
    LET id == Result(b, "native1_from", <<req, MSG_REQUEST_ID>>) IN hop(id.b, id.r, tag, payload)
=============================================================================
