------------------------------ MODULE Listing -------------------------------
(***************************************************************************)
(* The text listing of a chunk: what disassemble writes (disasm.rs, the    *)
(* Display of Instruction, the writers of asm.rs) and what assemble reads  *)
(* back (asm.rs).  A token is <<kind, value>>: a word of the grammar, a    *)
(* number under its keyword, a quoted string or a run of hex digits.       *)
(* White space separates tokens and is trimmed at both ends of a line, so  *)
(* an empty run of hex digits leaves no token.                             *)
(***************************************************************************)
EXTENDS ModuleFormat

Tok(k) == <<k, 0>>

-----------------------------------------------------------------------------
(* Writing.                                                                *)

QuotedString(v) == <<<<"\"", <<v.n, v.d>>>>>>
HexDigits(v) == IF v.n = 0 THEN <<>> ELSE <<<<"hex", <<v.n, v.d>>>>>>

\* write_value, constants of a .const line
RECURSIVE write_text(_)
write_text(v) ==
    LET sep(i) == IF i > 1 THEN <<Tok(",")>> ELSE <<>>
        items(s) == FlattenSeq([i \in DOMAIN s |-> sep(i) \o write_text(s[i])])
    IN  CASE v.t = "Unit" -> <<Tok("unit")>>
          [] v.t = "Bool" -> <<Tok("bool"), Tok(IF v.n = 1 THEN "true" ELSE "false")>>
          [] v.t = "Int" -> <<Tok("int"), <<"num", v.n>>>>
          [] v.t = "Float" -> <<Tok("float"), <<"real", <<v.n, v.d>>>>>>
          [] v.t = "Pid" -> <<Tok("pid"), <<"num", v.n>>>>
          [] v.t = "Cap" -> <<Tok("cap"), <<"num", v.n>>>>
          [] v.t = "Str" -> <<Tok("str")>> \o QuotedString(v)
          [] v.t = "Bytes" -> <<Tok("bytes")>> \o HexDigits(v)
          [] v.t = "List" -> <<Tok("list [")>> \o items(v.s) \o <<Tok("]")>>
          [] v.t = "Record" -> <<Tok("record [")>> \o items(v.s) \o <<Tok("]")>>
          [] v.t = "Map" ->
               <<Tok("map [")>> \o
               FlattenSeq([i \in DOMAIN Children(v) |->
                   sep(i) \o write_text(MapKeys(v)[i]) \o <<Tok("->")>> \o write_text(Children(v)[i])])
               \o <<Tok("]")>>
          [] v.t = "Msg" ->
               <<Tok("msg"), <<"num", v.s[2].n>>, <<"num", v.s[3].n>>, <<"num", v.d>>, <<"num", v.n>>>>
               \o write_text(v.s[1])

RegAB == <<<<"r", "a">>, <<"r", "b">>>>
RegABC == <<<<"r", "a">>, <<"r", "b">>, <<"r", "c">>>>

\* Display for Instruction: the operands an opcode prints, keyword and field
Display(ins) ==
    LET op == ins.op IN
    CASE op \in {"Halt", "Yield", "Nop"} -> <<>>
      [] op = "LoadConst" -> <<<<"r", "a">>, <<"const", "imm">>>>
      [] op \in {"Move", "ListLen", "MapLen", "RecordLen", "StrLen", "BytesLen", "TableOpen", "Neg",
                 "BitNot", "Send", "ReceiveTimeout", "ReceiveMatch", "IsAlive", "ExitSignal",
                 "Monitor", "Link", "Whereis"} -> RegAB
      [] op = "LoadImm" -> <<<<"r", "a">>, <<"num", "imm">>>>
      [] op \in {"Add", "Sub", "Mul", "Div", "Mod", "Eq", "Ne", "Lt", "Le", "Gt", "Ge", "BitAnd",
                 "BitOr", "BitXor", "Shl", "Shr", "Ushr", "MapGet", "TableGet", "TablePut", "Ask"} -> RegABC
      [] op \in {"AddImm", "SubImm", "MulImm", "EqImm", "NeImm", "LtImm", "LeImm", "GtImm", "GeImm",
                 "ListGet", "RecordGet"} -> RegAB \o <<<<"num", "imm">>>>
      [] op \in {"ListPack", "RecordPack"} -> RegAB \o <<<<"count=", "imm">>>>
      [] op = "MapPack" -> RegAB \o <<<<"pairs=", "imm">>>>
      [] op = "ReceiveMatchCmp" ->
           <<<<"r", "a">>, <<"tag=r", "b">>, <<"bound=r", "c">>, <<"cmp=", "imm">>>>
      [] op \in {"Jump", "SetRestartPolicy", "Trap"} -> <<<<"num", "imm">>>>
      [] op \in {"Branch", "BranchTrue"} -> <<<<"r", "a">>, <<"num", "imm">>>>
      [] op \in {"Call", "TailCall"} -> <<<<"r", "a">>, <<"fn", "imm">>, <<"argc=", "b">>>>
      [] op = "CallNative" -> <<<<"r", "a">>, <<"native", "imm">>, <<"argc=", "b">>>>
      [] op = "CallNativeFrom" -> RegAB \o <<<<"native", "imm">>>>
      [] op \in {"Return", "Exit", "Sleep", "Receive", "SelfPid", "FreshRequestId", "Demonitor",
                 "Unlink", "RegisterName", "SetTrapExit"} -> <<<<"r", "a">>>>
      [] op = "Spawn" -> <<<<"r", "a">>, <<"fn", "imm">>, <<"argc=", "b">>, <<"rights=", "c">>>>
      [] op = "ReceiveMatchImm" -> <<<<"r", "a">>, <<"tag=", "imm">>>>
      [] op = "ReceiveMatchTimeout" -> <<<<"r", "a">>, <<"tag=r", "b">>, <<"timeout=r", "c">>>>
      [] op = "ReceiveMatchImmTimeout" -> <<<<"r", "a">>, <<"tag=", "imm">>, <<"timeout=r", "b">>>>
      [] op = "DictPut" -> <<<<"r", "a">>, <<"key=r", "b">>, <<"val=r", "c">>>>
      [] op \in {"DictGet", "DictErase"} -> <<<<"r", "a">>, <<"key=r", "b">>>>
      [] op \in {"ReceiveMatchEq", "ReceiveMatchValue"} ->
           <<<<"r", "a">>, <<"tag=r", "b">>, <<"payload=r", "c">>>>
      [] op = "StartChild" -> <<<<"r", "a">>, <<"fn", "imm">>, <<"policy=", "b">>>>
      [] op = "SendRemote" -> <<<<"node=r", "a">>, <<"name=r", "b">>, <<"msg=r", "c">>>>
      [] op = "StartSupervisor" -> <<<<"strategy=", "imm">>>>
      [] op = "ReceiveMatchKind" -> <<<<"r", "a">>, <<"kind=", "imm">>>>
      [] op = "ReceiveMatchCorr" -> <<<<"r", "a">>, <<"tag=r", "b">>, <<"id=r", "c">>>>
      [] op = "ReceiveMatchCorrImm" -> <<<<"r", "a">>, <<"tag=", "imm">>, <<"id=r", "b">>>>
      [] op = "AskTimeout" -> RegABC \o <<<<"timeout=r", "imm">>>>
      [] op = "Delegate" -> RegAB \o <<<<"rights=", "imm">>>>
                            \o (IF ins.c = 255 THEN <<>> ELSE <<<<"native=r", "c">>>>)
      [] op = "HostAwait" -> RegAB \o <<<<"op=", "imm">>>>

write_line(ins) ==
    LET d == Display(ins) IN <<Tok(ins.op)>> \o [i \in DOMAIN d |-> <<d[i][1], ins[d[i][2]]>>]

\* disassemble: one line per directive and per instruction, in this order
disassemble(ch) ==
    <<<<Tok(".chunk")>> \o QuotedString(ch.name), <<Tok(".abi"), <<"num", module_abi(ch.constants)>>>>>>
    \o [i \in DOMAIN ch.constants |-> <<Tok(".const")>> \o write_text(ch.constants[i])]
    \o [i \in DOMAIN ch.functions |->
          <<Tok(".fn")>> \o QuotedString(ch.functions[i].name) \o
          <<<<"entry=", ch.functions[i].entry>>, <<"arity=", ch.functions[i].arity>>,
            <<"regs=", ch.functions[i].regs>>>>]
    \o [i \in DOMAIN ch.code |-> <<<<"index", i - 1>>>> \o write_line(ch.code[i])]

-----------------------------------------------------------------------------
(* Reading.  As in the decoder, a read at pos gives [ok, pos, v].          *)

KindAt(line, pos) == IF pos < Len(line) THEN line[pos + 1][1] ELSE "end"
NumAt(line, pos) == line[pos + 1][2]

ReadText(line, pos, tag) ==
    IF KindAt(line, pos) # "\"" THEN Failed
    ELSE Got(pos + 1, Val(tag, NumAt(line, pos)[1], NumAt(line, pos)[2], <<>>))

Numeral(line, pos, tag) ==
    IF KindAt(line, pos) = "num" THEN Got(pos + 1, Val(tag, NumAt(line, pos), 1, <<>>)) ELSE Failed

\* "bytes " then hex digits up to a separator.  With nothing at all after the
\* keyword the trimmed line no longer matches "bytes " and is an unknown constant.
ReadBytes(line, pos) ==
    CASE KindAt(line, pos) = "end" -> Failed
      [] KindAt(line, pos) = "hex" ->
           Got(pos + 1, Val("Bytes", NumAt(line, pos)[1], NumAt(line, pos)[2], <<>>))
      [] OTHER -> Got(pos, Blob(0, 0))

RECURSIVE take_value(_, _)

\* an entry of a map: an Int or Str key, the arrow and the value
TakeEntry(line, pos) ==
    LET key == take_value(line, pos)
        v == take_value(line, key.pos + 1)
    IN  IF key.ok /\ key.v.t \in {"Int", "Str"} /\ KindAt(line, key.pos) = "->" /\ v.ok
        THEN Got(v.pos, <<key.v, v.v>>) ELSE Failed

\* take_list, take_map: items up to the bracket, separated by commas; `open` is the keyword
RECURSIVE TakeItems(_, _, _, _)
TakeItems(line, pos, open, acc) ==
    LET r == IF open = "map [" THEN TakeEntry(line, pos) ELSE take_value(line, pos)
    IN  CASE ~r.ok -> Failed
          [] KindAt(line, r.pos) = "]" -> Got(r.pos + 1, Append(acc, r.v))
          [] KindAt(line, r.pos) = "," -> TakeItems(line, r.pos + 1, open, Append(acc, r.v))
          [] OTHER -> Failed
TakeBracket(line, pos, open) ==
    IF KindAt(line, pos) = "]" THEN Got(pos + 1, <<>>) ELSE TakeItems(line, pos, open, <<>>)

take_value(line, pos) ==
    LET k == KindAt(line, pos)
        at == pos + 1
    IN  CASE k = "unit" -> Got(at, Unit)
          [] k = "bool" -> IF KindAt(line, at) \in {"true", "false"}
                           THEN Got(at + 1, Bool(KindAt(line, at) = "true")) ELSE Failed
          [] k = "int" -> Numeral(line, at, "Int")
          [] k = "float" -> IF KindAt(line, at) = "real"
                            THEN Got(at + 1, Val("Float", NumAt(line, at)[1], NumAt(line, at)[2], <<>>))
                            ELSE Failed
          [] k = "pid" -> Numeral(line, at, "Pid")
          [] k = "cap" -> Numeral(line, at, "Cap")
          [] k = "str" -> ReadText(line, at, "Str")
          [] k = "bytes" -> ReadBytes(line, at)
          [] k \in {"list [", "record [", "map ["} ->
               LET r == TakeBracket(line, at, k)
                   tag == CASE k = "list [" -> "List" [] k = "record [" -> "Record" [] k = "map [" -> "Map"
               IN  IF r.ok THEN Built(r, TryContainer(tag, r.v)) ELSE Failed
          [] k = "msg" ->
               IF \E i \in 0..3 : KindAt(line, at + i) # "num" THEN Failed
               ELSE LET p == take_value(line, at + 4)
                    IN  IF p.ok THEN Got(p.pos, Msg(NumAt(line, at), NumAt(line, at + 1),
                                                    NumAt(line, at + 2), NumAt(line, at + 3), p.v))
                        ELSE Failed
          [] OTHER -> Failed

\* parse_value: nothing may follow the constant
parse_value(line) ==
    LET r == take_value(line, 1) IN IF r.ok /\ r.pos = Len(line) THEN r ELSE Failed

parse_fn(line) ==
    IF /\ Len(line) = 5 /\ KindAt(line, 1) = "\"" /\ KindAt(line, 2) = "entry="
       /\ KindAt(line, 3) = "arity=" /\ KindAt(line, 4) = "regs="
       /\ NumAt(line, 3) \in 0..255 /\ NumAt(line, 4) \in 0..255
    THEN Got(5, FunctionDef(ReadText(line, 1, "Str").v, NumAt(line, 2), NumAt(line, 3), NumAt(line, 4)))
    ELSE Failed

\* parse_instruction: the operands it expects of an opcode and the field each fills
Operands(op, native) ==
    CASE op \in {"Halt", "Yield", "Nop"} -> <<>>
      [] op = "LoadConst" -> <<<<"r", "a">>, <<"const", "imm">>>>
      [] op \in {"Move", "Neg", "BitNot", "Send", "ReceiveTimeout", "ReceiveMatch", "IsAlive",
                 "ExitSignal", "TableOpen", "Whereis", "Monitor", "Link", "ListLen", "MapLen",
                 "RecordLen", "StrLen", "BytesLen"} -> <<<<"r", "a">>, <<"r", "b">>>>
      [] op \in {"LoadImm", "Branch", "BranchTrue"} -> <<<<"r", "a">>, <<"num", "imm">>>>
      [] op \in {"Trap", "SetRestartPolicy", "Jump"} -> <<<<"num", "imm">>>>
      [] op \in {"Add", "Sub", "Mul", "Div", "Mod", "Eq", "Ne", "Lt", "Le", "Gt", "Ge", "BitAnd",
                 "BitOr", "BitXor", "Shl", "Shr", "Ushr", "MapGet", "TableGet", "TablePut", "Ask"} ->
           <<<<"r", "a">>, <<"r", "b">>, <<"r", "c">>>>
      [] op \in {"AddImm", "SubImm", "MulImm", "EqImm", "NeImm", "LtImm", "LeImm", "GtImm", "GeImm",
                 "ListGet", "RecordGet"} -> <<<<"r", "a">>, <<"r", "b">>, <<"num", "imm">>>>
      [] op \in {"ListPack", "RecordPack"} -> <<<<"r", "a">>, <<"r", "b">>, <<"count=", "imm">>>>
      [] op = "MapPack" -> <<<<"r", "a">>, <<"r", "b">>, <<"pairs=", "imm">>>>
      [] op \in {"DictGet", "DictErase"} -> <<<<"r", "a">>, <<"key=r", "b">>>>
      [] op = "StartSupervisor" -> <<<<"strategy=", "imm">>>>
      [] op \in {"Call", "TailCall"} -> <<<<"r", "a">>, <<"fn", "imm">>, <<"argc=", "b">>>>
      [] op = "CallNative" -> <<<<"r", "a">>, <<"native", "imm">>, <<"argc=", "b">>>>
      [] op = "CallNativeFrom" -> <<<<"r", "a">>, <<"r", "b">>, <<"native", "imm">>>>
      [] op \in {"Return", "Exit", "Sleep", "Receive", "SelfPid", "FreshRequestId", "Demonitor",
                 "Unlink", "RegisterName", "SetTrapExit"} -> <<<<"r", "a">>>>
      [] op = "Spawn" -> <<<<"r", "a">>, <<"fn", "imm">>, <<"argc=", "b">>, <<"rights=", "c">>>>
      [] op = "ReceiveMatchImm" -> <<<<"r", "a">>, <<"tag=", "imm">>>>
      [] op = "ReceiveMatchKind" -> <<<<"r", "a">>, <<"kind=", "imm">>>>
      [] op = "ReceiveMatchTimeout" -> <<<<"r", "a">>, <<"tag=r", "b">>, <<"timeout=r", "c">>>>
      [] op \in {"ReceiveMatchEq", "ReceiveMatchValue"} ->
           <<<<"r", "a">>, <<"tag=r", "b">>, <<"payload=r", "c">>>>
      [] op = "ReceiveMatchCorr" -> <<<<"r", "a">>, <<"tag=r", "b">>, <<"id=r", "c">>>>
      [] op = "DictPut" -> <<<<"r", "a">>, <<"key=r", "b">>, <<"val=r", "c">>>>
      [] op = "ReceiveMatchImmTimeout" -> <<<<"r", "a">>, <<"tag=", "imm">>, <<"timeout=r", "b">>>>
      [] op = "ReceiveMatchCorrImm" -> <<<<"r", "a">>, <<"tag=", "imm">>, <<"id=r", "b">>>>
      [] op = "StartChild" -> <<<<"r", "a">>, <<"fn", "imm">>, <<"policy=", "b">>>>
      [] op = "SendRemote" -> <<<<"node=r", "a">>, <<"name=r", "b">>, <<"msg=r", "c">>>>
      [] op = "AskTimeout" -> <<<<"r", "a">>, <<"r", "b">>, <<"r", "c">>, <<"timeout=r", "imm">>>>
      [] op = "Delegate" -> <<<<"r", "a">>, <<"r", "b">>, <<"rights=", "imm">>>>
                            \o (IF native THEN <<<<"native=r", "c">>>> ELSE <<>>)
      [] op = "HostAwait" -> <<<<"r", "a">>, <<"r", "b">>, <<"op=", "imm">>>>
      [] op = "ReceiveMatchCmp" ->
           <<<<"r", "a">>, <<"tag=r", "b">>, <<"bound=r", "c">>, <<"cmp=", "imm">>>>

\* the fields an opcode does not print are 0; an absent native grant is 255
BlankFields(op) == Instr(op, 0, 0, IF op = "Delegate" THEN 255 ELSE 0, 0)

parse_instruction(line) ==
    IF KindAt(line, 1) \notin Opcode THEN Failed
    ELSE LET op == KindAt(line, 1)
             want == Operands(op, Len(line) > 5)
             value(f) == LET at == {i \in DOMAIN want : want[i][2] = f}
                         IN  IF at = {} THEN BlankFields(op)[f] ELSE NumAt(line, 1 + CHOOSE i \in at : TRUE)
         IN  IF \/ Len(line) # 2 + Len(want)
                \/ \E i \in DOMAIN want : KindAt(line, 1 + i) # want[i][1]
             THEN Failed
             ELSE Got(Len(line), Instr(op, value("a"), value("b"), value("c"), value("imm")))

\* assemble: the lines of each directive, in the order they come
LinesOf(text, kind) == SelectSeq(text, LAMBDA line : line[1][1] = kind)
ReadAll(lines, rd(_)) == [i \in DOMAIN lines |-> rd(lines[i])]
AllOk(rs) == \A i \in DOMAIN rs : rs[i].ok
ValuesOf(rs) == [i \in DOMAIN rs |-> rs[i].v]

assemble(text) ==
    LET cs == ReadAll(LinesOf(text, ".const"), parse_value)
        fs == ReadAll(LinesOf(text, ".fn"), parse_fn)
        code == LinesOf(text, "index")
        is == ReadAll(code, parse_instruction)
        name == LinesOf(text, ".chunk")
        abi == LinesOf(text, ".abi")
    IN  IF \/ ~AllOk(cs) \/ ~AllOk(fs) \/ ~AllOk(is) \/ name = <<>> \/ abi = <<>>
           \/ \E i \in DOMAIN code : NumAt(code[i], 0) # i - 1
        THEN NoChunk
        ELSE LET ch == Chunk(ReadText(name[1], 1, "Str").v, ValuesOf(cs), ValuesOf(fs), ValuesOf(is))
             IN  IF NumAt(abi[1], 1) = module_abi(ch.constants) /\ verify_with(ch, FALSE)
                 THEN ch ELSE NoChunk
=============================================================================
