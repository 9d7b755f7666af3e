---------------------------- MODULE MCExecution -----------------------------
(***************************************************************************)
(* Small programs that between them execute every opcode, each of them     *)
(* also with one field of its module damaged.                              *)
(***************************************************************************)
EXTENDS Execution

\* a line of a program: an instruction, or a call of the builder that emits one
I(op, a, b, c, imm) == <<op, <<a, b, c, imm>>>>
E(method, args) == <<method, args>>
Name == Str(1, 97)
Main(arity, regs) == FunctionDef(Name, 0, arity, regs)
Program(constants, functions, code) == Chunk(Name, constants, functions, code)

MCArith == Program(<<>>, <<Main(1, 3)>>,
    <<E("load_imm", <<1, -2>>), E("add", <<2, 0, 1>>), E("mul", <<2, 2, 2>>), E("modulo", <<2, 2, 1>>),
      E("sub", <<2, 0, 2>>), E("neg", <<2, 2>>), E("lt", <<1, 1, 2>>), I("Branch", 1, 0, 0, 1),
      E("move", <<0, 2>>), E("return", <<0>>)>>)

MCCompare == Program(<<>>, <<Main(1, 3)>>,
    <<E("add_imm", <<1, 0, 3>>), E("mul_imm", <<1, 1, 3>>), E("sub_imm", <<2, 1, 1>>), E("div", <<1, 1, 2>>),
      E("eq_imm", <<2, 0, 3>>), E("ne_imm", <<2, 2, 1>>), E("lt_imm", <<2, 1, 0>>), E("le_imm", <<2, 1, 1>>),
      E("gt_imm", <<2, 1, 1>>), E("ge_imm", <<2, 0, 1>>), E("eq", <<1, 0, 2>>), I("Ne", 1, 0, 1, 0),
      E("le", <<1, 0, 0>>), I("Gt", 1, 0, 0, 0), I("Ge", 1, 0, 0, 0), I("BranchTrue", 1, 0, 0, -3),
      E("halt", <<>>)>>)

MCBits == Program(<<>>, <<Main(1, 3)>>,
    <<E("load_imm", <<1, 5>>), E("bit_and", <<2, 0, 1>>), E("bit_or", <<2, 2, 1>>), E("bit_xor", <<2, 2, 0>>),
      E("bit_not", <<2, 2>>), E("shl", <<2, 2, 1>>), E("shr", <<2, 2, 1>>), E("ushr", <<2, 2, 1>>),
      I("Nop", 0, 0, 0, 0), I("Jump", 0, 0, 0, -9)>>)

\* heap values through a call, a tail call and two functions
MCCalls == Program(<<Str(2, 513), List(<<I64(1), Str(1, 9)>>)>>,
    <<Main(1, 2), FunctionDef(Name, 4, 1, 2), FunctionDef(Str(2, 7), 6, 1, 1)>>,
    <<E("load_const", <<1, 0>>), I("BranchTrue", 0, 0, 0, 0), E("call", <<0, 1, 1>>), I("TailCall", 0, 1, 0, 2),
      E("load_const", <<1, 1>>), E("return", <<1>>), E("call", <<0, 2, 1>>)>>)

MCData == Program(<<Str(2, 300), Blob(1, 4), Blob(0, 0)>>, <<Main(1, 4)>>,
    <<E("load_const", <<1, 0>>), E("list_pack", <<2, 0, 2>>), E("list_len", <<3, 2>>),
      E("list_get", <<3, 2, 1>>), E("map_pack", <<2, 0, 1>>), E("map_get", <<3, 2, 0>>), E("map_len", <<3, 2>>),
      E("record_pack", <<2, 2, 1>>), E("record_get", <<3, 2, 0>>), E("record_len", <<3, 2>>),
      E("str_len", <<1, 1>>), E("load_const", <<1, 1>>), E("bytes_len", <<1, 1>>), E("exit", <<1>>)>>)

MCDict == Program(<<Str(2, 300), Str(1, 5)>>, <<Main(1, 3)>>,
    <<E("load_const", <<1, 0>>), E("load_imm", <<2, 1>>), E("dict_put", <<2, 2, 1>>),
      E("load_imm", <<2, 1>>), E("load_const", <<1, 1>>), E("dict_put", <<1, 2, 0>>), E("dict_get", <<1, 2>>),
      E("dict_erase", <<0, 2>>), E("fresh_request_id", <<1>>), E("return", <<1>>)>>)

MCReceive == Program(<<>>, <<Main(1, 2)>>,
    <<E("load_imm", <<1, 1>>), E("receive_match", <<0, 1>>), E("receive_match_imm", <<0, 1>>),
      E("receive_match_timeout", <<0, 1, 1>>), E("receive_match_imm_timeout", <<0, 1, 1>>),
      E("receive_match_eq", <<0, 1, 1>>), E("receive_match_value", <<0, 1, 1>>), E("receive_match_cmp", <<0, 1, 1, 2>>),
      E("receive_match_kind", <<0, 2>>), E("receive_match_corr", <<0, 1, 1>>), E("receive_match_corr_imm", <<0, 1, 1>>),
      E("receive_timeout", <<0, 1>>), E("receive", <<1>>)>>)

MCEffects == Program(<<Str(1, 5)>>, <<Main(1, 3), FunctionDef(Name, 15, 0, 1)>>,
    <<E("self_pid", <<1>>), E("receive", <<2>>), E("send", <<1, 2>>), E("ask", <<0, 1, 2>>),
      E("load_imm", <<0, 1>>), E("ask_timeout", <<0, 1, 2, 0>>), E("host_await", <<0, 2, 0>>), E("spawn", <<0, 1, 0, 3>>),
      E("start_supervisor", <<1>>), E("start_child", <<0, 1, 1>>), E("load_imm", <<0, 1>>), E("sleep", <<0>>),
      E("load_const", <<1, 0>>), E("send_remote", <<0, 1, 2>>), E("halt", <<>>), E("trap", <<3>>)>>)

MCRelations == Program(<<Str(1, 5)>>, <<Main(1, 3)>>,
    <<E("self_pid", <<1>>), E("monitor", <<0, 1>>), E("demonitor", <<0>>), E("link", <<0, 1>>),
      E("unlink", <<0>>), E("is_alive", <<0, 1>>), E("set_trap_exit", <<0>>),
      E("set_restart_policy", <<2>>), E("delegate", <<0, 1, 1, 255>>), E("delegate", <<0, 1, 1, 0>>),
      E("load_imm", <<2, 1>>), E("exit_signal", <<1, 2>>), E("yield", <<>>)>>)

MCTables == Program(<<Str(1, 5), Cap(7), Pid(2)>>, <<Main(1, 3)>>,
    <<E("load_const", <<1, 0>>), E("register_name", <<1>>), E("whereis", <<0, 1>>),
      E("table_open", <<0, 1>>), E("table_put", <<0, 1, 2>>), E("table_get", <<2, 0, 1>>),
      E("call_native", <<2, 0, 0>>), E("native1_from", <<1, 2, 1>>), E("call_native", <<0, 2, 1>>)>>)

\* a hop taken apart and made again, with and without the sender of old
MCEnvelope == Program(<<>>, <<Main(1, 5)>>,
    <<E("receive", <<0>>), E("native1_from", <<1, 0, 3>>), E("native1_from", <<2, 0, 4>>), E("native1_from", <<3, 0, 5>>),
      E("native1_from", <<4, 0, 6>>), E("call_native", <<1, 2, 4>>), E("call_native", <<1, 2, 3>>),
      E("native1_from", <<1, 0, 7>>), E("call_native", <<1, 1, 0>>)>>)

\* pools of every shape the format has a tag for
MCPool == Program(<<Unit, Bool(TRUE), Float(1, 2), Msg(1, 0, 3, 1, Record(<<Str(1, 5)>>)),
                    Map(<<I64(1), List(<<Blob(0, 0), Unit>>), Str(1, 5), Record(<<Bool(FALSE)>>)>>)>>,
                  <<Main(0, 1)>>,
    <<E("load_const", <<0, 4>>), E("load_const", <<0, 3>>), E("return", <<0>>)>>)

MCRecords == Program(<<Record(<<Map(<<Str(1, 5), I64(2)>>), List(<<Unit>>)>>)>>, <<Main(1, 1)>>,
    <<E("load_const", <<0, 0>>), E("list_pack", <<0, 0, 1>>), E("list_pack", <<0, 0, 1>>), I("Jump", 0, 0, 0, -2)>>)

\* hops of three shapes to another node
MCRemoteHops == Program(
    <<Str(1, 5), Msg(0, 0, 0, 1, Msg(0, 0, 0, 2, I64(1))), Msg(0, 0, 2, 1, Msg(0, 0, 0, 1, Pid(2))),
      Msg(4, 0, 0, 1, List(<<Str(2, 300), Unit>>))>>, <<Main(0, 3)>>,
    <<E("load_imm", <<0, 1>>), E("load_const", <<1, 0>>), E("load_const", <<2, 1>>), E("send_remote", <<0, 1, 2>>),
      E("load_const", <<2, 2>>), E("send_remote", <<0, 1, 2>>), E("load_const", <<2, 3>>),
      E("send_remote", <<0, 1, 2>>), I("Jump", 0, 0, 0, -7)>>)

\* a loop that keeps a Bool in its frame, calls a leaf and a function that recurses
MCTrace == Program(<<Bool(TRUE)>>,
    <<Main(1, 4), FunctionDef(Name, 9, 2, 3), FunctionDef(Name, 11, 1, 2)>>,
    <<E("load_imm", <<2, 0>>), E("lt", <<3, 2, 0>>), I("Branch", 3, 0, 0, 4), E("move", <<1, 3>>),
      E("call", <<0, 2, 1>>), E("call", <<2, 1, 2>>), I("Jump", 0, 0, 0, -6), E("div", <<0, 0, 2>>), E("return", <<3>>),
      E("add_imm", <<2, 0, 1>>), E("return", <<2>>),
      E("le_imm", <<1, 0, 1>>), I("Branch", 1, 0, 0, 1), E("return", <<0>>),
      E("sub_imm", <<0, 0, 1>>), E("call", <<0, 2, 1>>), E("return", <<0>>)>>)

\* floats through a branch, with a zero divisor and a Unit beside them
MCFloats == Program(<<Float(1, 2), Float(0, 1)>>, <<Main(1, 3)>>,
    <<E("load_const", <<1, 0>>), E("sub", <<0, 0, 1>>), I("Branch", 0, 0, 0, 2), E("lt_imm", <<2, 0, 1>>),
      E("div", <<1, 1, 0>>), E("move", <<0, 1>>), E("return", <<0>>)>>)

\* the lines of a program as instructions
Assembled(program) ==
    [program EXCEPT !.code = [i \in DOMAIN @ |->
        LET op == @[i][1]
            args == @[i][2]
        IN  IF op \in Opcode THEN Instr(op, args[1], args[2], args[3], args[4]) ELSE Emitted(op, args)]]

MCSources == {Assembled(p) : p \in {MCArith, MCCompare, MCBits, MCCalls, MCData, MCDict, MCReceive, MCEffects,
                                    MCRelations, MCTables, MCTrace, MCFloats, MCEnvelope, MCPool, MCRecords, MCRemoteHops}}
MCDamage == {0, 2}
MCArguments == {<<I64(3)>>, <<Float(1, 2)>>, <<Str(2, 5)>>}
MCAnswers == {Cap(1), Unit}
MCHops == {Msg(1, 0, 1, 1, I64(1)), Msg(1, 2, 2, 1, Str(2, 5))}
MCOtherBytes == {0, 12}
MCSlices == {1, 3, 9}
=============================================================================
