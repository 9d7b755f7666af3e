---------------------------- MODULE ModuleFormat ----------------------------
(***************************************************************************)
(* The binary form of a chunk: the BFV0 module (bytecode/format.rs).       *)
(*                                                                         *)
(* A module is a sequence of field words: a byte, a length or a number is  *)
(* one word, a blob is its length and one word per byte.                   *)
(***************************************************************************)
EXTENDS Bytecode

CONSTANTS
    MaxModuleItems, \* MAX_ITEMS: constants, functions, instructions
    MaxName,        \* MAX_NAME
    MaxBlob         \* MAX_BLOB

MAGIC == 4242
ABI_VERSION == 5
ABI_VERSION_LISTS == 6
ABI_VERSION_MAPS == 7
ABI_VERSION_RECORDS == 8

-----------------------------------------------------------------------------
(* Encoding.                                                               *)

RECURSIVE ContainsTag(_, _)
ContainsTag(v, tag) == v.t = tag \/ \E i \in DOMAIN Children(v) : ContainsTag(Children(v)[i], tag)
PoolContains(pool, tag) == \E i \in DOMAIN pool : ContainsTag(pool[i], tag)

\* mutant of module_abi: a record inside another constant is not looked for
ShallowAbi(pool) ==
    CASE \E i \in DOMAIN pool : pool[i].t = "Record" -> ABI_VERSION_RECORDS
      [] \E i \in DOMAIN pool : pool[i].t = "Map" -> ABI_VERSION_MAPS
      [] \E i \in DOMAIN pool : pool[i].t = "List" -> ABI_VERSION_LISTS
      [] OTHER -> ABI_VERSION

module_abi(pool) ==
    CASE PoolContains(pool, "Record") -> ABI_VERSION_RECORDS
      [] PoolContains(pool, "Map") -> ABI_VERSION_MAPS
      [] PoolContains(pool, "List") -> ABI_VERSION_LISTS
      [] OTHER -> ABI_VERSION

\* write_string, write_blob: the bytes of content d are its base-256 digits
write_blob(v) == <<v.n>> \o [i \in 1..v.n |-> (v.d \div 256 ^ (i - 1)) % 256]

FlattenMap(op(_), s) == FlattenSeq([i \in DOMAIN s |-> op(s[i])])

RECURSIVE write_value(_)
write_value(v) ==
    <<wire_tag(v)>> \o
    (CASE v.t = "Unit" -> <<>>
       [] v.t \in {"Bool", "Int", "Pid", "Cap"} -> <<v.n>>
       [] v.t = "Float" -> <<v.n, v.d>>
       [] v.t \in {"Str", "Bytes"} -> write_blob(v)
       [] v.t = "Msg" -> <<v.s[2].n, v.s[3].n, v.d, v.n>> \o write_value(v.s[1])
       [] v.t \in {"List", "Record"} -> <<Len(v.s)>> \o FlattenMap(write_value, v.s)
       [] v.t = "Map" ->
            <<Len(v.s) \div 2>> \o
            FlattenSeq([i \in DOMAIN Children(v) |->
                LET k == MapKeys(v)[i]
                IN  (IF k.t = "Int" THEN <<0, k.n>> ELSE <<1>> \o write_blob(k))
                    \o write_value(Children(v)[i])]))

write_function(def) == write_blob(def.name) \o <<def.entry, def.arity, def.regs>>
write_instruction(ins) == <<OpcodeByte[ins.op], ins.a, ins.b, ins.c, ins.imm>>

encode(ch) ==
    <<MAGIC, module_abi(ch.constants)>> \o write_blob(ch.name)
    \o <<Len(ch.constants)>> \o FlattenMap(write_value, ch.constants)
    \o <<Len(ch.functions)>> \o FlattenMap(write_function, ch.functions)
    \o <<Len(ch.code)>> \o FlattenMap(write_instruction, ch.code)

-----------------------------------------------------------------------------
(* Decoding.  A read at pos gives [ok, pos, v]: what was read and where    *)
(* the next read starts.                                                   *)

Failed == [ok |-> FALSE, pos |-> 0, v |-> Unit]
Got(pos, v) == [ok |-> TRUE, pos |-> pos, v |-> v]
Has(data, pos, n) == Len(data) - pos >= n
Word(data, pos) == data[pos + 1]

\* read_string / read_blob: the length against its limit, then that many bytes;
\* text is refused when it is not UTF-8
read_blob(data, pos, tag, limit) ==
    IF ~Has(data, pos, 1) \/ Word(data, pos) \notin 0..limit \/ ~Has(data, pos + 1, Word(data, pos))
    THEN Failed
    ELSE LET n == Word(data, pos)
             byte(i) == Word(data, pos + i)
         IN  IF tag = "Str" /\ \E i \in 1..n : byte(i) \notin 0..127 THEN Failed
             ELSE Got(pos + 1 + n,
                      Val(tag, n, SumOver([i \in 1..n |-> byte(i) * 256 ^ (i - 1)]), <<>>))

\* read `left` items one after the other with rd(pos), gathering their values
RECURSIVE ReadMany(_, _, _, _)
ReadMany(rd(_), pos, left, acc) ==
    IF left = 0 THEN Got(pos, acc)
    ELSE LET r == rd(pos)
         IN  IF r.ok THEN ReadMany(rd, r.pos, left - 1, Append(acc, r.v)) ELSE Failed

\* what a constructor that may refuse makes of the items it was given
Built(r, v) == IF r.ok /\ v # NoValue THEN Got(r.pos, v) ELSE Failed
TryContainer(tag, items) ==
    CASE tag = "List" -> try_list(items)
      [] tag = "Record" -> try_record(items)
      [] tag = "Map" -> try_map(FlattenSeq(items))

ReadKey(data, pos) ==
    IF ~Has(data, pos, 2) THEN Failed
    ELSE CASE Word(data, pos) = 0 -> Got(pos + 2, I64(Word(data, pos + 1)))
           [] Word(data, pos) = 1 -> read_blob(data, pos + 1, "Str", MaxBlob)
           [] OTHER -> Failed

\* the tags a header and a trust level admit
AllowedTag(tag, trusted, abi) ==
    /\ tag \in {"Pid", "Msg", "Cap"} => trusted
    /\ tag = "List" => abi >= ABI_VERSION_LISTS
    /\ tag = "Map" => abi >= ABI_VERSION_MAPS
    /\ tag = "Record" => abi >= ABI_VERSION_RECORDS

RECURSIVE read_value(_, _, _, _, _)
read_value(data, pos, trusted, depth, abi) ==
    LET below(p) == read_value(data, p, trusted, depth + 1, abi)
        pair(p) == LET k == ReadKey(data, p)
                       v == below(k.pos)
                   IN  IF k.ok /\ v.ok THEN Got(v.pos, <<k.v, v.v>>) ELSE Failed
        item(p) == IF Tags[Word(data, pos) + 1] = "Map" THEN pair(p) ELSE below(p)
        at == pos + 1
        n == Word(data, at)
        arg(i) == Word(data, at + i - 1)
    IN  IF \/ depth > MaxValueDepth \/ ~Has(data, pos, 1)
           \/ Word(data, pos) \notin 0..(Len(Tags) - 1)
        THEN Failed
        ELSE LET tag == Tags[Word(data, pos) + 1]
             IN  IF ~AllowedTag(tag, trusted, abi) THEN Failed
                 ELSE CASE tag = "Unit" -> Got(at, Unit)
                        [] tag \in {"Str", "Bytes"} -> read_blob(data, at, tag, MaxBlob)
                        [] ~Has(data, at, 1) -> Failed
                        [] tag = "Bool" -> IF n \in {0, 1} THEN Got(at + 1, Bool(n = 1)) ELSE Failed
                        [] tag \in {"Int", "Pid", "Cap"} -> Got(at + 1, Val(tag, n, 1, <<>>))
                        [] tag = "Float" ->
                             IF Has(data, at, 2) THEN Got(at + 2, Val(tag, n, arg(2), <<>>)) ELSE Failed
                        [] tag = "Msg" ->
                             IF ~Has(data, at, 4) THEN Failed
                             ELSE LET p == below(at + 4)
                                  IN  IF p.ok THEN Got(p.pos, Msg(n, arg(2), arg(3), arg(4), p.v))
                                      ELSE Failed
                        [] n \notin 0..MaxItems -> Failed
                        [] OTHER ->
                             LET r == ReadMany(item, at + 1, n, <<>>)
                             IN  IF r.ok THEN Built(r, TryContainer(tag, r.v)) ELSE Failed

read_function(data, pos) ==
    LET name == read_blob(data, pos, "Str", MaxName)
    IN  IF name.ok /\ Has(data, name.pos, 3)
        THEN Got(name.pos + 3, FunctionDef(name.v, Word(data, name.pos),
                                           Word(data, name.pos + 1), Word(data, name.pos + 2)))
        ELSE Failed

read_instruction(data, pos) ==
    IF ~Has(data, pos, 5) \/ from_u8(Word(data, pos)) = {} THEN Failed
    ELSE Got(pos + 5, Instr(CHOOSE op \in from_u8(Word(data, pos)) : TRUE, Word(data, pos + 1),
                            Word(data, pos + 2), Word(data, pos + 3), Word(data, pos + 4)))

\* read_count, after the read `prev`
read_count(data, prev) ==
    IF ~prev.ok \/ ~Has(data, prev.pos, 1) \/ Word(data, prev.pos) \notin 0..MaxModuleItems THEN Failed
    ELSE Got(prev.pos + 1, Word(data, prev.pos))

\* a count and the items it announces
ReadTable(rd(_), count) ==
    IF count.ok THEN ReadMany(rd, count.pos, count.v, <<>>) ELSE Failed

NoChunk == Chunk(Str(0, 0), <<>>, <<>>, <<>>)

\* decode_with; a refusal is NoChunk
decode_with(data, trusted) ==
    IF ~Has(data, 0, 2) \/ Word(data, 0) # MAGIC \/ Word(data, 1) \notin 5..8 THEN NoChunk
    ELSE LET abi == Word(data, 1)
             constant(p) == read_value(data, p, trusted, 0, abi)
             function(p) == read_function(data, p)
             instruction(p) == read_instruction(data, p)
             name == read_blob(data, 2, "Str", MaxName)
             cs == ReadTable(constant, read_count(data, name))
             fs == ReadTable(function, read_count(data, cs))
             code == ReadTable(instruction, read_count(data, fs))
         IN  IF ~code.ok \/ code.pos # Len(data) THEN NoChunk
             ELSE Chunk(name.v, cs.v, fs.v, code.v)
=============================================================================
