------------------------------- MODULE Values -------------------------------
(***************************************************************************)
(* The dynamically tagged values of the runtime (bytecode/value.rs) and    *)
(* the heap charge the interpreter puts on a register                      *)
(* (vm/machine/heap.rs).                                                   *)
(*                                                                         *)
(* A value is a record [t, n, d, s]: its tag, two numbers and its parts.   *)
(*   Int, Bool, Pid, Cap   n is the payload (CapId::NONE is 0)             *)
(*   Float                 the fraction n/d; n/0 is an infinity, 0/0 a NaN *)
(*   Str, Bytes            n is the length, d stands for the content       *)
(*   List, Record          s is the sequence of the elements               *)
(*   Map                   s is key, value, key, value, ...                *)
(*   Msg                   n the tag, d the request id,                    *)
(*                         s = <<payload, Pid(sender), Cap(reply_cap)>>    *)
(* An i64 is a two's complement number of Width bits.                      *)
(***************************************************************************)
EXTENDS Integers, Sequences, FiniteSets, SequencesExt

CONSTANTS
    Width,         \* bits of an i64
    ValueSize,     \* size_of::<Value>()
    MaxValueDepth, \* MAX_VALUE_DEPTH, the nesting ceiling of the decoder
    MaxItems       \* MAX_LIST_LEN = MAX_MAP_LEN = MAX_RECORD_LEN

ASSUME WidthAssumption == Width \in 3..30
ASSUME SizeAssumption == ValueSize \in Nat /\ MaxValueDepth \in Nat /\ MaxItems \in Nat

Val(t, n, d, s) == [t |-> t, n |-> n, d |-> d, s |-> s]
Unit == Val("Unit", 0, 1, <<>>)
Bool(b) == Val("Bool", IF b THEN 1 ELSE 0, 1, <<>>)
I64(i) == Val("Int", i, 1, <<>>)
Pid(p) == Val("Pid", p, 1, <<>>)
Cap(c) == Val("Cap", c, 1, <<>>)
Str(len, id) == Val("Str", len, id, <<>>)
Blob(len, id) == Val("Bytes", len, id, <<>>)
List(s) == Val("List", 0, 1, s)
Record(s) == Val("Record", 0, 1, s)
Map(s) == Val("Map", 0, 1, s)
Msg(sender, reply, id, tag, payload) ==
    Val("Msg", tag, id, <<payload, Pid(sender), Cap(reply)>>)

-----------------------------------------------------------------------------
(* Numbers.                                                                *)

MaxInt == 2 ^ (Width - 1) - 1
MinInt == -(2 ^ (Width - 1))

\* wrapping_add, wrapping_mul, ...: the result modulo 2^Width
Wrap(i) == ((i - MinInt) % (2 ^ Width)) + MinInt

Sgn(i) == IF i > 0 THEN 1 ELSE IF i < 0 THEN -1 ELSE 0
Abs(i) == IF i < 0 THEN -i ELSE i
Gcd(a, b) == CHOOSE g \in 1..(a + b) :
                /\ a % g = 0 /\ b % g = 0
                /\ \A h \in 1..(a + b) : (a % h = 0 /\ b % h = 0) => h <= g

\* fresh_request_id: the id minted when the counter is at `next`, and the counter
\* after it; never 0, saturating at i64::MAX
Minted(next) == IF next >= MaxInt THEN MaxInt ELSE next
NextId(next) == IF next >= MaxInt THEN MaxInt ELSE next + 1

\* an f64 as a reduced fraction; the sign of a zero is not kept
Float(n, d) ==
    IF d = 0 THEN Val("Float", Sgn(n), 0, <<>>)
    ELSE LET g == Gcd(Abs(n), d) IN Val("Float", Sgn(n) * (Abs(n) \div g), d \div g, <<>>)

FAdd(x, y) ==
    IF x.d = 0 /\ y.d = 0
    THEN IF x.n = y.n THEN x ELSE Float(0, 0)
    ELSE Float(x.n * y.d + y.n * x.d, x.d * y.d)
FNeg(x) == Float(-x.n, x.d)
FSub(x, y) == FAdd(x, FNeg(y))
FMul(x, y) == Float(x.n * y.n, x.d * y.d)
FDiv(x, y) == Float(x.n * y.d * (IF y.n < 0 THEN -1 ELSE 1), x.d * Abs(y.n))
IsNaN(x) == x.n = 0 /\ x.d = 0
FLt(x, y) ==
    /\ ~IsNaN(x) /\ ~IsNaN(y)
    /\ IF x.d = 0 /\ y.d = 0 THEN x.n < y.n ELSE x.n * y.d < y.n * x.d
FEq(x, y) == ~IsNaN(x) /\ x = y
FLe(x, y) == FLt(x, y) \/ FEq(x, y)

\* truncating division and remainder, as wrapping_div / wrapping_rem
TruncDiv(x, y) == Wrap(Sgn(x) * Sgn(y) * (Abs(x) \div Abs(y)))
TruncRem(x, y) == x - y * (Sgn(x) * Sgn(y) * (Abs(x) \div Abs(y)))

\* PartialEq: tags differ, values differ; a NaN differs from itself
ValueEq(x, y) == IF x.t = "Float" /\ y.t = "Float" THEN FEq(x, y) ELSE x = y

-----------------------------------------------------------------------------
(* Structure.                                                              *)

Tags == <<"Unit", "Bool", "Int", "Float", "Pid", "Msg", "Cap", "Str", "Bytes",
          "List", "Map", "Record">>

\* Value::wire_tag, the BFV0 tag of a value
wire_tag(v) == (CHOOSE i \in DOMAIN Tags : Tags[i] = v.t) - 1

\* the values one level below v: the ones the recursive walks descend into
Children(v) ==
    CASE v.t \in {"List", "Record"} -> v.s
      [] v.t = "Map" -> [i \in 1..(Len(v.s) \div 2) |-> v.s[2 * i]]
      [] v.t = "Msg" -> <<v.s[1]>>
      [] OTHER -> <<>>

MapKeys(v) == [i \in 1..(Len(v.s) \div 2) |-> v.s[2 * i - 1]]

is_truthy(v) ==
    CASE v.t = "Unit" -> FALSE
      [] v.t \in {"Bool", "Int", "Str", "Bytes"} -> v.n # 0
      [] v.t \in {"List", "Record", "Map"} -> v.s # <<>>
      [] OTHER -> TRUE

IsContainer(v) == v.t \in {"List", "Record", "Map", "Msg"}

\* the deepest position of any value inside v, v itself being at 0
RECURSIVE Depth(_)
Depth(v) == Max({0} \cup {1 + Depth(Children(v)[i]) : i \in DOMAIN Children(v)})

\* the containers on the longest chain of v, an empty one included
RECURSIVE Nesting(_)
Nesting(v) ==
    IF IsContainer(v)
    THEN 1 + Max({0} \cup {Nesting(Children(v)[i]) : i \in DOMAIN Children(v)})
    ELSE 0

within_nesting_limit(v) == Depth(v) <= MaxValueDepth

map_has_duplicate_key(s) ==
    LET k == MapKeys(Map(s)) IN \E i, j \in DOMAIN k : i < j /\ k[i] = k[j]

NoValue == Val("None", 0, 0, <<>>)
try_list(s) == IF Len(s) <= MaxItems /\ within_nesting_limit(List(s)) THEN List(s) ELSE NoValue
try_record(s) == IF Len(s) <= MaxItems /\ within_nesting_limit(Record(s)) THEN Record(s) ELSE NoValue
try_map(s) ==
    IF /\ Len(s) \div 2 <= MaxItems
       /\ ~map_has_duplicate_key(s)
       /\ within_nesting_limit(Map(s))
    THEN Map(s) ELSE NoValue

\* the value under key k of a map, Unit when there is none
map_get(v, k) ==
    LET hit == {i \in DOMAIN MapKeys(v) : MapKeys(v)[i] = k}
    IN  IF hit = {} THEN Unit ELSE v.s[2 * CHOOSE i \in hit : \A j \in hit : i <= j]

SumOver(f) ==
    LET sum[i \in 0..Len(f)] == IF i = 0 THEN 0 ELSE f[i] + sum[i - 1] IN sum[Len(f)]

\* the bytes a value owns itself: elements are slots of ValueSize, text its length
OwnBytes(v) ==
    CASE v.t \in {"Str", "Bytes"} -> v.n
      [] v.t \in {"List", "Record"} -> Len(v.s) * ValueSize
      [] v.t = "Map" -> (Len(v.s) \div 2) * ValueSize
                        + SumOver([i \in DOMAIN MapKeys(v) |->
                             IF MapKeys(v)[i].t = "Str" THEN MapKeys(v)[i].n ELSE 0])
      [] OTHER -> 0

\* heap_charge_of: what a register pays for v, or -1 past the nesting ceiling
RECURSIVE ChargeWalk(_)
ChargeWalk(v) ==
    OwnBytes(v) + SumOver([i \in DOMAIN Children(v) |-> ChargeWalk(Children(v)[i])])
heap_charge_of(v) == IF within_nesting_limit(v) THEN ChargeWalk(v) ELSE -1

-----------------------------------------------------------------------------
(* Authority inside a value.                                               *)

\* Value::contains_live_cap, fail-closed past the ceiling
RECURSIVE CapWalk(_)
CapWalk(v) ==
    \/ v.t = "Cap" /\ v.n # 0
    \/ v.t = "Msg" /\ v.s[3].n # 0
    \/ \E i \in DOMAIN Children(v) : CapWalk(Children(v)[i])
contains_live_cap(v) == ~within_nesting_limit(v) \/ CapWalk(v)

\* the live capabilities named anywhere in v
RECURSIVE CapsIn(_)
CapsIn(v) ==
    (IF v.t = "Cap" THEN {v.n} \ {0} ELSE IF v.t = "Msg" THEN {v.s[3].n} \ {0} ELSE {})
    \cup UNION {CapsIn(Children(v)[i]) : i \in DOMAIN Children(v)}

\* Value::map_caps: every live token goes through `on`, every nested envelope's
\* reply capability becomes `reply`
RECURSIVE MapCaps(_, _, _)
MapCaps(v, on, reply) ==
    LET again(i) == MapCaps(v.s[i], on, reply)
    IN  CASE v.t = "Cap" /\ v.n # 0 -> Cap(on[v.n])
          [] v.t = "Msg" -> [v EXCEPT !.s = <<again(1), v.s[2], Cap(reply)>>]
          [] v.t \in {"List", "Record", "Map"} -> [v EXCEPT !.s = [i \in DOMAIN v.s |-> again(i)]]
          [] OTHER -> v

\* reject_untrusted_constant: no Cap, Pid or Message at any depth
RECURSIVE AuthorityFree(_)
AuthorityFree(v) ==
    /\ v.t \notin {"Cap", "Pid", "Msg"}
    /\ \A i \in DOMAIN Children(v) : AuthorityFree(Children(v)[i])
=============================================================================
