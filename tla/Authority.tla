----------------------------- MODULE Authority -----------------------------
(***************************************************************************)
(* Authority and accounts: the capability table (capability.rs, cap.rs,    *)
(* delegate.rs, link_admin.rs, spawn.rs), the tables flows own or share    *)
(* (table.rs), the memory accounts (memory.rs, quota.rs), the live-flow    *)
(* limit (flow_limit.rs), the operations on the host and in flows that use *)
(* them, and the part of finalize_one that takes them apart again.         *)
(*                                                                         *)
(* Thread 0 is the host (FlowId::HOST); thread f > 0 is flow f on whatever *)
(* worker drives it.  A step is one critical section of the capability     *)
(* table or of the tables, or one update of a counter.  Every root the     *)
(* table holds is minted without a native mask, so entries have none.      *)
(***************************************************************************)
EXTENDS Naturals, Sequences, FiniteSets, FiniteSetsExt, Functions

CONSTANTS
    MaxFlows,      \* bound: flow ids; they run out after that (FlowIdExhausted)
    MaxLive,       \* RuntimeConfig::max_flows
    Policies,      \* the root authority policies the host spawns with
    Wants,         \* the rights a Spawn or a Delegate asks for
    Natives,       \* the native table
    Programs,      \* bound: [kinds, ops, start]: at most ops operations of these kinds, by
                   \* flows whose arguments are charged start bytes
    MaxTokens,     \* bound: tokens in use at once
    Capacity,      \* hops an inbox holds
    MaxBytes,      \* table.rs MAX_BYTES
    MaxRows,       \* table.rs MAX_ROWS
    Keys,          \* table keys
    Sizes,         \* bytes of a row
    MemLimit,      \* QuotaConfig::mem_limit
    RuntimeBytes,  \* RuntimeConfig::max_runtime_bytes
    Hop            \* the bytes an in-flight hop is charged

ASSUME AuthorityAssumption ==
    /\ {MaxFlows, MaxLive, MaxTokens, Capacity} \subseteq Nat
    /\ {MaxBytes, MaxRows, MemLimit, RuntimeBytes, Hop} \subseteq Nat /\ Sizes \subseteq Nat

VARIABLES
    entries,       \* CapTable: token -> [holder, target, rights, epoch, reply]
    cellOf,        \* flow_cells: flow -> the generation of its cell, 0 for none
    cells,         \* how many cells each flow was ever given
    tableCells,    \* the tables with a cell
    replyIndex,    \* reply_index: <<holder, target>> -> token
    tables,        \* FlowTables: id -> [owner, rows: key -> bytes, bytes]
    global,        \* the id of the registered global table, 0 for none
    tableLock,     \* the flow whose put holds the tables mutex, or 0
    nextTable,     \* the next table id
    memory,        \* MemoryBudget: bytes charged to the process
    orphaned,      \* history: bytes of global tables that were unregistered
    quota,         \* flow -> [on, used, limit]: FlowQuota memory, in QuotaTable
    regs,          \* flow -> bytes its registers hold
    live,          \* FlowLimit: reserved slots
    authority,     \* flow -> [rights, natives, parent]
    inbox,         \* flow -> hops; a hop is the set of references it carries
    known,         \* thread -> references [id, target] in its registers
    program,       \* the member of Programs that is run
    begun,         \* the operations started
    th             \* thread -> [pc and the locals of the operation]

capTable == <<entries, cellOf, cells, tableCells, replyIndex>>
tableVars == <<tables, global, tableLock, nextTable, orphaned>>
accounts == <<memory, quota, regs>>
flowVars == <<live, authority, inbox, known>>
vars == <<capTable, tableVars, accounts, flowVars, program, begun, th>>

Host == 0
Flow == 1..MaxFlows
Thread == {Host} \cup Flow

ADDRESSING == {"SEND", "ASK", "LINK", "MONITOR"}
FLOW == ADDRESSING \cup {"RECV", "SPAWN", "NATIVE"}
Scheduler == <<"Scheduler", 0>>
FlowTarget(f) == <<"Flow", f>>
TableTarget(i) == <<"Table", i>>
Ref(id, target) == [id |-> id, target |-> target]

NoCap == [target |-> Scheduler, rights |-> {}, epoch |-> 0]
NoAuthority == [rights |-> {}, natives |-> {}, parent |-> Host]
\* op: the operation; todo: references still to reissue; got: those reissued; to: the
\* recipient, child or target; cap: what is about to be inserted; gen: the cell it is
\* minted from; want: requested rights; id, row: a table operation; hop: the hop charge
Idle(pc) ==
    [pc |-> pc, op |-> "none", todo |-> {}, got |-> {}, to |-> Host, cap |-> NoCap,
     gen |-> 0, want |-> {}, id |-> 0, row |-> <<>>, hop |-> 0]

Init ==
    /\ entries = <<>> /\ cellOf = [f \in Flow |-> 0] /\ cells = [f \in Flow |-> 0]
    /\ tableCells = {} /\ replyIndex = <<>>
    /\ tables = <<>> /\ global = 0 /\ tableLock = 0 /\ nextTable = 1
    /\ memory = 0 /\ orphaned = 0
    /\ quota = [f \in Flow |-> [on |-> FALSE, used |-> 0, limit |-> MemLimit]]
    /\ regs = [f \in Flow |-> 0] /\ live = 0
    /\ authority = [f \in Flow |-> NoAuthority]
    /\ inbox = [f \in Flow |-> <<>>] /\ known = [t \in Thread |-> {}]
    /\ program \in Programs /\ begun = 0
    /\ th = [t \in Thread |-> Idle(IF t = Host THEN "ready" ELSE "none")]

\* MemoryBudget::try_charge and FlowQuota::alloc: the charges that are accepted
try_charge(n) == memory + n <= RuntimeBytes
alloc(f, n) == quota[f].used + n <= quota[f].limit
\* FlowQuota::free
Freed(q, f, n) == [q EXCEPT ![f].used = @ - n]

Goto(t, r) == th' = [th EXCEPT ![t] = r]
Step(t, pc) == Goto(t, [th[t] EXCEPT !.pc = pc])
Ready == Idle("ready")

\* an operation that fails: the host gets the error, a flow is finalized
Refused(t) == IF t = Host THEN Ready ELSE [Ready EXCEPT !.pc = "fin_tables"]
Begin(pc, op) == [Ready EXCEPT !.pc = pc, !.op = op]
MayBegin(t, kind) ==
    /\ th[t].pc = "ready" /\ kind \in program.kinds /\ begun < program.ops
    /\ begun' = begun + 1 /\ UNCHANGED program

\* Directory::lookup: from spawn_on's register to finalize_one's unregister
InDirectory(f) == th[f].pc \notin {"none", "dead"}
\* the inbox takes hops until finalize_one closes it
Open(f) == InDirectory(f) /\ th[f].pc \notin {"fin_caps", "fin_quota"}

-----------------------------------------------------------------------------
(* The capability table.                                                   *)

InUse ==
    DOMAIN entries \cup {r.id : r \in UNION Range(known)}
        \cup {r.id : r \in UNION {UNION Range(inbox[f]) : f \in Flow}}
        \cup {r.id : r \in UNION {th[t].todo \cup th[t].got : t \in Thread}}
        \cup Range(replyIndex)
\* CapId::random and the collision loop of insert_fresh: a token nobody has
FreshTokens == (1..MaxTokens) \ InUse
Fresh == Min(FreshTokens)

Put(f, k, v) == [x \in DOMAIN f \cup {k} |-> IF x = k THEN v ELSE f[x]]
Keep(f, S) == [x \in DOMAIN f \cap S |-> f[x]]

Entry(holder, cap, reply) ==
    [holder |-> holder, target |-> cap.target, rights |-> cap.rights, epoch |-> cap.epoch, reply |-> reply]
CapOf(e) == [target |-> e.target, rights |-> e.rights, epoch |-> e.epoch]

\* RevocationCell: a cell is revoked when, and only when, it leaves the table
CellEpoch(f, gen) == IF cellOf[f] = gen THEN 0 ELSE 1

\* Cap::is_valid against the cell the table has now
Valid(e) ==
    CASE e.target[1] = "Flow" -> cellOf[e.target[2]] # 0 /\ e.epoch = 0
      [] e.target[1] = "Table" -> e.target[2] \in tableCells /\ e.epoch = 0
      [] OTHER -> TRUE

\* CapTable::resolve
Resolves(id, holder, need) ==
    /\ id \in DOMAIN entries
    /\ entries[id].holder = holder /\ need \subseteq entries[id].rights /\ Valid(entries[id])

\* CapTable::bind_flow
bind_flow(f) ==
    IF cellOf[f] # 0 THEN UNCHANGED <<cellOf, cells>>
    ELSE /\ cells' = [cells EXCEPT ![f] = @ + 1]
         /\ cellOf' = [cellOf EXCEPT ![f] = cells[f] + 1]

\* CapTable::revoke_flow
revoke_flow(f) ==
    /\ cellOf' = [cellOf EXCEPT ![f] = 0]
    /\ entries' = Keep(entries, {i \in DOMAIN entries : /\ entries[i].holder # f
                                                      /\ entries[i].target # FlowTarget(f)})
    /\ replyIndex' = Keep(replyIndex, {p \in DOMAIN replyIndex : f \notin {p[1], p[2]}})
    /\ UNCHANGED <<cells, tableCells>>

\* CapTable::revoke_table
revoke_table(i) ==
    /\ tableCells' = tableCells \ {i}
    /\ entries' = Keep(entries, {k \in DOMAIN entries : entries[k].target # TableTarget(i)})
    /\ UNCHANGED <<cellOf, cells, replyIndex>>

\* Cap::attenuate
attenuate(cap, want) == [cap EXCEPT !.rights = @ \cap want]

-----------------------------------------------------------------------------
(* Deriving tokens: CapTable::attenuate, delegate and reissue_for check    *)
(* the source in one critical section and insert the result in another.    *)

\* exec_delegate accepts: the holder's own token, of a flow or a table
Delegable(id, holder) == Resolves(id, holder, {}) /\ entries[id].target[1] \in {"Flow", "Table"}
\* the host is trusted: any token that is still valid
Reissuable(id) == id \in DOMAIN entries /\ Valid(entries[id])

\* where an operation goes once every reference it carries is reissued
AfterArgs(op) == CASE op = "send" -> "reply" [] op = "host_send" -> "deliver" [] OTHER -> "launch"
Args(r) == [r EXCEPT !.pc = IF r.todo = {} THEN AfterArgs(r.op) ELSE "derive"]

\* spawn_on's error paths: the slot is released and the child's capabilities are revoked
AbortSpawn(t, c) ==
    /\ live' = live - 1 /\ revoke_flow(c) /\ Goto(t, Refused(t))
    /\ UNCHANGED <<authority, inbox, known>>

\* the check of map_caps on the next reference
Derive(t) ==
    /\ th[t].pc = "derive"
    /\ \E r \in th[t].todo :
          IF (IF t = Host THEN Reissuable(r.id) ELSE Delegable(r.id, t))
          THEN /\ Goto(t, [th[t] EXCEPT !.pc = "insert", !.todo = @ \ {r}, !.cap = CapOf(entries[r.id])])
               /\ UNCHANGED <<capTable, flowVars>>
          ELSE IF th[t].op = "spawn" THEN AbortSpawn(t, th[t].to)
          ELSE Goto(t, Refused(t)) /\ UNCHANGED <<capTable, flowVars>>
    /\ UNCHANGED <<tableVars, accounts, program, begun>>

\* Opcode::Delegate.  A native mask is asked for through a token with NATIVE
Delegate(f) ==
    /\ MayBegin(f, "delegate")
    /\ \E r \in known[f], want \in Wants, mask \in SUBSET known[f] :
          /\ Cardinality(mask) <= 1
          /\ IF Delegable(r.id, f) /\ \A n \in mask : Resolves(n.id, f, {"NATIVE"})
             THEN Goto(f, [Begin("insert", "delegate")
                             EXCEPT !.to = f, !.cap = attenuate(CapOf(entries[r.id]), want)])
             ELSE Goto(f, Refused(f))
    /\ UNCHANGED <<capTable, tableVars, accounts, flowVars>>

\* mutant of InsertDerived: a flow's derived token is its own, not the recipient's
InsertDerivedCopy(t) ==
    /\ th[t].pc = "insert" /\ FreshTokens # {}
    /\ LET new == Ref(Fresh, th[t].cap.target)
       IN  /\ entries' = Put(entries, new.id, Entry(IF t = Host THEN th[t].to ELSE t, th[t].cap, FALSE))
           /\ IF th[t].op = "delegate"
              THEN Goto(t, Ready) /\ known' = [known EXCEPT ![t] = @ \cup {new}]
              ELSE Goto(t, Args([th[t] EXCEPT !.got = @ \cup {new}, !.cap = NoCap])) /\ UNCHANGED known
    /\ UNCHANGED <<cellOf, cells, tableCells, replyIndex, tableVars, accounts, live, authority, inbox, program, begun>>

\* CapTable::insert of what was derived
InsertDerived(t) ==
    /\ th[t].pc = "insert" /\ FreshTokens # {}
    /\ LET new == Ref(Fresh, th[t].cap.target)
       IN  /\ entries' = Put(entries, new.id, Entry(th[t].to, th[t].cap, FALSE))
           /\ IF th[t].op = "delegate"
              THEN Goto(t, Ready) /\ known' = [known EXCEPT ![t] = @ \cup {new}]
              ELSE Goto(t, Args([th[t] EXCEPT !.got = @ \cup {new}, !.cap = NoCap])) /\ UNCHANGED known
    /\ UNCHANGED <<cellOf, cells, tableCells, replyIndex, tableVars, accounts, live, authority, inbox, program, begun>>

-----------------------------------------------------------------------------
(* Minting roots.                                                          *)

\* SelfPid: the flow's own cell is bound as long as it runs
SelfPid(f) ==
    /\ MayBegin(f, "self") /\ FreshTokens # {}
    /\ LET new == Ref(Fresh, FlowTarget(f))
           cap == [target |-> FlowTarget(f), rights |-> ADDRESSING, epoch |-> CellEpoch(f, cellOf[f])]
       IN  /\ entries' = Put(entries, new.id, Entry(f, cap, FALSE))
           /\ known' = [known EXCEPT ![f] = @ \cup {new}]
    /\ Goto(f, Ready)
    /\ UNCHANGED <<cellOf, cells, tableCells, replyIndex, tableVars, accounts, live, authority, inbox>>

\* Runtime::mint_cap and grant_cap: both flows are live, then mint
GrantCap(h, x) ==
    /\ MayBegin(Host, "grant") /\ InDirectory(h) /\ InDirectory(x)
    /\ Goto(Host, [Begin("mint", "mint") EXCEPT !.to = x, !.id = h])
    /\ UNCHANGED <<capTable, tableVars, accounts, flowVars>>

\* CapTable::mint, first lock: bind_flow
MintBind(t) ==
    /\ th[t].pc = "mint"
    /\ bind_flow(th[t].to)
    /\ Goto(t, [th[t] EXCEPT !.pc = "grant", !.gen = cellOf'[th[t].to]])
    /\ UNCHANGED <<entries, tableCells, replyIndex, tableVars, accounts, flowVars, program, begun>>

\* CapTable::mint, second lock; the epoch was read from the cell at some moment in between
MintGrant(t) ==
    /\ th[t].pc = "grant" /\ FreshTokens # {}
    /\ LET new == Ref(Fresh, FlowTarget(th[t].to))
       IN  /\ \E e \in {0, CellEpoch(th[t].to, th[t].gen)} :
                 entries' = Put(entries, new.id,
                                Entry(th[t].id, [target |-> new.target, rights |-> ADDRESSING, epoch |-> e], FALSE))
           /\ known' = [known EXCEPT ![t] = @ \cup {new}]
    /\ Goto(t, Ready)
    /\ UNCHANGED <<cellOf, cells, tableCells, replyIndex, tableVars, accounts, live, authority, inbox, program, begun>>

\* Runtime::mint_admin_cap
MintAdmin(h) ==
    /\ MayBegin(Host, "admin") /\ InDirectory(h) /\ FreshTokens # {}
    /\ LET new == Ref(Fresh, Scheduler)
       IN  /\ entries' = Put(entries, new.id, Entry(h, [NoCap EXCEPT !.rights = {"ADMIN"}], FALSE))
           /\ known' = [known EXCEPT ![Host] = @ \cup {new}]
    /\ Goto(Host, Ready)
    /\ UNCHANGED <<cellOf, cells, tableCells, replyIndex, tableVars, accounts, live, authority, inbox>>

\* Runtime::admin_top_up_mem after require_admin: resolve and check_admin
AdminTopUp(h, x) ==
    /\ MayBegin(Host, "admin")
    /\ \E r \in known[Host] : Resolves(r.id, h, {"ADMIN"}) /\ entries[r.id].target = Scheduler
    /\ quota[x].on /\ quota[x].limit = MemLimit
    /\ quota' = [quota EXCEPT ![x].limit = @ + 1]
    /\ Goto(Host, Ready)
    /\ UNCHANGED <<capTable, tableVars, memory, regs, flowVars>>

-----------------------------------------------------------------------------
(* spawn_on.                                                               *)

PolicyRights(p) ==
    CASE p = "TrustedHost" -> FLOW [] p = "Restricted" -> FLOW \ {"NATIVE"} [] OTHER -> {}

\* mutant of exec_spawn_authority: the child is given what it asked for
exec_spawn_requested(p, want) == [rights |-> want, natives |-> authority[p].natives, parent |-> p]

\* exec_spawn_authority: the request, narrowed to what the parent has
exec_spawn_authority(p, want) ==
    [rights |-> authority[p].rights \cap want, natives |-> authority[p].natives, parent |-> p]

\* RootAuthorityPolicy::mint
root_authority(rights) ==
    [rights |-> rights, natives |-> IF "NATIVE" \in rights THEN Natives ELSE {}, parent |-> Host]

\* Spawn and Runtime::spawn: FlowLimit::try_reserve
Reserve(t, want) ==
    /\ MayBegin(t, IF t = Host THEN "host_spawn" ELSE "spawn")
    /\ \E args \in SUBSET known[t] :
          /\ Cardinality(args) <= 1
          /\ IF live >= MaxLive THEN Goto(t, Refused(t)) /\ UNCHANGED live
             ELSE /\ live' = live + 1
                  /\ Goto(t, [Begin("bind", "spawn") EXCEPT !.want = want, !.todo = args])
    /\ UNCHANGED <<capTable, tableVars, accounts, authority, inbox, known>>

FreshFlows == {f \in Flow : cells[f] = 0}

\* the id, bind_flow and the child's authority; a bytecode spawn may be refused for the
\* right or by the spawn bucket
BindChild(t) ==
    /\ th[t].pc = "bind"
    /\ IF FreshFlows = {}
       THEN live' = live - 1 /\ Goto(t, Refused(t)) /\ UNCHANGED <<cellOf, cells, authority>>
       ELSE LET c == Min(FreshFlows)
            IN  \/ /\ t # Host => "SPAWN" \in authority[t].rights
                   /\ bind_flow(c)
                   /\ authority' = [authority EXCEPT ![c] = IF t = Host THEN root_authority(th[t].want)
                                                            ELSE exec_spawn_authority(t, th[t].want)]
                   /\ Goto(t, Args([th[t] EXCEPT !.to = c]))
                   /\ UNCHANGED live
                \/ /\ t # Host       \* MissingSpawnRight, or RateLimited
                   /\ cells' = [cells EXCEPT ![c] = 1]
                   /\ live' = live - 1 /\ Goto(t, Refused(t))
                   /\ UNCHANGED <<cellOf, authority>>
    /\ UNCHANGED <<entries, tableCells, replyIndex, tableVars, accounts, inbox, known, program, begun>>

\* the VM and its first memory charge, the directory, the quota table and the queue
Launch(t) ==
    /\ th[t].pc = "launch"
    /\ LET c == th[t].to
       IN  IF ~(alloc(c, program.start) /\ try_charge(program.start))
           THEN AbortSpawn(t, c) /\ UNCHANGED accounts
           ELSE /\ memory' = memory + program.start
                /\ quota' = [quota EXCEPT ![c] = [@ EXCEPT !.on = TRUE, !.used = program.start]]
                /\ regs' = [regs EXCEPT ![c] = program.start]
                /\ known' = [known EXCEPT ![c] = th[t].got]
                /\ th' = [th EXCEPT ![c] = Ready,
                                    ![t] = IF t = Host THEN Ready
                                           ELSE [Ready EXCEPT !.pc = "mint", !.to = c, !.id = t]]
                /\ UNCHANGED <<capTable, live, authority, inbox>>
    /\ UNCHANGED <<tableVars, program, begun>>

-----------------------------------------------------------------------------
(* Sending.                                                                *)

\* Opcode::Send: resolve_cap_held
Send(f) ==
    /\ MayBegin(f, "send")
    /\ \E r \in known[f], args \in SUBSET known[f] :
          /\ Cardinality(args) <= 1
          /\ IF Resolves(r.id, f, {"SEND"}) /\ entries[r.id].target[1] = "Flow"
             THEN Goto(f, Args([Begin("derive", "send") EXCEPT !.to = r.target[2], !.todo = args]))
             ELSE Goto(f, Refused(f))
    /\ UNCHANGED <<capTable, tableVars, accounts, flowVars>>

\* Runtime::send, a hop that carries a capability: the directory, then reissue_caps_from_host
HostSend(x) ==
    /\ MayBegin(Host, "host_send") /\ InDirectory(x)
    /\ \E r \in known[Host] :
          Goto(Host, Args([Begin("derive", "host_send") EXCEPT !.to = x, !.todo = {r}]))
    /\ UNCHANGED <<capTable, tableVars, accounts, flowVars>>

\* reply_cap_is_live
ReplyIsLive(holder, target) ==
    /\ <<holder, target>> \in DOMAIN replyIndex
    /\ LET id == replyIndex[<<holder, target>>]
       IN  Resolves(id, holder, {"SEND"}) /\ entries[id].target = FlowTarget(target)

\* mutant of mint_or_reuse: a new address for every hop
mint_always(holder, target) ==
    /\ bind_flow(target) /\ FreshTokens # {}
    /\ entries' = Put(entries, Fresh, Entry(holder, [target |-> FlowTarget(target), rights |-> {"SEND"},
                                                     epoch |-> 0], TRUE))
    /\ replyIndex' = Put(replyIndex, <<holder, target>>, Fresh)

\* CapTable::mint_or_reuse, one lock
mint_or_reuse(holder, target) ==
    IF ReplyIsLive(holder, target) THEN UNCHANGED <<entries, replyIndex, cellOf, cells>>
    ELSE /\ bind_flow(target) /\ FreshTokens # {}
         /\ entries' = Put(entries, Fresh, Entry(holder, [target |-> FlowTarget(target), rights |-> {"SEND"},
                                                          epoch |-> 0], TRUE))
         /\ replyIndex' = Put(replyIndex, <<holder, target>>, Fresh)

\* authenticate_outgoing_message: the reply address
Reply(f) ==
    /\ th[f].pc = "reply"
    /\ mint_or_reuse(th[f].to, f)
    /\ Goto(f, [th[f] EXCEPT !.pc = "charge",
                             !.got = @ \cup {Ref(replyIndex'[<<th[f].to, f>>], FlowTarget(f))}])
    /\ UNCHANGED <<tableCells, tableVars, accounts, flowVars, program, begun>>

\* check_send, then the hop is charged to the sender's quota
Charge(f) ==
    /\ th[f].pc = "charge"
    /\ \/ /\ alloc(f, Hop)
          /\ quota' = [quota EXCEPT ![f].used = @ + Hop]
          /\ Goto(f, [th[f] EXCEPT !.pc = "deliver", !.hop = Hop])
       \/ Goto(f, Refused(f)) /\ UNCHANGED quota         \* SendRateExceeded, MemoryExhausted
    /\ UNCHANGED <<capTable, tableVars, memory, regs, flowVars, program, begun>>

\* Mailbox::try_push: the cells that are left
HasRoom(x) == Len(inbox[x]) < Capacity

\* deliver, and Runtime::send's push; a full inbox parks a flow with its charge
Deliver(t) ==
    /\ th[t].pc = "deliver"
    /\ LET x == th[t].to
           freed == IF t = Host THEN quota ELSE Freed(quota, t, th[t].hop)
       IN  CASE ~Open(x) -> /\ Goto(t, Refused(t)) /\ quota' = freed
                            /\ UNCHANGED inbox
             [] Open(x) /\ HasRoom(x) ->
                            /\ inbox' = [inbox EXCEPT ![x] = Append(@, th[t].got)]
                            /\ Goto(t, Ready) /\ quota' = freed
             [] OTHER ->    /\ IF t = Host THEN Goto(t, Ready) ELSE Step(t, "waiting_send")
                            /\ UNCHANGED <<inbox, quota>>
    /\ UNCHANGED <<capTable, tableVars, memory, regs, live, authority, known, program, begun>>

WaitingOn(f) == {s \in Flow : th[s].pc = "waiting_send" /\ th[s].to = f}

\* Receive: needs RECV; the freed place goes to a parked sender, whose charge is freed
Receive(f) ==
    /\ th[f].pc = "ready" /\ inbox[f] # <<>>
    /\ IF "RECV" \notin authority[f].rights
       THEN Goto(f, Refused(f)) /\ UNCHANGED <<inbox, known, quota>>
       ELSE /\ known' = [known EXCEPT ![f] = @ \cup Head(inbox[f])]
            /\ IF WaitingOn(f) = {}
               THEN inbox' = [inbox EXCEPT ![f] = Tail(@)] /\ UNCHANGED <<th, quota>>
               ELSE \E s \in WaitingOn(f) :
                      /\ inbox' = [inbox EXCEPT ![f] = Append(Tail(@), th[s].got)]
                      /\ quota' = Freed(quota, s, th[s].hop)
                      /\ Goto(s, Ready)
    /\ UNCHANGED <<capTable, tableVars, memory, regs, live, authority, program, begun>>

-----------------------------------------------------------------------------
(* Tables and memory.                                                      *)

Owned(f) == {i \in DOMAIN tables : tables[i].owner = f}
Table(owner) == [owner |-> owner, rows |-> <<>>, bytes |-> 0]
TableRights == {"SEND", "RECV"}
TableCap(i, e) == [target |-> TableTarget(i), rights |-> TableRights, epoch |-> e]

\* FlowTables::open of a name that is not global, and the choice between the two
TableOpen(f) ==
    /\ MayBegin(f, "open") /\ tableLock = 0
    /\ \E shared \in BOOLEAN :
          CASE shared /\ global # 0 ->
                  /\ Goto(f, [Begin("open_global", "open") EXCEPT !.id = global])
                  /\ UNCHANGED <<entries, tableCells, tables, nextTable, known>>
            [] ~(shared /\ global # 0) /\ Owned(f) # {} ->
                  Goto(f, Refused(f)) /\ UNCHANGED <<entries, tableCells, tables, nextTable, known>>
            [] OTHER ->
                  /\ FreshTokens # {}
                  /\ tableCells' = tableCells \cup {nextTable}
                  /\ entries' = Put(entries, Fresh, Entry(f, TableCap(nextTable, 0), FALSE))
                  /\ known' = [known EXCEPT ![f] = @ \cup {Ref(Fresh, TableTarget(nextTable))}]
                  /\ tables' = Put(tables, nextTable, Table(f))
                  /\ nextTable' = nextTable + 1
                  /\ Goto(f, Ready)
    /\ UNCHANGED <<cellOf, cells, replyIndex, global, tableLock, orphaned, accounts, live, authority, inbox>>

\* open_global: the cell, outside the tables mutex
OpenGlobal(f) ==
    /\ th[f].pc = "open_global"
    /\ IF th[f].id \in tableCells THEN Step(f, "open_grant") ELSE Goto(f, Refused(f))
    /\ UNCHANGED <<capTable, tableVars, accounts, flowVars, program, begun>>

\* open_global: the grant; the epoch was read from the cell in between
OpenGrant(f) ==
    /\ th[f].pc = "open_grant" /\ FreshTokens # {}
    /\ LET i == th[f].id
       IN  /\ \E e \in {0, IF i \in tableCells THEN 0 ELSE 1} :
                 entries' = Put(entries, Fresh, Entry(f, TableCap(i, e), FALSE))
           /\ known' = [known EXCEPT ![f] = @ \cup {Ref(Fresh, TableTarget(i))}]
    /\ Goto(f, Ready)
    /\ UNCHANGED <<cellOf, cells, tableCells, replyIndex, tableVars, accounts, live, authority, inbox, program, begun>>

\* register_global, unregister_global
RegisterGlobal ==
    /\ MayBegin(Host, "global") /\ tableLock = 0 /\ global = 0
    /\ tableCells' = tableCells \cup {nextTable}
    /\ tables' = Put(tables, nextTable, Table(Host))
    /\ global' = nextTable /\ nextTable' = nextTable + 1
    /\ Goto(Host, Ready)
    /\ UNCHANGED <<entries, cellOf, cells, replyIndex, tableLock, orphaned, accounts, flowVars>>

UnregisterGlobal ==
    /\ MayBegin(Host, "global") /\ tableLock = 0 /\ global # 0
    /\ tables' = Keep(tables, DOMAIN tables \ {global})
    /\ orphaned' = orphaned + tables[global].bytes      \* the charge stays
    /\ revoke_table(global)
    /\ global' = 0
    /\ Goto(Host, Ready)
    /\ UNCHANGED <<tableLock, nextTable, accounts, flowVars>>

\* table_id: TableGet needs RECV, TablePut SEND
TableUse(f) ==
    /\ MayBegin(f, "use")
    /\ \E r \in known[f], k \in Keys, n \in Sizes :
          \/ IF Resolves(r.id, f, {"RECV"}) /\ r.target[1] = "Table"
             THEN Goto(f, [Begin("get", "get") EXCEPT !.id = r.target[2]]) ELSE Goto(f, Refused(f))
          \/ IF Resolves(r.id, f, {"SEND"}) /\ r.target[1] = "Table"
             THEN Goto(f, [Begin("put", "put") EXCEPT !.id = r.target[2], !.row = <<k, n>>])
             ELSE Goto(f, Refused(f))
    /\ UNCHANGED <<capTable, tableVars, accounts, flowVars>>

\* FlowTables::get under the mutex
TableGet(f) ==
    /\ th[f].pc = "get" /\ tableLock = 0
    /\ Goto(f, IF th[f].id \in DOMAIN tables THEN Ready ELSE Refused(f))
    /\ UNCHANGED <<capTable, tableVars, accounts, flowVars, program, begun>>

RowBytes(i, k) == IF k \in DOMAIN tables[i].rows THEN tables[i].rows[k] ELSE 0
Install(i, k, n) ==
    [tables EXCEPT ![i] = [@ EXCEPT !.rows = Put(@, k, n), !.bytes = @ - RowBytes(i, k) + n]]

\* put's limits: MAX_ROWS applies to a new key, MAX_BYTES to the sum without the old row
Fits(i, k, n) ==
    /\ k \in DOMAIN tables[i].rows \/ Cardinality(DOMAIN tables[i].rows) < MaxRows
    /\ tables[i].bytes - RowBytes(i, k) + n <= MaxBytes

\* put under the mutex: a row that does not grow is settled at once, one that does is
\* charged to the process first
PutCheck(f) ==
    /\ th[f].pc = "put" /\ tableLock = 0
    /\ LET i == th[f].id
           k == th[f].row[1]
           n == th[f].row[2]
           old == RowBytes(i, k)
           owner == tables[i].owner
       IN  CASE i \notin DOMAIN tables \/ (i \in DOMAIN tables /\ ~Fits(i, k, n)) ->
                  Goto(f, Refused(f)) /\ UNCHANGED <<tables, tableLock, memory, quota>>
             [] i \in DOMAIN tables /\ Fits(i, k, n) /\ n <= old ->
                  /\ memory' = memory - (old - n)
                  /\ quota' = IF owner = Host THEN quota ELSE Freed(quota, owner, old - n)
                  /\ tables' = Install(i, k, n) /\ Goto(f, Ready) /\ UNCHANGED tableLock
             [] OTHER ->
                  IF ~try_charge(n - old)
                  THEN Goto(f, Refused(f)) /\ UNCHANGED <<tables, tableLock, memory, quota>>
                  ELSE /\ memory' = memory + (n - old)
                       /\ tableLock' = f /\ Step(f, "put_quota") /\ UNCHANGED <<tables, quota>>
    /\ UNCHANGED <<capTable, global, nextTable, orphaned, regs, flowVars, program, begun>>

\* mutant of PutQuota: a refused row keeps its charge on the process
PutQuotaKeeps(f) ==
    /\ th[f].pc = "put_quota"
    /\ LET i == th[f].id
           k == th[f].row[1]
           n == th[f].row[2]
           grow == n - RowBytes(i, k)
           owner == tables[i].owner
       IN  IF owner # Host /\ ~alloc(owner, grow)
           THEN Goto(f, Refused(f)) /\ UNCHANGED <<tables, quota, memory>>
           ELSE /\ quota' = IF owner = Host THEN quota ELSE [quota EXCEPT ![owner].used = @ + grow]
                /\ tables' = Install(i, k, n) /\ Goto(f, Ready) /\ UNCHANGED memory
    /\ tableLock' = 0
    /\ UNCHANGED <<capTable, global, nextTable, orphaned, regs, flowVars, program, begun>>

\* put, still under the mutex: the owner's quota, then the row
PutQuota(f) ==
    /\ th[f].pc = "put_quota"
    /\ LET i == th[f].id
           k == th[f].row[1]
           n == th[f].row[2]
           grow == n - RowBytes(i, k)
           owner == tables[i].owner
       IN  IF owner # Host /\ ~alloc(owner, grow)
           THEN memory' = memory - grow /\ Goto(f, Refused(f)) /\ UNCHANGED <<tables, quota>>
           ELSE /\ quota' = IF owner = Host THEN quota ELSE [quota EXCEPT ![owner].used = @ + grow]
                /\ tables' = Install(i, k, n) /\ Goto(f, Ready) /\ UNCHANGED memory
    /\ tableLock' = 0
    /\ UNCHANGED <<capTable, global, nextTable, orphaned, regs, flowVars, program, begun>>

\* charge_pair and release_pair of the VM: a register write that grows or shrinks the heap
Registers(f) ==
    /\ MayBegin(f, "registers")
    /\ \E n \in Sizes :
          IF n > regs[f] /\ ~(alloc(f, n - regs[f]) /\ try_charge(n - regs[f]))
          THEN Goto(f, Refused(f)) /\ UNCHANGED accounts
          ELSE /\ quota' = [quota EXCEPT ![f].used = @ - regs[f] + n]
               /\ memory' = memory - regs[f] + n
               /\ regs' = [regs EXCEPT ![f] = n]
               /\ Goto(f, Ready)
    /\ UNCHANGED <<capTable, tableVars, flowVars>>

-----------------------------------------------------------------------------
(* The end of a flow: finalize_one in its order.                           *)

\* the flow exits, faults or is killed, running or parked
Exit(f) ==
    /\ th[f].pc \in {"ready", "waiting_send"}
    /\ Goto(f, [Ready EXCEPT !.pc = "fin_tables", !.hop = th[f].hop])
    /\ UNCHANGED <<capTable, tableVars, accounts, flowVars, program, begun>>

\* the parked hop's charge, then close_owner: the table and its account
FinTables(f) ==
    /\ th[f].pc = "fin_tables" /\ tableLock = 0
    /\ LET bytes == MapThenSumSet(LAMBDA i : tables[i].bytes, Owned(f))
       IN  /\ memory' = memory - bytes
           /\ quota' = Freed(quota, f, th[f].hop + bytes)
    /\ tables' = Keep(tables, DOMAIN tables \ Owned(f))
    /\ Goto(f, IF Owned(f) = {} THEN [Ready EXCEPT !.pc = "fin_close"]
               ELSE [Ready EXCEPT !.pc = "fin_revoke", !.id = Min(Owned(f))])
    /\ UNCHANGED <<capTable, global, tableLock, nextTable, orphaned, regs, flowVars, program, begun>>

\* close_owner: revoke_table, outside the tables mutex
FinRevoke(f) ==
    /\ th[f].pc = "fin_revoke"
    /\ revoke_table(th[f].id)
    /\ Goto(f, [Ready EXCEPT !.pc = "fin_close"])
    /\ UNCHANGED <<tableVars, accounts, flowVars, program, begun>>

\* the inbox closes; the senders parked on it are finalized
FinClose(f) ==
    /\ th[f].pc = "fin_close"
    /\ inbox' = [inbox EXCEPT ![f] = <<>>]
    /\ th' = [s \in Thread |-> IF s = f THEN [th[f] EXCEPT !.pc = "fin_caps"]
                               ELSE IF s \in WaitingOn(f) THEN [Refused(s) EXCEPT !.hop = th[s].hop]
                               ELSE th[s]]
    /\ UNCHANGED <<capTable, tableVars, accounts, live, authority, known, program, begun>>

FinCaps(f) ==
    /\ th[f].pc = "fin_caps"
    /\ revoke_flow(f)
    /\ Step(f, "fin_quota")
    /\ UNCHANGED <<tableVars, accounts, flowVars, program, begun>>

\* quotas.remove and the release of what it still holds, the directory, the slot
FinQuota(f) ==
    /\ th[f].pc = "fin_quota"
    /\ memory' = memory - quota[f].used
    /\ quota' = [quota EXCEPT ![f] = [on |-> FALSE, used |-> 0, limit |-> MemLimit]]
    /\ regs' = [regs EXCEPT ![f] = 0]
    /\ live' = live - 1
    /\ known' = [known EXCEPT ![f] = {}]
    /\ Goto(f, Idle("dead"))
    /\ UNCHANGED <<capTable, tableVars, authority, inbox, program, begun>>

FlowStep(f) ==
    \/ SelfPid(f) \/ Delegate(f) \/ (\E want \in Wants : Reserve(f, want)) \/ Send(f) \/ Reply(f) \/ Charge(f)
    \/ Receive(f) \/ TableOpen(f) \/ OpenGlobal(f) \/ OpenGrant(f) \/ TableUse(f) \/ TableGet(f)
    \/ PutCheck(f) \/ PutQuota(f) \/ Registers(f)
    \/ Exit(f) \/ FinTables(f) \/ FinRevoke(f) \/ FinClose(f) \/ FinCaps(f) \/ FinQuota(f)

HostStep ==
    \/ \E p \in Policies : Reserve(Host, PolicyRights(p))
    \/ \E x \in Flow : HostSend(x) \/ MintAdmin(x) \/ \E h \in Flow : GrantCap(h, x) \/ AdminTopUp(h, x)
    \/ RegisterGlobal \/ UnregisterGlobal

AnyStep(t) ==
    \/ Derive(t) \/ InsertDerived(t) \/ MintBind(t) \/ MintGrant(t) \/ BindChild(t) \/ Launch(t) \/ Deliver(t)

Next == HostStep \/ (\E f \in Flow : FlowStep(f)) \/ \E t \in Thread : AnyStep(t)

Spec == Init /\ [][Next]_vars

-----------------------------------------------------------------------------
(* Properties.                                                             *)

Target == {Scheduler} \cup {FlowTarget(f) : f \in Flow} \cup {TableTarget(i) : i \in 1..(nextTable - 1)}
Reference == [id : 1..MaxTokens, target : Target]

\* every token has a holder and a target that exists, no counter is negative, and an inbox
\* keeps to its capacity
TypeOK ==
    /\ DOMAIN entries \subseteq 1..MaxTokens
    /\ \A i \in DOMAIN entries : /\ entries[i].holder \in Flow /\ entries[i].target \in Target
                                 /\ entries[i].epoch \in {0, 1}
    /\ \A t \in Thread : known[t] \subseteq Reference /\ th[t].todo \cup th[t].got \subseteq Reference
    /\ \A f \in Flow : Len(inbox[f]) <= Capacity /\ \A k \in DOMAIN inbox[f] : inbox[f][k] \subseteq Reference
    /\ memory \in 0..RuntimeBytes /\ live \in Nat
    /\ \A f \in Flow : quota[f].used \in Nat /\ regs[f] \in Nat

\* not yet past finalize_one's revoke_flow
Unrevoked(f) == th[f].pc \notin {"none", "fin_quota", "dead"}
TargetStands(target) ==
    CASE target[1] = "Flow" -> Unrevoked(target[2])
      [] target[1] = "Table" -> target[2] \in DOMAIN tables
      [] OTHER -> TRUE

\* worker.rs reissue_caps_in_value, runtime.rs grant_caps_in_args: every capability a flow
\* has in its registers, or in a hop of its inbox, resolves for that flow as long as what it
\* addresses is there, whoever sent it and whatever was revoked on the way
HeldTokensWork ==
    \A f \in Flow : Unrevoked(f) =>
       \A r \in known[f] \cup UNION Range(inbox[f]) :
          TargetStands(r.target) => Resolves(r.id, f, {}) /\ entries[r.id].target = r.target

\* cap.rs Cap::attenuate, spawn.rs: no chain of delegations, hops and spawns ends with more
\* rights than the root of the token or the parent of the flow had
AuthorityOnlyShrinks ==
    /\ \A i \in DOMAIN entries :
          entries[i].rights \subseteq
             CASE entries[i].target[1] = "Flow" -> ADDRESSING
               [] entries[i].target[1] = "Table" -> TableRights
               [] OTHER -> {"ADMIN"}
    /\ \A f \in Flow : "ADMIN" \notin authority[f].rights
    /\ \A f \in Flow : authority[f].parent # Host =>
          /\ authority[f].rights \subseteq authority[authority[f].parent].rights
          /\ authority[f].natives \subseteq authority[authority[f].parent].natives

\* capability.rs mint_or_reuse: the table stays O(pairs): a flow has one reply address for a
\* sender, however many hops it gets from it
OneReplyAddress ==
    \A i, j \in DOMAIN entries :
       entries[i].reply /\ entries[j].reply /\ entries[i].holder = entries[j].holder
          /\ entries[i].target = entries[j].target => i = j

\* table.rs close_owner, capability.rs revoke_table: a token that still resolves to a table
\* has a table behind it, or the thread that closed it is about to revoke
TableTokenHasTable ==
    \A i \in DOMAIN entries :
       entries[i].target[1] = "Table" /\ Valid(entries[i]) =>
          \/ entries[i].target[2] \in DOMAIN tables
          \/ \E f \in Flow : th[f].pc = "fin_revoke" /\ th[f].id = entries[i].target[2]

\* table.rs put: a table's byte count is the sum of its rows and it keeps to both limits,
\* through overwrites, rows of no bytes and puts by other flows; a table's owner is there
TableBounded ==
    \A i \in DOMAIN tables :
       /\ tables[i].bytes = MapThenSumSet(LAMBDA k : tables[i].rows[k], DOMAIN tables[i].rows)
       /\ tables[i].bytes <= MaxBytes /\ Cardinality(DOMAIN tables[i].rows) <= MaxRows
       /\ tables[i].owner # Host =>
             InDirectory(tables[i].owner) /\ Cardinality(Owned(tables[i].owner)) = 1

TableBytes(o) == MapThenSumSet(LAMBDA i : tables[i].bytes, Owned(o))
\* the bytes a put has charged to the process and not yet to the owner
InPut(f) == IF th[f].pc = "put_quota" THEN th[f].row[2] - RowBytes(th[f].id, th[f].row[1]) ELSE 0

\* table.rs account, finalize.rs finalize_one, memory.rs: the process is charged exactly what
\* the registers and tables of live flows and the global tables hold, a flow exactly that and
\* its parked hop; nothing is released twice and nothing but unregistered global tables stays
MemoryExact ==
    /\ memory = MapThenSumSet(LAMBDA f : regs[f] + TableBytes(f) + InPut(f), Flow) + TableBytes(Host) + orphaned
    /\ \A f \in Flow : quota[f].on => quota[f].used = regs[f] + TableBytes(f) + th[f].hop

\* flow_limit.rs, spawn_on and finalize_one: a slot for every flow from its reservation to
\* the end of its finalization, given back once on every error path, never more than max_flows
LimitExact ==
    /\ live = Cardinality({f \in Flow : InDirectory(f)})
              + Cardinality({t \in Thread : th[t].op = "spawn" /\ th[t].pc # "ready"})
    /\ live <= MaxLive

\* A capability is worth what it says: one a live flow holds resolves as long as what it
\* addresses is there, and one that resolves to a table has that table behind it.
TokensWork == HeldTokensWork /\ TableTokenHasTable

\* Every account is exact: table bytes, the memory of the process and of each flow, and
\* the slots of the flow limit.
AccountsExact == TypeOK /\ TableBounded /\ MemoryExact /\ LimitExact
=============================================================================
