-------------------------- MODULE AuthorityProofs ---------------------------
(***************************************************************************)
(* Proofs about Authority, for any flows, policies, wants, programs and    *)
(* limits: no derivation ends with more rights than its root, and a flow   *)
(* has one reply address for a sender.                                     *)
(***************************************************************************)
EXTENDS Authority, WellFoundedInduction, TLAPS

-----------------------------------------------------------------------------
(* The invariant *)

Fields == {"pc", "op", "todo", "got", "to", "cap", "gen", "want", "id", "row", "hop"}

\* the most a token for the target may carry
Ceiling(target) ==
  CASE target[1] = "Flow" -> ADDRESSING
    [] target[1] = "Table" -> TableRights
    [] OTHER -> {"ADMIN"}

\* the flows whose id was handed out
Bound == {f \in Flow : cells[f] # 0}

\* on the way to Launch, whose child is th[t].to
Launching(r) ==
  \/ r.pc = "launch"
  \/ r.pc \in {"derive", "insert"} /\ r.op \notin {"send", "host_send", "delegate"}

\* what thread t may have in hand when the flows in S have their ids
ThreadOK(S, t, r) ==
  /\ DOMAIN r = Fields
  /\ t \in Flow /\ r.pc # "none" => t \in S
  /\ Launching(r) /\ r.to \in Flow => r.to \in S
  /\ r.pc = "insert" => r.cap.rights \subseteq Ceiling(r.cap.target)
  /\ t = Host /\ r.pc = "bind" => "ADMIN" \notin r.want

Threads ==
  /\ DOMAIN th = Thread /\ DOMAIN cells = Flow /\ DOMAIN cellOf = Flow
  /\ \A f \in Flow : cells[f] \in Nat /\ (cellOf[f] # 0 => cells[f] # 0)
  /\ \A t \in Thread : ThreadOK(Bound, t, th[t])

\* tokens stay under their ceiling
Tokens == \A i \in DOMAIN entries : entries[i].rights \subseteq Ceiling(entries[i].target)

\* flows stay under their parents, who had their ids before
Parents ==
  /\ DOMAIN authority = Flow
  /\ \A f \in Flow : "ADMIN" \notin authority[f].rights
  /\ \A f \in Flow : authority[f].parent # Host =>
       /\ authority[f].parent \in Bound
       /\ authority[f].rights \subseteq authority[authority[f].parent].rights
       /\ authority[f].natives \subseteq authority[authority[f].parent].natives

\* a reply address is the one its pair has in the index, and it resolves
Replies ==
  \A i \in DOMAIN entries : entries[i].reply =>
    \E f \in Flow :
      /\ entries[i].target = FlowTarget(f) /\ cellOf[f] # 0
      /\ entries[i].rights = {"SEND"} /\ entries[i].epoch = 0
      /\ <<entries[i].holder, f>> \in DOMAIN replyIndex
      /\ replyIndex[<<entries[i].holder, f>>] = i

IInv == Threads /\ Tokens /\ Parents /\ Replies
-----------------------------------------------------------------------------
(* Threads *)

\* a record that is in none of the states ThreadOK restricts
Tame(r) == DOMAIN r = Fields /\ r.pc \notin {"none", "bind", "derive", "insert", "launch"}

\* no id is taken back
Grows ==
  /\ DOMAIN cells' = Flow /\ DOMAIN cellOf' = Flow
  /\ \A f \in Flow : /\ cells'[f] \in Nat /\ (cells[f] # 0 => cells'[f] # 0)
                     /\ cellOf'[f] # 0 => cells'[f] # 0

LEMMA Records ==
  /\ DOMAIN Ready = Fields /\ Ready.pc = "ready"
  /\ \A t : Tame(Refused(t))
  /\ \A pc, op : DOMAIN Begin(pc, op) = Fields /\ Begin(pc, op).pc = pc /\ Begin(pc, op).op = op
<1>1. DOMAIN Ready = Fields /\ Ready.pc = "ready"
  BY Zenon DEF Ready, Idle, Fields
<1>2. \A t : Tame(Refused(t))
  BY Zenon DEF Ready, Idle, Fields, Refused, Tame
<1>3. \A pc, op : DOMAIN Begin(pc, op) = Fields /\ Begin(pc, op).pc = pc /\ Begin(pc, op).op = op
  BY Zenon DEF Ready, Idle, Fields, Begin
<1> QED
  BY <1>1, <1>2, <1>3, Zenon

LEMMA MoreBound ==
  ASSUME Grows
  PROVE  Bound \subseteq Bound'
BY Zenon DEF Grows, Bound

LEMMA ThreadKeeps ==
  ASSUME NEW S, NEW T, S \subseteq T, NEW t, NEW r, ThreadOK(S, t, r)
  PROVE  ThreadOK(T, t, r)
BY Zenon DEF ThreadOK

LEMMA TameOK ==
  ASSUME NEW S, NEW t, NEW r, Tame(r), t \in Flow => t \in S
  PROVE  ThreadOK(S, t, r)
BY Zenon DEF ThreadOK, Tame, Launching

\* A thread that has begun has its id.
LEMMA Begun ==
  ASSUME Threads, NEW t \in Thread, th[t].pc # "none"
  PROVE  /\ DOMAIN th[t] = Fields
         /\ t \in Flow => t \in Bound
BY Zenon DEF Threads, ThreadOK

LEMMA SameIds ==
  ASSUME Threads, UNCHANGED <<cells, cellOf>>
  PROVE  Grows /\ Bound' = Bound
BY Zenon DEF Threads, Grows, Bound

LEMMA GotoKeeps ==
  ASSUME Threads, Grows, NEW t \in Thread, NEW r, Goto(t, r), ThreadOK(Bound', t, r)
  PROVE  Threads'
<1>1. DOMAIN th' = Thread /\ th'[t] = r /\ \A u \in Thread : u # t => th'[u] = th[u]
  BY Zenon DEF Threads, Goto
<1>2. \A u \in Thread : ThreadOK(Bound', u, th'[u])
  BY <1>1, MoreBound, ThreadKeeps, Zenon DEF Threads
<1> QED
  BY <1>1, <1>2, Zenon DEF Threads, Grows

\* A thread goes on to where it is not restricted.
LEMMA TameKeeps ==
  ASSUME Threads, Grows, NEW t \in Thread, th[t].pc # "none", NEW r, Goto(t, r), Tame(r)
  PROVE  Threads'
<1>1. t \in Flow => t \in Bound'
  BY Begun, MoreBound, Zenon
<1> QED
  BY <1>1, TameOK, GotoKeeps, Zenon

-----------------------------------------------------------------------------
(* Tables *)

\* A non-empty set of naturals has a least element, and Min picks it.
LEMMA MinIn ==
  ASSUME NEW T, T \subseteq Nat, T # {}
  PROVE  Min(T) \in T
<1> DEFINE R == OpToRel(<, Nat)
<1>1. \A y, x \in Nat : y < x => <<y, x>> \in R
  BY Zenon DEF OpToRel
<1>2. IsWellFoundedOn(R, Nat)
  BY NatLessThanWellFounded, Zenon
<1> HIDE DEF R
<1>3. PICK x \in T : \A y \in T : <<y, x>> \notin R
  BY <1>2, WFMin, Zenon
<1>4. ASSUME NEW y \in T PROVE x <= y
  <2>1. x \in Nat /\ y \in Nat
    BY Zenon
  <2>2. ~(y < x)
    BY <1>1, <1>3, <2>1, Zenon
  <2> QED
    BY <2>1, <2>2
<1> QED
  BY <1>3, <1>4, Zenon DEF Min

\* CapId::random and the collision loop: a new token names no entry.
LEMMA FreshIsNew ==
  ASSUME FreshTokens # {}
  PROVE  Fresh \notin DOMAIN entries
<1>1. FreshTokens \subseteq Nat /\ FreshTokens \cap DOMAIN entries = {}
  BY AuthorityAssumption DEF FreshTokens, InUse
<1>2. Fresh \in FreshTokens
  BY <1>1, MinIn, Zenon DEF Fresh
<1> QED
  BY <1>1, <1>2, Zenon

\* A token that is no reply address, under its ceiling, joins the table.
LEMMA PutKeeps ==
  ASSUME Tokens, Replies, FreshTokens # {}, NEW holder, NEW cap,
         entries' = Put(entries, Fresh, Entry(holder, cap, FALSE)),
         cap.rights \subseteq Ceiling(cap.target), UNCHANGED <<cellOf, replyIndex>>
  PROVE  Tokens' /\ Replies'
<1> DEFINE e == Entry(holder, cap, FALSE)
           k == Fresh
<1>1. k \notin DOMAIN entries
  BY FreshIsNew, Zenon
<1>2. e.rights = cap.rights /\ e.target = cap.target /\ ~e.reply
  BY Zenon DEF Entry
<1> HIDE DEF e, k
<1>3. /\ DOMAIN entries' = DOMAIN entries \cup {k} /\ entries'[k] = e
      /\ \A i \in DOMAIN entries : entries'[i] = entries[i]
  BY <1>1, Zenon DEF Put, e, k
<1>4. Tokens'
  BY <1>2, <1>3, Zenon DEF Tokens
<1>5. Replies'
  <2> SUFFICES ASSUME NEW i \in DOMAIN entries', entries'[i].reply
               PROVE  \E f \in Flow :
                        /\ entries'[i].target = FlowTarget(f) /\ cellOf[f] # 0
                        /\ entries'[i].rights = {"SEND"} /\ entries'[i].epoch = 0
                        /\ <<entries'[i].holder, f>> \in DOMAIN replyIndex
                        /\ replyIndex[<<entries'[i].holder, f>>] = i
    BY Zenon DEF Replies
  <2>1. i \in DOMAIN entries /\ entries'[i] = entries[i]
    BY <1>2, <1>3, Zenon
  <2>2. PICK x : x = entries[i]
    BY Zenon
  <2>3. PICK f \in Flow :
          /\ x.target = FlowTarget(f) /\ cellOf[f] # 0
          /\ x.rights = {"SEND"} /\ x.epoch = 0
          /\ <<x.holder, f>> \in DOMAIN replyIndex /\ replyIndex[<<x.holder, f>>] = i
    BY <2>1, <2>2, Zenon DEF Replies
  <2> QED
    BY <2>1, <2>2, <2>3, Zenon
<1> QED
  BY <1>4, <1>5, Zenon

\* The table stays as it is, and no cell is taken.
LEMMA StayKeeps ==
  ASSUME Tokens, Replies, UNCHANGED <<entries, replyIndex>>,
         \A f \in Flow : cellOf[f] # 0 => cellOf'[f] # 0
  PROVE  Tokens' /\ Replies'
BY Zenon DEF Tokens, Replies

\* The table forgets tokens and pairs, but no pair of a reply address that stays.
LEMMA DropKeeps ==
  ASSUME Tokens, Replies, NEW S, entries' = Keep(entries, S),
         \A i \in DOMAIN entries \cap S : \A f \in Flow : entries[i].target = FlowTarget(f) =>
            /\ cellOf[f] # 0 => cellOf'[f] # 0
            /\ <<entries[i].holder, f>> \in DOMAIN replyIndex =>
                 /\ <<entries[i].holder, f>> \in DOMAIN replyIndex'
                 /\ replyIndex'[<<entries[i].holder, f>>] = replyIndex[<<entries[i].holder, f>>]
  PROVE  Tokens' /\ Replies'
<1>1. /\ DOMAIN entries' = DOMAIN entries \cap S
      /\ \A i \in DOMAIN entries \cap S : entries'[i] = entries[i]
  BY Zenon DEF Keep
<1>2. Tokens'
  BY <1>1, Zenon DEF Tokens
<1>3. Replies'
  <2> SUFFICES ASSUME NEW i \in DOMAIN entries \cap S, entries[i].reply
               PROVE  \E f \in Flow :
                        /\ entries[i].target = FlowTarget(f) /\ cellOf'[f] # 0
                        /\ entries[i].rights = {"SEND"} /\ entries[i].epoch = 0
                        /\ <<entries[i].holder, f>> \in DOMAIN replyIndex'
                        /\ replyIndex'[<<entries[i].holder, f>>] = i
    BY <1>1 DEF Replies
  <2>1. PICK f \in Flow :
           /\ entries[i].target = FlowTarget(f) /\ cellOf[f] # 0
           /\ entries[i].rights = {"SEND"} /\ entries[i].epoch = 0
           /\ <<entries[i].holder, f>> \in DOMAIN replyIndex
           /\ replyIndex[<<entries[i].holder, f>>] = i
    BY Zenon DEF Replies
  <2> QED
    BY <2>1, Zenon
<1> QED
  BY <1>2, <1>3, Zenon

\* CapTable::revoke_flow takes the tokens of the flow, those for it, and their pairs.
LEMMA RevokeFlowKeeps ==
  ASSUME Threads, Tokens, Replies, NEW f, revoke_flow(f)
  PROVE  Tokens' /\ Replies' /\ Grows
<1> DEFINE S == {i \in DOMAIN entries : entries[i].holder # f /\ entries[i].target # FlowTarget(f)}
           P == {p \in DOMAIN replyIndex : f \notin {p[1], p[2]}}
<1>1. /\ entries' = Keep(entries, S) /\ replyIndex' = Keep(replyIndex, P)
      /\ cellOf' = [cellOf EXCEPT ![f] = 0] /\ UNCHANGED cells
  BY Zenon DEF revoke_flow
<1>2. Grows /\ \A g \in Flow : g # f => cellOf'[g] = cellOf[g]
  BY <1>1, Zenon DEF Threads, Grows
<1>3. ASSUME NEW i \in DOMAIN entries \cap S, NEW g \in Flow, entries[i].target = FlowTarget(g)
      PROVE  /\ g # f /\ cellOf'[g] = cellOf[g]
             /\ <<entries[i].holder, g>> \in DOMAIN replyIndex =>
                  /\ <<entries[i].holder, g>> \in DOMAIN replyIndex'
                  /\ replyIndex'[<<entries[i].holder, g>>] = replyIndex[<<entries[i].holder, g>>]
  <2>1. g # f /\ entries[i].holder # f
    BY <1>3, Zenon DEF FlowTarget
  <2>2. <<entries[i].holder, g>> \in DOMAIN replyIndex => <<entries[i].holder, g>> \in P
    BY <2>1, Zenon
  <2> QED
    BY <1>1, <1>2, <2>1, <2>2, Zenon DEF Keep
<1> HIDE DEF S, P
<1> QED
  BY <1>1, <1>2, <1>3, DropKeeps, Zenon

\* CapTable::revoke_table takes the tokens for the table.
LEMMA RevokeTableKeeps ==
  ASSUME Threads, Tokens, Replies, NEW k, revoke_table(k)
  PROVE  Tokens' /\ Replies' /\ Grows
<1>1. /\ entries' = Keep(entries, {i \in DOMAIN entries : entries[i].target # TableTarget(k)})
      /\ UNCHANGED <<cellOf, cells, replyIndex>>
  BY Zenon DEF revoke_table
<1> QED
  BY <1>1, DropKeeps, SameIds, Zenon

\* CapTable::bind_flow gives a cell to a flow that has none.
LEMMA BindKeeps ==
  ASSUME Threads, NEW f, bind_flow(f)
  PROVE  /\ Grows /\ \A g \in Flow : cellOf[g] # 0 => cellOf'[g] # 0
         /\ f \in Flow => cellOf'[f] # 0
BY DEF Threads, Grows, bind_flow

\* CapTable::mint_or_reuse mints only when the pair has no address that resolves.
LEMMA MintKeeps ==
  ASSUME Threads, Tokens, Replies, NEW h, NEW f \in Flow, mint_or_reuse(h, f)
  PROVE  Tokens' /\ Replies' /\ Grows
<1>1. CASE ReplyIsLive(h, f)
  <2>1. UNCHANGED <<entries, replyIndex, cellOf, cells>>
    BY <1>1, Zenon DEF mint_or_reuse
  <2> QED
    BY <2>1, SameIds, StayKeeps, Zenon
<1>2. CASE ~ReplyIsLive(h, f)
  <2> DEFINE e == Entry(h, [target |-> FlowTarget(f), rights |-> {"SEND"}, epoch |-> 0], TRUE)
             k == Fresh
  <2>1. /\ bind_flow(f) /\ FreshTokens # {}
        /\ entries' = Put(entries, k, e) /\ replyIndex' = Put(replyIndex, <<h, f>>, k)
    BY <1>2, Zenon DEF mint_or_reuse
  <2>2. k \notin DOMAIN entries
    BY <2>1, FreshIsNew, Zenon
  <2>3. /\ e.rights = {"SEND"} /\ e.target = FlowTarget(f) /\ e.holder = h /\ e.epoch = 0
        /\ FlowTarget(f)[1] = "Flow" /\ FlowTarget(f)[2] = f
    BY Zenon DEF Entry, FlowTarget
  <2> HIDE DEF e, k
  <2>4. /\ Grows /\ (\A g \in Flow : cellOf[g] # 0 => cellOf'[g] # 0) /\ cellOf'[f] # 0
    BY <2>1, BindKeeps, Zenon
  <2>5. /\ DOMAIN entries' = DOMAIN entries \cup {k} /\ entries'[k] = e
        /\ \A i \in DOMAIN entries : entries'[i] = entries[i]
    BY <2>1, <2>2, Zenon DEF Put
  <2>6. /\ <<h, f>> \in DOMAIN replyIndex' /\ replyIndex'[<<h, f>>] = k
        /\ \A p \in DOMAIN replyIndex : p # <<h, f>> =>
              p \in DOMAIN replyIndex' /\ replyIndex'[p] = replyIndex[p]
    BY <2>1, Zenon DEF Put
  <2>7. Tokens'
    <3>1. e.rights \subseteq Ceiling(e.target)
      BY <2>3, Zenon DEF Ceiling, ADDRESSING
    <3> QED
      BY <2>5, <3>1, Zenon DEF Tokens
  <2>8. ASSUME NEW i \in DOMAIN entries, entries[i].reply
        PROVE  \E g \in Flow :
                 /\ entries[i].target = FlowTarget(g) /\ cellOf'[g] # 0
                 /\ entries[i].rights = {"SEND"} /\ entries[i].epoch = 0
                 /\ <<entries[i].holder, g>> \in DOMAIN replyIndex'
                 /\ replyIndex'[<<entries[i].holder, g>>] = i
    <3>1. PICK g \in Flow :
             /\ entries[i].target = FlowTarget(g) /\ cellOf[g] # 0
             /\ entries[i].rights = {"SEND"} /\ entries[i].epoch = 0
             /\ <<entries[i].holder, g>> \in DOMAIN replyIndex
             /\ replyIndex[<<entries[i].holder, g>>] = i
      BY <2>8, Zenon DEF Replies
    <3>2. <<entries[i].holder, g>> # <<h, f>>
      <4>1. SUFFICES ASSUME entries[i].holder = h, g = f PROVE FALSE
        BY Zenon
      <4>2. Valid(entries[i])
        BY <2>3, <3>1, <4>1, Zenon DEF Valid
      <4>3. Resolves(i, h, {"SEND"})
        BY <3>1, <4>1, <4>2, Zenon DEF Resolves
      <4>4. ReplyIsLive(h, f)
        BY <3>1, <4>1, <4>3, Zenon DEF ReplyIsLive
      <4> QED
        BY <1>2, <4>4, Zenon
    <3> QED
      BY <2>4, <2>6, <3>1, <3>2, Zenon
  <2>9. \E g \in Flow :
          /\ e.target = FlowTarget(g) /\ cellOf'[g] # 0 /\ e.rights = {"SEND"} /\ e.epoch = 0
          /\ <<e.holder, g>> \in DOMAIN replyIndex' /\ replyIndex'[<<e.holder, g>>] = k
    BY <2>3, <2>4, <2>6, Zenon
  <2>10. Replies'
    <3> SUFFICES ASSUME NEW i \in DOMAIN entries', entries'[i].reply
                 PROVE  \E g \in Flow :
                          /\ entries'[i].target = FlowTarget(g) /\ cellOf'[g] # 0
                          /\ entries'[i].rights = {"SEND"} /\ entries'[i].epoch = 0
                          /\ <<entries'[i].holder, g>> \in DOMAIN replyIndex'
                          /\ replyIndex'[<<entries'[i].holder, g>>] = i
      BY Zenon DEF Replies
    <3>1. CASE i = k
      BY <2>5, <2>9, <3>1, Zenon
    <3>2. CASE i \in DOMAIN entries
      <4>1. entries'[i] = entries[i]
        BY <2>5, <3>2, Zenon
      <4>2. PICK x : x = entries[i]
        BY Zenon
      <4>3. \E g \in Flow :
              /\ x.target = FlowTarget(g) /\ cellOf'[g] # 0
              /\ x.rights = {"SEND"} /\ x.epoch = 0
              /\ <<x.holder, g>> \in DOMAIN replyIndex' /\ replyIndex'[<<x.holder, g>>] = i
        BY <2>8, <3>2, <4>1, <4>2, Zenon
      <4> QED
        BY <4>1, <4>2, <4>3, Zenon
    <3> QED
      BY <2>5, <3>1, <3>2, Zenon
  <2> QED
    BY <2>4, <2>7, <2>10, Zenon
<1> QED
  BY <1>1, <1>2, Zenon

\* Nobody's authority changes, and no id is taken back.
LEMMA ParentsKeep ==
  ASSUME Parents, Grows, authority' = authority
  PROVE  Parents'
<1>1. Bound \subseteq Bound'
  BY MoreBound, Zenon
<1> QED
  BY <1>1, Zenon DEF Parents

LEMMA FlowIsNoHost ==
  /\ Host \in Thread /\ \A f \in Flow : f \in Thread /\ f # Host /\ f \in Nat
  /\ \A t \in Thread : t # Host => t \in Flow
BY AuthorityAssumption DEF Host, Flow, Thread

-----------------------------------------------------------------------------
(* Steps *)

\* A thread goes on, the table has changed, the authorities have not.
LEMMA Assemble ==
  ASSUME IInv, Grows, Tokens', Replies', UNCHANGED authority,
         NEW t \in Thread, th[t].pc # "none", NEW r, Goto(t, r), Tame(r)
  PROVE  IInv'
<1>1. Threads'
  BY TameKeeps, Zenon DEF IInv
<1>2. Parents'
  BY ParentsKeep, Zenon DEF IInv
<1> QED
  BY <1>1, <1>2, Zenon DEF IInv

\* Only threads move.
LEMMA SameTables ==
  ASSUME IInv, UNCHANGED <<entries, cellOf, cells, replyIndex, authority>>, Threads'
  PROVE  IInv'
<1>1. Tokens' /\ Replies'
  BY StayKeeps, Zenon DEF IInv
<1>2. Parents'
  BY SameIds, ParentsKeep, Zenon DEF IInv
<1> QED
  BY <1>1, <1>2, Zenon DEF IInv

LEMMA Quiet ==
  ASSUME IInv, UNCHANGED <<entries, cellOf, cells, replyIndex, authority>>,
         NEW t \in Thread, th[t].pc # "none", NEW r, Goto(t, r), Tame(r)
  PROVE  IInv'
<1>1. Threads /\ Grows
  BY SameIds, Zenon DEF IInv
<1>2. Threads'
  BY <1>1, TameKeeps, Zenon
<1> QED
  BY <1>2, SameTables, Zenon

\* A root or a derived token is minted.
LEMMA Minted ==
  ASSUME IInv, UNCHANGED <<cellOf, cells, replyIndex, authority>>, FreshTokens # {},
         NEW holder, NEW cap, entries' = Put(entries, Fresh, Entry(holder, cap, FALSE)),
         cap.rights \subseteq Ceiling(cap.target),
         NEW t \in Thread, th[t].pc # "none", NEW r, Goto(t, r), Tame(r)
  PROVE  IInv'
<1>1. Grows
  BY SameIds, Zenon DEF IInv
<1>2. Tokens' /\ Replies'
  BY PutKeeps, Zenon DEF IInv
<1> QED
  BY <1>1, <1>2, Assemble, Zenon

LEMMA TamePc ==
  ASSUME NEW r, DOMAIN r = Fields,
         NEW pc, pc \notin {"none", "bind", "derive", "insert", "launch"}
  PROVE  Tame([r EXCEPT !.pc = pc])
BY Zenon DEF Tame, Fields

LEMMA TameReady ==
  /\ Tame(Ready)
  /\ \A pc \in {"mint", "charge", "open_global", "get", "put", "fin_tables", "fin_revoke", "fin_close"} :
       \A op : Tame(Begin(pc, op)) /\ Tame([Ready EXCEPT !.pc = pc])
BY Zenon DEF Tame, Ready, Idle, Fields, Begin

\* The steps that leave the table alone.
LEMMA CalmStep ==
  ASSUME IInv, NEW f \in Flow,
         Charge(f) \/ Receive(f) \/ OpenGlobal(f) \/ TableUse(f) \/ TableGet(f) \/ PutCheck(f)
           \/ PutQuota(f) \/ Registers(f) \/ Exit(f) \/ FinTables(f) \/ FinQuota(f)
  PROVE  IInv'
<1>0. f \in Thread /\ \A s \in Flow : s \in Thread
  BY FlowIsNoHost, Zenon
<1>f. ASSUME th[f].pc # "none" PROVE DOMAIN th[f] = Fields
  BY <1>0, <1>f, Begun, Zenon DEF IInv
<1>1. CASE Charge(f)
  <2>1. DOMAIN th[f] = Fields /\ th[f].pc # "none"
    BY <1>1, <1>f, Zenon DEF Charge
  <2>2. PICK r : Goto(f, r) /\ Tame(r)
    <3>1. Tame([th[f] EXCEPT !.pc = "deliver", !.hop = Hop])
      BY <2>1, Zenon DEF Tame, Fields
    <3> QED
      BY <1>1, <3>1, Records, Zenon DEF Charge
  <2> QED
    BY <1>0, <1>1, <2>1, <2>2, Quiet, Zenon DEF Charge, capTable, flowVars
<1>2. CASE Receive(f)
  <2>1. UNCHANGED <<entries, cellOf, cells, replyIndex, authority>>
    BY <1>2, Zenon DEF Receive, capTable
  <2>2. \/ UNCHANGED th
        \/ \E s \in Flow : th[s].pc # "none" /\ \E r : Goto(s, r) /\ Tame(r)
    <3>1. \/ UNCHANGED th \/ (th[f].pc = "ready" /\ Goto(f, Refused(f)))
          \/ \E s \in WaitingOn(f) : Goto(s, Ready)
      BY <1>2, Zenon DEF Receive
    <3>2. \A s \in WaitingOn(f) : s \in Flow /\ th[s].pc # "none"
      BY Zenon DEF WaitingOn
    <3> QED
      BY <3>1, <3>2, Records, TameReady, Zenon
  <2>3. CASE UNCHANGED th
    <3>1. Threads'
      BY <2>1, <2>3, Zenon DEF IInv, Threads, Bound, ThreadOK
    <3> QED
      BY <2>1, <3>1, SameTables, Zenon
  <2>4. CASE \E s \in Flow : th[s].pc # "none" /\ \E r : Goto(s, r) /\ Tame(r)
    BY <1>0, <2>1, <2>4, Quiet, Zenon
  <2> QED
    BY <2>2, <2>3, <2>4, Zenon
<1> DEFINE rest == OpenGlobal(f) \/ TableUse(f) \/ TableGet(f) \/ PutCheck(f) \/ PutQuota(f)
                     \/ Registers(f) \/ Exit(f) \/ FinTables(f) \/ FinQuota(f)
<1>3. CASE rest
  <2>1. th[f].pc # "none" /\ UNCHANGED <<entries, cellOf, cells, replyIndex, authority>>
    BY <1>3, Zenon DEF OpenGlobal, TableUse, TableGet, PutCheck, PutQuota, Registers, Exit, FinTables,
                FinQuota, MayBegin, capTable, flowVars
  <2>2. DOMAIN th[f] = Fields
    BY <1>f, <2>1, Zenon
  <2>3. PICK r : Goto(f, r) /\ Tame(r)
    <3>1. CASE OpenGlobal(f)
      BY <2>2, <3>1, TamePc, Records, Zenon DEF OpenGlobal, Step
    <3>2. CASE TableUse(f)
      <4>1. ASSUME NEW i, NEW row
            PROVE  /\ Tame([Begin("get", "get") EXCEPT !.id = i])
                   /\ Tame([Begin("put", "put") EXCEPT !.id = i, !.row = row])
        BY Zenon DEF Tame, Begin, Ready, Idle, Fields
      <4>2. \/ Goto(f, Refused(f))
            \/ \E i : Goto(f, [Begin("get", "get") EXCEPT !.id = i])
            \/ \E i, row : Goto(f, [Begin("put", "put") EXCEPT !.id = i, !.row = row])
        BY <3>2, Zenon DEF TableUse
      <4> QED
        BY <4>1, <4>2, Records, Zenon
    <3>3. CASE TableGet(f)
      BY <3>3, Records, TameReady, Zenon DEF TableGet
    <3>4. CASE PutCheck(f)
      <4>1. Goto(f, Refused(f)) \/ Goto(f, Ready) \/ Step(f, "put_quota")
        BY <3>4, Zenon DEF PutCheck
      <4> QED
        BY <2>2, <4>1, TamePc, Records, TameReady, Zenon DEF Step
    <3>5. CASE PutQuota(f)
      <4>1. Goto(f, Refused(f)) \/ Goto(f, Ready)
        BY <3>5, Zenon DEF PutQuota
      <4> QED
        BY <4>1, Records, TameReady, Zenon
    <3>6. CASE Registers(f)
      BY <3>6, Records, TameReady, Zenon DEF Registers
    <3>7. CASE Exit(f)
      <4>1. Tame([Ready EXCEPT !.pc = "fin_tables", !.hop = th[f].hop])
        BY Zenon DEF Tame, Ready, Idle, Fields
      <4> QED
        BY <3>7, <4>1, Zenon DEF Exit
    <3>8. CASE FinTables(f)
      <4>1. /\ Tame([Ready EXCEPT !.pc = "fin_close"])
            /\ Tame([Ready EXCEPT !.pc = "fin_revoke", !.id = Min(Owned(f))])
        BY Zenon DEF Tame, Ready, Idle, Fields
      <4>2. \/ Goto(f, [Ready EXCEPT !.pc = "fin_close"])
            \/ Goto(f, [Ready EXCEPT !.pc = "fin_revoke", !.id = Min(Owned(f))])
        BY <3>8, Zenon DEF FinTables
      <4> QED
        BY <4>1, <4>2, Zenon
    <3>9. CASE FinQuota(f)
      <4>1. Tame(Idle("dead"))
        BY Zenon DEF Tame, Idle, Fields
      <4> QED
        BY <3>9, <4>1, Zenon DEF FinQuota
    <3> QED
      BY <1>3, <3>1, <3>2, <3>3, <3>4, <3>5, <3>6, <3>7, <3>8, <3>9, Zenon
  <2> QED
    BY <1>0, <2>1, <2>3, Quiet, Zenon
<1> QED
  BY <1>1, <1>2, <1>3, Zenon

\* mint, open, and the tokens a flow asks for itself.
LEMMA MintStep ==
  ASSUME IInv, NEW f \in Flow, SelfPid(f) \/ TableOpen(f) \/ OpenGrant(f)
  PROVE  IInv'
<1>0. f \in Thread
  BY FlowIsNoHost, Zenon
<1>1. CASE SelfPid(f)
  <2> DEFINE cap == [target |-> FlowTarget(f), rights |-> ADDRESSING, epoch |-> CellEpoch(f, cellOf[f])]
  <2>1. /\ th[f].pc # "none" /\ FreshTokens # {} /\ Goto(f, Ready)
        /\ entries' = Put(entries, Fresh, Entry(f, cap, FALSE))
        /\ UNCHANGED <<cellOf, cells, replyIndex, authority>>
    BY <1>1, Zenon DEF SelfPid, MayBegin, Ref
  <2>2. cap.rights \subseteq Ceiling(cap.target)
    BY Zenon DEF Ceiling, FlowTarget
  <2> HIDE DEF cap
  <2> QED
    BY <1>0, <2>1, <2>2, Minted, TameReady, Zenon
<1>2. CASE TableOpen(f)
  <2>1. /\ th[f].pc # "none" /\ UNCHANGED <<cellOf, cells, replyIndex, authority>>
        /\ \/ /\ entries' = entries
              /\ \/ Goto(f, [Begin("open_global", "open") EXCEPT !.id = global])
                 \/ Goto(f, Refused(f))
           \/ /\ FreshTokens # {} /\ Goto(f, Ready)
              /\ entries' = Put(entries, Fresh, Entry(f, TableCap(nextTable, 0), FALSE))
    BY <1>2, Zenon DEF TableOpen, MayBegin
  <2>2. Tame([Begin("open_global", "open") EXCEPT !.id = global])
    BY Zenon DEF Tame, Begin, Ready, Idle, Fields
  <2>3. TableCap(nextTable, 0).rights \subseteq Ceiling(TableCap(nextTable, 0).target)
    BY Zenon DEF Ceiling, TableCap, TableTarget
  <2>4. CASE entries' = entries /\ \E r : Goto(f, r) /\ Tame(r)
    BY <1>0, <2>1, <2>4, Quiet, Zenon
  <2>5. CASE /\ FreshTokens # {} /\ Goto(f, Ready)
             /\ entries' = Put(entries, Fresh, Entry(f, TableCap(nextTable, 0), FALSE))
    BY <1>0, <2>1, <2>3, <2>5, Minted, TameReady, Zenon
  <2> QED
    BY <2>1, <2>2, <2>4, <2>5, Records, Zenon
<1>3. CASE OpenGrant(f)
  <2>1. PICK e : /\ th[f].pc # "none" /\ FreshTokens # {} /\ Goto(f, Ready)
                 /\ entries' = Put(entries, Fresh, Entry(f, TableCap(th[f].id, e), FALSE))
                 /\ UNCHANGED <<cellOf, cells, replyIndex, authority>>
    BY <1>3, Zenon DEF OpenGrant
  <2> DEFINE cap == TableCap(th[f].id, e)
  <2>2. cap.rights \subseteq Ceiling(cap.target)
    BY Zenon DEF Ceiling, TableCap, TableTarget
  <2> HIDE DEF cap
  <2>3. entries' = Put(entries, Fresh, Entry(f, cap, FALSE))
    BY <2>1, Zenon DEF cap
  <2> QED
    BY <1>0, <2>1, <2>2, <2>3, Minted, TameReady, Zenon
<1> QED
  BY <1>1, <1>2, <1>3, Zenon

\* The flow begins an operation that carries references.
LEMMA BeginStep ==
  ASSUME IInv, NEW f \in Flow, Delegate(f) \/ Send(f)
  PROVE  IInv'
<1>0. f \in Thread /\ f # Host
  BY FlowIsNoHost, Zenon
<1>1. th[f].pc # "none" /\ UNCHANGED <<entries, cellOf, cells, replyIndex, authority>>
  BY Zenon DEF Delegate, Send, MayBegin, capTable, flowVars
<1>2. Threads /\ Grows /\ Bound' = Bound /\ f \in Bound
  BY <1>0, <1>1, SameIds, Begun, Zenon DEF IInv
<1>3. PICK r : Goto(f, r) /\ ThreadOK(Bound, f, r)
  <2>1. CASE \E r : Goto(f, r) /\ Tame(r)
    BY <1>2, <2>1, TameOK, Zenon
  <2>2. ASSUME NEW i \in DOMAIN entries, NEW want
        PROVE  ThreadOK(Bound, f, [Begin("insert", "delegate")
                                     EXCEPT !.to = f, !.cap = attenuate(CapOf(entries[i]), want)])
    <3> DEFINE cap == attenuate(CapOf(entries[i]), want)
    <3>1. cap.rights \subseteq Ceiling(cap.target)
      BY Zenon DEF attenuate, CapOf, IInv, Tokens
    <3> HIDE DEF cap
    <3> DEFINE r == [Begin("insert", "delegate") EXCEPT !.to = f, !.cap = cap]
    <3>2. DOMAIN r = Fields /\ r.pc = "insert" /\ r.op = "delegate" /\ r.cap = cap
      BY Zenon DEF Begin, Ready, Idle, Fields
    <3> HIDE DEF r
    <3>3. ThreadOK(Bound, f, r)
      BY <1>0, <1>2, <3>1, <3>2, Zenon DEF ThreadOK, Launching
    <3> QED
      BY <3>3, Zenon DEF r, cap
  <2>3. ASSUME NEW to, NEW args
        PROVE  ThreadOK(Bound, f, Args([Begin("derive", "send") EXCEPT !.to = to, !.todo = args]))
    BY <1>0, <1>2, Zenon DEF ThreadOK, Launching, Begin, Ready, Idle, Fields, Args, AfterArgs
  <2>4. CASE Delegate(f)
    <3>1. \/ Goto(f, Refused(f))
          \/ \E i \in DOMAIN entries : \E want :
               Goto(f, [Begin("insert", "delegate")
                          EXCEPT !.to = f, !.cap = attenuate(CapOf(entries[i]), want)])
      BY <2>4, Zenon DEF Delegate, Delegable, Resolves
    <3> QED
      BY <2>1, <2>2, <3>1, Records, Zenon
  <2>5. CASE Send(f)
    <3>1. \/ Goto(f, Refused(f))
          \/ \E to, args :
               Goto(f, Args([Begin("derive", "send") EXCEPT !.to = to, !.todo = args]))
      BY <2>5, Zenon DEF Send
    <3> QED
      BY <2>1, <2>3, <3>1, Records, Zenon
  <2> QED
    BY <2>4, <2>5, Zenon
<1>4. Threads'
  BY <1>0, <1>2, <1>3, GotoKeeps, Zenon
<1> QED
  BY <1>1, <1>4, SameTables, Zenon

\* Spawn and Runtime::spawn reserve a slot; no policy asks for ADMIN.
LEMMA ReserveStep ==
  ASSUME IInv, NEW t \in Thread, NEW want, Reserve(t, want), t = Host => "ADMIN" \notin want
  PROVE  IInv'
<1>1. th[t].pc # "none" /\ UNCHANGED <<entries, cellOf, cells, replyIndex, authority>>
  BY Zenon DEF Reserve, MayBegin, capTable
<1>2. Threads /\ Grows /\ Bound' = Bound /\ (t \in Flow => t \in Bound)
  BY <1>1, SameIds, Begun, Zenon DEF IInv
<1>3. PICK r : Goto(t, r) /\ ThreadOK(Bound, t, r)
  <2>1. ASSUME NEW args
        PROVE  ThreadOK(Bound, t, [Begin("bind", "spawn") EXCEPT !.want = want, !.todo = args])
    BY <1>2, Zenon DEF ThreadOK, Launching, Begin, Ready, Idle, Fields
  <2>2. ThreadOK(Bound, t, Refused(t))
    BY <1>2, Records, TameOK, Zenon
  <2> QED
    BY <2>1, <2>2, Zenon DEF Reserve
<1>4. Threads'
  BY <1>2, <1>3, GotoKeeps, Zenon
<1> QED
  BY <1>1, <1>4, SameTables, Zenon

\* authenticate_outgoing_message mints the reply address, or finds it.
LEMMA ReplyStep ==
  ASSUME IInv, NEW f \in Flow, Reply(f)
  PROVE  IInv'
<1> DEFINE r == [th[f] EXCEPT !.pc = "charge",
                   !.got = @ \cup {Ref(replyIndex'[<<th[f].to, f>>], FlowTarget(f))}]
<1>1. f \in Thread /\ th[f].pc # "none" /\ mint_or_reuse(th[f].to, f) /\ Goto(f, r) /\ UNCHANGED authority
  BY FlowIsNoHost, Zenon DEF Reply, flowVars
<1>2. Tokens' /\ Replies' /\ Grows
  BY <1>1, MintKeeps, Zenon DEF IInv
<1>3. Tame(r)
  <2>1. DOMAIN th[f] = Fields
    BY <1>1, Begun, Zenon DEF IInv
  <2> QED
    BY <2>1, Zenon DEF Tame, Fields
<1> HIDE DEF r
<1> QED
  BY <1>1, <1>2, <1>3, Assemble, Zenon

\* finalize_one's revocations.
LEMMA RevokeStep ==
  ASSUME IInv, NEW f \in Flow, FinRevoke(f) \/ FinCaps(f)
  PROVE  IInv'
<1>0. f \in Thread
  BY FlowIsNoHost, Zenon
<1>1. CASE FinRevoke(f)
  <2>1. /\ th[f].pc # "none" /\ revoke_table(th[f].id) /\ Goto(f, [Ready EXCEPT !.pc = "fin_close"])
        /\ UNCHANGED authority
    BY <1>1, Zenon DEF FinRevoke, flowVars
  <2>2. Tokens' /\ Replies' /\ Grows
    BY <2>1, RevokeTableKeeps, Zenon DEF IInv
  <2>3. Tame([Ready EXCEPT !.pc = "fin_close"])
    BY TameReady, Zenon
  <2> QED
    BY <1>0, <2>1, <2>2, <2>3, Assemble, Zenon
<1>2. CASE FinCaps(f)
  <2>1. /\ th[f].pc # "none" /\ revoke_flow(f) /\ Goto(f, [th[f] EXCEPT !.pc = "fin_quota"])
        /\ UNCHANGED authority
    BY <1>2, Zenon DEF FinCaps, Step, flowVars
  <2>2. Tokens' /\ Replies' /\ Grows
    BY <2>1, RevokeFlowKeeps, Zenon DEF IInv
  <2>3. Tame([th[f] EXCEPT !.pc = "fin_quota"])
    BY <1>0, <2>1, Begun, TamePc, Zenon DEF IInv
  <2> QED
    BY <1>0, <2>1, <2>2, <2>3, Assemble, Zenon
<1> QED
  BY <1>1, <1>2, Zenon

\* The inbox closes: the senders parked on it are finalized in the same step.
LEMMA CloseStep ==
  ASSUME IInv, NEW f \in Flow, FinClose(f)
  PROVE  IInv'
<1>1. /\ th[f].pc = "fin_close" /\ UNCHANGED <<entries, cellOf, cells, replyIndex, authority>>
      /\ DOMAIN th' = Thread
      /\ \A s \in Thread : th'[s] = IF s = f THEN [th[f] EXCEPT !.pc = "fin_caps"]
                                     ELSE IF s \in WaitingOn(f) THEN [Refused(s) EXCEPT !.hop = th[s].hop]
                                     ELSE th[s]
  BY Zenon DEF FinClose, capTable
<1>2. Threads /\ Grows /\ Bound' = Bound
  BY <1>1, SameIds, Zenon DEF IInv
<1>3. ASSUME NEW s \in Thread PROVE ThreadOK(Bound, s, th'[s])
  <2>1. CASE s = f
    <3>1. DOMAIN th[f] = Fields /\ f \in Bound
      BY <1>1, <1>2, <2>1, Begun, Zenon
    <3>2. Tame([th[f] EXCEPT !.pc = "fin_caps"])
      BY <3>1, TamePc, Zenon
    <3> QED
      BY <1>1, <2>1, <3>1, <3>2, TameOK, Zenon
  <2>2. CASE s # f /\ s \in WaitingOn(f)
    <3>1. s \in Flow => s \in Bound
      BY <1>2, <2>2, Begun, Zenon DEF WaitingOn
    <3>2. Tame([Refused(s) EXCEPT !.hop = th[s].hop])
      BY Zenon DEF Tame, Refused, Ready, Idle, Fields
    <3> QED
      BY <1>1, <2>2, <3>1, <3>2, TameOK, Zenon
  <2>3. CASE s # f /\ s \notin WaitingOn(f)
    BY <1>1, <1>2, <2>3, Zenon DEF Threads
  <2> QED
    BY <2>1, <2>2, <2>3, Zenon
<1>4. Threads'
  BY <1>1, <1>2, <1>3, Zenon DEF Threads
<1> QED
  BY <1>1, <1>4, SameTables, Zenon

\* The host's steps.
LEMMA HostKeeps ==
  ASSUME IInv, HostStep
  PROVE  IInv'
<1>0. Host \in Thread /\ Host \notin Flow
  BY FlowIsNoHost, Zenon
<1>1. CASE \E p \in Policies : Reserve(Host, PolicyRights(p))
  <2>1. \A p : "ADMIN" \notin PolicyRights(p)
    BY Zenon DEF PolicyRights, FLOW, ADDRESSING
  <2> QED
    BY <1>0, <1>1, <2>1, ReserveStep, Zenon
<1>2. ASSUME NEW x \in Flow, HostSend(x) PROVE IInv'
  <2>1. th[Host].pc # "none" /\ UNCHANGED <<entries, cellOf, cells, replyIndex, authority>>
    BY <1>2, Zenon DEF HostSend, MayBegin, capTable, flowVars
  <2>2. Threads /\ Grows /\ Bound' = Bound
    BY <2>1, SameIds, Zenon DEF IInv
  <2>3. PICK q : Goto(Host, Args([Begin("derive", "host_send") EXCEPT !.to = x, !.todo = {q}]))
    BY <1>2, Zenon DEF HostSend
  <2>4. ThreadOK(Bound, Host, Args([Begin("derive", "host_send") EXCEPT !.to = x, !.todo = {q}]))
    BY <1>0, Zenon DEF ThreadOK, Launching, Begin, Ready, Idle, Fields, Args, AfterArgs
  <2>5. Threads'
    BY <1>0, <2>2, <2>3, <2>4, GotoKeeps, Zenon
  <2> QED
    BY <2>1, <2>5, SameTables, Zenon
<1>3. ASSUME NEW x \in Flow, MintAdmin(x) PROVE IInv'
  <2> DEFINE cap == [NoCap EXCEPT !.rights = {"ADMIN"}]
  <2>1. /\ th[Host].pc # "none" /\ FreshTokens # {} /\ Goto(Host, Ready)
        /\ entries' = Put(entries, Fresh, Entry(x, cap, FALSE))
        /\ UNCHANGED <<cellOf, cells, replyIndex, authority>>
    BY <1>3, Zenon DEF MintAdmin, MayBegin, Ref
  <2>2. cap.rights \subseteq Ceiling(cap.target)
    BY Zenon DEF Ceiling, NoCap, Scheduler
  <2> HIDE DEF cap
  <2> QED
    BY <1>0, <2>1, <2>2, Minted, TameReady, Zenon
<1>4. ASSUME NEW x \in Flow, NEW h \in Flow, GrantCap(h, x) \/ AdminTopUp(h, x) PROVE IInv'
  <2>1. th[Host].pc # "none" /\ UNCHANGED <<entries, cellOf, cells, replyIndex, authority>>
    BY <1>4, Zenon DEF GrantCap, AdminTopUp, MayBegin, capTable, flowVars
  <2>2. Tame([Begin("mint", "mint") EXCEPT !.to = x, !.id = h])
    BY Zenon DEF Tame, Begin, Ready, Idle, Fields
  <2>3. \E r : Goto(Host, r) /\ Tame(r)
    BY <1>4, <2>2, TameReady, Zenon DEF GrantCap, AdminTopUp
  <2> QED
    BY <1>0, <2>1, <2>3, Quiet, Zenon
<1>5. CASE RegisterGlobal
  <2>1. /\ th[Host].pc # "none" /\ UNCHANGED <<entries, cellOf, cells, replyIndex, authority>>
        /\ Goto(Host, Ready)
    BY <1>5, Zenon DEF RegisterGlobal, MayBegin, flowVars
  <2> QED
    BY <1>0, <2>1, Quiet, TameReady, Zenon
<1>6. CASE UnregisterGlobal
  <2>1. /\ th[Host].pc # "none" /\ revoke_table(global) /\ Goto(Host, Ready) /\ UNCHANGED authority
    BY <1>6, Zenon DEF UnregisterGlobal, MayBegin, flowVars
  <2>2. Tokens' /\ Replies' /\ Grows
    BY <2>1, RevokeTableKeeps, Zenon DEF IInv
  <2> QED
    BY <1>0, <2>1, <2>2, Assemble, TameReady, Zenon
<1> QED
  BY <1>1, <1>2, <1>3, <1>4, <1>5, <1>6, Zenon DEF HostStep

\* spawn_on's error paths.
LEMMA AbortKeeps ==
  ASSUME IInv, NEW t \in Thread, th[t].pc # "none", NEW c, AbortSpawn(t, c)
  PROVE  IInv'
<1>1. revoke_flow(c) /\ Goto(t, Refused(t)) /\ UNCHANGED authority
  BY Zenon DEF AbortSpawn
<1>2. Tokens' /\ Replies' /\ Grows
  BY <1>1, RevokeFlowKeeps, Zenon DEF IInv
<1> QED
  BY <1>1, <1>2, Assemble, Records, Zenon

\* map_caps checks the next reference.
LEMMA DeriveStep ==
  ASSUME IInv, NEW t \in Thread, Derive(t)
  PROVE  IInv'
<1>1. PICK q \in th[t].todo :
         \/ /\ q.id \in DOMAIN entries
            /\ Goto(t, [th[t] EXCEPT !.pc = "insert", !.todo = @ \ {q}, !.cap = CapOf(entries[q.id])])
            /\ UNCHANGED <<capTable, flowVars>>
         \/ AbortSpawn(t, th[t].to)
         \/ Goto(t, Refused(t)) /\ UNCHANGED <<capTable, flowVars>>
  BY Zenon DEF Derive, Reissuable, Delegable, Resolves
<1>2. th[t].pc = "derive" /\ DOMAIN th[t] = Fields /\ ThreadOK(Bound, t, th[t])
  BY Begun, Zenon DEF Derive, IInv, Threads
<1>3. CASE AbortSpawn(t, th[t].to)
  BY <1>2, <1>3, AbortKeeps, Zenon
<1>4. CASE UNCHANGED <<capTable, flowVars>>
  <2>1. UNCHANGED <<entries, cellOf, cells, replyIndex, authority>>
    BY <1>4, Zenon DEF capTable, flowVars
  <2>2. CASE Goto(t, Refused(t))
    BY <1>2, <2>1, <2>2, Quiet, Records, Zenon
  <2> DEFINE cap == CapOf(entries[q.id])
             r == [th[t] EXCEPT !.pc = "insert", !.todo = @ \ {q}, !.cap = cap]
  <2>3. CASE q.id \in DOMAIN entries /\ Goto(t, r)
    <3>1. cap.rights \subseteq Ceiling(cap.target)
      BY <2>3, Zenon DEF CapOf, IInv, Tokens
    <3>2. /\ DOMAIN r = Fields /\ r.pc = "insert" /\ r.op = th[t].op /\ r.to = th[t].to
          /\ r.cap = cap
      BY <1>2, Zenon DEF Fields
    <3> HIDE DEF r, cap
    <3>3. ThreadOK(Bound, t, r)
      BY <1>2, <3>1, <3>2, Zenon DEF ThreadOK, Launching
    <3>4. Threads'
      BY <2>1, <2>3, <3>3, SameIds, GotoKeeps, Zenon DEF IInv
    <3> QED
      BY <2>1, <3>4, SameTables, Zenon
  <2> QED
    BY <1>1, <1>3, <2>2, <2>3, Zenon
<1> QED
  BY <1>1, <1>3, <1>4, Zenon

\* ... and CapTable::insert adds what was derived.
LEMMA InsertStep ==
  ASSUME IInv, NEW t \in Thread, InsertDerived(t)
  PROVE  IInv'
<1> DEFINE new == Ref(Fresh, th[t].cap.target)
           r == Args([th[t] EXCEPT !.got = @ \cup {new}, !.cap = NoCap])
<1>1. /\ th[t].pc = "insert" /\ FreshTokens # {} /\ UNCHANGED <<cellOf, cells, replyIndex, authority>>
      /\ entries' = Put(entries, Fresh, Entry(th[t].to, th[t].cap, FALSE))
      /\ Goto(t, Ready) \/ (th[t].op # "delegate" /\ Goto(t, r))
  BY Zenon DEF InsertDerived, Ref
<1>2. DOMAIN th[t] = Fields /\ ThreadOK(Bound, t, th[t])
  BY <1>1, Begun, Zenon DEF IInv, Threads
<1>3. th[t].cap.rights \subseteq Ceiling(th[t].cap.target)
  BY <1>1, <1>2, Zenon DEF ThreadOK
<1>4. Tokens' /\ Replies'
  BY <1>1, <1>3, PutKeeps, Zenon DEF IInv
<1>5. Threads /\ Grows /\ Bound' = Bound
  BY <1>1, SameIds, Zenon DEF IInv
<1>6. CASE Goto(t, Ready)
  BY <1>1, <1>4, <1>5, <1>6, Assemble, TameReady, Zenon
<1>7. CASE th[t].op # "delegate" /\ Goto(t, r)
  <2>1. /\ DOMAIN r = Fields /\ r.op = th[t].op /\ r.to = th[t].to
        /\ r.pc \in {AfterArgs(r.op), "derive"}
    BY <1>2, Zenon DEF Args, Fields
  <2> HIDE DEF r
  <2>2. r.pc \in {"reply", "deliver", "launch", "derive"}
        /\ (r.pc = "launch" => r.op \notin {"send", "host_send"})
    BY <2>1, Zenon DEF AfterArgs
  <2>3. ThreadOK(Bound, t, r)
    BY <1>1, <1>2, <1>7, <2>1, <2>2, Zenon DEF ThreadOK, Launching
  <2>4. Threads'
    BY <1>5, <1>7, <2>3, GotoKeeps, Zenon
  <2>5. Parents'
    BY <1>1, <1>5, ParentsKeep, Zenon DEF IInv
  <2> QED
    BY <1>4, <2>4, <2>5, Zenon DEF IInv
<1> QED
  BY <1>1, <1>6, <1>7, Zenon

\* CapTable::mint in its two locks, and the delivery of a hop.
LEMMA GrantStep ==
  ASSUME IInv, NEW t \in Thread, MintBind(t) \/ MintGrant(t) \/ Deliver(t)
  PROVE  IInv'
<1>0. th[t].pc # "none" /\ DOMAIN th[t] = Fields
  BY Begun, Zenon DEF MintBind, MintGrant, Deliver, IInv
<1>1. CASE MintBind(t)
  <2> DEFINE r == [th[t] EXCEPT !.pc = "grant", !.gen = cellOf'[th[t].to]]
  <2>1. /\ bind_flow(th[t].to) /\ Goto(t, r) /\ UNCHANGED <<entries, replyIndex, authority>>
    BY <1>1, Zenon DEF MintBind, flowVars
  <2>2. Grows /\ \A g \in Flow : cellOf[g] # 0 => cellOf'[g] # 0
    BY <2>1, BindKeeps, Zenon DEF IInv
  <2>3. Tame(r)
    BY <1>0, Zenon DEF Tame, Fields
  <2> HIDE DEF r
  <2>4. Tokens' /\ Replies'
    BY <2>1, <2>2, StayKeeps, Zenon DEF IInv
  <2> QED
    BY <1>0, <2>1, <2>2, <2>3, <2>4, Assemble, Zenon
<1>2. CASE MintGrant(t)
  <2>1. PICK e : /\ FreshTokens # {} /\ Goto(t, Ready) /\ UNCHANGED <<cellOf, cells, replyIndex, authority>>
                 /\ entries' = Put(entries, Fresh,
                                   Entry(th[t].id, [target |-> FlowTarget(th[t].to), rights |-> ADDRESSING,
                                                    epoch |-> e], FALSE))
    BY <1>2, Zenon DEF MintGrant, Ref
  <2> DEFINE cap == [target |-> FlowTarget(th[t].to), rights |-> ADDRESSING, epoch |-> e]
  <2>2. cap.rights \subseteq Ceiling(cap.target)
    BY Zenon DEF Ceiling, FlowTarget
  <2>3. entries' = Put(entries, Fresh, Entry(th[t].id, cap, FALSE))
    BY <2>1, Zenon
  <2> HIDE DEF cap
  <2> QED
    BY <1>0, <2>1, <2>2, <2>3, Minted, TameReady, Zenon
<1>3. CASE Deliver(t)
  <2>1. UNCHANGED <<entries, cellOf, cells, replyIndex, authority>>
    BY <1>3, Zenon DEF Deliver, capTable
  <2>2. Goto(t, Refused(t)) \/ Goto(t, Ready) \/ Step(t, "waiting_send")
    BY <1>3, Zenon DEF Deliver
  <2>3. \E r : Goto(t, r) /\ Tame(r)
    BY <1>0, <2>2, TamePc, Records, TameReady, Zenon DEF Step
  <2> QED
    BY <1>0, <2>1, <2>3, Quiet, Zenon
<1> QED
  BY <1>1, <1>2, <1>3, Zenon

\* The child's id and its authority: the child is nobody's parent yet.
LEMMA BindStep ==
  ASSUME IInv, NEW t \in Thread, BindChild(t)
  PROVE  IInv'
<1>0. /\ th[t].pc = "bind" /\ DOMAIN th[t] = Fields /\ ThreadOK(Bound, t, th[t])
      /\ UNCHANGED <<entries, replyIndex>> /\ (t \in Flow => t \in Bound)
  BY Begun, Zenon DEF BindChild, IInv, Threads
<1>1. CASE FreshFlows = {}
  <2>1. Goto(t, Refused(t)) /\ UNCHANGED <<cellOf, cells, authority>>
    BY <1>1, Zenon DEF BindChild
  <2> QED
    BY <1>0, <2>1, Quiet, Records, Zenon
<1>2. CASE FreshFlows # {}
  <2> DEFINE c == Min(FreshFlows)
             a == IF t = Host THEN root_authority(th[t].want) ELSE exec_spawn_authority(t, th[t].want)
             r == Args([th[t] EXCEPT !.to = c])
  <2>1. c \in Flow /\ cells[c] = 0
    <3>1. FreshFlows \subseteq Nat
      BY FlowIsNoHost, Zenon DEF FreshFlows
    <3>2. c \in FreshFlows
      BY <1>2, <3>1, MinIn, Zenon
    <3> QED
      BY <3>2, Zenon DEF FreshFlows
  <2>2. \/ /\ bind_flow(c) /\ authority' = [authority EXCEPT ![c] = a] /\ Goto(t, r)
        \/ /\ cells' = [cells EXCEPT ![c] = 1] /\ Goto(t, Refused(t)) /\ UNCHANGED <<cellOf, authority>>
    BY <1>2, Zenon DEF BindChild
  <2>r. DOMAIN r = Fields /\ r.to = c /\ r.pc \in {"reply", "deliver", "launch", "derive"}
    BY <1>0, Zenon DEF Args, AfterArgs, Fields
  <2>a. /\ "ADMIN" \notin a.rights
        /\ a.parent # Host => /\ a.parent \in Bound
                              /\ a.rights \subseteq authority[a.parent].rights
                              /\ a.natives \subseteq authority[a.parent].natives
    <3>1. CASE t = Host
      BY <1>0, <3>1, Zenon DEF root_authority, ThreadOK
    <3>2. CASE t # Host
      <4>1. t \in Flow /\ t \in Bound
        BY <1>0, <3>2, FlowIsNoHost, Zenon
      <4>2. /\ a.rights = authority[t].rights \cap th[t].want
            /\ a.natives = authority[t].natives /\ a.parent = t
        BY <3>2, Zenon DEF exec_spawn_authority
      <4>3. "ADMIN" \notin authority[t].rights
        BY <4>1, Zenon DEF IInv, Parents
      <4> HIDE DEF a
      <4> QED
        BY <4>1, <4>2, <4>3, Zenon
    <3> QED
      BY <3>1, <3>2, Zenon
  <2> HIDE DEF c, a, r
  <2>3. CASE bind_flow(c) /\ authority' = [authority EXCEPT ![c] = a] /\ Goto(t, r)
    <3>1. Grows /\ (\A g \in Flow : cellOf[g] # 0 => cellOf'[g] # 0) /\ cellOf'[c] # 0
      BY <2>1, <2>3, BindKeeps, Zenon DEF IInv
    <3>2. c \in Bound' /\ Bound \subseteq Bound'
      BY <2>1, <3>1, MoreBound, Zenon DEF Grows, Bound
    <3>3. ThreadOK(Bound', t, r)
      BY <1>0, <2>r, <3>2, Zenon DEF ThreadOK, Launching
    <3>4. Threads'
      BY <2>3, <3>1, <3>3, GotoKeeps, Zenon DEF IInv
    <3>5. Tokens' /\ Replies'
      BY <1>0, <3>1, StayKeeps, Zenon DEF IInv
    <3>6. /\ DOMAIN authority' = Flow /\ authority'[c] = a
          /\ \A f \in Flow : f # c => authority'[f] = authority[f]
      BY <2>1, <2>3, Zenon DEF IInv, Parents
    <3>7. c \notin Bound /\ \A p \in Bound : p \in Flow
      BY <2>1, Zenon DEF Bound
    <3>8. Parents'
      BY <2>a, <3>2, <3>6, <3>7 DEF IInv, Parents
    <3> QED
      BY <3>4, <3>5, <3>8, Zenon DEF IInv
  <2>4. CASE cells' = [cells EXCEPT ![c] = 1] /\ Goto(t, Refused(t)) /\ UNCHANGED <<cellOf, authority>>
    <3>1. Grows
      BY <2>1, <2>4, Zenon DEF IInv, Threads, Grows
    <3>2. Tokens' /\ Replies'
      BY <1>0, <2>4, StayKeeps, Zenon DEF IInv
    <3> QED
      BY <1>0, <2>4, <3>1, <3>2, Assemble, Records, Zenon
  <2> QED
    BY <2>2, <2>3, <2>4, Zenon
<1> QED
  BY <1>1, <1>2, Zenon

\* The child begins; its id was handed out before.
LEMMA LaunchStep ==
  ASSUME IInv, NEW t \in Thread, Launch(t)
  PROVE  IInv'
<1> DEFINE c == th[t].to
           r == IF t = Host THEN Ready ELSE [Ready EXCEPT !.pc = "mint", !.to = c, !.id = t]
<1>0. th[t].pc = "launch" /\ ThreadOK(Bound, t, th[t]) /\ (t \in Flow => t \in Bound)
  BY Begun, Zenon DEF Launch, IInv, Threads
<1>1. \/ AbortSpawn(t, c)
      \/ th' = [th EXCEPT ![c] = Ready, ![t] = r] /\ UNCHANGED <<entries, cellOf, cells, replyIndex, authority>>
  BY Zenon DEF Launch, capTable
<1>2. CASE AbortSpawn(t, c)
  BY <1>0, <1>2, AbortKeeps, Zenon
<1>3. CASE th' = [th EXCEPT ![c] = Ready, ![t] = r] /\ UNCHANGED <<entries, cellOf, cells, replyIndex, authority>>
  <2>1. c \in Flow => c \in Bound
    BY <1>0, Zenon DEF ThreadOK, Launching
  <2>2. Tame(r) /\ Tame(Ready)
    BY Zenon DEF Tame, Ready, Idle, Fields
  <2> HIDE DEF c, r
  <2>3. Threads /\ Grows /\ Bound' = Bound
    BY <1>3, SameIds, Zenon DEF IInv
  <2>4. /\ DOMAIN th' = Thread
        /\ \A u \in Thread : th'[u] = IF u = t THEN r ELSE IF u = c THEN Ready ELSE th[u]
    BY <1>3, <2>3, Zenon DEF Threads
  <2>5. \A u \in Thread : ThreadOK(Bound, u, th'[u])
    BY <1>0, <2>1, <2>2, <2>3, <2>4, TameOK, Zenon DEF Threads
  <2>6. Threads'
    BY <1>3, <2>3, <2>4, <2>5, Zenon DEF Threads
  <2> QED
    BY <1>3, <2>6, SameTables, Zenon
<1> QED
  BY <1>1, <1>2, <1>3, Zenon

LEMMA Initially == Init => IInv
<1> SUFFICES ASSUME Init PROVE IInv
  BY Zenon
<1>1. ASSUME NEW t \in Thread PROVE ThreadOK(Bound, t, th[t])
  <2>1. th[t] = Idle(IF t = Host THEN "ready" ELSE "none")
    BY Zenon DEF Init
  <2>2. t \in Flow => t # Host
    BY FlowIsNoHost, Zenon
  <2> QED
    BY <2>1, <2>2 DEF ThreadOK, Launching, Idle, Fields
<1>2. Threads
  BY <1>1, Zenon DEF Init, Threads
<1>3. Tokens /\ Replies
  BY DEF Init, Tokens, Replies
<1>4. Parents
  BY Zenon DEF Init, Parents, NoAuthority
<1> QED
  BY <1>2, <1>3, <1>4, Zenon DEF IInv

LEMMA StepKeeps == IInv /\ [Next]_vars => IInv'
<1> SUFFICES ASSUME IInv, [Next]_vars PROVE IInv'
  BY Zenon
<1>1. CASE HostStep
  BY <1>1, HostKeeps, Zenon
<1>2. ASSUME NEW f \in Flow, FlowStep(f) PROVE IInv'
  <2>1. f \in Thread /\ f # Host
    BY FlowIsNoHost, Zenon
  <2> QED
    BY <1>2, <2>1, CalmStep, MintStep, BeginStep, ReserveStep, ReplyStep, RevokeStep, CloseStep, Zenon DEF FlowStep
<1>3. ASSUME NEW t \in Thread, AnyStep(t) PROVE IInv'
  BY <1>3, DeriveStep, InsertStep, GrantStep, BindStep, LaunchStep, Zenon DEF AnyStep
<1>4. CASE UNCHANGED vars
  <2>1. UNCHANGED <<entries, cellOf, cells, replyIndex, authority, th>>
    BY <1>4, Zenon DEF vars, capTable, flowVars
  <2>2. Threads'
    BY <2>1, SameIds, Zenon DEF IInv, Threads
  <2> QED
    BY <2>1, <2>2, SameTables, Zenon
<1> QED
  BY <1>1, <1>2, <1>3, <1>4, Zenon DEF Next

-----------------------------------------------------------------------------
(* Theorems *)

\* In every reachable state tokens stay under the ceiling of their target, a derivation in
\* flight included, flows under their parents, and every reply address is the one of its pair.
THEOREM Invariant == Spec => []IInv
<1>1. Init => IInv
  BY Initially, Zenon
<1>2. IInv /\ [Next]_vars => IInv'
  BY StepKeeps, Zenon
<1> QED
  BY <1>1, <1>2, PTL DEF Spec

\* cap.rs Cap::attenuate, worker.rs exec_delegate, spawn.rs: no chain of delegations, hops and
\* spawns, with the check and the insertion in two critical sections, ends with more rights
\* than its root.
THEOREM AuthorityShrinks == Spec => []AuthorityOnlyShrinks
<1>1. IInv => AuthorityOnlyShrinks
  BY Zenon DEF IInv, Tokens, Parents, Ceiling, AuthorityOnlyShrinks
<1> QED
  BY <1>1, Invariant, PTL

\* capability.rs mint_or_reuse, revoke_flow: a flow has one reply address for a sender,
\* through any number of hops, exits and new cells.
THEOREM OneAddress == Spec => []OneReplyAddress
<1>1. ASSUME IInv PROVE OneReplyAddress
  <2> SUFFICES ASSUME NEW i \in DOMAIN entries, NEW j \in DOMAIN entries,
                      entries[i].reply, entries[j].reply, entries[i].holder = entries[j].holder,
                      entries[i].target = entries[j].target
               PROVE  i = j
    BY Zenon DEF OneReplyAddress
  <2>1. PICK f \in Flow : /\ entries[i].target = FlowTarget(f)
                          /\ replyIndex[<<entries[i].holder, f>>] = i
    BY <1>1, Zenon DEF IInv, Replies
  <2>2. PICK g \in Flow : /\ entries[j].target = FlowTarget(g)
                          /\ replyIndex[<<entries[j].holder, g>>] = j
    BY <1>1, Zenon DEF IInv, Replies
  <2>3. f = g
    <3>1. FlowTarget(f)[2] = f /\ FlowTarget(g)[2] = g /\ FlowTarget(f) = FlowTarget(g)
      BY <2>1, <2>2, Zenon DEF FlowTarget
    <3> QED
      BY <3>1, Zenon
  <2> QED
    BY <2>1, <2>2, <2>3, Zenon
<1>2. IInv => OneReplyAddress
  BY <1>1, Zenon
<1> QED
  BY <1>2, Invariant, PTL
=============================================================================
