----------------------------- MODULE TimerWheel -----------------------------
(***************************************************************************)
(* The hierarchical timing wheel of scheduler/timer.rs: a grid of buckets, *)
(* each with its entries and the earliest deadline among them, and the     *)
(* cursor new entries are bucketed against.                                *)
(*                                                                         *)
(* An Instant is a number of nanoseconds after the wheel's origin.  An     *)
(* entry is [deadline, flow]; the flow is the sleeper it owns.  Entries of *)
(* one deadline are ordered by flow, not by insertion.                     *)
(***************************************************************************)
EXTENDS Integers, Sequences, FiniteSets, FiniteSetsExt, SequencesExt

CONSTANTS
    Slots,         \* SLOTS, a power of two
    Levels,        \* LEVELS
    TickNs,        \* TICK_NS
    MaxInstant     \* the latest Instant the platform can express

NoTime == MaxInstant + 1        \* Option::None of an Instant

Bucket == (0..(Levels - 1)) \X (0..(Slots - 1))

EmptyWheel == [at |-> [b \in Bucket |-> [entries |-> {}, earliest |-> NoTime]], cursor |-> 0]

tick_of(when) == when \div TickNs

\* place: the level whose window holds when - cursor, the last one for the rest
place(cursor, when) ==
    LET level == Min({l \in 0..(Levels - 1) : l = Levels - 1 \/ when - cursor < Slots^(l + 1)})
    IN  <<level, (when \div Slots^level) % Slots>>

BucketOf(cursor, e) == place(cursor, Max({tick_of(e.deadline), cursor}))

\* mutant of insert: a later entry overwrites the earliest deadline of its bucket
insert_last(w, e) ==
    [w EXCEPT !.at[BucketOf(w.cursor, e)] = [entries |-> @.entries \cup {e}, earliest |-> e.deadline]]

insert(w, e) ==
    [w EXCEPT !.at[BucketOf(w.cursor, e)] =
        [entries |-> @.entries \cup {e}, earliest |-> Min({@.earliest, e.deadline})]]

\* collect_due: the buckets whose earliest deadline has passed are emptied; what is not
\* due in them is inserted against the new cursor, beyond now, so that no bucket is
\* opened twice.  due is sorted by deadline
collect_due(w, now) ==
    LET cursor == tick_of(now)
        ready == {b \in Bucket : w.at[b].earliest <= now}
        opened == UNION {w.at[b].entries : b \in ready}
        again(b) == {e \in opened : e.deadline > now /\ BucketOf(cursor, e) = b}
        kept(b) == IF b \in ready THEN [entries |-> {}, earliest |-> NoTime] ELSE w.at[b]
    IN  [w |-> [cursor |-> cursor,
                at |-> [b \in Bucket |->
                           [entries |-> kept(b).entries \cup again(b),
                            earliest |-> Min({kept(b).earliest} \cup {e.deadline : e \in again(b)})]]],
         due |-> SetToSortSeq({e \in opened : e.deadline <= now}, LAMBDA d, e :
                     d.deadline < e.deadline \/ (d.deadline = e.deadline /\ d.flow < e.flow))]

next_deadline(w) == Min({w.at[b].earliest : b \in Bucket})

Entries(w) == UNION {w.at[b].entries : b \in Bucket}

\* drain_sleepers: the wheel is left empty
drain_sleepers(w) == SetToSortSeq({e.flow : e \in Entries(w)}, <)

\* deadline_from_now: a delay past the end of the clock means its last instant
deadline_from_now(now, delay) == Min({now + delay, MaxInstant})
=============================================================================
