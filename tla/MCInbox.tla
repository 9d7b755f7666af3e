------------------------------ MODULE MCInbox ------------------------------
(***************************************************************************)
(* Small inboxes for TLC.  Against three hops and four bytes, three hops   *)
(* of cost 1 leave no slot for a fourth, while a hop of cost 5 is larger   *)
(* than the whole budget: from a user it can never be queued, from the     *)
(* system it is forced in alone and leaves no bytes.  Three queued hops    *)
(* are what it takes to have a middle.                                     *)
(***************************************************************************)
EXTENDS Inbox, TLC

SenderSymmetry == Permutations(Sender)

Small(tag, c) == [tag |-> tag, kind |-> "int", n |-> 1, cost |-> c]
Blob(tag, c) == [tag |-> tag, kind |-> "bytes", n |-> 0, cost |-> c]
DownHop(c) == [tag |-> "down", kind |-> "int", n |-> 0, cost |-> c]

MCOversize == {Small("a", 1), Blob("b", 5)}
MCBigSys == {DownHop(5)}
\* any hop and one payload; the filters on a tag and on a reply are in the Messaging runs
MCFilters ==
  {AnyHop, [kind |-> "TagValue", tag |-> "b", payload |-> "bytes", n |-> 0]}
=============================================================================
