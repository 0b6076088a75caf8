------------------------------ MODULE Custody ------------------------------
(***************************************************************************)
(* What each stage of the upload pipeline promises about the items it has  *)
(* accepted: an item that is held stays held until it is settled.  There   *)
(* is no action that loses an item, so a crash, a restart, a retry or a    *)
(* race that loses one is not a behaviour of this specification.           *)
(*   DiskQueue:  held = staged and indexed,     settled = acknowledged     *)
(*   FileQueue:  held = pending or processing,  settled = completed/failed *)
(***************************************************************************)
CONSTANT Items

VARIABLES held, settled

vars == <<held, settled>>

TypeOK == /\ held \subseteq Items
          /\ settled \subseteq Items

Init == /\ held = {}
        /\ settled = {}

(* An item is accepted; accepting one again, settled or not, is allowed. *)
Hold(item) == /\ held' = held \cup {item}
              /\ UNCHANGED settled

(* Items are settled, only such as were accepted. *)
Settle(items) == /\ items \subseteq held \cup settled
                 /\ settled' = settled \cup items
                 /\ UNCHANGED held

(* The stage lets go of items, only of settled ones. *)
Release(items) == /\ items \subseteq held \cap settled
                  /\ held' = held \ items
                  /\ UNCHANGED settled

Next == \/ \E item \in Items : Hold(item)
        \/ \E items \in SUBSET Items : Settle(items) \/ Release(items)

Spec == Init /\ [][Next]_vars
=============================================================================
