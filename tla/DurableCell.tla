---------------------------- MODULE DurableCell -----------------------------
(***************************************************************************)
(* What a collection of the store and its JSON file promise together.        *)
(*                                                                           *)
(* The collection changes in memory and each change leaves a copy of its      *)
(* result on the way to the disk.  The disk content changes in one step, only  *)
(* to such a copy, never to a mixture.  A restart continues from the disk.     *)
(* The order in which copies arrive is not promised.                          *)
(***************************************************************************)
CONSTANTS Contents, Empty

VARIABLES cell,    \* the collection in memory
          disk,    \* the content a restart would load
          copies   \* copies on their way to the disk

vars == <<cell, disk, copies>>

Init == cell = Empty /\ disk = Empty /\ copies = {}

Change == /\ cell' \in Contents
          /\ copies' = copies \cup {cell'}
          /\ UNCHANGED disk

Copy == copies' = copies \cup {cell} /\ UNCHANGED <<cell, disk>>

Store == /\ disk' \in copies
         /\ copies' \subseteq copies
         /\ UNCHANGED cell

Abandon == copies' \subseteq copies /\ UNCHANGED <<cell, disk>>

Restart == cell' = disk /\ copies' = {} /\ UNCHANGED disk

Next == Change \/ Copy \/ Store \/ Abandon \/ Restart

Spec == Init /\ [][Next]_vars

=============================================================================
