------------------------ MODULE PolicyGroupRegistry ------------------------
(***************************************************************************)
(* What the policy group RPCs promise whatever overlaps: a group has a     *)
(* valid name, and once created is there for good.  Not promised are its   *)
(* description and its deleted flag, which the last of the overlapping     *)
(* updates and deletes writes back as it had read them.                    *)
(***************************************************************************)
CONSTANTS Group, ValidName, Description, Missing

VARIABLE groupDoc  \* groupDoc[g]: the group named g, or Missing

GroupDocument == [description : Description, deleted : BOOLEAN]

Init == groupDoc = [g \in Group |-> Missing]

Write(g) == \E document \in GroupDocument :
  groupDoc' = [groupDoc EXCEPT ![g] = document]

Create(g) == groupDoc[g] = Missing /\ g \in ValidName /\ Write(g)

Change(g) == groupDoc[g] # Missing /\ Write(g)

Next == \E g \in Group : Create(g) \/ Change(g)

Spec == Init /\ [][Next]_groupDoc
=============================================================================
