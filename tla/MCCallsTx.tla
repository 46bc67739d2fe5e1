----------------------------- MODULE MCCallsTx -----------------------------
(***************************************************************************)
(* The owner calls a staff member and that staff member's client, who are  *)
(* all within each other's reach; their requests interleave.               *)
(***************************************************************************)
EXTENDS CallsTx

CONSTANTS owner, staff, client, firm, acme

MCProfiles == {owner, staff, client}

MCProfile ==
    [p \in MCProfiles |->
        [id |-> p,
         tenant     |-> firm,
         client     |-> IF p = client THEN acme ELSE NoClient,
         role       |-> IF p = owner THEN "owner" ELSE "staff",
         superadmin |-> FALSE,
         active     |-> TRUE]]

MCAssignedStaff == [c \in {acme} |-> staff]
============================================================================
