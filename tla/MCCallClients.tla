--------------------------- MODULE MCCallClients ---------------------------
(***************************************************************************)
(* An owner who calls a staff member, each with a page.                    *)
(***************************************************************************)
EXTENDS CallClients

CONSTANTS owner, staff, firm

MCProfiles == {owner, staff}

MCProfile ==
    [p \in MCProfiles |->
        [id |-> p, tenant |-> firm, client |-> NoClient,
         role |-> IF p = owner THEN "owner" ELSE "staff",
         superadmin |-> FALSE, active |-> TRUE]]

MCAssignedStaff == <<>>
============================================================================
