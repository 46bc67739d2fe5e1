------------------------------ MODULE MCCalls ------------------------------
(***************************************************************************)
(* A firm's owner, a staff member, the portal client assigned to that      *)
(* staff member, and the platform's super-admin: the four kinds of people  *)
(* the calling matrix tells apart. The owner may call all three, the staff *)
(* member only the owner and the client, the super-admin only the owner.   *)
(***************************************************************************)
EXTENDS Calls

CONSTANTS owner, staff, client, platform, firm, acme

MCProfiles == {owner, staff, client, platform}

MCProfile ==
    [p \in MCProfiles |->
        [id |-> p,
         tenant     |-> IF p = platform THEN NoTenant ELSE firm,
         client     |-> IF p = client THEN acme ELSE NoClient,
         role       |-> IF p = owner THEN "owner" ELSE "staff",
         superadmin |-> p = platform,
         active     |-> TRUE]]

MCAssignedStaff == [c \in {acme} |-> staff]
============================================================================
