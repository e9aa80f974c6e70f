------------------------------ MODULE RbacPage ------------------------------
(***************************************************************************)
(* Roles and permissions of a tenant: the roles tab, and the tab that      *)
(* assigns roles to a user and permissions to a role (area "assignments":  *)
(* records are the roles, or permissions, one user or role has).  The      *)
(* permissions tab only shows; the matrix tab changes a copy of its own    *)
(* and reports it saved without a request.                                 *)
(***************************************************************************)
EXTENDS Console

OpenRoles == Go("roles", "roles", FALSE, {"list"})

OnRoles == At("roles", "roles")

SearchRoles == OnRoles /\ Filter

CreateRole == [Mutation("createRole", "new", {"list"}) EXCEPT !.closes = {"create"}]
UpdateRole == [Mutation("updateRole", "same", {"list"}) EXCEPT !.closes = {"edit"}]
DeleteRole == Mutation("deleteRole", "none", {"list"})

\* Without roles, built-in ones are shown; one of them can be edited and deleted.
RolesShown ==
    IF Loaded /\ (\E i \in Items : Value(i) # "none") THEN Rows
    ELSE IF Loaded \/ gets["list"] = NoData THEN {Every} ELSE {}

RoleCard(i) ==
    /\ OnRoles /\ Free /\ i \in RolesShown
    /\ \/ \E d \in {"view", "edit"} : Show(d, i, d = "edit")
       \/ Send(DeleteRole, {i})

AskCreateRole == OnRoles /\ Free /\ Show("create", NoItem, FALSE)

RoleForm == OnRoles /\ Fill({"create"})

\* No name that is shown.  Nothing stops a second click while one is pending.
SubmitRole(i) ==
    /\ OnRoles /\ ui.form
    /\ \/ ui.dialog = "create" /\ i \notin RolesShown /\ Send(CreateRole, {i})
       \/ ui.dialog = "edit" /\ i = ui.item /\ Send(UpdateRole, {i})

CloseRoleDialog == OnRoles /\ Close({"create", "view", "edit"})

-----------------------------------------------------------------------------
(* Assignments: queries that run only when asked to, by a button or after a *)
(* change; they are never counted stale.                                   *)

OpenAssignments == Go("assignments", "assignments", FALSE, {})

OnAssignments == At("assignments", "assignments")

\* Typing the user's id: the query is now this user's, or another's.
TypeUser ==
    /\ OnAssignments
    /\ ui' = [ui EXCEPT !.reads = IF @ = {} THEN {"list"} ELSE {}] /\ Only

LoadUserRoles == OnAssignments /\ gets["list"] = NoData /\ Refetch("list")

\* The query asked again is the one of the id typed by then.
Reassignment(name, makes) ==
    [Mutation(name, makes, {"list"}) EXCEPT !.misses = Keys]
AddUserRole    == Reassignment("addUserRole", "put")
RemoveUserRole == Reassignment("removeUserRole", "none")

ChangeAssignment(i) ==
    /\ OnAssignments /\ ui.reads = {"list"} /\ Loaded
    /\ \/ Value(i) = "none" /\ ~Pending(AddUserRole) /\ Send(AddUserRole, {i})
       \/ Value(i) # "none" /\ Send(RemoveUserRole, {i})

RbacNext ==
    \/ OpenRoles \/ SearchRoles \/ AskCreateRole \/ RoleForm \/ CloseRoleDialog
    \/ OpenAssignments \/ TypeUser \/ LoadUserRoles
    \/ \E i \in Items : RoleCard(i) \/ SubmitRole(i) \/ ChangeAssignment(i)

=============================================================================
