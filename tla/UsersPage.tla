----------------------------- MODULE UsersPage -----------------------------
(***************************************************************************)
(* The users of a tenant.  A user is on, or off while disabled or          *)
(* suspended.  There are two copies of the page, one under the tenant and  *)
(* one at /admin/users; the tab of custom fields is in SettingsEditor.     *)
(***************************************************************************)
EXTENDS Console

OpenUsers == Go("users", "users", FALSE, {"list"})

OnUsers == At("users", "users")

SearchUsers  == OnUsers /\ Filter
RefreshUsers == OnUsers /\ Loaded /\ Refetch("list")

CreateUser == [Mutation("createUser", "new", {"list"}) EXCEPT !.closes = {"createUser"}]
UpdateUser == [Mutation("updateUser", "same", {"list"}) EXCEPT !.closes = {"editUser"}]
DeleteUser == Mutation("deleteUser", "none", {"list"})

\* The server has handlers for these, and registers no routes to them yet: here
\* they may succeed, as the page expects, or be refused.
BlockUser  == [Mutation("blockUser", "off", {"list"}) EXCEPT !.closes = {"blockUser"}]
EnableUser == Mutation("enableUser", "on", {"list"})
SetEmailVerified   == Mutation("setEmailVerified", "same", {"list"})
ChangePassword     == Mutation("changePassword", "hidden", {})
ResendVerification == Mutation("resendVerification", "hidden", {})

\* Mutant: onError only shows a message.
BulkUntold(name, makes) ==
    [Mutation(name, makes, {"list"}) EXCEPT !.closes = {"bulkUsers"}, !.clears = TRUE]

\* Bulk operations send all requests at once and look at every answer.
Bulk(name, makes) ==
    [Mutation(name, makes, {"list"}) EXCEPT !.bad = {"list"}, !.closes = {"bulkUsers"},
                                            !.clears = TRUE]
BulkBlockUsers  == Bulk("bulkBlock", "off")
BulkDeleteUsers == Bulk("bulkDelete", "none")

-----------------------------------------------------------------------------
(* The table                                                                *)

SelectUser(i)  == OnUsers /\ Toggle(i)
SelectAllUsers == OnUsers /\ ToggleAll
UnselectUsers  == OnUsers /\ ClearSelection

\* A row's menu; deleting asks nothing.
UserRow(i) ==
    /\ OnUsers /\ Free /\ i \in Rows
    /\ \/ Send(DeleteUser, {i})
       \/ Send(SetEmailVerified, {i})
       \/ Value(i) = "off" /\ Send(EnableUser, {i})
       \/ Value(i) = "on"  /\ Show("blockUser", i, FALSE)
       \/ Show("userDetails", i, FALSE)
       \/ Show("editUser", i, TRUE)

-----------------------------------------------------------------------------
(* Dialogs                                                                  *)

AskCreateUser == OnUsers /\ Free /\ Show("createUser", NoItem, FALSE)

CreateUserForm == OnUsers /\ Fill({"createUser"})

SubmitCreateUser(i) ==
    /\ OnUsers /\ ui.dialog = "createUser" /\ ui.form /\ ~Pending(CreateUser)
    /\ Send(CreateUser, {i})

\* Nothing in the form is required.
EditUserForm ==
    /\ OnUsers /\ ui.dialog = "editUser" /\ ~Pending(UpdateUser)
    /\ Send(UpdateUser, {ui.item})

\* A reason is required.
BlockUserDialog == OnUsers /\ Fill({"blockUser"})

ConfirmBlockUser ==
    /\ OnUsers /\ ui.dialog = "blockUser" /\ ui.form /\ ~Pending(BlockUser)
    /\ Send(BlockUser, {ui.item})

\* The details: edit, mark as verified, send the mail again, change the password.
UserDetails ==
    /\ OnUsers /\ ui.dialog = "userDetails"
    /\ \/ Show("editUser", ui.item, TRUE)
       \/ Send(SetEmailVerified, {ui.item})
       \/ ~Pending(ResendVerification) /\ Send(ResendVerification, {ui.item})
       \/ ui.form /\ SendAs([ui EXCEPT !.form = FALSE], ChangePassword, {ui.item})

\* Two equal passwords of eight characters.
TypeNewPassword == OnUsers /\ Fill({"userDetails"})

AskBulkUsers == OnUsers /\ Free /\ ui.selected # {} /\ Show("bulkUsers", NoItem, FALSE)

\* What is selected when it is confirmed, on screen or not.
ConfirmBulkUsers ==
    /\ OnUsers /\ ui.dialog = "bulkUsers"
    /\ ~Pending(BulkDeleteUsers) /\ ~Pending(BulkBlockUsers)
    /\ \/ Send(BulkDeleteUsers, ui.selected)
       \/ Send(BulkBlockUsers, ui.selected)

CloseUserDialog ==
    OnUsers /\ Close({"createUser", "editUser", "blockUser", "userDetails", "bulkUsers"})

UsersNext ==
    \/ OpenUsers \/ SearchUsers \/ RefreshUsers \/ SelectAllUsers \/ UnselectUsers
    \/ AskCreateUser \/ CreateUserForm \/ EditUserForm \/ BlockUserDialog
    \/ ConfirmBlockUser \/ UserDetails \/ TypeNewPassword
    \/ AskBulkUsers \/ ConfirmBulkUsers \/ CloseUserDialog
    \/ \E i \in Items : SelectUser(i) \/ UserRow(i) \/ SubmitCreateUser(i)

=============================================================================
