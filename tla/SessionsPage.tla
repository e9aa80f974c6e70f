---------------------------- MODULE SessionsPage ----------------------------
(***************************************************************************)
(* The sessions page of a tenant: a session is on while active.  List and  *)
(* statistics are on one page.  The policies tab stores nothing: saving    *)
(* waits half a second and reports success.                                *)
(***************************************************************************)
EXTENDS Console

OpenSessions == Go("sessions", "sessions", FALSE, Keys)

OnSessions == At("sessions", "sessions")

FilterSessions  == OnSessions /\ Filter
RefreshSessions == OnSessions /\ Refetch("list")

RevokeSession      == Mutation("revokeSession", "off", Keys)
RevokeUserSessions == Mutation("revokeUserSessions", "all off", Keys)
RevokeAllSessions  == Mutation("revokeAllSessions", "all off", Keys)

\* The row's menu offers to revoke whatever the status is.
SessionRow(i) ==
    /\ OnSessions /\ Free /\ i \in Rows
    /\ \E d \in {"detail", "revoke", "revokeUser"} : Show(d, i, FALSE)

AskRevokeAllSessions == OnSessions /\ Free /\ Show("revokeAll", NoItem, FALSE)

\* Revoking from the detail closes it and asks like the row does.
SessionDetail == OnSessions /\ ui.dialog = "detail" /\ Show("revoke", ui.item, FALSE)

\* handleRevoke: one dialog for the three, closed when the request is sent.
HandleRevoke ==
    /\ OnSessions
    /\ \A m \in {RevokeSession, RevokeUserSessions, RevokeAllSessions} : ~Pending(m)
    /\ \/ ui.dialog = "revoke"     /\ SendAs(Closed, RevokeSession, {ui.item})
       \/ ui.dialog = "revokeUser" /\ SendAs(Closed, RevokeUserSessions, {Every})
       \/ ui.dialog = "revokeAll"  /\ SendAs(Closed, RevokeAllSessions, {Every})

CloseSessionDialog == OnSessions /\ Close({"detail", "revoke", "revokeUser", "revokeAll"})

SessionsNext ==
    \/ OpenSessions \/ FilterSessions \/ RefreshSessions \/ AskRevokeAllSessions
    \/ SessionDetail \/ HandleRevoke \/ CloseSessionDialog
    \/ \E i \in Items : SessionRow(i)

=============================================================================
