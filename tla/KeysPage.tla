------------------------------ MODULE KeysPage ------------------------------
(***************************************************************************)
(* The signing keys and the JWKS ("side").  The tenants to choose from are *)
(* read as .tenants of what the other pages cache as an array: there are   *)
(* none, and the page shows the global keys.  A key is on until revoked.   *)
(***************************************************************************)
EXTENDS Console

OpenKeys == Go("keys", "keys", FALSE, Keys)

OnKeys == At("keys", "keys")

RefreshKeys == OnKeys /\ Refetch("list")

\* Neither tells the JWKS.  A rotation always changes the list of keys.
RotateKey == [Mutation("rotateKey", "put", {"list"}) EXCEPT
                !.misses = {"side"}, !.closes = {"rotate"}]
RevokeKey == [Mutation("revokeKey", "off", {"list"}) EXCEPT
                !.misses = {"side"}, !.closes = {"revoke"}]

AskRotateKey == OnKeys /\ Free /\ Show("rotate", NoItem, FALSE)

HandleRevokeClick(i) ==
    OnKeys /\ Free /\ i \in Rows /\ Value(i) = "on" /\ Show("revoke", i, FALSE)

ConfirmRotateKey ==
    /\ OnKeys /\ ui.dialog = "rotate" /\ ~Pending(RotateKey)
    /\ Send(RotateKey, {Every})

HandleRevokeConfirm ==
    /\ OnKeys /\ ui.dialog = "revoke" /\ ~Pending(RevokeKey)
    /\ Send(RevokeKey, {ui.item})

CloseKeyDialog == OnKeys /\ Close({"rotate", "revoke"})

KeysNext ==
    \/ OpenKeys \/ RefreshKeys \/ AskRotateKey \/ ConfirmRotateKey
    \/ HandleRevokeConfirm \/ CloseKeyDialog
    \/ \E i \in Items : HandleRevokeClick(i)

=============================================================================
