----------------------------- MODULE ClusterPage -----------------------------
(***************************************************************************)
(* The cluster: its nodes (the list) and the health of the node asked      *)
(* ("side"), both asked again every five seconds unless that is switched   *)
(* off.  Snapshots and a transfer of leadership are made up: they wait and *)
(* report success.                                                         *)
(***************************************************************************)
EXTENDS Console

OpenCluster == Go("cluster", "cluster", FALSE, Keys)

OnCluster == At("cluster", "cluster")

\* The page's switch; "narrow" is that it is off.
AutoRefresh == OnCluster /\ Filter

\* The interval: a fetch under way is not replaced.
Poll(k) ==
    /\ OnCluster /\ ~ui.narrow /\ gets[k] = NoData
    /\ Refetch(k)

RefreshHealth == OnCluster /\ Refetch("side")

AddNode    == [Mutation("addNode", "new", Keys) EXCEPT !.closes = {"addNode"}]
RemoveNode == [Mutation("removeNode", "none", Keys) EXCEPT !.closes = {"removeNode"}]

\* Buttons of a node that leads, by its last word.
LeaderShown == OnCluster /\ Free /\ Data("side") # NoData

AskAddNode == LeaderShown /\ Show("addNode", NoItem, ui.form)

AskRemoveNode(i) ==
    LeaderShown /\ Loaded /\ Value(i) # "none" /\ Show("removeNode", i, ui.form)

NewNodeForm == OnCluster /\ Fill({"addNode"})

HandleAddNode(i) ==
    /\ OnCluster /\ ui.dialog = "addNode" /\ ui.form /\ ~Pending(AddNode)
    /\ Send(AddNode, {i})

ConfirmRemoveNode ==
    /\ OnCluster /\ ui.dialog = "removeNode" /\ ~Pending(RemoveNode)
    /\ Send(RemoveNode, {ui.item})

CloseNodeDialog == OnCluster /\ Close({"addNode", "removeNode"})

ClusterNext ==
    \/ OpenCluster \/ AutoRefresh \/ RefreshHealth \/ AskAddNode \/ NewNodeForm
    \/ ConfirmRemoveNode \/ CloseNodeDialog
    \/ \E k \in Keys : Poll(k)
    \/ \E i \in Items : AskRemoveNode(i) \/ HandleAddNode(i)

=============================================================================
