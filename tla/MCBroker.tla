------------------------------ MODULE MCBroker ------------------------------
(* Broker for TLC: ids are model values, every node has the plain role.    *)
EXTENDS Broker, TLC

MCRole == [w \in Workers |-> "worker"]
MCParents == Opt(Tasks)
MCNoParents == {None}
MCSymmetry == Permutations(Tasks) \cup Permutations(Workers)

(* No guard reads a tombstone, and of the announcements only their number; *)
(* runs whose properties read neither tell states apart by the rest.       *)
MCView == <<tasks, workers, exchanges, proposals,
            [t \in Tasks |-> Len(outbox[t])], disk.exchanges>>
=============================================================================
