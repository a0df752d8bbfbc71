------------------------- MODULE RevisionedBackend -------------------------
(***************************************************************************)
(* What the ingestion coordinator relies on in the backend: for every      *)
(* document the newest revision and what it published, advanced only by    *)
(* newer revisions, and a checkpoint file that holds such a state.         *)
(***************************************************************************)
EXTENDS Naturals

CONSTANTS Doc,       \* document keys
          Content,   \* what a revision may publish
          NoDoc      \* what a deletion publishes

VARIABLES version,   \* version[d]: revision and content, revision 0 at first
          captured,  \* states captured for a checkpoint not yet on disk
          saved      \* the checkpoint on disk

vars == <<version, captured, saved>>

Nothing == [d \in Doc |-> [rev |-> 0, val |-> NoDoc]]

Init == version = Nothing /\ captured = {} /\ saved = Nothing

Publish ==
    /\ \E d \in Doc :
        /\ version'[d].rev > version[d].rev
        /\ version'[d].val \in Content \cup {NoDoc}
        /\ version' = [version EXCEPT ![d] = version'[d]]
    /\ UNCHANGED <<captured, saved>>

Capture ==
    /\ captured' = captured \cup {version}
    /\ UNCHANGED <<version, saved>>

(* A captured state is saved, or given up.                                 *)
Save ==
    /\ captured' \subseteq captured
    /\ saved' \in captured \cup {saved}
    /\ UNCHANGED version

Restore ==
    /\ version' = saved
    /\ captured' = {}
    /\ UNCHANGED saved

Next == Publish \/ Capture \/ Save \/ Restore

Spec == Init /\ [][Next]_vars

=============================================================================
