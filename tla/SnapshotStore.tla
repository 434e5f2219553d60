--------------------------- MODULE SnapshotStore ---------------------------
(* What the database promises to the code that uses it: every connection   *)
(* reads the database as it was when it began, one connection at a time    *)
(* writes and it has read the latest, and what was committed stays, also   *)
(* over a crash.  Only a commit that the crash cut off may be there or     *)
(* not.                                                                    *)
CONSTANTS Conns, Pages, Values, None, NoView

VARIABLES
    content,    \* page -> value, committed
    view,       \* connection -> what it reads, or NoView
    writer,     \* the connection that writes, or None
    doubt       \* what may turn out to have been committed before a crash

vars == <<content, view, writer, doubt>>

Init ==
    /\ content \in [Pages -> Values]
    /\ view = [c \in Conns |-> NoView]
    /\ writer = None
    /\ doubt = {}

Begin(c) ==
    /\ view[c] = NoView
    /\ view' = [view EXCEPT ![c] = content]
    /\ UNCHANGED <<content, writer, doubt>>

End(c) ==
    /\ view[c] # NoView /\ writer # c
    /\ view' = [view EXCEPT ![c] = NoView]
    /\ UNCHANGED <<content, writer, doubt>>

BeginWrite(c) ==
    /\ writer = None /\ view[c] = content
    /\ writer' = c
    /\ UNCHANGED <<content, view, doubt>>

Write(c) ==
    /\ writer = c
    /\ \E p \in Pages, v \in Values : view' = [view EXCEPT ![c][p] = v]
    /\ UNCHANGED <<content, writer, doubt>>

Commit(c) ==
    /\ writer = c
    /\ content' = view[c]
    /\ writer' = None
    /\ UNCHANGED <<view, doubt>>

Rollback(c) ==
    /\ writer = c
    /\ view' = [view EXCEPT ![c] = content]
    /\ writer' = None
    /\ UNCHANGED <<content, doubt>>

Crash ==
    /\ view' = [c \in Conns |-> NoView]
    /\ writer' = None
    /\ doubt' \in {doubt} \cup {doubt \cup {view[c]} : c \in Conns \cap {writer}}
    /\ UNCHANGED content

Recover ==
    /\ content' \in {content} \cup doubt
    /\ doubt' = {}
    /\ UNCHANGED <<view, writer>>

Next ==
    \/ \E c \in Conns :
        Begin(c) \/ End(c) \/ BeginWrite(c) \/ Write(c) \/ Commit(c) \/ Rollback(c)
    \/ Crash
    \/ Recover

Spec == Init /\ [][Next]_vars

============================================================================
