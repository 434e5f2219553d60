--------------------------- MODULE DeferredStore ---------------------------
(***************************************************************************)
(* What the relay's three deferred stores promise (pending queues, push    *)
(* tokens, bundle-request counters): mutations are made in memory and      *)
(* marked, a flush makes all of them durable at once, an exit may lose     *)
(* those since the last flush and nothing else.  `mem' and `disk' are the  *)
(* unexpired entries in memory and in the file.                            *)
(***************************************************************************)
VARIABLES mem, disk, dirty, up

dvars == <<mem, disk, dirty, up>>

Init ==
    /\ mem = {}
    /\ disk = {}
    /\ dirty = FALSE
    /\ up = TRUE

\* Any change of the entries in memory, marked.
Mutate ==
    /\ up /\ up'
    /\ dirty' = TRUE
    /\ disk' = disk

\* Entries expire, in memory and in the file alike.
Age ==
    /\ UNCHANGED <<dirty, up>>
    /\ mem' \subseteq mem
    /\ disk' \subseteq disk
    /\ (mem \ mem') \cap disk' = {}
    /\ (disk \ disk') \cap mem' = {}

Flush ==
    /\ up
    /\ disk' = mem
    /\ dirty' = FALSE
    /\ UNCHANGED <<mem, up>>

\* The file keeps its content or, if the exit flushed, gets the memory's.
Exit ==
    /\ up
    /\ disk' \in {disk, mem}
    /\ mem' = {}
    /\ dirty' = FALSE
    /\ up' = FALSE

Load ==
    /\ ~up
    /\ mem' = disk
    /\ up' = TRUE
    /\ UNCHANGED <<disk, dirty>>

Next == Mutate \/ Age \/ Flush \/ Exit \/ Load

Spec == Init /\ [][Next]_dvars
=============================================================================
