------------------------------ MODULE KVStore ------------------------------
(***************************************************************************)
(* What the LSM tree promises its user, without memtables, tables or files:*)
(* a map that is read and written while the store is up, a saved map that  *)
(* a start brings back, and how far each may drift from the last put.  A   *)
(* pair is put in the form that fits its fields: a long key under its first*)
(* characters, where a get of the whole key does not look.                 *)
(***************************************************************************)
CONSTANTS Keys, Vals, NoValue, Stored, Kept

VARIABLES
    phase,    \* "down", "up", "saving"
    view,     \* what a get returns for each key
    saved,    \* what a start would bring back
    whole,    \* the save was not cut short
    written,  \* what was kept of every value put under each stored key
    torn      \* some save was cut short

vars == <<phase, view, saved, whole, written, torn>>

Nothing == [k \in Keys |-> NoValue]

Init ==
    /\ phase = "down"
    /\ view = Nothing
    /\ saved = Nothing
    /\ whole = TRUE
    /\ written = [k \in Keys |-> {}]
    /\ torn = FALSE

\* One key's answer may go back to an older value, never to no value.  Once a
\* save was cut short it may become any value, also of a key without one.
MayDrift(k, old, new) ==
    \/ new = old
    \/ old # NoValue /\ new \in written[k]
    \/ torn /\ new \in Vals

\* What was saved is back; a save that was cut short comes back as anything.
Open ==
    /\ phase = "down"
    /\ phase' = "up"
    /\ \/ whole /\ view' = saved
       \/ ~whole /\ view' \in [Keys -> Vals \cup {NoValue}]
    /\ UNCHANGED <<saved, whole, written, torn>>

\* The key put has its new value; the other keys may drift.
Put(k, v) ==
    /\ phase = "up"
    /\ written' = [written EXCEPT ![Stored[k]] = @ \cup {Kept[v]}]
    /\ UNCHANGED <<phase, whole, torn, saved>>
    /\ view'[Stored[k]] = Kept[v]
    /\ \A j \in Keys \ {Stored[k]} : MayDrift(j, view[j], view'[j])

\* A store closed without a put since it was opened is what was saved.
CloseIdle ==
    /\ phase = "up"
    /\ phase' = "down"
    /\ whole => view = saved
    /\ view' = Nothing
    /\ UNCHANGED <<saved, whole, written, torn>>

\* From here until the save is done, nothing is saved.
CloseBegin ==
    /\ phase = "up"
    /\ phase' = "saving"
    /\ saved' = Nothing
    /\ whole' = TRUE
    /\ \A k \in Keys : MayDrift(k, view[k], view'[k])
    /\ UNCHANGED <<written, torn>>

CloseEnd ==
    /\ phase = "saving"
    /\ phase' = "down"
    /\ saved' = view
    /\ view' = Nothing
    /\ UNCHANGED <<whole, written, torn>>

\* A crash loses what was put since the store was opened, and nothing that was
\* saved; in the middle of a save it leaves nothing, everything, or a file
\* that was cut short.
Crash ==
    /\ phase # "down"
    /\ phase' = "down"
    /\ view' = Nothing
    /\ \/ UNCHANGED <<saved, whole, torn>>
       \/ phase = "saving" /\ saved' = view /\ UNCHANGED <<whole, torn>>
       \/ phase = "saving" /\ saved' = Nothing /\ whole' = FALSE /\ torn' = TRUE
    /\ UNCHANGED written

Next ==
    \/ Open
    \/ \E k \in Keys, v \in Vals : Put(k, v)
    \/ CloseIdle
    \/ CloseBegin
    \/ CloseEnd
    \/ Crash

Spec == Init /\ [][Next]_vars
=============================================================================
