------------------------- MODULE StatementLifecycle -------------------------
(***************************************************************************)
(* What the import pipeline promises of one uploaded statement, without    *)
(* tasks, workers, sessions or crashes: it is stored once, its transaction *)
(* rows appear in one step and are one reading of the uploaded file, they  *)
(* are never added to or replaced, and removing the statement removes them *)
(* for good.  StatementParsing implements this specification.              *)
(***************************************************************************)
CONSTANTS
    Statement,  \* identifiers of statements (uuid4, never reused)
    Reading     \* the row-number sets a parse of the file can return

VARIABLES
    phase,      \* "absent", "stored" or "removed", per statement
    saved       \* the row numbers imported so far, per statement

vars == <<phase, saved>>

Init ==
    /\ phase = [s \in Statement |-> "absent"]
    /\ saved = [s \in Statement |-> {}]

Store(s) ==
    /\ phase[s] = "absent"
    /\ phase' = [phase EXCEPT ![s] = "stored"]
    /\ UNCHANGED saved

Import(s) ==
    /\ phase[s] = "stored"
    /\ saved[s] = {}
    /\ \E R \in Reading : saved' = [saved EXCEPT ![s] = R]
    /\ UNCHANGED phase

Remove(s) ==
    /\ phase[s] = "stored"
    /\ phase' = [phase EXCEPT ![s] = "removed"]
    /\ saved' = [saved EXCEPT ![s] = {}]

Next == \E s \in Statement : Store(s) \/ Import(s) \/ Remove(s)

Spec == Init /\ [][Next]_vars
=============================================================================
