------------------------------ MODULE OnceLedger ------------------------------
(***************************************************************************)
(* What the fact ledger promises its readers, with no transaction, lock or  *)
(* crash in sight: a unit of evidence goes from unpublished to published    *)
(* once, with every fact of one run's reading of it and nothing else, and   *)
(* stays so; runs that meet a published unit are added to the list of those *)
(* that saw it.  FactLedger implements this.                                *)
(***************************************************************************)
EXTENDS Naturals

CONSTANTS Units,     \* what the ledger is keyed by
          Runs,      \* the runs that may read a unit
          Size       \* how many facts each unit holds

VARIABLES published, \* the units a reader sees
          content,   \* content[u]: the facts it sees of u
          seenBy     \* seenBy[u]: the runs on record as having read u

vars == <<published, content, seenBy>>

\* The facts of unit u as read by run r.
Batch(u, r) == {r} \X (1 .. Size[u])

Init == /\ published = {}
        /\ content = [u \in Units |-> {}]
        /\ seenBy = [u \in Units |-> {}]

\* Run r finishes reading a unit that no run had finished.
Publish(u, r) == /\ u \notin published
                 /\ published' = published \cup {u}
                 /\ content' = [content EXCEPT ![u] = Batch(u, r)]
                 /\ seenBy' = [seenBy EXCEPT ![u] = {r}]

\* Run r meets a unit already published, and is only recorded.
See(u, r) == /\ u \in published
             /\ seenBy' = [seenBy EXCEPT ![u] = @ \cup {r}]
             /\ UNCHANGED <<published, content>>

Next == \E u \in Units, r \in Runs : Publish(u, r) \/ See(u, r)

Spec == Init /\ [][Next]_vars
================================================================================
