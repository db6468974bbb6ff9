------------------------------ MODULE RefLookup ------------------------------
(***************************************************************************)
(* What the users of RefResolver are promised: each stream asks what a     *)
(* reference stands for and is told what the document says, whatever the   *)
(* other streams ask at the same time.                                     *)
(***************************************************************************)
EXTENDS References

CONSTANT Streams

VARIABLES
    components,  \* the components of the document: fixed
    question,    \* question[s]: what stream s asked last
    reply        \* reply[s]: what it was told, NoRef before

vars == <<components, question, reply>>

Init == /\ components \in Documents
        /\ question = [s \in Streams |-> NoRef]
        /\ reply = [s \in Streams |-> NoRef]

Ask(s) ==
    /\ question[s] = NoRef \/ reply[s] # NoRef
    /\ \E q \in Question : question' = [question EXCEPT ![s] = q]
    /\ reply' = [reply EXCEPT ![s] = NoRef]
    /\ UNCHANGED components

Tell(s) ==
    /\ question[s] # NoRef /\ reply[s] = NoRef
    /\ reply' = [reply EXCEPT ![s] = Meaning[components][question[s]]]
    /\ UNCHANGED <<components, question>>

Next == \E s \in Streams : Ask(s) \/ Tell(s)

Spec == Init /\ [][Next]_vars
=============================================================================
