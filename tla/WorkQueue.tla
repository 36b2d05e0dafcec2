------------------------------ MODULE WorkQueue ------------------------------
(***************************************************************************)
(* What a queue of background work promises the engine, its one client:    *)
(* instructions are taken one at a time, in the order of the queue, each   *)
(* is carried out at most once and never two at once, and none is          *)
(* forgotten.  An instruction leaves the queue only by being carried out,  *)
(* or by a call of the client that is made to take it away; the worker     *)
(* drops nothing, and nothing is dropped behind the client's back.         *)
(* AsyncQueue implements it with a thread, a spin lock and semaphores.     *)
(***************************************************************************)
EXTENDS Naturals, Sequences, Subsequence

CONSTANT Instr

VARIABLES
    pending,      \* instructions accepted and not begun, in order
    active,       \* the instruction being carried out, as a set of at most one
    client,       \* "open", or inside a call that edits or that ends the queue
    prioritised   \* the client may push to the front and edit, constant

vars == <<pending, active, client, prioritised>>

TypeOK ==
    /\ pending \in Seq(Instr)
    /\ active \in SUBSET Instr
    /\ client \in {"open", "editing", "ending"}
    /\ prioritised \in BOOLEAN

Init ==
    /\ pending = <<>> /\ active = {}
    /\ client = "open"
    /\ prioritised \in BOOLEAN

Pending(i) == \E n \in 1..Len(pending) : pending[n] = i

\* An instruction object is accepted when it is neither pending nor active.
Submit(i) ==
    /\ client = "open"
    /\ ~Pending(i) /\ i \notin active
    /\ \/ pending' = Append(pending, i)
       \/ prioritised /\ pending' = <<i>> \o pending
    /\ UNCHANGED <<active, client, prioritised>>

Take ==
    /\ active = {}
    /\ pending # <<>>
    /\ active' = {Head(pending)}
    /\ pending' = Tail(pending)
    /\ UNCHANGED <<client, prioritised>>

Complete ==
    /\ active # {}
    /\ active' = {}
    /\ UNCHANGED <<pending, client, prioritised>>

\* The client edits what is pending: it withdraws instructions, or brings one
\* to the front.
BeginEdit ==
    /\ prioritised
    /\ client = "open" /\ client' = "editing"
    /\ UNCHANGED <<pending, active, prioritised>>

Withdraw ==
    /\ client = "editing" /\ client' = "open"
    /\ pending' \in Subsequences(pending)
    /\ UNCHANGED <<active, prioritised>>

Promote ==
    /\ client = "editing" /\ client' = "open"
    /\ \E n \in 1..Len(pending) : pending' = ToFront(pending, n)
    /\ UNCHANGED <<active, prioritised>>

\* The client ends the queue; work goes on until nothing is being carried out.
BeginEnd ==
    /\ client = "open" /\ client' = "ending"
    /\ UNCHANGED <<pending, active, prioritised>>

End ==
    /\ client = "ending" /\ client' = "open"
    /\ active = {}
    /\ pending' = <<>>
    /\ UNCHANGED <<active, prioritised>>

Next ==
    \/ \E i \in Instr : Submit(i)
    \/ Take \/ Complete
    \/ BeginEdit \/ Withdraw \/ Promote \/ BeginEnd \/ End

Spec == Init /\ [][Next]_vars /\ WF_vars(Take) /\ WF_vars(Complete)
=============================================================================
