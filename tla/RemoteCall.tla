----------------------------- MODULE RemoteCall -----------------------------
(***************************************************************************)
(* What the RPC promises to either side, whatever ids, queues and threads  *)
(* it is made of.  Calls are numbered in the order they are made.  The     *)
(* other side starts each at most once and in that order, though it may    *)
(* skip some, and runs them nested.  A call returns only when the other    *)
(* side has finished that very call; otherwise it fails.                   *)
(***************************************************************************)
EXTENDS Naturals, Sequences

VARIABLES
    asked,    \* how many calls were made
    open,     \* the calls that are waited for
    started,  \* the calls the other side has started, in order
    running,  \* those of them it has not finished
    failed    \* the calls that ended, or will end, in an exception

callVars == <<asked, open, started, running, failed>>

Init ==
    /\ asked = 0
    /\ open = {}
    /\ started = <<>>
    /\ running = {}
    /\ failed = {}

\* A call that is waited for, and one that is not.
Ask ==
    /\ asked' = asked + 1
    /\ open' \in {open, open \cup {asked + 1}}
    /\ UNCHANGED <<started, running, failed>>

Refuse ==
    /\ asked' = asked + 1
    /\ failed' = failed \cup {asked + 1}
    /\ UNCHANGED <<open, started, running>>

Start(k) ==
    /\ k \in 1 .. asked
    /\ \A i \in DOMAIN started : started[i] < k
    /\ started' = Append(started, k)
    /\ running' = running \cup {k}
    /\ UNCHANGED <<asked, open, failed>>

Finish(k) ==
    /\ k \in running
    /\ running' = running \ {k}
    /\ UNCHANGED <<asked, open, started, failed>>

\* What was started ends in an exception: nobody is told.
Crash(k) ==
    /\ k \in running
    /\ running' = running \ {k}
    /\ failed' = failed \cup {k}
    /\ UNCHANGED <<asked, open, started>>

Return(k) ==
    /\ k \in open \ failed
    /\ k \notin running
    /\ \E i \in DOMAIN started : started[i] = k
    /\ open' = open \ {k}
    /\ UNCHANGED <<asked, started, running, failed>>

GiveUp(k) ==
    /\ k \in open
    /\ open' = open \ {k}
    /\ failed' = failed \cup {k}
    /\ UNCHANGED <<asked, started, running>>

Next ==
    \/ Ask
    \/ Refuse
    \/ \E k \in 1 .. asked : Start(k) \/ Finish(k) \/ Crash(k) \/ Return(k) \/ GiveUp(k)

Spec == Init /\ [][Next]_callVars
=============================================================================
