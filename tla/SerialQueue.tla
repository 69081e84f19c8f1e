---------------------------- MODULE SerialQueue ----------------------------
(***************************************************************************)
(* What a queue of jobs promises to the code that calls it: every call     *)
(* that is accepted joins the line of its queue, is served only when all   *)
(* those that joined before it are done, and is served once.  QueueJob     *)
(* (src/queue-job.js) implements this with a chain of promises.            *)
(***************************************************************************)
EXTENDS Naturals, Sequences

CONSTANTS Call,   \* the calls that may ever be made
          Queue   \* the independent queues

VARIABLES line,   \* line[q]: the calls q accepted, in the order it did
          phase   \* phase[c]: how far the call c has come

vars == <<line, phase>>

Phase == {"outside", "refused", "waiting", "active", "done"}

TypeOK == /\ line \in [Queue -> Seq(Call)]
          /\ phase \in [Call -> Phase]

Init == /\ line = [q \in Queue |-> <<>>]
        /\ phase = [c \in Call |-> "outside"]

Submit(c, q) == /\ phase[c] = "outside"
                /\ line' = [line EXCEPT ![q] = Append(@, c)]
                /\ phase' = [phase EXCEPT ![c] = "waiting"]

Refuse(c) == /\ phase[c] = "outside"
             /\ phase' = [phase EXCEPT ![c] = "refused"]
             /\ UNCHANGED line

Begin(q, i) == /\ phase[line[q][i]] = "waiting"
               /\ \A j \in 1..(i - 1) : phase[line[q][j]] = "done"
               /\ phase' = [phase EXCEPT ![line[q][i]] = "active"]
               /\ UNCHANGED line

End(c) == /\ phase[c] = "active"
          /\ phase' = [phase EXCEPT ![c] = "done"]
          /\ UNCHANGED line

Next == \/ \E c \in Call : Refuse(c) \/ End(c)
        \/ \E c \in Call, q \in Queue : Submit(c, q)
        \/ \E q \in Queue : \E i \in 1..Len(line[q]) : Begin(q, i)

Spec == Init /\ [][Next]_vars
=============================================================================
