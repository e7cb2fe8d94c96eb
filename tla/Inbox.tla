------------------------------- MODULE Inbox -------------------------------
(***************************************************************************)
(* What a receiving channel promises the main loop: the messages of the    *)
(* outside world come numbered, each is accepted at most once and never    *)
(* after a later one, and the main loop takes them in the order in which   *)
(* they were accepted.  Messages may be passed over (the sender is not     *)
(* allowed, the text is too long), and what is still queued is dropped     *)
(* when the channel closes.                                                *)
(***************************************************************************)
EXTENDS Naturals, Sequences

VARIABLES
    last,    \* the number of the last message that was accepted
    queue    \* accepted messages the main loop has not taken

vars == <<last, queue>>

Init == last = 0 /\ queue = <<>>

Accept ==
    /\ last' > last
    /\ queue' = Append(queue, last')

Take ==
    /\ queue # <<>>
    /\ queue' = Tail(queue)
    /\ UNCHANGED last

Close ==
    /\ queue' = <<>>
    /\ UNCHANGED last

Next == Accept \/ Take \/ Close

Spec == Init /\ [][Next]_vars
=============================================================================
