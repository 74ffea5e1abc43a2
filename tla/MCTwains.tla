------------------------------ MODULE MCTwains ------------------------------
(* Two processes, one with its stack below that of the scheduler and one   *)
(* above it, so that a stack limit of another process is met both ways.    *)
EXTENDS Twains

CONSTANTS below, above

MCProcs == {below, above}
MCStackAt == [p \in {below, above, Scheduler} |->
                IF p = below THEN 0 ELSE IF p = above THEN 2 ELSE 1]
=============================================================================
