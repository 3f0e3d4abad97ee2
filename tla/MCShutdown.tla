---------------------------- MODULE MCShutdown ----------------------------
(***************************************************************************)
(* Small instances of Shutdown for TLC.                                     *)
(***************************************************************************)
EXTENDS Shutdown

Both == <<"audit", "activity">>
One == <<"activity">>

(* One INSERT can hold whatever the channel and a batch can hold ...        *)
Enough == [l \in Loggers |-> MaxEvents]

(* ... or, for the activity log, fewer rows than its channel.               *)
Shipped == [l \in Loggers |-> IF l = "audit" THEN MaxEvents ELSE 2]
=============================================================================
