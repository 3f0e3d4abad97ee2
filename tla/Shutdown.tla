------------------------------ MODULE Shutdown ------------------------------
(***************************************************************************)
(* The life of a control-plane process from run() to its exit, and the two  *)
(* asynchronous loggers (audit and activity) that have to be emptied on the *)
(* way.  run() opens the database pool, starts the loggers, wires the rest, *)
(* serves until a signal or an error, and then runs its deferred calls,     *)
(* last in first out.                                                       *)
(*                                                                          *)
(* HTTP requests are waited for, for ten seconds.  Websockets are hijacked  *)
(* connections and the background workers are goroutines of their own:      *)
(* nobody waits for those.  All of them log, and hold database connections. *)
(* A process without a database has no loggers and is left out.             *)
(***************************************************************************)
EXTENDS Naturals, Sequences, Functions

CONSTANTS
    Requests,       \* HTTP requests
    Sockets,        \* websocket handlers
    Workers,        \* outbox, retention and orchestrator loops
    Started,        \* the loggers, in the order they are started in
    BufferSize,     \* capacity of a logger's channel
    BatchSize,
    MaxRows,        \* rows that one INSERT of a logger can have parameters for
    MaxEvents,      \* bound: events logged
    MaxFaults       \* bound: failed inserts

Loggers == Range(Started)
Producers == Requests \cup Sockets \cup Workers

ASSUME ConstantsAssumption ==
    /\ Started \in Seq(Loggers)
    /\ Loggers \cap {"pool", "conns", "cancel"} = {}
    /\ Requests \cap Workers = {}
    /\ BufferSize \in Nat \ {0}
    /\ BatchSize \in Nat \ {0}
    /\ MaxRows \in [Loggers -> Nat]
    /\ MaxEvents \in Nat
    /\ MaxFaults \in Nat

VARIABLES
    main,       \* where run() is
    defers,     \* its deferred calls, the last one registered at the end
    ctxDone,    \* the signal context is cancelled
    pool,       \* the database pool
    doing,      \* what a producer does: idle, busy, or busy with a connection
    ch,         \* buffered channel of a logger: events, with who logged them
    batch,      \* batch of its worker
    worker,     \* where the worker is; "none" before it is started
    stop,       \* the worker's context is cancelled
    stored,     \* rows of its table, in the order they were written in
    owed,       \* history: what was accepted before Close, and not failed by the database
    events,     \* history: how many events were logged
    graceful,   \* history: a signal ended the server, and no request was left
    faults

mainVars == <<main, defers, ctxDone, pool, graceful>>
logVars == <<ch, batch, worker, stop, stored, owed>>
vars == <<mainVars, doing, logVars, events, faults>>

Init ==
    /\ main = "connect"
    /\ defers = <<>>
    /\ ctxDone = FALSE
    /\ pool = "none"
    /\ doing = [p \in Producers |-> "idle"]
    /\ ch = [l \in Loggers |-> <<>>]
    /\ batch = [l \in Loggers |-> <<>>]
    /\ worker = [l \in Loggers |-> "none"]
    /\ stop = [l \in Loggers |-> FALSE]
    /\ stored = [l \in Loggers |-> <<>>]
    /\ owed = [l \in Loggers |-> {}]
    /\ events = 0
    /\ graceful = FALSE
    /\ faults = 0
-----------------------------------------------------------------------------
(* run() *)

(* The pool is open; migrations run next, and may fail. *)
ConnectDatabase ==
    /\ main = "connect"
    /\ pool' = "open"
    /\ defers' = <<"pool">>
    /\ main' \in {"migrated", "return"}
    /\ UNCHANGED <<ctxDone, graceful, doing, logVars, events, faults>>

StartLoggers ==
    /\ main = "migrated"
    /\ worker' = [l \in Loggers |-> "select"]
    /\ defers' = defers \o Started
    /\ main' = "wire"
    /\ UNCHANGED <<ctxDone, pool, graceful, doing, ch, batch, stop, stored, owed,
                   events, faults>>

(* Roles, channel handlers, workers and the driver are built, each of which *)
(* may end run() with an error; then the background workers are started.    *)
Wire ==
    /\ main = "wire"
    /\ \/ main' = "return" /\ UNCHANGED defers
       \/ main' = "listen" /\ defers' = defers \o <<"conns", "cancel">>
    /\ UNCHANGED <<ctxDone, pool, graceful, doing, logVars, events, faults>>

Listen ==
    /\ main = "listen"
    /\ main' \in {"serving", "return"}
    /\ UNCHANGED <<defers, ctxDone, pool, graceful, doing, logVars, events, faults>>

(* SIGINT or SIGTERM, from NotifyContext until the context is cancelled;    *)
(* one that comes before ends the process as it would any other.            *)
Signal ==
    /\ "cancel" \in Range(defers)
    /\ ~ctxDone
    /\ ctxDone' = TRUE
    /\ UNCHANGED <<main, defers, pool, graceful, doing, logVars, events, faults>>

(* Serve fails by itself: run() returns without a Shutdown. *)
ServeFails ==
    /\ main = "serving"
    /\ main' = "return"
    /\ UNCHANGED <<defers, ctxDone, pool, graceful, doing, logVars, events, faults>>

(* Mutant of StopServing: the listener is closed, and nobody waits. *)
StopServingAtOnce ==
    /\ main = "serving"
    /\ ctxDone
    /\ main' = "return"
    /\ graceful' = TRUE
    /\ UNCHANGED <<defers, ctxDone, pool, doing, logVars, events, faults>>

(* Shutdown closes the listener ... *)
StopServing ==
    /\ main = "serving"
    /\ ctxDone
    /\ main' = "shutdown"
    /\ UNCHANGED <<defers, ctxDone, pool, graceful, doing, logVars, events, faults>>

(* Mutant of ShutdownReturns: it waits without a time-out. *)
ShutdownReturnsIdle ==
    /\ main = "shutdown"
    /\ \A r \in Requests : doing[r] = "idle"
    /\ graceful' = TRUE
    /\ main' = "return"
    /\ UNCHANGED <<defers, ctxDone, pool, doing, logVars, events, faults>>

(* ... and waits for the requests, or until its ten seconds are over. *)
ShutdownReturns ==
    /\ main = "shutdown"
    /\ graceful' \in {FALSE, \A r \in Requests : doing[r] = "idle"}
    /\ main' = "return"
    /\ UNCHANGED <<defers, ctxDone, pool, doing, logVars, events, faults>>
-----------------------------------------------------------------------------
(* The deferred calls *)

(* The next deferred call to run is d. *)
Deferred(d) == main = "return" /\ defers # <<>> /\ defers[Len(defers)] = d
Pop == defers' = SubSeq(defers, 1, Len(defers) - 1)

(* cancel() of the signal context. *)
CancelContext ==
    /\ Deferred("cancel")
    /\ ctxDone' = TRUE
    /\ Pop
    /\ UNCHANGED <<main, pool, graceful, doing, logVars, events, faults>>

(* ConnPool.Close; the relays of websockets notice on their own. *)
CloseConnPool ==
    /\ Deferred("conns")
    /\ Pop
    /\ UNCHANGED <<main, ctxDone, pool, graceful, doing, logVars, events, faults>>

(* AsyncLogger.Close cancels the worker and waits until it is done. *)
CloseLogger(l) ==
    /\ Deferred(l)
    /\ \/ /\ ~stop[l]
          /\ stop' = [stop EXCEPT ![l] = TRUE]
          /\ UNCHANGED defers
       \/ /\ stop[l]
          /\ worker[l] = "done"
          /\ Pop
          /\ UNCHANGED stop
    /\ UNCHANGED <<main, ctxDone, pool, graceful, doing, ch, batch, worker, stored, owed,
                   events, faults>>

(* Pool.Close refuses new acquisitions and waits for every connection. *)
ClosePool ==
    /\ Deferred("pool")
    /\ \/ pool = "open" /\ pool' = "closing" /\ UNCHANGED defers
       \/ /\ pool = "closing"
          /\ \A p \in Producers : doing[p] # "db"
          /\ pool' = "closed"
          /\ Pop
    /\ UNCHANGED <<main, ctxDone, graceful, doing, logVars, events, faults>>

Exit ==
    /\ main = "return"
    /\ defers = <<>>
    /\ main' = "exit"
    /\ UNCHANGED <<defers, ctxDone, pool, graceful, doing, logVars, events, faults>>
-----------------------------------------------------------------------------
(* What logs *)

(* A request or a websocket arrives while the listener is open; a worker    *)
(* starts a sweep unless its context is done (one that starts then ends at  *)
(* its first query, without a trace).                                       *)
Begin(p) ==
    /\ main # "exit"
    /\ doing[p] = "idle"
    /\ IF p \in Workers THEN ~ctxDone /\ "cancel" \in Range(defers) ELSE main = "serving"
    /\ doing' = [doing EXCEPT ![p] = "busy"]
    /\ UNCHANGED <<mainVars, logVars, events, faults>>

(* It takes a connection, which a closed pool or a done context refuses.    *)
Acquire(p) ==
    /\ main # "exit"
    /\ doing[p] = "busy"
    /\ pool = "open"
    /\ p \in Workers => ~ctxDone
    /\ doing' = [doing EXCEPT ![p] = "db"]
    /\ UNCHANGED <<mainVars, logVars, events, faults>>

Release(p) ==
    /\ main # "exit"
    /\ doing[p] = "db"
    /\ doing' = [doing EXCEPT ![p] = "busy"]
    /\ UNCHANGED <<mainVars, logVars, events, faults>>

End(p) ==
    /\ main # "exit"
    /\ doing[p] = "busy"
    /\ doing' = [doing EXCEPT ![p] = "idle"]
    /\ UNCHANGED <<mainVars, logVars, events, faults>>

(* AsyncLogger.Log never blocks: an event that finds no room is dropped.    *)
Log(p, l) ==
    /\ main # "exit"
    /\ doing[p] # "idle"
    /\ events < MaxEvents
    /\ events' = events + 1
    /\ IF Len(ch[l]) < BufferSize
         THEN /\ ch' = [ch EXCEPT ![l] = Append(@, <<events', p>>)]
              /\ owed' = [owed EXCEPT ![l] = IF stop[l] THEN @ ELSE @ \cup {events'}]
         ELSE UNCHANGED <<ch, owed>>
    /\ UNCHANGED <<mainVars, doing, batch, worker, stop, stored, faults>>
-----------------------------------------------------------------------------
(* The worker of a logger *)

Receive(l) ==
    /\ worker[l] = "select"
    /\ ch[l] # <<>>
    /\ batch' = [batch EXCEPT ![l] = Append(@, Head(ch[l]))]
    /\ ch' = [ch EXCEPT ![l] = Tail(@)]
    /\ worker' = [worker EXCEPT ![l] = IF Len(batch'[l]) >= BatchSize THEN "flush" ELSE "select"]
    /\ UNCHANGED <<mainVars, doing, stop, stored, owed, events, faults>>

TickerFires(l) ==
    /\ worker[l] = "select"
    /\ batch[l] # <<>>
    /\ worker' = [worker EXCEPT ![l] = "flush"]
    /\ UNCHANGED <<mainVars, doing, ch, batch, stop, stored, owed, events, faults>>

(* The context is done: select may still prefer another case that is ready. *)
ContextDone(l) ==
    /\ worker[l] = "select"
    /\ stop[l]
    /\ worker' = [worker EXCEPT ![l] = "drain"]
    /\ UNCHANGED <<mainVars, doing, ch, batch, stop, stored, owed, events, faults>>

(* Mutant of Drain: what is in the channel stays there. *)
DrainNothing(l) ==
    /\ worker[l] = "drain"
    /\ worker' = [worker EXCEPT ![l] = IF batch[l] = <<>> THEN "done" ELSE "last"]
    /\ UNCHANGED <<mainVars, doing, ch, batch, stop, stored, owed, events, faults>>

(* drainAll takes event after event until the channel is empty, into one    *)
(* last batch.                                                              *)
Drain(l) ==
    /\ worker[l] = "drain"
    /\ \/ /\ ch[l] # <<>>
          /\ batch' = [batch EXCEPT ![l] = Append(@, Head(ch[l]))]
          /\ ch' = [ch EXCEPT ![l] = Tail(@)]
          /\ UNCHANGED worker
       \/ /\ ch[l] = <<>>
          /\ worker' = [worker EXCEPT ![l] = IF batch[l] = <<>> THEN "done" ELSE "last"]
          /\ UNCHANGED <<ch, batch>>
    /\ UNCHANGED <<mainVars, doing, stop, stored, owed, events, faults>>

(* The numbers of the events of a batch. *)
Rows(b) == [i \in 1 .. Len(b) |-> b[i][1]]

(* flush writes the batch with one INSERT.  It writes nothing if there are  *)
(* more parameters than a statement can have or if the pool is closed; if   *)
(* it fails or takes longer than five seconds the rows may be there or not. *)
(* Either way the batch is given up.                                        *)
Flush(l) ==
    /\ worker[l] \in {"flush", "last"}
    /\ \/ /\ pool = "open"
          /\ Len(batch[l]) <= MaxRows[l]
          /\ stored' = [stored EXCEPT ![l] = @ \o Rows(batch[l])]
          /\ UNCHANGED <<owed, faults>>
       \/ /\ pool # "open" \/ Len(batch[l]) > MaxRows[l]
          /\ UNCHANGED <<stored, owed, faults>>
       \/ /\ pool = "open"
          /\ faults < MaxFaults
          /\ faults' = faults + 1
          /\ owed' = [owed EXCEPT ![l] = @ \ Range(Rows(batch[l]))]
          /\ stored' \in {stored, [stored EXCEPT ![l] = @ \o Rows(batch[l])]}
    /\ batch' = [batch EXCEPT ![l] = <<>>]
    /\ worker' = [worker EXCEPT ![l] = IF @ = "flush" THEN "select" ELSE "done"]
    /\ UNCHANGED <<mainVars, doing, ch, stop, events>>

Work(l) ==
    /\ main # "exit"
    /\ Receive(l) \/ TickerFires(l) \/ ContextDone(l) \/ Drain(l) \/ Flush(l)
-----------------------------------------------------------------------------
(* The process *)

Run ==
    \/ ConnectDatabase
    \/ StartLoggers
    \/ Wire
    \/ Listen
    \/ StopServing
    \/ ShutdownReturns
    \/ CancelContext
    \/ CloseConnPool
    \/ \E l \in Loggers : CloseLogger(l)
    \/ ClosePool
    \/ Exit

(* Nothing moves once the process is gone. *)
Gone == main = "exit" /\ UNCHANGED vars

Next ==
    \/ Run
    \/ Signal
    \/ ServeFails
    \/ \E p \in Producers : Begin(p) \/ Acquire(p) \/ Release(p) \/ End(p)
    \/ \E p \in Producers, l \in Loggers : Log(p, l)
    \/ \E l \in Loggers : Work(l)
    \/ Gone

(* Goroutines run; connections are given back (statements have time-outs).  *)
(* Nothing says that a signal comes, or that a handler ends.                *)
Fairness ==
    /\ WF_vars(Run)
    /\ \A l \in Loggers : WF_vars(Work(l))
    /\ WF_vars(\E p \in Producers : Release(p))

Spec == Init /\ [][Next]_vars

FairSpec == Spec /\ Fairness
-----------------------------------------------------------------------------
(* Properties *)

(* An event: its number, and who logged it.                                 *)
Event == (1 .. MaxEvents) \X Producers

(* Types, with the bounds of the channels and the batches.                  *)
TypeOK ==
    /\ main \in {"connect", "migrated", "wire", "listen", "serving", "shutdown", "return", "exit"}
    /\ defers \in Seq({"pool", "conns", "cancel"} \cup Loggers)
    /\ ctxDone \in BOOLEAN
    /\ pool \in {"none", "open", "closing", "closed"}
    /\ doing \in [Producers -> {"idle", "busy", "db"}]
    /\ ch \in [Loggers -> Seq(Event)]
    /\ batch \in [Loggers -> Seq(Event)]
    /\ worker \in [Loggers -> {"none", "select", "flush", "drain", "last", "done"}]
    /\ stored \in [Loggers -> Seq(1 .. MaxEvents)]
    /\ owed \in [Loggers -> SUBSET (1 .. MaxEvents)]
    /\ \A l \in Loggers :
         /\ Len(ch[l]) <= BufferSize
         /\ worker[l] = "select" => Len(batch[l]) < BatchSize
    /\ stop \in [Loggers -> BOOLEAN]
    /\ graceful \in BOOLEAN
    /\ events \in 0 .. MaxEvents
    /\ faults \in 0 .. MaxFaults

(* Close flushes the remaining events: once the worker is done, whatever    *)
(* was accepted before Close is in the table, unless the database failed,   *)
(* although other goroutines go on logging while drainAll runs.             *)
CloseFlushes ==
    \A l \in Loggers : worker[l] = "done" => owed[l] \subseteq Range(stored[l])

(* A shutdown that did not run into its time-out loses nothing an HTTP      *)
(* request has logged: the server stops accepting, waits for the requests,  *)
(* and only then the loggers are closed.                                    *)
RequestsRecorded ==
    main = "exit" /\ graceful =>
        \A l \in Loggers : \A e \in Range(ch[l] \o batch[l]) : e[2] \notin Requests

(* A signal ends the process: no deferred call waits for ever, neither for  *)
(* the requests nor for a worker nor for a connection.                      *)
SignalEnds == ctxDone ~> main = "exit"

(* What the comment on Close says, of every event: none is left behind.     *)
NothingLeft == main = "exit" => \A l \in Loggers : ch[l] = <<>>
=============================================================================
