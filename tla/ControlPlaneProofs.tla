------------------------- MODULE ControlPlaneProofs -------------------------
(***************************************************************************)
(* Proofs about Shutdown, for any number of requests, websockets, workers   *)
(* and loggers and any sizes of channels and batches, and about             *)
(* RefreshTokens, for any number of families, logins, refreshes and faults. *)
(*                                                                         *)
(* The invariant of Shutdown says how far main is by what it has deferred   *)
(* (Stages), what each logger's worker still holds (Logging) and that an    *)
(* event is waiting, batched or stored (Kept).  The one of RefreshTokens is *)
(* built in four layers: what a request's program counter says of its own   *)
(* variables (Own), what the rows and the tokens given out say of each      *)
(* other (Fams), which requests the generations were handed to (Chain), and *)
(* what a refusal is evidence of (Evidence).                                *)
(***************************************************************************)
EXTENDS Shutdown, RefreshTokens, TLAPS

(* Most steps are for Zenon; those that need the SMT solver say so. *)
USE ZenonT(30)

(* The numbers of the events in a sequence. *)
Nums(s) == Range(Rows(s))

Up == {"migrated", "wire", "listen", "serving", "shutdown"}
Closing == {"return", "exit"}

(* How far run() is says which calls are deferred: that of the pool first.  *)
Stages ==
    /\ \A i \in 1 .. Len(defers) : defers[i] = "pool" <=> i = 1
    /\ main = "connect" => defers = <<>>
    /\ main \in Up => pool = "open" /\ defers # <<>>
    /\ main = "exit" => defers = <<>>

(* A worker that runs has its deferred Close before it and the pool open; a *)
(* worker that was not started has nothing to write, and nobody logs.       *)
Logging(l) ==
    /\ worker[l] \notin {"none", "done"} => pool = "open" /\ l \in Range(defers)
    /\ worker[l] = "none" =>
         /\ main \notin Up \ {"migrated"}
         /\ ch[l] = <<>> /\ batch[l] = <<>>
         /\ "cancel" \notin Range(defers)
         /\ \A p \in Producers : doing[p] = "idle"
    /\ main \in {"connect", "migrated"} => worker[l] = "none"
    /\ stop[l] => main \in Closing
    /\ worker[l] \in {"drain", "last", "done"} => stop[l]
    /\ worker[l] = "done" => batch[l] = <<>>
    /\ Len(ch[l]) + Len(batch[l]) <= events

SafeInv == TypeOK /\ Stages /\ \A l \in Loggers : Logging(l)

(* What a logger owes is written, in its batch, or in its channel, which no *)
(* longer counts when the last batch is complete.                           *)
Keeps(l) ==
    owed[l] \subseteq Range(stored[l]) \cup Nums(batch[l]) \cup
        (IF worker[l] \in {"last", "done"} THEN {} ELSE Nums(ch[l]))

Kept == \A l \in Loggers : Keeps(l)

(* After a graceful shutdown no request logs, and what the requests logged  *)
(* is in the last batch.                                                    *)
Quiet ==
    graceful =>
        /\ main \in Closing
        /\ \A r \in Requests : doing[r] = "idle"
        /\ \A l \in Loggers : worker[l] \in {"last", "done"} =>
              \A e \in Range(ch[l]) : e[2] \notin Requests

(* One INSERT has room for every event.                                     *)
RowsFit == \A l \in Loggers : MaxRows[l] >= MaxEvents
-----------------------------------------------------------------------------
(* Sequences *)

(* A function on 1 .. n is a sequence.                                      *)
LEMMA IsSeq ==
    ASSUME NEW S, NEW n \in Nat, NEW f \in [1 .. n -> S]
    PROVE  f \in Seq(S)
  BY SMTT(30)

(* The elements of a sequence, by their places.                             *)
LEMMA RangeIs ==
    ASSUME NEW S, NEW s \in Seq(S)
    PROVE  Range(s) = {s[i] : i \in 1 .. Len(s)} /\ Range(s) \subseteq S
  BY SMTT(30) DEF Range

(* The elements of two sequences put together.                              *)
LEMMA Joined ==
    ASSUME NEW S, NEW s \in Seq(S), NEW t \in Seq(S)
    PROVE  /\ s \o t \in Seq(S)
           /\ Range(s \o t) = Range(s) \cup Range(t)
<1>1. /\ s \o t \in Seq(S)
      /\ Len(s \o t) = Len(s) + Len(t)
      /\ Len(s) \in Nat /\ Len(t) \in Nat
      /\ \A i \in 1 .. Len(s) : (s \o t)[i] = s[i]
      /\ \A i \in 1 .. Len(t) : (s \o t)[Len(s) + i] = t[i]
  BY SMTT(30)
<1>2. /\ Range(s) = {s[i] : i \in 1 .. Len(s)}
      /\ Range(t) = {t[i] : i \in 1 .. Len(t)}
      /\ Range(s \o t) = {(s \o t)[i] : i \in 1 .. Len(s \o t)}
  BY <1>1, RangeIs
<1>3. \A i \in 1 .. Len(s) + Len(t) :
          i \in 1 .. Len(s) \/ (i - Len(s) \in 1 .. Len(t) /\ (s \o t)[i] = t[i - Len(s)])
  BY SMTT(30), <1>1
<1>4. Range(s \o t) \subseteq Range(s) \cup Range(t)
  BY SMTT(30), <1>1, <1>2, <1>3
<1>5. Range(s) \subseteq Range(s \o t)
  <2>1. \A i \in 1 .. Len(s) : i \in 1 .. Len(s \o t)
    BY SMTT(30), <1>1
  <2> QED
    BY SMTT(30), <1>1, <1>2, <2>1
<1>6. Range(t) \subseteq Range(s \o t)
  <2>1. \A i \in 1 .. Len(t) : Len(s) + i \in 1 .. Len(s \o t)
    BY SMTT(30), <1>1
  <2> QED
    BY SMTT(30), <1>1, <1>2, <2>1
<1> QED
  BY <1>1, <1>4, <1>5, <1>6

(* The rows of a batch are the numbers of its events.                       *)
LEMMA RowsAre ==
    ASSUME NEW s \in Seq(Event)
    PROVE  /\ Rows(s) \in Seq(1 .. MaxEvents)
           /\ Nums(s) = {s[i][1] : i \in 1 .. Len(s)}
<1>1. \A i \in 1 .. Len(s) : s[i] \in Event
  BY SMTT(30)
<1>2. Rows(s) \in [1 .. Len(s) -> 1 .. MaxEvents] /\ Len(s) \in Nat
  BY SMTT(30), <1>1 DEF Rows, Event
<1>3. Rows(s) \in Seq(1 .. MaxEvents)
  BY <1>2, IsSeq
<1>4. Nums(s) = {Rows(s)[i] : i \in 1 .. Len(s)}
  BY <1>2 DEF Nums, Range
<1> QED
  BY <1>3, <1>4 DEF Rows

(* The empty sequence.                                                      *)
LEMMA Nothing == Range(<<>>) = {} /\ Nums(<<>>) = {} /\ Len(<<>>) = 0
  BY SMTT(30) DEF Range, Nums, Rows

(* An event that is put into a channel or a batch.                          *)
LEMMA Appended ==
    ASSUME NEW s \in Seq(Event), NEW e \in Event
    PROVE  /\ Append(s, e) \in Seq(Event)
           /\ Len(Append(s, e)) = Len(s) + 1
           /\ Range(Append(s, e)) = Range(s) \cup {e}
           /\ Nums(Append(s, e)) = Nums(s) \cup {e[1]}
<1> DEFINE t == Append(s, e)
<1>1. /\ t \in Seq(Event)
      /\ Len(t) = Len(s) + 1
      /\ \A i \in 1 .. Len(s) : t[i] = s[i]
      /\ t[Len(s) + 1] = e
      /\ Len(s) \in Nat
  BY SMTT(30)
<1> HIDE DEF t
<1>2. Range(t) = Range(s) \cup {e}
  <2>1. Range(t) = {t[i] : i \in 1 .. Len(t)} /\ Range(s) = {s[i] : i \in 1 .. Len(s)}
    BY <1>1, RangeIs
  <2> QED
    BY SMTT(30), <1>1, <2>1
<1>3. Nums(t) = Nums(s) \cup {e[1]}
  <2>1. Nums(t) = {t[i][1] : i \in 1 .. Len(t)} /\ Nums(s) = {s[i][1] : i \in 1 .. Len(s)}
    BY <1>1, RowsAre
  <2> QED
    BY SMTT(30), <1>1, <2>1
<1> QED
  BY <1>1, <1>2, <1>3 DEF t

(* An event that is taken out of a channel.                                 *)
LEMMA Taken ==
    ASSUME NEW s \in Seq(Event), s # <<>>
    PROVE  /\ Head(s) \in Event
           /\ Tail(s) \in Seq(Event)
           /\ Len(Tail(s)) = Len(s) - 1
           /\ Range(s) = Range(Tail(s)) \cup {Head(s)}
           /\ Nums(s) = Nums(Tail(s)) \cup {Head(s)[1]}
<1> DEFINE t == Tail(s)
<1>1. /\ t \in Seq(Event)
      /\ Head(s) \in Event
      /\ Head(s) = s[1]
      /\ Len(t) = Len(s) - 1
      /\ \A i \in 1 .. Len(t) : t[i] = s[i + 1]
      /\ Len(s) \in Nat \ {0}
  BY SMTT(30)
<1> HIDE DEF t
<1>2. \A i \in 1 .. Len(s) : i = 1 \/ (i - 1 \in 1 .. Len(t) /\ s[i] = t[i - 1])
  BY SMTT(30), <1>1
<1>3. Range(s) = Range(t) \cup {Head(s)}
  <2>1. Range(t) = {t[i] : i \in 1 .. Len(t)} /\ Range(s) = {s[i] : i \in 1 .. Len(s)}
    BY <1>1, RangeIs
  <2> QED
    BY SMTT(30), <1>1, <1>2, <2>1
<1>4. Nums(s) = Nums(t) \cup {Head(s)[1]}
  <2>1. Nums(t) = {t[i][1] : i \in 1 .. Len(t)} /\ Nums(s) = {s[i][1] : i \in 1 .. Len(s)}
    BY <1>1, RowsAre
  <2> QED
    BY SMTT(30), <1>1, <1>2, <2>1
<1> QED
  BY <1>1, <1>3, <1>4 DEF t

(* The rows of a batch that is written.                                     *)
LEMMA Written ==
    ASSUME NEW s \in Seq(1 .. MaxEvents), NEW b \in Seq(Event)
    PROVE  /\ s \o Rows(b) \in Seq(1 .. MaxEvents)
           /\ Range(s \o Rows(b)) = Range(s) \cup Nums(b)
<1>1. Rows(b) \in Seq(1 .. MaxEvents)
  BY RowsAre
<1> QED
  BY SMTT(30), <1>1, Joined DEF Nums

(* Deferred calls are names.                                                *)
Calls == {"pool", "conns", "cancel"} \cup Loggers

(* Calls that are deferred on top of others.                                *)
LEMMA Concat ==
    ASSUME NEW s \in Seq(Calls), NEW t \in Seq(Calls)
    PROVE  /\ s \o t \in Seq(Calls)
           /\ Len(s \o t) = Len(s) + Len(t)
           /\ Len(s) \in Nat /\ Len(t) \in Nat
           /\ \A i \in 1 .. Len(s) : (s \o t)[i] = s[i]
           /\ \A i \in Len(s) + 1 .. Len(s) + Len(t) : (s \o t)[i] = t[i - Len(s)]
           /\ Range(s \o t) = Range(s) \cup Range(t)
  BY SMTT(30), Joined

(* The deferred call that runs next.                                        *)
LEMMA Popped ==
    ASSUME NEW s \in Seq(Calls), s # <<>>
    PROVE  /\ SubSeq(s, 1, Len(s) - 1) \in Seq(Calls)
           /\ Len(s) \in Nat \ {0}
           /\ Len(SubSeq(s, 1, Len(s) - 1)) = Len(s) - 1
           /\ \A i \in 1 .. Len(s) - 1 : SubSeq(s, 1, Len(s) - 1)[i] = s[i]
           /\ Range(s) = Range(SubSeq(s, 1, Len(s) - 1)) \cup {s[Len(s)]}
<1> DEFINE t == SubSeq(s, 1, Len(s) - 1)
<1>1. Len(s) \in Nat \ {0} /\ \A i \in 1 .. Len(s) : s[i] \in Calls
  BY SMTT(30)
<1>2. /\ t \in Seq(Calls)
      /\ Len(t) = Len(s) - 1
      /\ \A i \in 1 .. Len(s) - 1 : t[i] = s[i]
  BY <1>1, SMTT(30)
<1> HIDE DEF t
<1>3. Range(t) = {t[i] : i \in 1 .. Len(t)} /\ Range(s) = {s[i] : i \in 1 .. Len(s)}
  BY <1>2, RangeIs
<1>4. Range(s) = Range(t) \cup {s[Len(s)]}
  BY SMTT(30), <1>1, <1>2, <1>3
<1> QED
  BY <1>1, <1>2, <1>4 DEF t
-----------------------------------------------------------------------------
(* Init and types *)

(* SafeInv holds at first.                                                  *)
LEMMA InitSafe == Init => SafeInv
<1> SUFFICES ASSUME Init PROVE SafeInv
  OBVIOUS
<1>1. TypeOK
  <2>1. <<>> \in Seq(Event) /\ <<>> \in Seq(1 .. MaxEvents) /\ <<>> \in Seq(Calls)
    BY SMTT(30)
  <2>2. /\ ch \in [Loggers -> Seq(Event)] /\ batch \in [Loggers -> Seq(Event)]
        /\ stored \in [Loggers -> Seq(1 .. MaxEvents)]
        /\ \A l \in Loggers : Len(ch[l]) <= BufferSize
    BY SMTT(30), <2>1, Nothing, ConstantsAssumption DEF Init
  <2>3. /\ worker \in [Loggers -> {"none", "select", "flush", "drain", "last", "done"}]
        /\ \A l \in Loggers : worker[l] # "select"
        /\ owed \in [Loggers -> SUBSET (1 .. MaxEvents)]
        /\ stop \in [Loggers -> BOOLEAN]
        /\ doing \in [Producers -> {"idle", "busy", "db"}]
    BY DEF Init
  <2>4. events \in 0 .. MaxEvents /\ faults \in 0 .. MaxFaults
    BY SMTT(30), ConstantsAssumption DEF Init
  <2>5. /\ main = "connect" /\ defers \in Seq(Calls) /\ ctxDone \in BOOLEAN /\ pool = "none"
        /\ graceful \in BOOLEAN
    BY <2>1 DEF Init
  <2> QED
    BY <2>2, <2>3, <2>4, <2>5 DEF TypeOK, Calls
<1>2. Stages
  BY SMTT(30) DEF Init, Stages, Up
<1>3. \A l \in Loggers : Logging(l)
  BY SMTT(30), Nothing DEF Init, Logging, Up
<1> QED
  BY <1>1, <1>2, <1>3 DEF SafeInv

(* The deferred call that is next.                                          *)
LEMMA DeferredFacts ==
    ASSUME SafeInv, NEW d, Deferred(d)
    PROVE  /\ defers \in Seq(Calls)
           /\ main = "return" /\ defers # <<>> /\ d = defers[Len(defers)]
           /\ d \in Range(defers)
           /\ d = "pool" => Range(defers) = {"pool"}
<1>1. defers \in Seq(Calls)
  BY DEF SafeInv, TypeOK, Calls
<1>2. defers # <<>> /\ d = defers[Len(defers)] /\ main = "return"
  BY DEF Deferred
<1>3. /\ Len(defers) \in Nat \ {0}
      /\ Range(defers) = Range(SubSeq(defers, 1, Len(defers) - 1)) \cup {defers[Len(defers)]}
  BY <1>1, <1>2, Popped
<1>4. d = "pool" => Range(defers) = {"pool"}
  <2>1. \A i \in 1 .. Len(defers) : defers[i] = "pool" <=> i = 1
    BY DEF SafeInv, Stages
  <2>2. d = "pool" => Len(defers) = 1
    <3>1. Len(defers) \in 1 .. Len(defers)
      BY SMTT(30), <1>3
    <3>2. defers[Len(defers)] = "pool" <=> Len(defers) = 1
      BY <2>1, <3>1
    <3> QED
      BY <1>2, <1>3, <3>2
  <2>3. Range(defers) = {defers[i] : i \in 1 .. Len(defers)}
    BY <1>1, RangeIs
  <2>4. d = "pool" => 1 .. Len(defers) = {1}
    BY SMTT(30), <2>2
  <2> QED
    BY <1>2, <2>2, <2>3, <2>4
<1> QED
  BY <1>1, <1>2, <1>3, <1>4

(* The deferred calls after a step that pops one.                           *)
LEMMA PopFacts ==
    ASSUME SafeInv, NEW d, Deferred(d), Pop
    PROVE  /\ defers' \in Seq(Calls)
           /\ \A i \in 1 .. Len(defers') : i \in 1 .. Len(defers) /\ defers'[i] = defers[i]
           /\ Range(defers) = Range(defers') \cup {d}
<1>1. /\ defers \in Seq(Calls) /\ defers # <<>> /\ d = defers[Len(defers)]
      /\ defers' = SubSeq(defers, 1, Len(defers) - 1)
  BY DeferredFacts DEF Pop
<1>2. /\ SubSeq(defers, 1, Len(defers) - 1) \in Seq(Calls)
      /\ Len(defers) \in Nat \ {0}
      /\ Len(SubSeq(defers, 1, Len(defers) - 1)) = Len(defers) - 1
      /\ \A i \in 1 .. Len(defers) - 1 : SubSeq(defers, 1, Len(defers) - 1)[i] = defers[i]
      /\ Range(defers) = Range(SubSeq(defers, 1, Len(defers) - 1)) \cup {d}
  BY <1>1, Popped
<1> QED
  BY SMTT(30), <1>1, <1>2

(* Every step keeps the types.                                              *)
LEMMA TypeStep ==
    ASSUME SafeInv, Next
    PROVE  TypeOK'
<1> USE ConstantsAssumption
<1>0. TypeOK
  BY DEF SafeInv
<1>1. CASE ConnectDatabase
  BY SMTT(30), <1>0, <1>1 DEF TypeOK, ConnectDatabase, logVars
<1>2. CASE StartLoggers
  <2>1. defers \o Started \in Seq(Calls)
    BY SMTT(30), <1>0, Concat DEF TypeOK, Calls
  <2>2. \A l \in Loggers : worker'[l] = "select" => Len(batch'[l]) < BatchSize
    BY SMTT(30), <1>0, <1>2, Nothing DEF SafeInv, Logging, TypeOK, StartLoggers
  <2> QED
    BY <1>0, <1>2, <2>1, <2>2 DEF TypeOK, StartLoggers, Calls
<1>3. CASE Wire
  <2>1. defers \o <<"conns", "cancel">> \in Seq(Calls)
    BY SMTT(30), <1>0, Concat DEF TypeOK, Calls
  <2> QED
    BY <1>0, <1>3, <2>1 DEF TypeOK, Wire, logVars, Calls
<1>4. CASE Listen \/ StopServing \/ ShutdownReturns \/ Exit \/ Signal \/ ServeFails
  BY <1>0, <1>4 DEF TypeOK, Listen, StopServing, ShutdownReturns, Exit, Signal, ServeFails, logVars
<1>5. CASE CancelContext \/ CloseConnPool \/ ClosePool
  <2>1. defers' \in Seq(Calls)
    BY <1>0, <1>5, PopFacts DEF CancelContext, CloseConnPool, ClosePool, TypeOK, Calls
  <2> QED
    BY <1>0, <1>5, <2>1 DEF TypeOK, CancelContext, CloseConnPool, ClosePool, logVars, Calls
<1>6. ASSUME NEW l \in Loggers, CloseLogger(l) PROVE TypeOK'
  <2>1. defers' \in Seq(Calls)
    BY <1>0, <1>6, PopFacts DEF CloseLogger, TypeOK, Calls
  <2> QED
    BY <1>0, <1>6, <2>1 DEF TypeOK, CloseLogger, Calls
<1>7. ASSUME NEW p \in Producers, Begin(p) \/ Acquire(p) \/ Release(p) \/ End(p) PROVE TypeOK'
  BY <1>0, <1>7 DEF TypeOK, Begin, Acquire, Release, End, mainVars, logVars
<1>8. ASSUME NEW p \in Producers, NEW l \in Loggers, Log(p, l) PROVE TypeOK'
  <2>1. CASE Len(ch[l]) < BufferSize
    <3>1. events' \in 1 .. MaxEvents /\ <<events', p>> \in Event
      BY SMTT(30), <1>0, <1>8 DEF TypeOK, Log, Event
    <3>2. /\ Append(ch[l], <<events', p>>) \in Seq(Event)
          /\ Len(Append(ch[l], <<events', p>>)) = Len(ch[l]) + 1
      BY <1>0, <3>1, Appended DEF TypeOK
    <3>3. /\ ch \in [Loggers -> Seq(Event)] /\ \A k \in Loggers : Len(ch[k]) <= BufferSize
          /\ ch' = [ch EXCEPT ![l] = Append(@, <<events', p>>)]
      BY <1>0, <1>8, <2>1 DEF TypeOK, Log
    <3>4. Len(ch[l]) \in Nat /\ Len(ch[l]) + 1 <= BufferSize
      BY SMTT(30), <2>1, <3>3
    <3>5. ch' \in [Loggers -> Seq(Event)] /\ \A k \in Loggers : Len(ch'[k]) <= BufferSize
      BY <3>2, <3>3, <3>4
    <3>6. owed' \in [Loggers -> SUBSET (1 .. MaxEvents)]
      <4>1. /\ owed \in [Loggers -> SUBSET (1 .. MaxEvents)]
            /\ owed' = [owed EXCEPT ![l] = IF stop[l] THEN @ ELSE @ \cup {events'}]
        BY <1>0, <1>8, <2>1 DEF TypeOK, Log
      <4> QED
        BY <3>1, <4>1
    <3> QED
      BY SMTT(30), <1>0, <1>8, <2>1, <3>1, <3>5, <3>6 DEF TypeOK, Log, mainVars
  <2>2. CASE ~(Len(ch[l]) < BufferSize)
    BY SMTT(30), <1>0, <1>8, <2>2 DEF TypeOK, Log, mainVars
  <2> QED
    BY <2>1, <2>2
<1>9. ASSUME NEW l \in Loggers, Receive(l) \/ Drain(l), ch[l] # <<>> PROVE TypeOK'
  <2>1. /\ Head(ch[l]) \in Event
        /\ Tail(ch[l]) \in Seq(Event)
        /\ Len(Tail(ch[l])) = Len(ch[l]) - 1
        /\ Len(ch[l]) \in Nat
    BY SMTT(30), <1>0, <1>9, Taken DEF TypeOK
  <2>2. Append(batch[l], Head(ch[l])) \in Seq(Event)
    BY <1>0, <2>1, Appended DEF TypeOK
  <2>0. /\ ch \in [Loggers -> Seq(Event)] /\ \A k \in Loggers : Len(ch[k]) <= BufferSize
        /\ batch \in [Loggers -> Seq(Event)]
        /\ ch' = [ch EXCEPT ![l] = Tail(@)]
        /\ batch' = [batch EXCEPT ![l] = Append(@, Head(ch[l]))]
    BY <1>0, <1>9 DEF TypeOK, Receive, Drain
  <2>3. ch' \in [Loggers -> Seq(Event)] /\ \A k \in Loggers : Len(ch'[k]) <= BufferSize
    BY SMTT(30), <2>0, <2>1
  <2>4. batch' \in [Loggers -> Seq(Event)] /\ \A k \in Loggers \ {l} : batch'[k] = batch[k]
    BY <2>0, <2>2
  <2>6. Len(batch'[l]) \in Nat
    BY SMTT(30), <2>4
  <2>5. /\ worker' \in [Loggers -> {"none", "select", "flush", "drain", "last", "done"}]
        /\ \A k \in Loggers \ {l} : worker'[k] = worker[k]
        /\ worker'[l] = "select" => Len(batch'[l]) < BatchSize
    <3>1. worker \in [Loggers -> {"none", "select", "flush", "drain", "last", "done"}]
      BY <1>0 DEF TypeOK
    <3>2. CASE Receive(l)
      BY SMTT(30), <3>1, <3>2, <2>6 DEF Receive
    <3>3. CASE Drain(l)
      BY <3>1, <3>3, <1>9 DEF Drain
    <3> QED
      BY <1>9, <3>2, <3>3
  <2> QED
    BY <1>0, <1>9, <2>3, <2>4, <2>5 DEF TypeOK, Receive, Drain, mainVars
<1>10. ASSUME NEW l \in Loggers, TickerFires(l) \/ ContextDone(l) \/ (Drain(l) /\ ch[l] = <<>>)
       PROVE  TypeOK'
  BY <1>0, <1>10 DEF TypeOK, TickerFires, ContextDone, Drain, mainVars
<1>11. ASSUME NEW l \in Loggers, Flush(l) PROVE TypeOK'
  <2>1. stored[l] \o Rows(batch[l]) \in Seq(1 .. MaxEvents)
    BY <1>0, Written DEF TypeOK
  <2>2. stored' \in [Loggers -> Seq(1 .. MaxEvents)]
    <3>1. stored' = stored \/ stored' = [stored EXCEPT ![l] = @ \o Rows(batch[l])]
      BY <1>11 DEF Flush
    <3>2. stored \in [Loggers -> Seq(1 .. MaxEvents)]
      BY <1>0 DEF TypeOK
    <3> QED
      BY <2>1, <3>1, <3>2
  <2>3. /\ batch' = [batch EXCEPT ![l] = <<>>]
        /\ worker' = [worker EXCEPT ![l] = IF @ = "flush" THEN "select" ELSE "done"]
        /\ UNCHANGED <<mainVars, doing, ch, stop, events>>
    BY <1>11 DEF Flush
  <2>6. owed' \in [Loggers -> SUBSET (1 .. MaxEvents)]
    BY SMTT(30), <1>0, <1>11 DEF TypeOK, Flush
  <2>7. faults' \in 0 .. MaxFaults
    BY SMTT(30), <1>0, <1>11 DEF TypeOK, Flush
  <2>4. batch' \in [Loggers -> Seq(Event)] /\ \A k \in Loggers : batch'[k] = IF k = l THEN <<>> ELSE batch[k]
    BY SMTT(30), <1>0, <2>3 DEF TypeOK
  <2>5. /\ worker' \in [Loggers -> {"none", "select", "flush", "drain", "last", "done"}]
        /\ \A k \in Loggers : worker'[k] = "select" => Len(batch'[k]) < BatchSize
    BY SMTT(30), <1>0, <2>3, <2>4, Nothing DEF TypeOK
  <2> QED
    BY <1>0, <2>2, <2>3, <2>4, <2>5, <2>6, <2>7 DEF TypeOK, mainVars
<1>12. CASE Gone
  BY <1>0, <1>12 DEF Gone, vars, mainVars, logVars, TypeOK
<1> QED
  BY <1>1, <1>2, <1>3, <1>4, <1>5, <1>6, <1>7, <1>8, <1>9, <1>10, <1>11, <1>12
  DEF Next, Run, Work, Drain, Receive
-----------------------------------------------------------------------------
(* The stages of run(), and the loggers *)

(* The types of what belongs to one logger.                                 *)
LEMMA Lengths ==
    ASSUME TypeOK, NEW k \in Loggers
    PROVE  /\ ch[k] \in Seq(Event) /\ Len(ch[k]) \in Nat
           /\ batch[k] \in Seq(Event) /\ Len(batch[k]) \in Nat
           /\ events \in Nat
<1>1. ch[k] \in Seq(Event) /\ batch[k] \in Seq(Event) /\ events \in Nat
  BY SMTT(30), ConstantsAssumption DEF TypeOK
<1> QED
  BY SMTT(30), <1>1

(* Every step keeps the order of the deferred calls.                        *)
LEMMA StageStep ==
    ASSUME SafeInv, Next
    PROVE  Stages'
<1> USE ConstantsAssumption
<1>0. Stages /\ defers \in Seq(Calls)
  BY DEF SafeInv, TypeOK, Calls
<1>1. CASE ConnectDatabase
  BY SMTT(30), <1>1 DEF Stages, ConnectDatabase, Up
<1>2. CASE StartLoggers
  <2>1. /\ main = "migrated" /\ main' = "wire" /\ pool' = pool /\ defers' = defers \o Started
    BY <1>2 DEF StartLoggers
  <2>2. defers # <<>> /\ pool = "open" /\ Len(defers) \in Nat \ {0}
    BY SMTT(30), <1>0, <2>1 DEF Stages, Up
  <2>3. Started \in Seq(Calls) /\ \A i \in 1 .. Len(Started) : Started[i] # "pool"
    BY SMTT(30) DEF Calls
  <2>4. \A i \in 1 .. Len(defers') : defers'[i] = "pool" <=> i = 1
    BY SMTT(30), <1>0, <2>1, <2>2, <2>3, Concat DEF Stages
  <2>5. defers' # <<>>
    BY SMTT(30), <1>0, <2>1, <2>2, <2>3, Concat, Nothing
  <2> QED
    BY <2>1, <2>2, <2>4, <2>5 DEF Stages, Up
<1>3. CASE Wire
  <2>1. CASE main' = "return" /\ defers' = defers
    BY <1>0, <1>3, <2>1 DEF Wire, Stages, Up
  <2>2. CASE main' = "listen" /\ defers' = defers \o <<"conns", "cancel">>
    <3>1. defers # <<>> /\ pool = "open" /\ pool' = pool /\ Len(defers) \in Nat \ {0}
      BY SMTT(30), <1>0, <1>3 DEF Wire, Stages, Up
    <3>2. <<"conns", "cancel">> \in Seq(Calls) /\ Len(<<"conns", "cancel">>) = 2
      BY SMTT(30) DEF Calls
    <3>3. \A i \in 1 .. 2 : <<"conns", "cancel">>[i] # "pool"
      BY SMTT(30)
    <3>4. \A i \in 1 .. Len(defers') : defers'[i] = "pool" <=> i = 1
      BY SMTT(30), <1>0, <2>2, <3>1, <3>2, <3>3, Concat DEF Stages
    <3>5. defers' # <<>>
      BY SMTT(30), <1>0, <2>2, <3>1, <3>2, Concat, Nothing
    <3> QED
      BY <2>2, <3>1, <3>4, <3>5 DEF Stages, Up
  <2> QED
    BY <1>3, <2>1, <2>2 DEF Wire
<1>4. CASE Listen \/ StopServing \/ ShutdownReturns \/ Exit \/ Signal \/ ServeFails
  BY <1>0, <1>4 DEF Stages, Up, Listen, StopServing, ShutdownReturns, Exit, Signal, ServeFails
<1>5. CASE CancelContext \/ CloseConnPool \/ ClosePool
  <2>1. main = "return" /\ main' = main
    BY <1>5 DEF CancelContext, CloseConnPool, ClosePool, Deferred
  <2>2. \A i \in 1 .. Len(defers') : i \in 1 .. Len(defers) /\ defers'[i] = defers[i]
    BY <1>5, PopFacts DEF CancelContext, CloseConnPool, ClosePool
  <2> QED
    BY <1>0, <2>1, <2>2 DEF Stages, Up
<1>6. ASSUME NEW l \in Loggers, CloseLogger(l) PROVE Stages'
  <2>1. main = "return" /\ main' = main
    BY <1>6 DEF CloseLogger, Deferred
  <2>2. \A i \in 1 .. Len(defers') : i \in 1 .. Len(defers) /\ defers'[i] = defers[i]
    BY <1>6, PopFacts DEF CloseLogger
  <2> QED
    BY <1>0, <2>1, <2>2 DEF Stages, Up
<1>7. ASSUME UNCHANGED <<main, defers, pool>> PROVE Stages'
  BY <1>0, <1>7 DEF Stages
<1>8. ASSUME NEW p \in Producers, Begin(p) \/ Acquire(p) \/ Release(p) \/ End(p) PROVE Stages'
  BY <1>7, <1>8 DEF Begin, Acquire, Release, End, mainVars
<1>9. ASSUME NEW p \in Producers, NEW l \in Loggers, Log(p, l) PROVE Stages'
  BY <1>7, <1>9 DEF Log, mainVars
<1>10. ASSUME NEW l \in Loggers, Work(l) PROVE Stages'
  BY <1>7, <1>10 DEF Work, Receive, TickerFires, ContextDone, Drain, Flush, mainVars
<1>11. CASE Gone
  BY <1>7, <1>11 DEF Gone, vars, mainVars
<1> QED
  BY <1>1, <1>2, <1>3, <1>4, <1>5, <1>6, <1>8, <1>9, <1>10, <1>11 DEF Next, Run

(* How the events that wait are counted.                                    *)
LEMMA Counting ==
    ASSUME NEW a \in Nat, NEW b \in Nat
    PROVE  /\ (a - 1) + (b + 1) = a + b
           /\ \A e \in Nat : a + b <= e =>
                /\ b <= e
                /\ \A c : c = a \/ c = a + 1 => c + b <= e + 1
                /\ \A d : d = b \/ d = 0 => a + d <= e
  BY SMTT(30)

(* Every step keeps the pool open for the workers that run.                 *)
LEMMA LoggingStep ==
    ASSUME SafeInv, Next, NEW k \in Loggers
    PROVE  Logging(k)'
<1> USE ConstantsAssumption
<1>0. TypeOK /\ Stages /\ Logging(k) /\ defers \in Seq(Calls)
  BY DEF SafeInv, TypeOK, Calls
<1>a. k \notin {"pool", "conns", "cancel"}
  OBVIOUS
<1>1. CASE ConnectDatabase
  <2>1. Range(<<"pool">>) = {"pool"}
    BY SMTT(30) DEF Range
  <2> QED
    BY <1>0, <1>1, <2>1 DEF Logging, ConnectDatabase, Up, Closing, logVars
<1>2. CASE StartLoggers
  <2>1. Started \in Seq(Calls)
    BY SMTT(30) DEF Calls
  <2>2. k \in Range(defers \o Started)
    BY <1>0, <2>1, Concat DEF Loggers
  <2>3. worker'[k] = "select" /\ defers' = defers \o Started /\ main' = "wire"
    BY <1>2 DEF StartLoggers
  <2>4. pool' = "open" /\ stop[k] = FALSE
    BY <1>0, <1>2 DEF Logging, Stages, StartLoggers, Up, Closing, TypeOK
  <2> QED
    BY <1>0, <1>2, <2>2, <2>3, <2>4 DEF Logging, StartLoggers, Closing
<1>3. CASE Wire
  <2>1. <<"conns", "cancel">> \in Seq(Calls)
    BY SMTT(30) DEF Calls
  <2>2. Range(defers) \subseteq Range(defers')
    BY <1>0, <1>3, <2>1, Concat DEF Wire
  <2>3. worker[k] # "none" /\ ~stop[k]
    BY <1>0, <1>3 DEF Wire, Logging, Up, Closing
  <2> QED
    BY <1>0, <1>3, <2>2, <2>3 DEF Logging, Wire, Closing, logVars
<1>4. CASE Listen \/ StopServing \/ ShutdownReturns \/ Exit \/ Signal \/ ServeFails
  BY <1>0, <1>4 DEF Logging, Up, Closing, Listen, StopServing, ShutdownReturns, Exit, Signal,
                    ServeFails, logVars
<1>5. CASE CancelContext \/ CloseConnPool
  <2>1. \E d \in {"cancel", "conns"} : Range(defers) = Range(defers') \cup {d}
    BY <1>5, PopFacts DEF CancelContext, CloseConnPool
  <2>2. UNCHANGED <<main, pool, doing, logVars, events>>
    BY <1>5 DEF CancelContext, CloseConnPool
  <2> QED
    BY <1>0, <1>a, <2>1, <2>2 DEF Logging, logVars
<1>6. CASE ClosePool
  <2>1. Range(defers) = {"pool"} /\ main = "return"
    BY <1>6, DeferredFacts DEF ClosePool
  <2>2. Range(defers') \subseteq Range(defers)
    BY <1>6, PopFacts DEF ClosePool
  <2>3. worker[k] \in {"none", "done"}
    BY <1>0, <1>a, <2>1 DEF Logging
  <2>4. UNCHANGED <<main, doing, logVars, events>>
    BY <1>6 DEF ClosePool
  <2> QED
    BY <1>0, <2>2, <2>3, <2>4 DEF Logging, logVars
<1>7. ASSUME NEW l \in Loggers, CloseLogger(l) PROVE Logging(k)'
  <2>1. /\ main = "return"
        /\ UNCHANGED <<main, pool, doing, ch, batch, worker, events>>
    BY <1>7 DEF CloseLogger, Deferred
  <2>2. CASE ~stop[l] /\ stop' = [stop EXCEPT ![l] = TRUE] /\ defers' = defers
    BY <1>0, <2>1, <2>2 DEF Logging, TypeOK, Closing
  <2>3. CASE worker[l] = "done" /\ Pop /\ stop' = stop
    <3>1. Range(defers) = Range(defers') \cup {l}
      BY <1>7, <2>3, PopFacts DEF CloseLogger
    <3> QED
      BY <1>0, <2>1, <2>3, <3>1 DEF Logging
  <2> QED
    BY <1>7, <2>2, <2>3 DEF CloseLogger
<1>8. ASSUME NEW p \in Producers, Begin(p) \/ Acquire(p) \/ Release(p) \/ End(p) PROVE Logging(k)'
  <2>1. worker[k] # "none"
    BY <1>0, <1>8 DEF Logging, Begin, Acquire, Release, End, Up
  <2>2. UNCHANGED <<mainVars, logVars, events>>
    BY <1>8 DEF Begin, Acquire, Release, End
  <2> QED
    BY <1>0, <2>1, <2>2 DEF Logging, mainVars, logVars
<1>9. ASSUME NEW p \in Producers, NEW l \in Loggers, Log(p, l) PROVE Logging(k)'
  <2>1. worker[k] # "none"
    BY <1>0, <1>9 DEF Logging, Log
  <2>2. UNCHANGED <<mainVars, doing, batch, worker, stop>> /\ events' = events + 1
    BY <1>9 DEF Log
  <2>3. /\ Len(ch[k]) \in Nat /\ Len(batch[k]) \in Nat /\ events \in Nat
        /\ ch[l] \in Seq(Event)
    BY <1>0, Lengths
  <2>4. Len(ch'[k]) = Len(ch[k]) \/ Len(ch'[k]) = Len(ch[k]) + 1
    <3>0. events \in 0 .. MaxEvents /\ events < MaxEvents /\ events' = events + 1
      BY <1>0, <1>9 DEF TypeOK, Log
    <3>1. ch \in [Loggers -> Seq(Event)] /\ <<events', p>> \in Event
      <4>1. events' \in 1 .. MaxEvents
        BY SMTT(30), <3>0
      <4> QED
        BY <1>0, <4>1 DEF TypeOK, Event
    <3>2. Len(Append(ch[l], <<events', p>>)) = Len(ch[l]) + 1
      BY <2>3, <3>1, Appended
    <3>3. ch' = ch \/ ch' = [ch EXCEPT ![l] = Append(@, <<events', p>>)]
      BY <1>9 DEF Log
    <3>4. CASE k = l
      BY <3>1, <3>2, <3>3, <3>4
    <3>5. CASE k # l
      BY <3>1, <3>3, <3>5
    <3> QED
      BY <3>4, <3>5
  <2>5. Len(ch'[k]) + Len(batch'[k]) <= events'
    <3>1. Len(ch[k]) + Len(batch[k]) <= events
      BY <1>0 DEF Logging
    <3>2. Len(batch'[k]) = Len(batch[k]) /\ events' = events + 1
      BY <2>2
    <3> QED
      BY <2>3, <2>4, <3>1, <3>2, Counting
  <2> QED
    BY <1>0, <2>1, <2>2, <2>5 DEF Logging, mainVars
<1>10. ASSUME NEW l \in Loggers, Receive(l) \/ Drain(l), ch[l] # <<>> PROVE Logging(k)'
  <2>1. /\ ch \in [Loggers -> Seq(Event)] /\ batch \in [Loggers -> Seq(Event)]
        /\ ch' = [ch EXCEPT ![l] = Tail(@)]
        /\ batch' = [batch EXCEPT ![l] = Append(@, Head(ch[l]))]
    BY <1>0, <1>10 DEF TypeOK, Receive, Drain
  <2>2. /\ Len(Tail(ch[l])) = Len(ch[l]) - 1
        /\ Len(Append(batch[l], Head(ch[l]))) = Len(batch[l]) + 1
    BY <1>10, <2>1, Taken, Appended
  <2>3. Len(ch[l]) \in Nat /\ Len(batch[l]) \in Nat
    BY SMTT(30), <2>1
  <2>4. Len(ch'[k]) + Len(batch'[k]) = Len(ch[k]) + Len(batch[k])
    <3>1. CASE k = l
      <4>1. ch'[l] = Tail(ch[l]) /\ batch'[l] = Append(batch[l], Head(ch[l]))
        BY <2>1
      <4>2. Len(ch'[k]) = Len(ch[k]) - 1 /\ Len(batch'[k]) = Len(batch[k]) + 1
        BY <2>2, <3>1, <4>1
      <4>3. Len(ch[k]) \in Nat /\ Len(batch[k]) \in Nat
        BY <2>3, <3>1
      <4>4. (Len(ch[k]) - 1) + (Len(batch[k]) + 1) = Len(ch[k]) + Len(batch[k])
        BY <4>3, Counting
      <4> QED
        BY <4>2, <4>4
    <3>2. CASE k # l
      BY <2>1, <3>2
    <3> QED
      BY <3>1, <3>2
  <2>5. /\ worker[l] \in {"select", "drain"} /\ worker'[l] \in {"select", "flush", worker[l]}
        /\ worker[l] = "select" => worker'[l] # "drain"
        /\ \A m \in Loggers \ {l} : worker'[m] = worker[m] /\ batch'[m] = batch[m] /\ ch'[m] = ch[m]
    BY <1>0, <1>10, <2>1 DEF TypeOK, Receive, Drain
  <2>6. UNCHANGED <<mainVars, doing, stop, events>>
    BY <1>10 DEF Receive, Drain
  <2> QED
    BY <1>0, <2>4, <2>5, <2>6 DEF Logging, mainVars
<1>11. ASSUME NEW l \in Loggers, TickerFires(l) \/ ContextDone(l) \/ (Drain(l) /\ ch[l] = <<>>)
       PROVE  Logging(k)'
  <2>1. /\ worker[l] \in {"select", "drain"}
        /\ worker'[l] \in {"flush", "drain", "last", "done"}
        /\ worker'[l] \in {"drain", "last", "done"} => stop[l]
        /\ worker'[l] = "done" => batch[l] = <<>>
        /\ \A m \in Loggers \ {l} : worker'[m] = worker[m]
    BY <1>0, <1>11 DEF TypeOK, TickerFires, ContextDone, Drain, SafeInv, Logging
  <2>2. UNCHANGED <<mainVars, doing, ch, batch, stop, events>>
    BY <1>11 DEF TickerFires, ContextDone, Drain
  <2> QED
    BY <1>0, <2>1, <2>2 DEF Logging, mainVars
<1>12. ASSUME NEW l \in Loggers, Flush(l) PROVE Logging(k)'
  <2>1. /\ worker[l] \in {"flush", "last"}
        /\ worker'[l] = IF worker[l] = "flush" THEN "select" ELSE "done"
        /\ batch'[l] = <<>>
        /\ \A m \in Loggers \ {l} : worker'[m] = worker[m] /\ batch'[m] = batch[m]
        /\ UNCHANGED <<mainVars, doing, ch, stop, events>>
    BY <1>0, <1>12 DEF TypeOK, Flush
  <2>2. Len(ch[k]) \in Nat /\ Len(batch[k]) \in Nat /\ events \in Nat
    BY <1>0, Lengths
  <2>3. Len(batch'[k]) = Len(batch[k]) \/ Len(batch'[k]) = 0
    BY <2>1, Nothing
  <2>4. Len(ch'[k]) + Len(batch'[k]) <= events'
    <3>1. Len(ch[k]) + Len(batch[k]) <= events
      BY <1>0 DEF Logging
    <3>2. Len(ch'[k]) = Len(ch[k]) /\ events' = events
      BY <2>1
    <3> QED
      BY <2>2, <2>3, <3>1, <3>2, Counting
  <2> QED
    BY <1>0, <2>1, <2>4 DEF Logging, mainVars
<1>13. CASE Gone
  BY <1>0, <1>13 DEF Gone, vars, mainVars, logVars, Logging
<1> QED
  BY <1>1, <1>2, <1>3, <1>4, <1>5, <1>6, <1>7, <1>8, <1>9, <1>10, <1>11, <1>12, <1>13
  DEF Next, Run, Work, Drain, Receive

(* Every step keeps SafeInv.                                                *)
LEMMA SafeStep == SafeInv /\ [Next]_vars => SafeInv'
<1>1. ASSUME SafeInv, Next PROVE SafeInv'
  BY <1>1, TypeStep, StageStep, LoggingStep DEF SafeInv
<1>2. ASSUME SafeInv, UNCHANGED vars PROVE SafeInv'
  BY <1>2 DEF SafeInv, TypeOK, Stages, Logging, vars, mainVars, logVars
<1> QED
  BY <1>1, <1>2

(* The type invariant: channels stay within their capacity, and a worker    *)
(* that has room for more has less than a batch.                            *)
THEOREM TypeCorrect == Spec => []TypeOK
<1>1. SafeInv => TypeOK
  BY DEF SafeInv
<1> QED
  BY <1>1, InitSafe, SafeStep, PTL DEF Spec
-----------------------------------------------------------------------------
(* What is owed *)

(* No step loses an event that is owed.                                     *)
LEMMA KeptStep ==
    ASSUME RowsFit, SafeInv, Kept, Next, NEW k \in Loggers
    PROVE  Keeps(k)'
<1>0. TypeOK /\ Logging(k) /\ Keeps(k)
  BY DEF SafeInv, Kept
<1>1. CASE UNCHANGED logVars
  BY <1>0, <1>1 DEF Keeps, logVars
<1>2. CASE StartLoggers
  BY <1>0, <1>2 DEF Keeps, StartLoggers
<1>3. ASSUME NEW l \in Loggers, CloseLogger(l) PROVE Keeps(k)'
  BY <1>0, <1>3 DEF Keeps, CloseLogger
<1>4. ASSUME NEW p \in Producers, NEW l \in Loggers, Log(p, l) PROVE Keeps(k)'
  <2>0. events \in 0 .. MaxEvents /\ events < MaxEvents /\ events' = events + 1
    BY <1>0, <1>4 DEF TypeOK, Log
  <2>1. <<events', p>> \in Event /\ ch[k] \in Seq(Event)
    BY SMTT(30), <1>0, <2>0, ConstantsAssumption DEF TypeOK, Event
  <2>2. Nums(Append(ch[k], <<events', p>>)) = Nums(ch[k]) \cup {events'}
    BY <2>1, Appended
  <2>3. worker[k] \in {"last", "done"} => stop[k]
    BY <1>0 DEF Logging
  <2>4. UNCHANGED <<batch, worker, stored>>
    BY <1>4 DEF Log
  <2>5. CASE UNCHANGED <<ch, owed>>
    BY <1>0, <2>4, <2>5 DEF Keeps
  <2>6. CASE /\ ch' = [ch EXCEPT ![l] = Append(@, <<events', p>>)]
             /\ owed' = [owed EXCEPT ![l] = IF stop[l] THEN @ ELSE @ \cup {events'}]
    <3>1. ch \in [Loggers -> Seq(Event)] /\ owed \in [Loggers -> SUBSET (1 .. MaxEvents)]
      BY <1>0 DEF TypeOK
    <3>2. CASE k # l
      <4>1. ch'[k] = ch[k] /\ owed'[k] = owed[k]
        BY <2>6, <3>1, <3>2
      <4> QED
        BY <1>0, <2>4, <4>1 DEF Keeps
    <3>3. CASE k = l
      <4>1. /\ ch'[k] = Append(ch[k], <<events', p>>)
            /\ owed'[k] = IF stop[k] THEN owed[k] ELSE owed[k] \cup {events'}
        BY <2>6, <3>1, <3>3
      <4>2. Nums(ch'[k]) = Nums(ch[k]) \cup {events'}
        BY <2>2, <4>1
      <4> QED
        BY <1>0, <2>3, <2>4, <4>1, <4>2 DEF Keeps
    <3> QED
      BY <3>2, <3>3
  <2> QED
    BY <1>4, <2>5, <2>6 DEF Log
<1>5. ASSUME NEW l \in Loggers, Receive(l) \/ Drain(l), ch[l] # <<>> PROVE Keeps(k)'
  <2>1. /\ ch \in [Loggers -> Seq(Event)] /\ batch \in [Loggers -> Seq(Event)]
        /\ ch' = [ch EXCEPT ![l] = Tail(@)]
        /\ batch' = [batch EXCEPT ![l] = Append(@, Head(ch[l]))]
    BY <1>0, <1>5 DEF TypeOK, Receive, Drain
  <2>2. UNCHANGED <<stored, owed>>
    BY <1>5 DEF Receive, Drain
  <2>3. CASE k # l
    <3>1. ch'[k] = ch[k] /\ batch'[k] = batch[k]
      BY <2>1, <2>3
    <3>2. worker'[k] = worker[k]
      BY <1>0, <1>5, <2>3 DEF TypeOK, Receive, Drain
    <3> QED
      BY <1>0, <2>2, <3>1, <3>2 DEF Keeps
  <2>4. CASE k = l
    <3>1. ch'[k] = Tail(ch[k]) /\ batch'[k] = Append(batch[k], Head(ch[k]))
      BY <2>1, <2>4
    <3>2. worker'[k] \notin {"last", "done"}
      BY <1>0, <1>5, <2>4 DEF TypeOK, Receive, Drain
    <3>3. /\ Head(ch[k]) \in Event
          /\ Nums(ch[k]) = Nums(Tail(ch[k])) \cup {Head(ch[k])[1]}
      BY <1>5, <2>1, <2>4, Taken
    <3>4. Nums(Append(batch[k], Head(ch[k]))) = Nums(batch[k]) \cup {Head(ch[k])[1]}
      BY <2>1, <3>3, Appended
    <3>5. Nums(ch'[k]) \cup Nums(batch'[k]) = Nums(ch[k]) \cup Nums(batch[k])
      BY <3>1, <3>3, <3>4
    <3> QED
      BY <1>0, <2>2, <3>2, <3>5 DEF Keeps
  <2> QED
    BY <2>3, <2>4
<1>6. ASSUME NEW l \in Loggers, TickerFires(l) \/ ContextDone(l) PROVE Keeps(k)'
  <2>1. worker[k] = worker'[k] \/ {worker[k], worker'[k]} \cap {"last", "done"} = {}
    BY <1>0, <1>6 DEF TypeOK, TickerFires, ContextDone
  <2>2. UNCHANGED <<ch, batch, stored, owed>>
    BY <1>6 DEF TickerFires, ContextDone
  <2> QED
    BY <1>0, <2>1, <2>2 DEF Keeps
<1>7. ASSUME NEW l \in Loggers, Drain(l), ch[l] = <<>> PROVE Keeps(k)'
  <2>1. worker[k] = worker'[k] \/ Nums(ch[k]) = {}
    BY <1>0, <1>7, Nothing DEF TypeOK, Drain
  <2>2. UNCHANGED <<ch, batch, stored, owed>>
    BY <1>7 DEF Drain
  <2> QED
    BY <1>0, <2>1, <2>2 DEF Keeps
<1>8. ASSUME NEW l \in Loggers, Flush(l) PROVE Keeps(k)'
  <2>1. /\ batch \in [Loggers -> Seq(Event)] /\ batch' = [batch EXCEPT ![l] = <<>>]
        /\ worker[l] \in {"flush", "last"} /\ ch' = ch
    BY <1>0, <1>8 DEF TypeOK, Flush
  <2>2. worker'[k] \in {"last", "done"} <=> worker[k] \in {"last", "done"}
    BY <1>0, <1>8 DEF TypeOK, Flush
  <2>3. stored \in [Loggers -> Seq(1 .. MaxEvents)] /\ owed \in [Loggers -> SUBSET (1 .. MaxEvents)]
    BY <1>0 DEF TypeOK
  <2>4. pool = "open" /\ Len(batch[l]) <= MaxRows[l]
    <3>1. Logging(l) /\ TypeOK
      BY DEF SafeInv
    <3>2. pool = "open" /\ Len(ch[l]) + Len(batch[l]) <= events
      BY <2>1, <3>1 DEF Logging
    <3>3. Len(batch[l]) <= events
      BY <1>0, <3>2, Lengths, Counting
    <3>4. events <= MaxEvents /\ MaxEvents <= MaxRows[l] /\ MaxRows[l] \in Nat
      BY SMTT(30), <3>1, ConstantsAssumption DEF TypeOK, RowsFit
    <3>5. Len(batch[l]) \in Nat /\ events \in Nat /\ MaxEvents \in Nat
      BY <3>1, Lengths, ConstantsAssumption
    <3>6. \A a, b, c, d \in Nat : a <= b /\ b <= c /\ c <= d => a <= d
      BY SMTT(30)
    <3> QED
      BY <3>2, <3>3, <3>4, <3>5, <3>6
  <2>5. \/ stored' = [stored EXCEPT ![l] = @ \o Rows(batch[l])] /\ owed' = owed
        \/ /\ owed' = [owed EXCEPT ![l] = @ \ Range(Rows(batch[l]))]
           /\ stored' = stored \/ stored' = [stored EXCEPT ![l] = @ \o Rows(batch[l])]
    <3>1. \/ stored' = [stored EXCEPT ![l] = @ \o Rows(batch[l])] /\ owed' = owed
          \/ pool # "open" \/ Len(batch[l]) > MaxRows[l]
          \/ /\ owed' = [owed EXCEPT ![l] = @ \ Range(Rows(batch[l]))]
             /\ stored' = stored \/ stored' = [stored EXCEPT ![l] = @ \o Rows(batch[l])]
      BY <1>8 DEF Flush
    <3>2. Len(batch[l]) \in Nat /\ MaxRows[l] \in Nat
      BY <1>0, Lengths, ConstantsAssumption
    <3>3. ~(Len(batch[l]) > MaxRows[l])
      <4>1. \A a, b \in Nat : a <= b => ~(a > b)
        BY SMTT(30)
      <4> QED
        BY <2>4, <3>2, <4>1
    <3> QED
      BY <2>4, <3>1, <3>3
  <2>6. CASE k # l
    <3>1. batch'[k] = batch[k] /\ stored'[k] = stored[k] /\ owed'[k] = owed[k]
      BY <2>1, <2>3, <2>5, <2>6
    <3> QED
      BY <1>0, <2>1, <2>2, <3>1 DEF Keeps
  <2>7. CASE k = l
    <3>1. Range(stored[k] \o Rows(batch[k])) = Range(stored[k]) \cup Nums(batch[k])
      BY <2>1, <2>3, Written
    <3>2. \/ stored'[k] = stored[k] \o Rows(batch[k]) /\ owed'[k] = owed[k]
          \/ /\ owed'[k] = owed[k] \ Nums(batch[k])
             /\ stored'[k] = stored[k] \/ stored'[k] = stored[k] \o Rows(batch[k])
      BY <2>3, <2>5, <2>7 DEF Nums
    <3>3. \/ Range(stored'[k]) = Range(stored[k]) \cup Nums(batch[k]) /\ owed'[k] = owed[k]
          \/ /\ owed'[k] = owed[k] \ Nums(batch[k])
             /\ Range(stored[k]) \subseteq Range(stored'[k])
      BY <3>1, <3>2
    <3> QED
      BY <1>0, <2>1, <2>2, <3>3 DEF Keeps
  <2> QED
    BY <2>6, <2>7
<1>9. ASSUME NEW l \in Loggers, Work(l) PROVE Keeps(k)'
  BY <1>5, <1>6, <1>7, <1>8, <1>9 DEF Work, Receive
<1>10. CASE Run
  BY <1>1, <1>2, <1>3, <1>10
  DEF Run, ConnectDatabase, Wire, Listen, StopServing, ShutdownReturns, CancelContext,
      CloseConnPool, ClosePool, Exit
<1>11. ASSUME NEW p \in Producers, Begin(p) \/ Acquire(p) \/ Release(p) \/ End(p) PROVE Keeps(k)'
  BY <1>1, <1>11 DEF Begin, Acquire, Release, End
<1>12. CASE Signal \/ ServeFails \/ Gone
  BY <1>1, <1>12 DEF Signal, ServeFails, Gone, vars
<1> QED
  BY <1>4, <1>9, <1>10, <1>11, <1>12 DEF Next

(* AsyncLogger.Close flushes what was accepted before it, whatever the      *)
(* other goroutines log meanwhile, where one INSERT has room for all the    *)
(* events there are (RowsFit): what is owed is written, in the batch, or    *)
(* in a channel that is still to be drained.                                *)
THEOREM CloseKeepsEvents ==
    ASSUME RowsFit
    PROVE  Spec => []CloseFlushes
<1> DEFINE I == SafeInv /\ Kept
<1>1. Init => I
  <2>1. Init => Kept
    BY DEF Init, Kept, Keeps
  <2> QED
    BY <2>1, InitSafe
<1>2. I /\ [Next]_vars => I'
  <2>1. ASSUME I, Next PROVE Kept'
    BY <2>1, KeptStep DEF Kept
  <2>2. ASSUME I, UNCHANGED vars PROVE Kept'
    BY <2>2 DEF Kept, Keeps, vars, logVars
  <2> QED
    BY <2>1, <2>2, SafeStep
<1>3. I => CloseFlushes
  <2> SUFFICES ASSUME I, NEW l \in Loggers, worker[l] = "done"
               PROVE  owed[l] \subseteq Range(stored[l])
    BY DEF CloseFlushes
  <2>1. batch[l] = <<>>
    BY DEF SafeInv, Logging
  <2> QED
    BY <2>1, Nothing DEF Kept, Keeps
<1> QED
  BY <1>1, <1>2, <1>3, PTL DEF Spec
-----------------------------------------------------------------------------
(* What the requests logged *)

(* After a graceful shutdown no request logs again.                         *)
LEMMA QuietStep ==
    ASSUME SafeInv, Quiet, Next
    PROVE  Quiet'
<1> SUFFICES ASSUME graceful' PROVE Quiet'
  BY DEF Quiet
<1>0. TypeOK /\ \A l \in Loggers : Logging(l)
  BY DEF SafeInv
<1>1. CASE ShutdownReturns
  <2>1. \A l \in Loggers : worker[l] \notin {"last", "done"}
    BY <1>0, <1>1 DEF Logging, ShutdownReturns, Closing
  <2>2. \A r \in Requests : doing[r] = "idle"
    BY <1>1 DEF ShutdownReturns
  <2> QED
    BY <1>1, <2>1, <2>2 DEF Quiet, Closing, ShutdownReturns, logVars
<1>2. CASE ~ShutdownReturns
  <2>1. graceful
    BY <1>2
    DEF Next, Run, Work, ConnectDatabase, StartLoggers, Wire, Listen, StopServing, CancelContext,
        CloseConnPool, CloseLogger, ClosePool, Exit, Signal, ServeFails, Begin, Acquire, Release,
        End, Log, Receive, TickerFires, ContextDone, Drain, Flush, Gone, vars, mainVars
  <2>2. /\ main \in Closing
        /\ \A r \in Requests : doing[r] = "idle"
        /\ \A l \in Loggers : worker[l] \in {"last", "done"} =>
              \A e \in Range(ch[l]) : e[2] \notin Requests
    BY <2>1 DEF Quiet
  <2>3. CASE Run \/ Signal \/ ServeFails \/ Gone
    <3>1. UNCHANGED <<doing, ch, worker>> /\ main' \in Closing
      BY <1>2, <2>2, <2>3
      DEF Run, ConnectDatabase, StartLoggers, Wire, Listen, StopServing, CancelContext,
          CloseConnPool, CloseLogger, ClosePool, Exit, Signal, ServeFails, Gone, vars, mainVars,
          logVars, Closing, Deferred
    <3> QED
      BY <2>2, <3>1 DEF Quiet
  <2>4. ASSUME NEW p \in Producers, Begin(p) \/ Acquire(p) \/ Release(p) \/ End(p) PROVE Quiet'
    <3>1. p \notin Requests
      BY <2>2, <2>4, ConstantsAssumption DEF Begin, Acquire, Release, End, Closing
    <3>2. \A r \in Requests : doing'[r] = doing[r]
      BY <1>0, <2>4, <3>1 DEF TypeOK, Begin, Acquire, Release, End, Producers
    <3> QED
      BY <2>2, <2>4, <3>2 DEF Quiet, Begin, Acquire, Release, End, mainVars, logVars
  <2>5. ASSUME NEW p \in Producers, NEW l \in Loggers, Log(p, l) PROVE Quiet'
    <3>0. UNCHANGED <<main, doing, worker>> /\ p \notin Requests
      BY <2>2, <2>5 DEF Log, mainVars
    <3>1. events \in 0 .. MaxEvents /\ events < MaxEvents /\ events' = events + 1
      BY <1>0, <2>5 DEF TypeOK, Log
    <3>2. <<events', p>> \in Event /\ ch \in [Loggers -> Seq(Event)]
      BY SMTT(30), <1>0, <3>1, ConstantsAssumption DEF TypeOK, Event
    <3>3. \A m \in Loggers : \A e \in Range(ch'[m]) : e \in Range(ch[m]) \/ e[2] \notin Requests
      <4> SUFFICES ASSUME NEW m \in Loggers
                   PROVE  \A e \in Range(ch'[m]) : e \in Range(ch[m]) \/ e[2] \notin Requests
        OBVIOUS
      <4>1. ch'[m] = ch[m] \/ ch'[m] = Append(ch[m], <<events', p>>)
        <5>1. ch' = ch \/ ch' = [ch EXCEPT ![l] = Append(@, <<events', p>>)]
          BY <2>5 DEF Log
        <5> QED
          BY <3>2, <5>1
      <4>2. Range(Append(ch[m], <<events', p>>)) = Range(ch[m]) \cup {<<events', p>>}
        BY <3>2, Appended
      <4>3. Range(ch'[m]) \subseteq Range(ch[m]) \cup {<<events', p>>}
        BY <4>1, <4>2
      <4> QED
        BY SMTT(30), <3>0, <4>3
    <3> QED
      BY <2>2, <3>0, <3>3 DEF Quiet
  <2>6. ASSUME NEW l \in Loggers, Work(l) PROVE Quiet'
    <3>1. UNCHANGED <<main, doing>>
      BY <2>6 DEF Work, Receive, TickerFires, ContextDone, Drain, Flush, mainVars
    <3>2. \A m \in Loggers : worker'[m] \in {"last", "done"} =>
             ch'[m] = ch[m] /\ (worker[m] \in {"last", "done"} \/ ch[m] = <<>>)
      BY <1>0, <2>6 DEF TypeOK, Work, Receive, TickerFires, ContextDone, Drain, Flush
    <3> QED
      BY <2>2, <3>1, <3>2, Nothing DEF Quiet
  <2> QED
    BY <2>3, <2>4, <2>5, <2>6 DEF Next
<1> QED
  BY <1>1, <1>2

(* A shutdown that did not run into its time-out loses nothing an HTTP      *)
(* request has logged: the requests are idle before the first logger is     *)
(* told to stop, and none begins after.                                     *)
THEOREM RequestsAreRecorded == Spec => []RequestsRecorded
<1> DEFINE I == SafeInv /\ Quiet
<1>1. Init => I
  <2>1. Init => Quiet
    BY DEF Init, Quiet
  <2> QED
    BY <2>1, InitSafe
<1>2. I /\ [Next]_vars => I'
  <2>1. ASSUME I, UNCHANGED vars PROVE Quiet'
    BY <2>1 DEF Quiet, vars, mainVars, logVars
  <2> QED
    BY <2>1, QuietStep, SafeStep
<1>3. I => RequestsRecorded
  <2> SUFFICES ASSUME I, main = "exit", graceful, NEW l \in Loggers
               PROVE  \A e \in Range(ch[l] \o batch[l]) : e[2] \notin Requests
    BY DEF RequestsRecorded
  <2>1. Logging(l) /\ Range(defers) = {}
    BY Nothing DEF SafeInv, Stages
  <2>2. worker[l] \in {"none", "done"} /\ batch[l] = <<>>
    BY <2>1 DEF Logging
  <2>3. \A e \in Range(ch[l]) : e[2] \notin Requests
    <3>1. CASE worker[l] = "none"
      BY <2>1, <3>1, Nothing DEF Logging
    <3>2. CASE worker[l] = "done"
      BY <3>2 DEF Quiet
    <3> QED
      BY <2>2, <3>1, <3>2
  <2>4. ch[l] \o batch[l] = ch[l]
    BY SMTT(30), <2>2, Lengths DEF SafeInv
  <2> QED
    BY <2>3, <2>4
<1> QED
  BY <1>1, <1>2, <1>3, PTL DEF Spec
-----------------------------------------------------------------------------
(* Refresh tokens *)

Rotating == {"rotate", "diagnose", "revoke"}

(* What its place in the handler says of a request's own variables. *)
OwnOf(q) ==
    /\ pc[q] = "start" => tok[q] = NoToken /\ fam[q] = NoToken
    /\ pc[q] # "done" => result[q] = "none"
    /\ pc[q] = "sethash" => fam[q] \in Families /\ new[q] = <<fam[q], 1>> /\ tok[q] \notin Tracked
    /\ pc[q] \in {"check", "upgrade"} => tok[q] \in Stateless /\ fam[q] = NoToken
    /\ pc[q] = "answer" => new[q] \in Tokens /\ (new[q] \in Tracked => fam[q] = new[q][1])
    /\ pc[q] \in Rotating => tok[q] \in Tracked /\ new[q] = <<tok[q][1], tok[q][2] + 1>>
    /\ tok[q] \in Tracked =>
         /\ q \in Refreshes
         /\ tok[q] \in issued
         /\ fam[q] = tok[q][1]
         /\ pc[q] \in Rotating \cup {"answer", "done"}
         /\ pc[q] = "answer" => new[q] = <<tok[q][1], tok[q][2] + 1>>

Own == \A q \in TokenRequests : OwnOf(q)

(* Facts about tokens and constants the steps below keep using. *)
LEMMA TokenFacts ==
    /\ \A f \in Families, g \in Nat \ {0} : <<f, g>> \in Tracked /\ <<f, g>> \in Tokens
    /\ \A f \in Families : <<f, 1>> \in Tracked /\ <<f, 1>>[1] = f /\ <<f, 1>>[2] = 1
    /\ \A t \in Tracked : t[1] \in Families /\ t[2] \in Nat \ {0} /\ t = <<t[1], t[2]>> /\ t \in Tokens
    /\ \A t \in Tracked : <<t[1], t[2] + 1>> \in Tracked
    /\ \A s \in Stateless : s \notin Tracked /\ s \in Tokens
    /\ NoToken \notin Tracked /\ NoToken \notin Tokens /\ NoToken \notin Families
  BY SMTT(30), TokensConstants DEF Tracked, Tokens

(* The initial state is of the right type and at its starting place.        *)
LEMMA InitRequests == TokensInit => TokensTypeOK /\ Own
  BY SMTT(30), TokenFacts, TokensConstants DEF TokensInit, TokensTypeOK, Own, OwnOf, Results, PCs,
     Rotating, Stateless, Tokens

(* A request about to set the initial hash answers with that token.         *)
LEMMA HashingToken ==
    ASSUME Own, NEW q \in TokenRequests
    PROVE  pc[q] = "sethash" => new[q] \in Tracked /\ new[q][1] = fam[q] /\ tok[q] \notin Tracked
  <1> SUFFICES ASSUME pc[q] = "sethash" PROVE new[q] \in Tracked /\ new[q][1] = fam[q] /\ tok[q] \notin Tracked
    OBVIOUS
  <1>1. fam[q] \in Families /\ new[q] = <<fam[q], 1>> /\ tok[q] \notin Tracked
    BY DEF Own, OwnOf
  <1> QED
    BY <1>1, TokenFacts

(* Every action keeps the types and the facts about its own request.        *)
LEMMA StepRequests == TokensTypeOK /\ Own /\ [TokensNext]_tokensVars => TokensTypeOK' /\ Own'
  <1> SUFFICES ASSUME TokensTypeOK, Own, [TokensNext]_tokensVars PROVE TokensTypeOK' /\ Own'
    OBVIOUS
  <1> USE TokenFacts, TokensConstants DEF TokensTypeOK, Advance, Respond, TokenFault, rowVars, PCs,
     Results, Rotating
  <1>1. CASE UNCHANGED tokensVars
    BY SMTT(30), <1>1 DEF tokensVars, Own, OwnOf
  <1>2. ASSUME NEW q \in TokenRequests, CreateFamily(q) PROVE TokensTypeOK' /\ Own'
    BY SMTT(30), <1>2 DEF CreateFamily, InsertFamily, Own, OwnOf, TokenRequests
  <1>3. ASSUME NEW q \in TokenRequests, CreateFamilyFails(q) PROVE TokensTypeOK' /\ Own'
    BY SMTT(30), <1>3 DEF CreateFamilyFails, Own, OwnOf, Stateless
  <1>4. ASSUME NEW q \in TokenRequests, SetInitialTokenHash(q) PROVE TokensTypeOK' /\ Own'
    <2>1. pc[q] = "sethash" => new[q] \in Tracked /\ new[q][1] = fam[q] /\ tok[q] \notin Tracked
      BY HashingToken
    <2> QED
      BY SMTT(30), <1>4, <2>1 DEF SetInitialTokenHash, Own, OwnOf
  <1>5. ASSUME NEW q \in TokenRequests, SetInitialTokenHashFails(q) PROVE TokensTypeOK' /\ Own'
    <2>1. pc[q] = "sethash" => new[q] \in Tracked /\ new[q][1] = fam[q] /\ tok[q] \notin Tracked
      BY HashingToken
    <2> QED
      BY SMTT(30), <1>5, <2>1 DEF SetInitialTokenHashFails, Own, OwnOf
  <1>6. ASSUME NEW q \in TokenRequests, Present(q) PROVE TokensTypeOK' /\ Own'
    BY SMTT(30), <1>6 DEF Present, Own, OwnOf
  <1>7. ASSUME NEW q \in TokenRequests, RotateToken(q) PROVE TokensTypeOK' /\ Own'
    BY SMTT(30), <1>7 DEF RotateToken, Own, OwnOf
  <1>8. ASSUME NEW q \in TokenRequests, Diagnose(q) PROVE TokensTypeOK' /\ Own'
    BY SMTT(30), <1>8 DEF Diagnose, Own, OwnOf
  <1>9. ASSUME NEW q \in TokenRequests, RevokeFamily(q) PROVE TokensTypeOK' /\ Own'
    BY SMTT(30), <1>9 DEF RevokeFamily, Own, OwnOf
  <1>10. ASSUME NEW q \in TokenRequests, IsLegacyTokenUpgraded(q) PROVE TokensTypeOK' /\ Own'
    BY SMTT(30), <1>10 DEF IsLegacyTokenUpgraded, Own, OwnOf
  <1>11. ASSUME NEW q \in TokenRequests, CreateFamilyForLegacyUpgrade(q) PROVE TokensTypeOK' /\ Own'
    BY SMTT(30), <1>11 DEF CreateFamilyForLegacyUpgrade, InsertFamily, Own, OwnOf
  <1>12. ASSUME NEW q \in TokenRequests, SendTokens(q) PROVE TokensTypeOK' /\ Own'
    BY SMTT(30), <1>12 DEF SendTokens, Own, OwnOf
  <1>13. ASSUME NEW q \in TokenRequests, Fail(q) PROVE TokensTypeOK' /\ Own'
    BY SMTT(30), <1>13 DEF Fail, Own, OwnOf
  <1> QED
    BY <1>1, <1>2, <1>3, <1>4, <1>5, <1>6, <1>7, <1>8, <1>9, <1>10, <1>11, <1>12, <1>13 DEF TokensNext
-----------------------------------------------------------------------------
(* Nobody is still about to set the initial hash of family f. *)
Opened(f) == row[f] # "none" /\ \A p \in TokenRequests : ~ (pc[p] = "sethash" /\ fam[p] = f)

(* A token of a family that was given out, or is about to be. *)
Settled(t) == t[2] <= gen[t[1]] /\ Opened(t[1])

(* What the rows and the tokens given out say of each other. *)
Fams ==
    /\ \A f \in Families : row[f] = "none" => gen[f] = 1 /\ hash[f] = 0 /\ \A q \in TokenRequests : fam[q] # f
    /\ \A f \in Families : hash[f] = gen[f] \/ (hash[f] = 0 /\ gen[f] = 1)
    /\ \A q \in TokenRequests : pc[q] = "sethash" => row[fam[q]] = "live" /\ hash[fam[q]] = 0
    /\ \A q, p \in TokenRequests : pc[q] = "sethash" /\ pc[p] = "sethash" /\ fam[q] = fam[p] => q = p
    /\ \A t \in issued \cap Tracked : Settled(t)
    /\ \A q \in TokenRequests : pc[q] = "answer" /\ new[q] \in Tracked => Settled(new[q])
    /\ \A f \in Families : row[f] = "revoked" => Opened(f)

(* Rows holds at first.                                                     *)
LEMMA InitRows == TokensInit => Fams
  BY SMTT(30), TokenFacts, TokensConstants DEF TokensInit, Fams, Tracked, Stateless

(* Every step keeps Rows.                                                   *)
LEMMA StepRows == TokensTypeOK /\ Own /\ Fams /\ [TokensNext]_tokensVars => Fams'
  <1> SUFFICES ASSUME TokensTypeOK, Own, Fams, [TokensNext]_tokensVars PROVE Fams'
    OBVIOUS
  <1> USE TokenFacts DEF TokensTypeOK, Advance, Respond, TokenFault, rowVars, Rotating, Own, OwnOf,
     Fams, Settled, Opened
  <1>1. CASE UNCHANGED tokensVars
    BY SMTT(30), <1>1 DEF tokensVars
  <1>2. ASSUME NEW q \in TokenRequests, CreateFamily(q) PROVE Fams'
    BY SMTT(30), <1>2 DEF CreateFamily, InsertFamily
  <1>3. ASSUME NEW q \in TokenRequests, CreateFamilyFails(q) PROVE Fams'
    BY SMTT(30), <1>3 DEF CreateFamilyFails, Stateless
  <1>4. ASSUME NEW q \in TokenRequests, SetInitialTokenHash(q) PROVE Fams'
    BY SMTT(30), <1>4 DEF SetInitialTokenHash
  <1>5. ASSUME NEW q \in TokenRequests, SetInitialTokenHashFails(q) PROVE Fams'
    BY SMTT(30), <1>5 DEF SetInitialTokenHashFails
  <1>6. ASSUME NEW q \in TokenRequests, Present(q) PROVE Fams'
    <2>1. PICK t \in issued :
            \/ /\ t \in Stateless
               /\ pc' = [pc EXCEPT ![q] = "check"]
               /\ UNCHANGED <<fam, new>>
            \/ /\ t \in Tracked
               /\ fam' = [fam EXCEPT ![q] = t[1]]
               /\ new' = [new EXCEPT ![q] = <<t[1], t[2] + 1>>]
               /\ pc' = [pc EXCEPT ![q] = "rotate"]
      BY <1>6 DEF Present
    <2>2. CASE pc' = [pc EXCEPT ![q] = "check"] /\ UNCHANGED <<fam, new>>
      BY SMTT(30), <1>6, <2>1, <2>2 DEF Present
    <2>3. CASE t \in Tracked
      <3>1. Settled(t) /\ t[1] \in Families
        BY <2>3
      <3>2. /\ fam' = [fam EXCEPT ![q] = t[1]]
            /\ pc' = [pc EXCEPT ![q] = "rotate"]
            /\ new' = [new EXCEPT ![q] = <<t[1], t[2] + 1>>]
            /\ UNCHANGED <<rowVars, issued>>
        BY <1>6, <2>1, <2>3 DEF Present
      <3> QED
        BY SMTT(30), <3>1, <3>2
    <2> QED
      BY <2>1, <2>2, <2>3
  <1>7. ASSUME NEW q \in TokenRequests, RotateToken(q) PROVE Fams'
    <2>1. /\ tok[q] \in Tracked /\ fam[q] = tok[q][1] /\ new[q] = <<tok[q][1], tok[q][2] + 1>>
          /\ new[q] \in Tracked /\ new[q][1] = fam[q] /\ new[q][2] = tok[q][2] + 1
          /\ Settled(tok[q])
      BY SMTT(30), <1>7 DEF RotateToken
    <2>2. CASE Current(tok[q])
      <3>1. /\ gen[fam[q]] = tok[q][2]
            /\ gen' = [gen EXCEPT ![fam[q]] = tok[q][2] + 1]
            /\ hash' = [hash EXCEPT ![fam[q]] = tok[q][2] + 1]
            /\ pc' = [pc EXCEPT ![q] = "answer"]
            /\ UNCHANGED <<row, issued, tok, fam, new>>
        BY <1>7, <2>1, <2>2 DEF RotateToken, Current
      <3> QED
        BY SMTT(30), <2>1, <3>1
    <2>3. CASE ~ Current(tok[q])
      BY SMTT(30), <1>7, <2>3 DEF RotateToken
    <2> QED
      BY <2>2, <2>3
  <1>8. ASSUME NEW q \in TokenRequests, Diagnose(q) PROVE Fams'
    BY SMTT(30), <1>8 DEF Diagnose
  <1>9. ASSUME NEW q \in TokenRequests, RevokeFamily(q) PROVE Fams'
    BY SMTT(30), <1>9 DEF RevokeFamily
  <1>10. ASSUME NEW q \in TokenRequests, IsLegacyTokenUpgraded(q) PROVE Fams'
    BY SMTT(30), <1>10 DEF IsLegacyTokenUpgraded
  <1>11. ASSUME NEW q \in TokenRequests, CreateFamilyForLegacyUpgrade(q) PROVE Fams'
    BY SMTT(30), <1>11 DEF CreateFamilyForLegacyUpgrade, InsertFamily
  <1>12. ASSUME NEW q \in TokenRequests, SendTokens(q) PROVE Fams'
    BY SMTT(30), <1>12 DEF SendTokens
  <1>13. ASSUME NEW q \in TokenRequests, Fail(q) PROVE Fams'
    BY SMTT(30), <1>13 DEF Fail
  <1> QED
    BY <1>1, <1>2, <1>3, <1>4, <1>5, <1>6, <1>7, <1>8, <1>9, <1>10, <1>11, <1>12, <1>13 DEF TokensNext
-----------------------------------------------------------------------------
(* Request q got, or will get, the successor of the token it presented. *)
Served(q) == pc[q] = "answer" \/ result[q] = "ok"

(* Every generation but the last was handed to one request, and to no other. *)
Chain ==
    /\ \A q \in Refreshes : tok[q] \in Tracked /\ Served(q) => tok[q][2] < gen[tok[q][1]]
    /\ \A q, p \in Refreshes : tok[q] \in Tracked /\ tok[q] = tok[p] /\ Served(q) /\ Served(p) => q = p
    /\ \A f \in Families, g \in Nat \ {0} :
         g < gen[f] => \E p \in Refreshes : tok[p] = <<f, g>> /\ Served(p)

(* Chain holds at first.                                                    *)
LEMMA InitChain == TokensInit => Chain
  BY SMTT(30), TokenFacts DEF TokensInit, Chain, TokenRequests

(* All actions but Present and RotateToken leave the refreshes that present  *)
(* a token of a family as they were, or end them.                           *)
LEMMA QuietChain ==
    ASSUME TokensTypeOK, Own, Chain,
           UNCHANGED <<gen, tok>>,
           \A q \in Refreshes : tok[q] \in Tracked => (Served(q)' <=> Served(q))
    PROVE  Chain'
  <1>1. \A f \in Families, g \in Nat \ {0} :
            g < gen[f] => \E p \in Refreshes : tok[p] = <<f, g>> /\ Served(p)'
    <2> SUFFICES ASSUME NEW f \in Families, NEW g \in Nat \ {0}, g < gen[f]
                 PROVE  \E p \in Refreshes : tok[p] = <<f, g>> /\ Served(p)'
      OBVIOUS
    <2>1. PICK p \in Refreshes : tok[p] = <<f, g>> /\ Served(p)
      BY DEF Chain
    <2>2. tok[p] \in Tracked
      BY SMTT(30), <2>1, TokenFacts
    <2> QED
      BY <2>1, <2>2
  <1> QED
    BY <1>1 DEF Chain

(* Every step keeps Chain.                                                  *)
LEMMA StepChain == TokensTypeOK /\ Own /\ Fams /\ Chain /\ [TokensNext]_tokensVars => Chain'
  <1> SUFFICES ASSUME TokensTypeOK, Own, Fams, Chain, [TokensNext]_tokensVars PROVE Chain'
    OBVIOUS
  <1> USE DEF TokensTypeOK, Advance, Respond, TokenFault, rowVars, Rotating
  <1>1. CASE UNCHANGED tokensVars
    BY <1>1, QuietChain DEF tokensVars, Served
  <1>2. ASSUME NEW q \in TokenRequests, Present(q) PROVE Chain'
    <2>1. PICK t \in issued : tok' = [tok EXCEPT ![q] = t]
      BY <1>2 DEF Present
    <2>2. \A p \in Refreshes : Served(p)' <=> Served(p)
      BY <1>2 DEF Present, Served, TokenRequests
    <2>3. ~ Served(q) /\ tok[q] = NoToken /\ UNCHANGED gen /\ q \in Refreshes
      BY <1>2 DEF Present, Served, Own, OwnOf
    <2>4. \A p \in Refreshes : p # q => tok'[p] = tok[p]
      BY <2>1 DEF TokenRequests
    <2> QED
      <3>1. \A p \in Refreshes : Served(p)' => Served(p) /\ p # q /\ tok'[p] = tok[p]
        BY <2>2, <2>3, <2>4
      <3>2. \A p \in Refreshes : Served(p) => Served(p)' /\ tok'[p] = tok[p]
        BY <2>2, <2>3, <2>4
      <3>3. \A f \in Families, g \in Nat \ {0} :
                g < gen[f] => \E p \in Refreshes : tok'[p] = <<f, g>> /\ Served(p)'
        BY <3>2 DEF Chain
      <3> QED
        BY <3>1, <3>3, <2>3 DEF Chain
  <1>3. ASSUME NEW q \in TokenRequests, RotateToken(q) PROVE Chain'
    <2>1. /\ tok[q] \in Tracked /\ fam[q] = tok[q][1] /\ q \in Refreshes /\ result[q] = "none"
          /\ tok[q] = <<tok[q][1], tok[q][2]>> /\ tok[q][1] \in Families /\ tok[q][2] \in Nat \ {0}
      BY <1>3, TokenFacts DEF RotateToken, Own, OwnOf
    <2>2. CASE Current(tok[q])
      <3>1. /\ gen[tok[q][1]] = tok[q][2]
            /\ gen' = [gen EXCEPT ![tok[q][1]] = tok[q][2] + 1]
            /\ UNCHANGED tok
        BY <1>3, <2>1, <2>2 DEF RotateToken, Current
      <3>2. /\ Served(q)'
            /\ \A p \in Refreshes \ {q} : Served(p)' <=> Served(p)
        BY <1>3, <2>1, <2>2 DEF RotateToken, Current, Served, TokenRequests
      <3>3. \A p \in Refreshes : tok[p] \in Tracked /\ Served(p) => tok[p] # tok[q]
        BY SMTT(30), <3>1, <2>1 DEF Chain
      <3>4. \A p \in Refreshes : tok[p] \in Tracked /\ Served(p)' => tok[p][2] < gen'[tok[p][1]]
        BY SMTT(30), <3>1, <3>2, <2>1, TokenFacts DEF Chain
      <3>5. \A p, r \in Refreshes :
                tok[p] \in Tracked /\ tok[p] = tok[r] /\ Served(p)' /\ Served(r)' => p = r
        BY <3>2, <3>3, <2>1 DEF Chain
      <3>6. \A f \in Families, g \in Nat \ {0} :
                g < gen'[f] => \E p \in Refreshes : tok[p] = <<f, g>> /\ Served(p)'
        <4> SUFFICES ASSUME NEW f \in Families, NEW g \in Nat \ {0}, g < gen'[f]
                     PROVE  \E p \in Refreshes : tok[p] = <<f, g>> /\ Served(p)'
          BY ZenonT(30)
        <4>1. CASE g < gen[f]
          BY <4>1, <3>2 DEF Chain
        <4>2. CASE ~ (g < gen[f])
          <5>1. f = tok[q][1] /\ g = tok[q][2]
            BY SMTT(30), <4>2, <3>1, <2>1
          <5> QED
            BY <5>1, <2>1, <3>2
        <4> QED
          BY <4>1, <4>2
      <3> QED
        BY <3>1, <3>4, <3>5, <3>6 DEF Chain
    <2>3. CASE ~ Current(tok[q])
      <3>1. /\ UNCHANGED <<gen, tok>>
            /\ \A p \in Refreshes : Served(p)' <=> Served(p)
        BY <1>3, <2>1, <2>3 DEF RotateToken, Served, TokenRequests
      <3> QED
        BY <3>1, QuietChain
    <2> QED
      BY <2>2, <2>3
  <1>4. ASSUME NEW q \in TokenRequests, CreateFamily(q) PROVE Chain'
    <2>1. UNCHANGED <<gen, tok>> /\ \A p \in Refreshes : tok[p] \in Tracked => (Served(p)' <=> Served(p))
      BY <1>4, TokenFacts, TokensConstants DEF CreateFamily, InsertFamily, Served, TokenRequests, Own,
                                               OwnOf
    <2> QED
      BY <2>1, QuietChain
  <1>5. ASSUME NEW q \in TokenRequests, CreateFamilyFails(q) PROVE Chain'
    <2>1. UNCHANGED <<gen, tok>> /\ \A p \in Refreshes : tok[p] \in Tracked => (Served(p)' <=> Served(p))
      BY SMTT(30), <1>5, TokenFacts, TokensConstants DEF CreateFamilyFails, Served, TokenRequests, Own,
                                                         OwnOf
    <2> QED
      BY <2>1, QuietChain
  <1>6. ASSUME NEW q \in TokenRequests, SetInitialTokenHash(q) PROVE Chain'
    <2>1. UNCHANGED <<gen, tok>> /\ \A p \in Refreshes : tok[p] \in Tracked => (Served(p)' <=> Served(p))
      BY <1>6, TokenFacts, TokensConstants DEF SetInitialTokenHash, Served, TokenRequests, Own, OwnOf
    <2> QED
      BY <2>1, QuietChain
  <1>7. ASSUME NEW q \in TokenRequests, SetInitialTokenHashFails(q) PROVE Chain'
    <2>1. UNCHANGED <<gen, tok>> /\ \A p \in Refreshes : tok[p] \in Tracked => (Served(p)' <=> Served(p))
      BY SMTT(30), <1>7, TokenFacts, TokensConstants DEF SetInitialTokenHashFails, Served, TokenRequests,
         Own, OwnOf
    <2> QED
      BY <2>1, QuietChain
  <1>8. ASSUME NEW q \in TokenRequests, Diagnose(q) PROVE Chain'
    <2>1. UNCHANGED <<gen, tok>> /\ \A p \in Refreshes : tok[p] \in Tracked => (Served(p)' <=> Served(p))
      BY SMTT(30), <1>8, TokenFacts, TokensConstants DEF Diagnose, Served, TokenRequests, Own, OwnOf
    <2> QED
      BY <2>1, QuietChain
  <1>9. ASSUME NEW q \in TokenRequests, RevokeFamily(q) PROVE Chain'
    <2>1. UNCHANGED <<gen, tok>> /\ \A p \in Refreshes : tok[p] \in Tracked => (Served(p)' <=> Served(p))
      BY SMTT(30), <1>9, TokenFacts, TokensConstants DEF RevokeFamily, Served, TokenRequests, Own, OwnOf
    <2> QED
      BY <2>1, QuietChain
  <1>10. ASSUME NEW q \in TokenRequests, IsLegacyTokenUpgraded(q) PROVE Chain'
    <2>1. UNCHANGED <<gen, tok>> /\ \A p \in Refreshes : tok[p] \in Tracked => (Served(p)' <=> Served(p))
      BY SMTT(30), <1>10, TokenFacts, TokensConstants DEF IsLegacyTokenUpgraded, Served, TokenRequests,
         Own, OwnOf
    <2> QED
      BY <2>1, QuietChain
  <1>11. ASSUME NEW q \in TokenRequests, CreateFamilyForLegacyUpgrade(q) PROVE Chain'
    <2>1. UNCHANGED <<gen, tok>> /\ \A p \in Refreshes : tok[p] \in Tracked => (Served(p)' <=> Served(p))
      BY <1>11, TokenFacts, TokensConstants DEF CreateFamilyForLegacyUpgrade, InsertFamily, Served,
         TokenRequests, Own, OwnOf
    <2> QED
      BY <2>1, QuietChain
  <1>12. ASSUME NEW q \in TokenRequests, SendTokens(q) PROVE Chain'
    <2>1. UNCHANGED <<gen, tok>> /\ \A p \in Refreshes : tok[p] \in Tracked => (Served(p)' <=> Served(p))
      BY <1>12, TokenFacts, TokensConstants DEF SendTokens, Served, TokenRequests, Own, OwnOf
    <2> QED
      BY <2>1, QuietChain
  <1>13. ASSUME NEW q \in TokenRequests, Fail(q) PROVE Chain'
    <2>1. UNCHANGED <<gen, tok>> /\ \A p \in Refreshes : tok[p] \in Tracked => (Served(p)' <=> Served(p))
      BY <1>13, TokenFacts, TokensConstants DEF Fail, Served, TokenRequests, Own, OwnOf
    <2> QED
      BY <2>1, QuietChain
  <1> QED
    BY <1>1, <1>2, <1>3, <1>4, <1>5, <1>6, <1>7, <1>8, <1>9, <1>10, <1>11, <1>12, <1>13 DEF TokensNext
-----------------------------------------------------------------------------
(* One token of family f was presented by two requests. *)
Twice(f) == \E q, p \in Refreshes : q # p /\ tok[q] = tok[p] /\ tok[q] \in Tracked /\ fam[q] = f

Refusals == {"reuse", "revoked", "notfound"}

(* What a failed rotation, a refusal and a revocation are evidence of. *)
Evidence ==
    /\ \A q \in Refreshes : pc[q] \in {"diagnose", "revoke"} => hash[fam[q]] = 0 \/ Twice(fam[q])
    /\ \A f \in Families : row[f] = "revoked" => hash[f] = 0 \/ Twice(f)
    /\ \A q \in Refreshes : result[q] \in Refusals => tok[q] \in Tracked /\ row[fam[q]] = "revoked"
    /\ \A q \in Refreshes : pc[q] = "done" /\ tok[q] \in Tracked => result[q] \in Refusals \cup {"ok", "error"}

(* Evidence holds at first.                                                 *)
LEMMA InitEvidence == TokensInit => Evidence
  BY DEF TokensInit, Evidence, TokenRequests, Refusals

(* Tokens are presented for good: what was presented twice stays so.        *)
LEMMA TwiceStable ==
    ASSUME TokensTypeOK, Own, [TokensNext]_tokensVars, NEW f \in Families, Twice(f)
    PROVE  Twice(f)'
  <1>1. PICK q \in Refreshes, p \in Refreshes :
            q # p /\ tok[q] = tok[p] /\ tok[q] \in Tracked /\ fam[q] = f
    BY DEF Twice
  <1>2. \A r \in Refreshes : tok[r] \in Tracked => tok'[r] = tok[r] /\ fam'[r] = fam[r]
    <2> SUFFICES ASSUME NEW r \in Refreshes, tok[r] \in Tracked PROVE tok'[r] = tok[r] /\ fam'[r] = fam[r]
      OBVIOUS
    <2>0. r \in TokenRequests /\ pc[r] \in Rotating \cup {"answer", "done"}
      BY DEF Own, OwnOf, TokenRequests
    <2>1. CASE UNCHANGED tokensVars
      BY <2>1 DEF tokensVars
    <2>2. ASSUME NEW s \in TokenRequests, CreateFamily(s) \/ CreateFamilyForLegacyUpgrade(s) \/ Present(s)
          PROVE  tok'[r] = tok[r] /\ fam'[r] = fam[r]
      BY <2>0, <2>2 DEF CreateFamily, CreateFamilyForLegacyUpgrade, InsertFamily, Present, Rotating,
         TokensTypeOK
    <2>3. ASSUME NEW s \in TokenRequests,
                 \/ CreateFamilyFails(s) \/ SetInitialTokenHash(s) \/ SetInitialTokenHashFails(s)
                 \/ RotateToken(s) \/ Diagnose(s) \/ RevokeFamily(s)
                 \/ IsLegacyTokenUpgraded(s) \/ SendTokens(s) \/ Fail(s)
          PROVE  tok'[r] = tok[r] /\ fam'[r] = fam[r]
      BY <2>3 DEF CreateFamilyFails, SetInitialTokenHash, SetInitialTokenHashFails,
                  RotateToken, Diagnose, RevokeFamily, IsLegacyTokenUpgraded, SendTokens, Fail
    <2> QED
      BY <2>1, <2>2, <2>3 DEF TokensNext
  <1> QED
    BY <1>1, <1>2 DEF Twice

(* A rotation that finds its token superseded is a second presentation.     *)
LEMMA FailedRotation ==
    ASSUME TokensTypeOK, Own, Fams, Chain, Evidence,
           NEW q \in TokenRequests, pc[q] = "rotate", ~ Current(tok[q])
    PROVE  hash[fam[q]] = 0 \/ Twice(fam[q])
  <1> SUFFICES ASSUME hash[fam[q]] # 0 PROVE Twice(fam[q])
    OBVIOUS
  <1>1. /\ tok[q] \in Tracked /\ q \in Refreshes /\ fam[q] = tok[q][1] /\ tok[q] \in issued
        /\ result[q] = "none"
    BY DEF Own, OwnOf, Rotating
  <1>2. tok[q] = <<tok[q][1], tok[q][2]>> /\ tok[q][1] \in Families /\ tok[q][2] \in Nat \ {0}
    BY <1>1, TokenFacts
  <1>3. tok[q][2] <= gen[fam[q]] /\ row[fam[q]] # "none" /\ hash[fam[q]] = gen[fam[q]]
    BY <1>1, <1>2 DEF Fams, Settled, Opened
  <1>4. CASE row[fam[q]] = "revoked"
    BY <1>1, <1>2, <1>4 DEF Evidence
  <1>5. CASE row[fam[q]] = "live"
    <2>1. tok[q][2] < gen[fam[q]]
      BY SMTT(30), <1>1, <1>2, <1>3, <1>5 DEF Current, TokensTypeOK
    <2>2. PICK p \in Refreshes : tok[p] = tok[q] /\ Served(p)
      BY <1>1, <1>2, <2>1 DEF Chain
    <2>3. p # q
      BY <1>1, <2>2 DEF Served
    <2> QED
      BY <1>1, <2>2, <2>3 DEF Twice
  <1> QED
    BY <1>1, <1>2, <1>3, <1>4, <1>5 DEF TokensTypeOK

(* A step that ends no refresh with a refusal, sends none to the diagnosis  *)
(* and gives no suspected family a hash adds nothing to explain.            *)
LEMMA QuietEvidence ==
    ASSUME TokensTypeOK, Own, Evidence, [TokensNext]_tokensVars,
           \A q \in Refreshes : pc'[q] \in {"diagnose", "revoke"} =>
               pc[q] \in {"diagnose", "revoke"} /\ fam'[q] = fam[q] /\ fam[q] \in Families,
           \A q \in Refreshes : pc[q] \in {"diagnose", "revoke"} /\ hash[fam[q]] = 0 => hash'[fam[q]] = 0,
           \A f \in Families : row[f] = "revoked" /\ hash[f] = 0 => hash'[f] = 0,
           \A f \in Families : row'[f] = "revoked" <=> row[f] = "revoked",
           \A q \in Refreshes : result'[q] \in Refusals =>
               result[q] \in Refusals /\ tok'[q] = tok[q] /\ fam'[q] = fam[q],
           \A q \in Refreshes : pc'[q] = "done" /\ tok'[q] \in Tracked =>
               \/ pc[q] = "done" /\ tok[q] \in Tracked /\ result'[q] = result[q]
               \/ result'[q] \in {"ok", "error"}
    PROVE  Evidence'
  <1>1. \A f \in Families : Twice(f) => Twice(f)'
    BY TwiceStable
  <1>2. \A q \in Refreshes : pc'[q] \in {"diagnose", "revoke"} => hash'[fam'[q]] = 0 \/ Twice(fam[q])'
    <2> SUFFICES ASSUME NEW q \in Refreshes, pc'[q] \in {"diagnose", "revoke"}
                 PROVE  hash'[fam'[q]] = 0 \/ Twice(fam[q])'
      OBVIOUS
    <2>1. fam'[q] = fam[q] /\ fam[q] \in Families /\ (hash[fam[q]] = 0 \/ Twice(fam[q]))
      BY DEF Evidence
    <2>2. PICK f \in Families : f = fam[q]
      BY <2>1
    <2>3. hash'[f] = 0 \/ Twice(f)'
      BY <1>1, <2>1, <2>2
    <2>4. f = fam'[q]
      BY <2>1, <2>2
    <2>5. Twice(f)' => Twice(fam[q])'
      BY <2>4 DEF Twice
    <2> QED
      BY <2>3, <2>4, <2>5
  <1>3. \A f \in Families : row'[f] = "revoked" => hash'[f] = 0 \/ Twice(f)'
    BY <1>1 DEF Evidence
  <1>4. \A q \in Refreshes : tok[q] \in Tracked => fam[q] \in Families
    BY TokenFacts DEF Own, OwnOf, TokenRequests
  <1>5. \A q \in Refreshes : result'[q] \in Refusals => tok'[q] \in Tracked /\ row'[fam'[q]] = "revoked"
    <2> SUFFICES ASSUME NEW q \in Refreshes, result'[q] \in Refusals
                 PROVE  tok'[q] \in Tracked /\ row'[fam'[q]] = "revoked"
      OBVIOUS
    <2>1. result[q] \in Refusals /\ tok'[q] = tok[q] /\ fam'[q] = fam[q]
      OBVIOUS
    <2>2. tok[q] \in Tracked /\ row[fam[q]] = "revoked"
      BY <2>1 DEF Evidence
    <2>3. row'[fam[q]] = "revoked"
      BY <1>4, <2>2
    <2> QED
      BY <2>1, <2>2, <2>3
  <1>6. \A q \in Refreshes :
            pc'[q] = "done" /\ tok'[q] \in Tracked => result'[q] \in Refusals \cup {"ok", "error"}
    BY DEF Evidence
  <1> QED
    BY <1>2, <1>3, <1>5, <1>6 DEF Evidence

(* Every step keeps Evidence.                                               *)
LEMMA StepEvidence == TokensTypeOK /\ Own /\ Fams /\ Chain /\ Evidence /\ [TokensNext]_tokensVars => Evidence'
  <1> SUFFICES ASSUME TokensTypeOK, Own, Fams, Chain, Evidence, [TokensNext]_tokensVars PROVE Evidence'
    OBVIOUS
  <1> DEFINE Suspects == {"diagnose", "revoke"}
             Sent(q) == pc'[q] \in Suspects => pc[q] \in Suspects /\ fam'[q] = fam[q]
             Stays(q) == result'[q] \in Refusals =>
                            result[q] \in Refusals /\ tok'[q] = tok[q] /\ fam'[q] = fam[q]
             Ended(q) == pc'[q] = "done" /\ tok'[q] \in Tracked =>
                            \/ pc[q] = "done" /\ tok[q] \in Tracked /\ result'[q] = result[q]
                            \/ result'[q] \in {"ok", "error"}
             SameRevoked == \A f \in Families : row'[f] = "revoked" <=> row[f] = "revoked"
             SameUnset == /\ \A q \in Refreshes : pc[q] \in Suspects /\ hash[fam[q]] = 0 => hash'[fam[q]] = 0
                          /\ \A f \in Families : row[f] = "revoked" /\ hash[f] = 0 => hash'[f] = 0
  <1>a. \A q \in Refreshes : pc[q] \in Suspects =>
            fam[q] \in Families /\ tok[q] \in Tracked /\ tok[q] \in issued /\ fam[q] = tok[q][1]
    BY TokenFacts DEF Own, OwnOf, TokenRequests, Rotating
  <1>b. ASSUME \A q \in Refreshes : Sent(q) /\ Stays(q) /\ Ended(q), SameRevoked, SameUnset PROVE Evidence'
    BY <1>a, <1>b, QuietEvidence
  <1>c. \A q \in Refreshes : q \in TokenRequests
    BY DEF TokenRequests
  <1>d. \A q \in Refreshes : result[q] \in Refusals => pc[q] = "done" /\ tok[q] \in Tracked
    BY <1>c DEF Evidence, Own, OwnOf, Refusals
  <1>e. \A q \in Refreshes : tok[q] \in Tracked => pc[q] \in Rotating \cup {"answer", "done"}
    BY <1>c DEF Own, OwnOf
  <1> HIDE DEF Suspects, Sent, Stays, Ended, SameRevoked, SameUnset
  <1> USE <1>c DEF TokensTypeOK, Advance, Respond, TokenFault, rowVars, Suspects, Sent, Stays, Ended,
     SameRevoked, SameUnset
  <1>1. CASE UNCHANGED tokensVars
    BY <1>1, <1>b DEF tokensVars
  <1>2. ASSUME NEW q \in TokenRequests, CreateFamily(q) PROVE Evidence'
    <2>1. \A p \in Refreshes : Sent(p) /\ Stays(p) /\ Ended(p)
      BY <1>2, <1>d, <1>e DEF CreateFamily, InsertFamily, Refusals, Rotating
    <2>2. SameRevoked /\ SameUnset
      BY <1>2 DEF CreateFamily, InsertFamily
    <2> QED
      BY <1>b, <2>1, <2>2
  <1>3. ASSUME NEW q \in TokenRequests, CreateFamilyFails(q) PROVE Evidence'
    <2>1. \A p \in Refreshes : Sent(p) /\ Stays(p) /\ Ended(p)
      BY <1>3, <1>d, <1>e DEF CreateFamilyFails, Refusals, Rotating
    <2>2. SameRevoked /\ SameUnset
      BY <1>3 DEF CreateFamilyFails
    <2> QED
      BY <1>b, <2>1, <2>2
  <1>4. ASSUME NEW q \in TokenRequests, SetInitialTokenHashFails(q) PROVE Evidence'
    <2>1. \A p \in Refreshes : Sent(p) /\ Stays(p) /\ Ended(p)
      BY <1>4, <1>d, <1>e DEF SetInitialTokenHashFails, Refusals, Rotating
    <2>2. SameRevoked /\ SameUnset
      BY <1>4 DEF SetInitialTokenHashFails
    <2> QED
      BY <1>b, <2>1, <2>2
  <1>5. ASSUME NEW q \in TokenRequests, Present(q) PROVE Evidence'
    <2>1. \A p \in Refreshes : Sent(p) /\ Stays(p) /\ Ended(p)
      BY SMTT(30), <1>5, <1>d, <1>e DEF Present, Refusals, Rotating
    <2>2. SameRevoked /\ SameUnset
      BY <1>5 DEF Present
    <2> QED
      BY <1>b, <2>1, <2>2
  <1>6. ASSUME NEW q \in TokenRequests, IsLegacyTokenUpgraded(q) PROVE Evidence'
    <2>1. \A p \in Refreshes : Sent(p) /\ Stays(p) /\ Ended(p)
      BY <1>6, <1>d, <1>e DEF IsLegacyTokenUpgraded, Refusals, Rotating
    <2>2. SameRevoked /\ SameUnset
      BY <1>6 DEF IsLegacyTokenUpgraded
    <2> QED
      BY <1>b, <2>1, <2>2
  <1>7. ASSUME NEW q \in TokenRequests, CreateFamilyForLegacyUpgrade(q) PROVE Evidence'
    <2>1. \A p \in Refreshes : Sent(p) /\ Stays(p) /\ Ended(p)
      BY <1>7, <1>d, <1>e DEF CreateFamilyForLegacyUpgrade, InsertFamily, Refusals, Rotating
    <2>2. SameRevoked /\ SameUnset
      BY <1>7 DEF CreateFamilyForLegacyUpgrade, InsertFamily
    <2> QED
      BY <1>b, <2>1, <2>2
  <1>8. ASSUME NEW q \in TokenRequests, SendTokens(q) PROVE Evidence'
    <2>1. \A p \in Refreshes : Sent(p) /\ Stays(p) /\ Ended(p)
      BY <1>8, <1>d, <1>e DEF SendTokens, Refusals, Rotating
    <2>2. SameRevoked /\ SameUnset
      BY <1>8 DEF SendTokens
    <2> QED
      BY <1>b, <2>1, <2>2
  <1>9. ASSUME NEW q \in TokenRequests, Fail(q) PROVE Evidence'
    <2>1. \A p \in Refreshes : Sent(p) /\ Stays(p) /\ Ended(p)
      BY <1>9, <1>d, <1>e DEF Fail, Refusals, Rotating
    <2>2. SameRevoked /\ SameUnset
      BY <1>9 DEF Fail
    <2> QED
      BY <1>b, <2>1, <2>2
  <1>10. ASSUME NEW q \in TokenRequests, SetInitialTokenHash(q) PROVE Evidence'
    <2>1. \A p \in Refreshes : Sent(p) /\ Stays(p) /\ Ended(p)
      BY <1>10, <1>d, <1>e DEF SetInitialTokenHash, Refusals, Rotating
    <2>2. \A f \in Families : Opened(f) => f # fam[q]
      BY <1>10 DEF SetInitialTokenHash, Opened
    <2>3. \A p \in Refreshes : pc[p] \in Suspects => fam[p] # fam[q]
      BY SMTT(30), <2>2, <1>a DEF Fams, Settled
    <2>4. \A f \in Families : row[f] = "revoked" => f # fam[q]
      BY <2>2 DEF Fams
    <2>5. SameRevoked /\ SameUnset
      BY <1>10, <1>a, <2>3, <2>4 DEF SetInitialTokenHash
    <2> QED
      BY <1>b, <2>1, <2>5
  <1>11. ASSUME NEW q \in TokenRequests, Diagnose(q) PROVE Evidence'
    <2>1. q \in Refreshes /\ tok[q] \in Tracked /\ fam[q] \in Families /\ pc[q] = "diagnose"
      BY <1>11, TokenFacts DEF Diagnose, Own, OwnOf, Rotating
    <2>2. CASE row[fam[q]] = "live"
      <3>1. \A p \in Refreshes : Sent(p) /\ Stays(p) /\ Ended(p)
        BY <1>11, <2>2, <1>d, <1>e DEF Diagnose, Refusals, Rotating
      <3> QED
        BY <1>11, <1>b, <3>1 DEF Diagnose
    <2>3. CASE row[fam[q]] = "revoked"
      <3>1. /\ pc' = [pc EXCEPT ![q] = "done"]
            /\ result' = [result EXCEPT ![q] = "revoked"]
            /\ UNCHANGED <<row, hash, tok, fam>>
        BY <1>11, <2>3 DEF Diagnose
      <3>2. \A f \in Families : Twice(f)' <=> Twice(f)
        BY <3>1 DEF Twice
      <3> QED
        BY <2>1, <2>3, <3>1, <3>2, <1>a DEF Evidence, Refusals
    <2> QED
      BY <1>11, <2>2, <2>3 DEF Diagnose
  <1>12. ASSUME NEW q \in TokenRequests, RevokeFamily(q) PROVE Evidence'
    <2>1. q \in Refreshes /\ tok[q] \in Tracked /\ fam[q] \in Families /\ pc[q] = "revoke"
      BY <1>12, TokenFacts DEF RevokeFamily, Own, OwnOf, Rotating
    <2>2. PICK r \in Refusals :
            /\ pc' = [pc EXCEPT ![q] = "done"]
            /\ result' = [result EXCEPT ![q] = r]
            /\ row' = [row EXCEPT ![fam[q]] = "revoked"]
            /\ UNCHANGED <<hash, tok, fam>>
      BY SMTT(30), <1>12, <2>1 DEF RevokeFamily, Refusals
    <2>3. \A f \in Families : Twice(f)' <=> Twice(f)
      BY <2>2 DEF Twice
    <2>4. hash[fam[q]] = 0 \/ Twice(fam[q])
      BY <2>1 DEF Evidence
    <2>5. \A p \in Refreshes : tok[p] \in Tracked => fam[p] \in Families
      BY TokenFacts DEF Own, OwnOf
    <2>6. \A p \in Refreshes : pc'[p] \in Suspects => pc[p] \in Suspects
      BY <2>2
    <2> QED
      BY SMTT(30), <2>1, <2>2, <2>3, <2>4, <2>5, <2>6, <1>a DEF Evidence, Refusals
  <1>13. ASSUME NEW q \in TokenRequests, RotateToken(q) PROVE Evidence'
    <2>1. /\ q \in Refreshes /\ tok[q] \in Tracked /\ fam[q] \in Families /\ fam[q] = tok[q][1]
          /\ pc[q] = "rotate"
      BY <1>13, TokenFacts DEF RotateToken, Own, OwnOf, Rotating
    <2>2. CASE Current(tok[q])
      <3>1. \A p \in Refreshes : Sent(p) /\ Stays(p) /\ Ended(p)
        BY <1>13, <2>2, <1>d, <1>e DEF RotateToken, Refusals, Rotating
      <3>2. hash[fam[q]] # 0
        BY SMTT(30), <2>1, <2>2, TokenFacts DEF Current
      <3>3. SameRevoked /\ SameUnset
        BY <1>13, <2>1, <2>2, <3>2, <1>a DEF RotateToken
      <3> QED
        BY <1>b, <3>1, <3>3
    <2>3. CASE ~ Current(tok[q])
      <3>1. /\ pc' = [pc EXCEPT ![q] = "diagnose"]
            /\ UNCHANGED <<row, hash, tok, fam, result>>
        BY <1>13, <2>3 DEF RotateToken
      <3>2. \A f \in Families : Twice(f)' <=> Twice(f)
        BY <3>1 DEF Twice
      <3>3. hash[fam[q]] = 0 \/ Twice(fam[q])
        BY <2>1, <2>3, FailedRotation
      <3> QED
        BY <2>1, <3>1, <3>2, <3>3, <1>a DEF Evidence, Refusals
    <2> QED
      BY <2>2, <2>3
  <1> QED
    BY <1>1, <1>2, <1>3, <1>4, <1>5, <1>6, <1>7, <1>8, <1>9, <1>10, <1>11, <1>12, <1>13 DEF TokensNext
-----------------------------------------------------------------------------
TokensInv == TokensTypeOK /\ Own /\ Fams /\ Chain /\ Evidence

(* The inductive invariant holds.                                           *)
LEMMA TokensInductive == TokensSpec => []TokensInv
  <1>1. TokensInit => TokensInv
    BY InitRequests, InitRows, InitChain, InitEvidence DEF TokensInv
  <1>2. TokensInv /\ [TokensNext]_tokensVars => TokensInv'
    BY StepRequests, StepRows, StepChain, StepEvidence DEF TokensInv
  <1> QED
    BY <1>1, <1>2, PTL DEF TokensSpec

(* The families table and the requests keep their types. *)
THEOREM TokensTypeCorrect == TokensSpec => []TokensTypeOK
  BY TokensInductive, PTL DEF TokensInv

(* RotateToken's guarded UPDATE serves one of the requests that present a   *)
(* token, for any number of them.                                           *)
THEOREM TokenRefreshesOnce == TokensSpec => []RefreshedOnce
  <1>1. TokensInv => RefreshedOnce
    BY DEF TokensInv, Chain, RefreshedOnce, Rotated, Served
  <1> QED
    BY <1>1, TokensInductive, PTL

(* Two finished presentations of one token leave the family revoked: only   *)
(* one of them was served, and the other's refusal came with a revocation.  *)
THEOREM ReuseIsDetected == TokensSpec => []ReuseRevokes
  <1>1. TokensInv => ReuseRevokes
    <2> SUFFICES ASSUME TokensInv, NEW q \in Refreshes, NEW p \in Refreshes,
                        q # p, tok[q] = tok[p], tok[q] \in Tracked,
                        {pc[q], pc[p]} = {"done"}, "error" \notin {result[q], result[p]}
                 PROVE  row[fam[q]] = "revoked"
      BY DEF ReuseRevokes
    <2>1. pc[q] = "done" /\ pc[p] = "done" /\ result[q] # "error" /\ result[p] # "error"
      OBVIOUS
    <2>2. result[q] \in Refusals \/ result[p] \in Refusals
      BY <2>1 DEF TokensInv, Chain, Evidence, Served
    <2>3. fam[q] = fam[p]
      BY DEF TokensInv, Own, OwnOf, TokenRequests
    <2> QED
      BY <2>2, <2>3 DEF TokensInv, Evidence
  <1> QED
    BY <1>1, TokensInductive, PTL

(* diagnoseRotationFailure revokes a family only for a token presented      *)
(* twice, or one whose hash HandleExchange failed to store.                 *)
THEOREM RevokedByReuseOnly == TokensSpec => []OnlyReuseRevokes
  <1>1. TokensInv => OnlyReuseRevokes
    BY DEF TokensInv, Evidence, Twice, OnlyReuseRevokes
  <1> QED
    BY <1>1, TokensInductive, PTL

(* No request in flight changes the row of a revoked family. *)
THEOREM RevocationIsFinal == TokensSpec => RevokedForGood
  <1> DEFINE Frozen == \A f \in Families : row[f] = "revoked" =>
                          row'[f] = "revoked" /\ gen'[f] = gen[f] /\ hash'[f] = hash[f]
  <1>1. TokensInv /\ [TokensNext]_tokensVars => [Frozen]_tokensVars
    <2> SUFFICES ASSUME TokensInv, [TokensNext]_tokensVars, NEW f \in Families, row[f] = "revoked"
                 PROVE  row'[f] = "revoked" /\ gen'[f] = gen[f] /\ hash'[f] = hash[f]
      OBVIOUS
    <2> USE DEF TokensTypeOK, rowVars
    <2>1. TokensTypeOK /\ Own /\ Opened(f)
      BY DEF TokensInv, Fams
    <2>2. ASSUME NEW q \in TokenRequests, CreateFamily(q) \/ CreateFamilyForLegacyUpgrade(q)
          PROVE  row'[f] = "revoked" /\ gen'[f] = gen[f] /\ hash'[f] = hash[f]
      BY <2>1, <2>2 DEF CreateFamily, CreateFamilyForLegacyUpgrade, InsertFamily
    <2>3. ASSUME NEW q \in TokenRequests, SetInitialTokenHash(q)
          PROVE  row'[f] = "revoked" /\ gen'[f] = gen[f] /\ hash'[f] = hash[f]
      BY <2>1, <2>3 DEF SetInitialTokenHash, Opened
    <2>4. ASSUME NEW q \in TokenRequests, RotateToken(q)
          PROVE  row'[f] = "revoked" /\ gen'[f] = gen[f] /\ hash'[f] = hash[f]
      <3>1. fam[q] = tok[q][1]
        BY <2>1, <2>4 DEF RotateToken, Own, OwnOf, Rotating
      <3> QED
        BY <2>1, <2>4, <3>1 DEF RotateToken, Current
    <2>5. ASSUME NEW q \in TokenRequests, RevokeFamily(q)
          PROVE  row'[f] = "revoked" /\ gen'[f] = gen[f] /\ hash'[f] = hash[f]
      BY <2>1, <2>5 DEF RevokeFamily
    <2>6. ASSUME NEW q \in TokenRequests,
                 \/ CreateFamilyFails(q) \/ SetInitialTokenHashFails(q) \/ Present(q) \/ Diagnose(q)
                 \/ IsLegacyTokenUpgraded(q) \/ SendTokens(q) \/ Fail(q)
          PROVE  UNCHANGED rowVars
      BY <2>6 DEF CreateFamilyFails, SetInitialTokenHashFails, Present, Diagnose,
                  IsLegacyTokenUpgraded, SendTokens, Fail
    <2> QED
      BY <2>1, <2>2, <2>3, <2>4, <2>5, <2>6 DEF TokensNext, tokensVars
  <1> QED
    BY <1>1, TokensInductive, PTL DEF TokensSpec, RevokedForGood
=============================================================================
