------------------------------ MODULE LogSinks ------------------------------
(***************************************************************************)
(* How log messages reach the sinks: LogMessage::Flush, SendToLog and the  *)
(* way to die of absl/log/internal/log_message.cc, and GlobalLogSinkSet of *)
(* log_sink_set.cc.  A message goes to its own sinks without a lock and to *)
(* the registered ones under a reader lock of guard_, with a thread-local  *)
(* flag that tells a message logged by a sink from within Send that the    *)
(* lock is held: such a message goes to stderr.                            *)
(*                                                                         *)
(* A thread has a stack of messages, for Send and Flush of a sink may log. *)
(* A message is a plan of what is left to do, and todo the sinks that are  *)
(* left to call, the first of which is being called.  Every thread owns    *)
(* one sink, which it adds, removes and may destroy when it is removed.    *)
(***************************************************************************)
EXTENDS Naturals, Sequences, FiniteSets

CONSTANTS
    Threads,
    MaxMessages,   \* bound on the messages logged
    MaxDepth       \* bound on messages logged within one another

VARIABLES
    sinks_, readers,         \* the registered sinks and the threads that hold guard_
    thread_is_logging,       \* the thread-local flags
    stack,                   \* of the messages of each thread
    wait,                    \* the threads that wait for guard_ to add or remove a sink
    destroyed,               \* sinks
    seen_fatal, observed,    \* observed counts the calls of AbslInternalOnFatalLogMessage
    alive,                   \* the process has not aborted
    messages                 \* logged so far

registry == <<sinks_, readers, thread_is_logging>>
fatal == <<seen_fatal, observed, alive>>
vars == <<registry, stack, wait, destroyed, fatal, messages>>

Top(t) == stack[t][Len(stack[t])]
Doing(t, what, where) ==
    /\ alive /\ wait[t] = "no" /\ stack[t] # <<>>
    /\ Top(t).plan # <<>> /\ Head(Top(t).plan) = what /\ Top(t).at = where

SetTop(t, m) == stack' = [stack EXCEPT ![t][Len(stack[t])] = m]
Goto(t, where, todo) == SetTop(t, [Top(t) EXCEPT !.at = where, !.todo = todo])
Done(t) == SetTop(t, [Top(t) EXCEPT !.plan = Tail(@), !.at = "next", !.todo = <<>>])

\* The thread is in a call of Send or Flush of the first sink left to call.
Calling(m) == m.todo # <<>>

Message(plan, extra, only) ==
    [plan |-> plan, at |-> "next", todo |-> <<>>, extra_sinks |-> extra, extra_sinks_only |-> only]

CanCall(t) ==
    /\ alive /\ wait[t] = "no"
    /\ stack[t] # <<>> => Calling(Top(t)) /\ Len(stack[t]) < MaxDepth

\* LOG, CHECK: Flush, where a fatal message finds out whether it is the first.
Log(t, plan, extra, only) ==
    /\ CanCall(t) /\ messages < MaxMessages
    /\ t \in extra => t \notin destroyed
    /\ stack' = [stack EXCEPT ![t] = Append(@, Message(plan, IF extra = {} THEN <<>> ELSE <<t>>, only))]
    /\ messages' = messages + 1

LogNormally(t, extra, only) ==
    /\ Log(t, <<"LogToSinks">>, extra, only)
    /\ UNCHANGED <<registry, wait, destroyed, fatal>>

\* PrepareToDie, SendToLog and Die.
LogFatal(t, quietly) ==
    /\ Log(t, (IF seen_fatal THEN <<>> ELSE <<"Notify">>) \o
              (IF quietly THEN <<>> ELSE <<"LogToSinks">>) \o
              <<"LogToSinks", "FlushLogSinks", "Fail">>, {}, FALSE)
    /\ seen_fatal' = TRUE
    /\ UNCHANGED <<registry, wait, destroyed, observed, alive>>

\* A fatal message below MinLogLevel() is dropped by Flush and the process dies all the same,
\* in the destructor of the LogMessageFatal.
LogFatalDropped(t) ==
    /\ Log(t, <<"Fail">>, {}, FALSE)
    /\ UNCHANGED <<registry, wait, destroyed, fatal>>

CallFlushLogSinks(t) ==
    /\ CanCall(t) /\ stack[t] = <<>> /\ messages < MaxMessages
    /\ stack' = [stack EXCEPT ![t] = <<Message(<<"FlushLogSinks">>, <<>>, FALSE)>>]
    /\ messages' = messages + 1
    /\ UNCHANGED <<registry, wait, destroyed, fatal>>

Notify(t) ==
    /\ Doing(t, "Notify", "next")
    /\ observed' = observed + 1 /\ Done(t)
    /\ UNCHANGED <<registry, wait, destroyed, seen_fatal, alive, messages>>

Fail(t) ==
    /\ Doing(t, "Fail", "next")
    /\ alive' = FALSE
    /\ UNCHANGED <<registry, stack, wait, destroyed, seen_fatal, observed, messages>>

SendToExtraSinks(t) ==
    /\ Doing(t, "LogToSinks", "next")
    /\ Goto(t, "extra", Top(t).extra_sinks)
    /\ UNCHANGED <<registry, wait, destroyed, fatal, messages>>

\* To stderr if this thread is within Send of a registered sink.
AfterExtraSinks(t) ==
    /\ Doing(t, "LogToSinks", "extra") /\ ~Calling(Top(t))
    /\ IF Top(t).extra_sinks_only \/ thread_is_logging[t] THEN Done(t) ELSE Goto(t, "lock", <<>>)
    /\ UNCHANGED <<registry, wait, destroyed, fatal, messages>>

\* A lock is taken by a reader when no writer has it or waits for it.
ReaderLock(t) ==
    /\ \A u \in Threads : wait[u] = "no"
    /\ readers' = readers \cup {t}
    /\ thread_is_logging' = [thread_is_logging EXCEPT ![t] = TRUE]
    /\ Goto(t, "locked", sinks_)
    /\ UNCHANGED <<sinks_, wait, destroyed, fatal, messages>>

LockSinks(t) == Doing(t, "LogToSinks", "lock") /\ ReaderLock(t)

\* A fatal message within Send of a registered sink flushes under the lock that is held.
FlushLogSinks(t) ==
    /\ Doing(t, "FlushLogSinks", "next")
    /\ IF thread_is_logging[t] THEN Goto(t, "held", sinks_) ELSE Goto(t, "lock", <<>>)
    /\ UNCHANGED <<registry, wait, destroyed, fatal, messages>>

LockToFlush(t) == Doing(t, "FlushLogSinks", "lock") /\ ReaderLock(t)

\* The call of a sink returns.
SinkReturns(t) ==
    /\ alive /\ stack[t] # <<>> /\ Calling(Top(t))
    /\ SetTop(t, [Top(t) EXCEPT !.todo = Tail(@)])
    /\ UNCHANGED <<registry, wait, destroyed, fatal, messages>>

Unlock(t) ==
    /\ alive /\ stack[t] # <<>> /\ Top(t).at = "locked" /\ ~Calling(Top(t))
    /\ readers' = readers \ {t}
    /\ thread_is_logging' = [thread_is_logging EXCEPT ![t] = FALSE]
    /\ Done(t)
    /\ UNCHANGED <<sinks_, wait, destroyed, fatal, messages>>

NestedFlushEnds(t) ==
    /\ Doing(t, "FlushLogSinks", "held") /\ ~Calling(Top(t))
    /\ Done(t)
    /\ UNCHANGED <<registry, wait, destroyed, fatal, messages>>

LogReturns(t) ==
    /\ alive /\ stack[t] # <<>> /\ Top(t).plan = <<>>
    /\ stack' = [stack EXCEPT ![t] = SubSeq(@, 1, Len(@) - 1)]
    /\ UNCHANGED <<registry, wait, destroyed, fatal, messages>>

Registered(s) == \E i \in DOMAIN sinks_ : sinks_[i] = s

\* A thread adds its sink, or removes it, outside Send.
CallAddOrRemove(t) ==
    /\ alive /\ wait[t] = "no" /\ stack[t] = <<>> /\ t \notin destroyed
    /\ wait' = [wait EXCEPT ![t] = IF Registered(t) THEN "remove" ELSE "add"]
    /\ UNCHANGED <<registry, stack, destroyed, fatal, messages>>

AddLogSink(t) ==
    /\ alive /\ wait[t] = "add" /\ readers = {}
    /\ IF Registered(t) THEN alive' = FALSE /\ UNCHANGED sinks_
       ELSE sinks_' = Append(sinks_, t) /\ UNCHANGED alive
    /\ wait' = [wait EXCEPT ![t] = "no"]
    /\ UNCHANGED <<readers, thread_is_logging, stack, destroyed, seen_fatal, observed, messages>>

RemoveLogSink(t) ==
    /\ alive /\ wait[t] = "remove" /\ readers = {}
    /\ IF Registered(t) THEN sinks_' = SelectSeq(sinks_, LAMBDA s : s # t) /\ UNCHANGED alive
       ELSE alive' = FALSE /\ UNCHANGED sinks_
    /\ wait' = [wait EXCEPT ![t] = "no"]
    /\ UNCHANGED <<readers, thread_is_logging, stack, destroyed, seen_fatal, observed, messages>>

DestroySink(t) ==
    /\ alive /\ wait[t] = "no" /\ stack[t] = <<>> /\ ~Registered(t) /\ t \notin destroyed
    /\ destroyed' = destroyed \cup {t}
    /\ UNCHANGED <<registry, stack, wait, fatal, messages>>

\* The StderrLogSink is registered from the start.
Init ==
    /\ sinks_ = <<"stderr">> /\ readers = {}
    /\ thread_is_logging = [t \in Threads |-> FALSE]
    /\ stack = [t \in Threads |-> <<>>] /\ wait = [t \in Threads |-> "no"]
    /\ destroyed = {} /\ seen_fatal = FALSE /\ observed = 0 /\ alive = TRUE /\ messages = 0

Next ==
    \E t \in Threads :
        \/ LogNormally(t, {}, FALSE)
        \/ \E only \in BOOLEAN : LogNormally(t, {t}, only)
        \/ \E quietly \in BOOLEAN : LogFatal(t, quietly)
        \/ LogFatalDropped(t) \/ CallFlushLogSinks(t) \/ Notify(t) \/ Fail(t) \/ SendToExtraSinks(t)
        \/ AfterExtraSinks(t) \/ LockSinks(t) \/ FlushLogSinks(t) \/ LockToFlush(t)
        \/ SinkReturns(t) \/ Unlock(t) \/ NestedFlushEnds(t) \/ LogReturns(t)
        \/ CallAddOrRemove(t) \/ AddLogSink(t) \/ RemoveLogSink(t) \/ DestroySink(t)

Spec == Init /\ [][Next]_vars
-----------------------------------------------------------------------------
Messages(t) == {stack[t][i] : i \in DOMAIN stack[t]}

\* Nobody is in a call of a sink that is destroyed, though its owner destroys it as soon as
\* RemoveLogSink returns; and a walk over sinks_ meets only what is still registered.
SinksAlive ==
    \A t \in Threads : \A m \in Messages(t) : Calling(m) =>
        /\ Head(m.todo) \notin destroyed
        /\ m.at \in {"locked", "held"} => Registered(Head(m.todo))

\* Messages that sinks log do not recurse into the registered sinks, and no thread waits for a
\* guard_ that it holds: the flag is set exactly while the thread holds the lock, which it does
\* for one message of its stack.  One fatal message at most tells the observers.
DispatchNotReentered ==
    /\ \A t \in Threads :
          /\ thread_is_logging[t] <=> t \in readers
          /\ t \in readers <=> \E m \in Messages(t) : m.at = "locked"
          /\ Cardinality({i \in DOMAIN stack[t] : stack[t][i].at = "locked"}) <= 1
          /\ stack[t] # <<>> /\ Top(t).at = "lock" => t \notin readers
    /\ observed <= 1
=============================================================================
