-------------------------------- MODULE Flag --------------------------------
(***************************************************************************)
(* absl::flags_internal::FlagImpl: threads that read a flag, write it,     *)
(* parse values into it in the three modes of ParseFrom, and save and      *)
(* restore its state, with an update callback that is run without the      *)
(* flag's mutex.  The flag is already initialized (call_once: CallOnce)    *)
(* and its value is heap allocated or fits a word; sequence locked values  *)
(* are the subject of SequenceLock.  A value that does not parse changes   *)
(* nothing and is left out.                                                *)
(***************************************************************************)
EXTENDS Integers, FiniteSets

CONSTANTS
    Callers, NoThread,
    HeapAllocated,  \* TRUE: kHeapAllocated; FALSE: kOneWordAtomic or kValueAndInitBit
    MaxSets         \* bound on the values stored

ASSUME FlagAssumption == NoThread \notin Callers /\ MaxSets \in Nat

VARIABLES
    data_guard_,    \* its holder
    ptr_value,      \* the buffer with the value, and the two bits of the masked pointer
    mem,            \* contents of the buffers
    freelist,       \* buffers that have been leaked
    mods,           \* seq_lock_.ModificationCount()
    modified_, on_command_line_, default_value_,
    callback_,      \* a callback is set
    guard,          \* holder of callback_->guard
    derived,        \* what the callback last made of the value
    saved,          \* a FlagState waiting to be restored, once
    at, op,         \* the calls in progress and what they are to store
    src,            \* the buffer an unprotected read copies, or the value a callback has read
    next,           \* the next value to store: 0 is the default value
    updated         \* the value was set by Write, SET_FLAGS_VALUE or SET_FLAG_IF_DEFAULT

fvars == <<ptr_value, mem, freelist, mods, updated>>
cvars == <<callback_, guard, derived>>
dvars == <<default_value_, saved, next>>
flagvars == <<data_guard_, fvars, modified_, on_command_line_, cvars, dvars, at, op, src>>

Modes == {"WRITE", "SET_FLAGS_VALUE", "SET_FLAG_IF_DEFAULT", "SET_FLAGS_DEFAULT", "RESTORE"}
NoOp == [mode |-> "none"]
NoState == [counter |-> -1]
Restored == [counter |-> -2]
Buffers == 0..(MaxSets + 1)
Value == mem[ptr_value.buf]

FlagInit ==
    /\ data_guard_ = NoThread
    /\ ptr_value = [buf |-> 0, candidate |-> TRUE, read |-> FALSE]
    /\ mem = [b \in Buffers |-> 0] /\ freelist = {} /\ mods = 0
    /\ modified_ = FALSE /\ on_command_line_ = FALSE /\ default_value_ = 0
    /\ callback_ = FALSE /\ guard = NoThread /\ derived = 0
    /\ saved = NoState
    /\ at = [t \in Callers |-> "idle"] /\ op = [t \in Callers |-> NoOp] /\ src = [t \in Callers |-> 0]
    /\ next = 1 /\ updated = FALSE

To(t, l) == at' = [at EXCEPT ![t] = l]
AllowsUnprotectedRead == HeapAllocated /\ ptr_value.candidate /\ ptr_value.read
-----------------------------------------------------------------------------
\* FlagValue<T, kHeapAllocated>::Get: a masked pointer with both bits is read without the mutex.
Get(t) ==
    /\ at[t] = "idle" /\ AllowsUnprotectedRead
    /\ src' = [src EXCEPT ![t] = ptr_value.buf]
    /\ To(t, "copy")
    /\ UNCHANGED <<data_guard_, fvars, modified_, on_command_line_, cvars, dvars, op>>

GetReturns(t) ==
    /\ at[t] = "copy"
    /\ src' = [src EXCEPT ![t] = 0] /\ To(t, "idle")
    /\ UNCHANGED <<data_guard_, fvars, modified_, on_command_line_, cvars, dvars, op>>

MarkAsRead == ptr_value' = [ptr_value EXCEPT !.read = @ \/ ptr_value.candidate]

\* FlagImpl::Read of a heap allocated value.
Read(t) ==
    /\ HeapAllocated /\ at[t] = "idle" /\ ~AllowsUnprotectedRead /\ data_guard_ = NoThread
    /\ MarkAsRead
    /\ UNCHANGED <<data_guard_, mem, freelist, mods, modified_, on_command_line_, cvars, dvars,
                   at, op, src, updated>>
-----------------------------------------------------------------------------
\* Write, ParseFrom and RestoreState up to their call of StoreValue, with the mutex held.
Store(t, o) ==
    /\ data_guard_' = t
    /\ op' = [op EXCEPT ![t] = o] /\ To(t, "store")

Fresh(mode, cmd) == [mode |-> mode, cmd |-> cmd, v |-> next]

Write(t) ==
    /\ at[t] = "idle" /\ data_guard_ = NoThread /\ next <= MaxSets
    /\ Store(t, Fresh("WRITE", FALSE))
    /\ next' = next + 1
    /\ UNCHANGED <<fvars, modified_, on_command_line_, cvars, default_value_, saved, src>>

NothingToStore(mode) == mode \in {"SET_FLAG_IF_DEFAULT", "SET_FLAGS_DEFAULT"} /\ modified_

ParseFrom(t, mode, cmd) ==
    /\ at[t] = "idle" /\ data_guard_ = NoThread /\ next <= MaxSets
    /\ IF NothingToStore(mode)
       THEN UNCHANGED <<data_guard_, op, at>>
       ELSE Store(t, Fresh(mode, cmd))
    /\ default_value_' = IF mode = "SET_FLAGS_DEFAULT" THEN next ELSE default_value_
    /\ next' = next + 1
    /\ UNCHANGED <<fvars, modified_, on_command_line_, cvars, saved, src>>

SaveState(t) ==
    /\ at[t] = "idle" /\ data_guard_ = NoThread /\ saved = NoState
    /\ saved' = [counter |-> mods, value |-> Value, modified |-> modified_,
                 on_command_line |-> on_command_line_, updated |-> updated]
    /\ UNCHANGED <<data_guard_, fvars, modified_, on_command_line_, cvars, default_value_, next,
                   at, op, src>>

\* Nothing is stored when the modification count is the saved one.
RestoreState(t) ==
    /\ at[t] = "idle" /\ data_guard_ = NoThread /\ saved \notin {NoState, Restored}
    /\ IF saved.counter = mods
       THEN UNCHANGED <<data_guard_, op, at>>
       ELSE Store(t, [mode |-> "RESTORE", cmd |-> FALSE, v |-> saved.value, state |-> saved])
    /\ saved' = Restored
    /\ UNCHANGED <<fvars, modified_, on_command_line_, cvars, default_value_, next, src>>
-----------------------------------------------------------------------------
\* What a setter does after StoreValue, with the mutex, and its return.
Finish(t, mod, ocl) ==
    /\ modified_' = CASE op[t].mode = "SET_FLAGS_DEFAULT" -> FALSE
                      [] op[t].mode = "RESTORE" -> op[t].state.modified
                      [] OTHER -> mod
    /\ on_command_line_' = CASE op[t].mode = "SET_FLAGS_VALUE" /\ op[t].cmd -> TRUE
                             [] op[t].mode = "RESTORE" -> op[t].state.on_command_line
                             [] OTHER -> ocl
    /\ op' = [op EXCEPT ![t] = NoOp] /\ To(t, "idle")

\* Mutant: an in-place copy is not counted.
StoreInPlaceUncounted(o) ==
    /\ mem' = [mem EXCEPT ![ptr_value.buf] = o.v]
    /\ ptr_value' = [ptr_value EXCEPT !.candidate = @ \/ o.cmd]
    /\ UNCHANGED <<freelist, mods>>

\* The memory is reused (MaskedPointer::Set, or the store of the word) ...
StoreInPlace(o) ==
    /\ mem' = [mem EXCEPT ![ptr_value.buf] = o.v]
    /\ ptr_value' = [ptr_value EXCEPT !.candidate = @ \/ o.cmd]
    /\ mods' = mods + 1
    /\ UNCHANGED freelist

\* ... or, when it may be read without the mutex, leaked.
StoreElsewhere(o) ==
    /\ \E b \in Buffers \ (freelist \cup {ptr_value.buf}) :
          /\ \A c \in Buffers \ (freelist \cup {ptr_value.buf}) : b <= c
          /\ mem' = [mem EXCEPT ![b] = o.v]
          /\ ptr_value' = [buf |-> b, candidate |-> o.cmd, read |-> FALSE]
    /\ freelist' = freelist \cup {ptr_value.buf}
    /\ mods' = mods + 1

\* Mutant: only the flag's own buffer is spared.
MustLeakOwnBuffer == AllowsUnprotectedRead /\ ptr_value.buf = 0

MustLeak == AllowsUnprotectedRead

\* Mutant: the callback is not run for what was restored.
InvokesUnlessRestored(o) == callback_ /\ o.mode # "RESTORE"

InvokesCallback(o) == callback_

\* Mutant: the mutex stays locked while the callback runs.
KeepGuard(t) == data_guard_' = IF callback_ THEN t ELSE NoThread

\* MutexRelock, or the return from the setter.
ReleaseGuard(t) == data_guard_' = NoThread

\* StoreValue; when there is a callback, InvokeCallback lets go of the mutex.
StoreValue(t) ==
    /\ at[t] = "store"
    /\ IF MustLeak THEN StoreElsewhere(op[t]) ELSE StoreInPlace(op[t])
    /\ updated' = CASE op[t].mode = "RESTORE" -> op[t].state.updated
                    [] op[t].mode = "SET_FLAGS_DEFAULT" -> updated
                    [] OTHER -> TRUE
    /\ ReleaseGuard(t)
    /\ IF InvokesCallback(op[t])
       THEN modified_' = TRUE /\ To(t, "invoke") /\ UNCHANGED <<on_command_line_, op>>
       ELSE Finish(t, TRUE, on_command_line_)
    /\ UNCHANGED <<cvars, dvars, src>>

SetCallback(t) ==
    /\ at[t] = "idle" /\ data_guard_ = NoThread /\ ~callback_
    /\ callback_' = TRUE
    /\ op' = [op EXCEPT ![t] = [mode |-> "SetCallback"]] /\ To(t, "invoke")
    /\ UNCHANGED <<data_guard_, fvars, modified_, on_command_line_, guard, derived, dvars, src>>

\* InvokeCallback: the callback reads the flag, with the mutex when it has to, ...
CallbackReads(t) ==
    /\ at[t] = "invoke" /\ guard = NoThread
    /\ HeapAllocated /\ ~AllowsUnprotectedRead => data_guard_ = NoThread
    /\ guard' = t
    /\ MarkAsRead
    /\ src' = [src EXCEPT ![t] = Value] /\ To(t, "callback")
    /\ UNCHANGED <<data_guard_, mem, freelist, mods, modified_, on_command_line_, callback_,
                   derived, dvars, op, updated>>

\* ... and updates what it derives from it.
CallbackReturns(t) ==
    /\ at[t] = "callback"
    /\ derived' = src[t] /\ guard' = NoThread
    /\ src' = [src EXCEPT ![t] = 0] /\ To(t, "relock")
    /\ UNCHANGED <<data_guard_, fvars, modified_, on_command_line_, callback_, dvars, op>>

\* ~MutexRelock, and the rest of the setter.
Relock(t) ==
    /\ at[t] = "relock" /\ data_guard_ \in {NoThread, t}
    /\ Finish(t, modified_, on_command_line_)
    /\ data_guard_' = NoThread
    /\ UNCHANGED <<fvars, cvars, dvars, src>>

FlagNext ==
    \E t \in Callers :
        \/ Get(t) \/ GetReturns(t) \/ Read(t) \/ Write(t)
        \/ \E mode \in Modes \ {"WRITE", "RESTORE"}, cmd \in BOOLEAN : ParseFrom(t, mode, cmd)
        \/ SaveState(t) \/ RestoreState(t) \/ StoreValue(t)
        \/ SetCallback(t) \/ CallbackReads(t) \/ CallbackReturns(t) \/ Relock(t)

FlagSpec == FlagInit /\ [][FlagNext]_flagvars

\* A call goes on, and a mutex that stays free is acquired.
FlagStep(t) ==
    GetReturns(t) \/ StoreValue(t) \/ CallbackReads(t) \/ CallbackReturns(t) \/ Relock(t)
FlagFairness == \A t \in Callers : WF_flagvars(FlagStep(t))
-----------------------------------------------------------------------------
\* StoreValue writes a heap allocated value in place only when no thread reads it without the
\* mutex: "We can reuse the memory since all accesses to this value (if any) were protected".
NoRacingRead ==
    \A t, u \in Callers :
        at[t] = "store" /\ ~MustLeak /\ at[u] = "copy" => src[u] # ptr_value.buf

\* The update mechanism guarantees "eventual consistency": when no call is in progress what the
\* callback derived last is the flag's value.
EventualConsistency ==
    callback_ /\ (\A t \in Callers : at[t] \in {"idle", "copy"}) => derived = Value

\* RestoreState's early return, without a callback: the saved count is that of a flag in the
\* saved state.
SameCountSameState ==
    ~callback_ /\ saved.counter = mods =>
        /\ saved.value = Value /\ saved.modified = modified_
        /\ saved.on_command_line = on_command_line_

\* Every call returns, the ones that run the callback included.
CallsReturn == \A t \in Callers : at[t] # "idle" ~> at[t] = "idle"
-----------------------------------------------------------------------------
\* commandlineflag.h: SET_FLAG_IF_DEFAULT updates the value "but *only if* it has not yet been
\* updated with SET_FLAGS_VALUE, SET_FLAG_IF_DEFAULT, or "FLAGS_xxx = nondef"".
IfDefaultOnlyOnce ==
    \A t \in Callers : at[t] = "store" /\ op[t].mode = "SET_FLAG_IF_DEFAULT" => ~updated
=============================================================================
