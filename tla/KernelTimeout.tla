--------------------------- MODULE KernelTimeout ---------------------------
(***************************************************************************)
(* KernelTimeout of absl/synchronization/internal/kernel_timeout.{h,cc}: a *)
(* timeout in one word, as a point of time of the wall clock or of the     *)
(* steady clock, and what the waits of the kernel are given for it.  The   *)
(* widths are those of Duration.  While a timeout is in use both clocks go *)
(* on, and the wall clock may be set to any time after its epoch.          *)
(***************************************************************************)
EXTENDS Integers, FiniteSetsExt

CONSTANTS
    HiBits, LoBits, kTicksPerNanosecond, NanosPerSecond, FastNanos, SecondsPerMinute, TimeTBits,
    kNanosInMillis,    \* 10^6
    NanosInMicro,      \* 10^3
    DWordBits,         \* of a DWord
    Unset              \* no timeout is in use

VARIABLES
    rep_,
    steady, wall,      \* SteadyClockNow() and GetCurrentTimeNanos()
    deadline           \* what was asked for: a time of the clock that rep_ refers to

vars == <<rep_, steady, wall, deadline>>

D == INSTANCE Duration WITH d <- rep_, exact <- deadline

kMaxNanos == D!kint64max
kNoTimeout == 2^HiBits - 1
WallTimes == 1..kMaxNanos

has_timeout == rep_ # kNoTimeout
is_absolute_timeout == rep_ % 2 = 0
RawAbsNanos == rep_ \div 2

FromTime(t) ==
    LET unix_nanos == Max({0, D!ToUnix(t, NanosPerSecond)})
    IN IF t = D!InfiniteDuration \/ unix_nanos >= kMaxNanos THEN kNoTimeout ELSE 2 * unix_nanos

FromDuration(a, now) ==
    LET nanos == Max({0, D!ToInt64(a, NanosPerSecond)})
    IN IF a = D!InfiniteDuration \/ nanos > kMaxNanos - now THEN kNoTimeout
       ELSE 2 * (nanos + now) + 1

Own(a) == Max({a, 0})

InNanosecondsFromNow ==
    IF ~has_timeout THEN kMaxNanos
    ELSE Own(RawAbsNanos - (IF is_absolute_timeout THEN wall ELSE steady))

MakeAbsNanos ==
    IF ~has_timeout THEN kMaxNanos
    ELSE IF is_absolute_timeout THEN Max({1, RawAbsNanos})
    ELSE IF Own(RawAbsNanos - steady) > kMaxNanos - wall THEN kMaxNanos
    ELSE Own(RawAbsNanos - steady) + wall

MakeAbsTimespec == D!ToTimespec(D!Nanoseconds(MakeAbsNanos))
MakeRelativeTimespec == D!ToTimespec(D!Nanoseconds(InNanosecondsFromNow))

\* For a clock that shows the given time.
MakeClockAbsoluteTimespec(now) ==
    LET nanos == RawAbsNanos - (IF is_absolute_timeout THEN wall ELSE steady)
        clock == D!Timespec(now \div NanosPerSecond, now % NanosPerSecond)
        from_clock_epoch == D!Plus(D!DurationFromTimespec(clock), D!Nanoseconds(nanos))
    IN IF ~has_timeout THEN D!ToTimespec(D!Nanoseconds(kMaxNanos))
       ELSE IF ~D!Less(D!ZeroDuration, from_clock_epoch) THEN D!ToTimespec(D!Nanoseconds(1))
       ELSE D!ToTimespec(from_clock_epoch)

kInfinite == 2^DWordBits - 1
InMillisecondsFromNow ==
    LET ns == InNanosecondsFromNow
        ms == (ns + kNanosInMillis - 1) \div kNanosInMillis
    IN IF ~has_timeout \/ ns >= kMaxNanos - kNanosInMillis + 1 THEN kInfinite
       ELSE Min({ms, kInfinite})

\* As nanoseconds; what is beyond a microsecond is cut off.
ToChronoTimePoint ==
    IF ~has_timeout THEN kMaxNanos ELSE (MakeAbsNanos \div NanosInMicro) * NanosInMicro

ToChronoDuration == IF ~has_timeout THEN kMaxNanos ELSE InNanosecondsFromNow
-----------------------------------------------------------------------------
\* A deadline that no timeout can represent is as good as none.
Never == kMaxNanos
AskFor(rep, when) == rep_' = rep /\ deadline' = Min({when, Never}) /\ UNCHANGED <<steady, wall>>

Nanos(x) == x \div kTicksPerNanosecond
MakeAbsolute(t) == rep_ = Unset /\ AskFor(FromTime(t), Own(Nanos(D!Value(t))))
MakeRelative(a) ==
    rep_ = Unset /\ AskFor(FromDuration(a, steady), Own(Nanos(D!Value(a))) + steady)
MakeNever == rep_ = Unset /\ AskFor(kNoTimeout, Never)

Forget == rep_ # Unset /\ rep_' = Unset /\ deadline' = Unset /\ UNCHANGED <<steady, wall>>

Tick == steady < kMaxNanos /\ steady' = steady + 1 /\ UNCHANGED <<rep_, wall, deadline>>
SetWallClock(t) == wall' = t /\ UNCHANGED <<rep_, steady, deadline>>

Init == rep_ = Unset /\ deadline = Unset /\ steady = 0 /\ wall = 1

Next ==
    \/ \E a \in D!Durations : MakeAbsolute(a) \/ MakeRelative(a)
    \/ MakeNever \/ Forget \/ Tick
    \/ \E t \in WallTimes : SetWallClock(t)

Spec == Init /\ [][Next]_vars
-----------------------------------------------------------------------------
AtNanos(ts) == ts.tv_sec * NanosPerSecond + ts.tv_nsec
NowOf == IF is_absolute_timeout THEN wall ELSE steady
Remaining == Own(deadline - NowOf)

\* The deadline as a time of the wall clock, which relative timeouts are converted to late.
WallDeadline ==
    IF is_absolute_timeout THEN Max({1, deadline}) ELSE Min({wall + Remaining, kMaxNanos})

\* The waits that InMillisecondsFromNow gives as INFINITE although they have a deadline: those
\* a DWord cannot hold, and those whose rounding up would not fit an int64_t.
TooLongForDWord ==
    \/ Remaining > (kInfinite - 1) * kNanosInMillis
    \/ Remaining >= kMaxNanos - kNanosInMillis + 1

\* What the kernel is given is the deadline that was asked for, wherever the clocks have gone
\* since: also when the deadline is past or at the end of what an int64_t holds.  The forms in
\* nanoseconds are exact.  InMillisecondsFromNow is late by less than a millisecond and never
\* early; it never ends exactly when there is no deadline or it is too far away for a DWord.
\* ToChronoTimePoint is early by less than a microsecond and never late.  A time that is passed
\* to the kernel as a timespec is never zero, which means "no timeout" to some.
TimeoutsExact ==
    rep_ # Unset =>
        /\ has_timeout <=> deadline # Never
        /\ MakeAbsNanos \in 1..kMaxNanos
        /\ InMillisecondsFromNow = kInfinite <=> (~has_timeout \/ TooLongForDWord)
        /\ ~has_timeout => ToChronoTimePoint = Never /\ ToChronoDuration = Never
        /\ has_timeout =>
              /\ InNanosecondsFromNow = Remaining /\ ToChronoDuration = Remaining
              /\ AtNanos(MakeRelativeTimespec) = Remaining
              /\ AtNanos(MakeAbsTimespec) = WallDeadline
              /\ AtNanos(MakeClockAbsoluteTimespec(NowOf)) = Max({1, deadline})
              /\ ~TooLongForDWord =>
                    InMillisecondsFromNow * kNanosInMillis - Remaining \in 0..(kNanosInMillis - 1)
              /\ WallDeadline - ToChronoTimePoint \in 0..(NanosInMicro - 1)
=============================================================================
