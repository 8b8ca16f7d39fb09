------------------------------ MODULE Duration ------------------------------
(***************************************************************************)
(* absl::Duration: the representation and the integer arithmetic of        *)
(* time/time.h and time/duration.cc, and the conversions of a Time, which  *)
(* is a Duration since the epoch, in time/time.cc.                         *)
(*                                                                         *)
(* A Duration is a number of seconds and a number of ticks, at least zero  *)
(* and less than a second; ~0 ticks make it infinite.  The widths and the  *)
(* units are constants: 64, 32, 4, 10^9 in the code.  A value that the     *)
(* code keeps in an int64_t is an integer here, and ArithmeticExact says   *)
(* that it fits.  Operations on doubles are left out.                      *)
(***************************************************************************)
EXTENDS Integers, FiniteSetsExt

CONSTANTS
    HiBits, LoBits,         \* of rep_hi_ and rep_lo_; uint128 has twice HiBits
    kTicksPerNanosecond, NanosPerSecond,
    FastNanos,              \* the units of IDivFastPath below a second: 1, 100, 1000 and 10^6 ns
    SecondsPerMinute,       \* 60, and 3600 for an hour
    TimeTBits               \* of a time_t

VARIABLES
    d,                      \* a Duration
    exact                   \* its value according to arithmetic without bounds, in ticks

vars == <<d, exact>>

kTicksPerSecond == NanosPerSecond * kTicksPerNanosecond
kint64max == 2^(HiBits - 1) - 1
kint64min == -(2^(HiBits - 1))
Int64 == kint64min..kint64max
DecodeTwosComp(x) == ((x + 2^(HiBits - 1)) % 2^HiBits) - 2^(HiBits - 1)

\* The division of C++, which truncates.
Quotient(a, b) == LET q == Max({a, -a}) \div Max({b, -b}) IN IF (a < 0) = (b < 0) THEN q ELSE -q
Remainder(a, b) == a - b * Quotient(a, b)

MakeDuration(hi, lo) == [hi |-> hi, lo |-> lo]
ZeroDuration == MakeDuration(0, 0)
AllOnes == 2^LoBits - 1
InfiniteDuration == MakeDuration(kint64max, AllOnes)
NegativeInfinity == MakeDuration(kint64min, AllOnes)
Infinity(is_neg) == IF is_neg THEN NegativeInfinity ELSE InfiniteDuration
IsInfiniteDuration(a) == a.lo = AllOnes

\* operator<: adding 1 to ~0 in a uint32_t gives 0, before every finite value.
Less(a, b) ==
    IF a.hi # b.hi THEN a.hi < b.hi
    ELSE IF a.hi = kint64min THEN (a.lo + 1) % 2^LoBits < (b.lo + 1) % 2^LoBits
    ELSE a.lo < b.lo

\* Unary minus, with NegateAndSubtractOne.
Negated(a) ==
    IF a.lo = 0 THEN IF a.hi = kint64min THEN InfiniteDuration ELSE MakeDuration(-a.hi, 0)
    ELSE IF IsInfiniteDuration(a) THEN Infinity(a.hi >= 0)
    ELSE MakeDuration(-(a.hi + 1), kTicksPerSecond - a.lo)

AbsDuration(a) == IF Less(a, ZeroDuration) THEN Negated(a) ELSE a

\* Mutant of Plus: overflow is not detected.
PlusWraps(a, b) ==
    LET carry == IF a.lo >= kTicksPerSecond - b.lo THEN 1 ELSE 0
    IN  MakeDuration(DecodeTwosComp(a.hi + b.hi + carry), a.lo + b.lo - carry * kTicksPerSecond)

\* operator+=: the sum of the seconds wraps around, which shows in its order with a.hi.
Plus(a, b) ==
    IF IsInfiniteDuration(a) THEN a
    ELSE IF IsInfiniteDuration(b) THEN b
    ELSE LET carry == IF a.lo >= kTicksPerSecond - b.lo THEN 1 ELSE 0
             hi == DecodeTwosComp(a.hi + b.hi + carry)
         IN IF IF b.hi < 0 THEN hi > a.hi ELSE hi < a.hi
            THEN Infinity(b.hi < 0)
            ELSE MakeDuration(hi, a.lo + b.lo - carry * kTicksPerSecond)

Minus(a, b) ==
    IF IsInfiniteDuration(a) THEN a
    ELSE IF IsInfiniteDuration(b) THEN Infinity(b.hi >= 0)
    ELSE LET borrow == IF a.lo < b.lo THEN 1 ELSE 0
             hi == DecodeTwosComp(a.hi - b.hi - borrow)
         IN IF IF b.hi < 0 THEN hi < a.hi ELSE hi > a.hi
            THEN Infinity(b.hi >= 0)
            ELSE MakeDuration(hi, a.lo + borrow * kTicksPerSecond - b.lo)

MakeU128Ticks(a) ==
    IF a.hi < 0 THEN -(a.hi + 1) * kTicksPerSecond + (kTicksPerSecond - a.lo)
    ELSE a.hi * kTicksPerSecond + a.lo

MakeDurationFromU128(u128, is_neg) ==
    LET h64 == u128 \div 2^HiBits
        kMaxRepHi64 == kTicksPerSecond \div 2   \* the high half of 2^(HiBits-1) seconds
        hi == u128 \div kTicksPerSecond
        lo == u128 % kTicksPerSecond
    IN IF h64 >= kMaxRepHi64
       THEN IF is_neg /\ h64 = kMaxRepHi64 /\ u128 % 2^HiBits = 0
            THEN MakeDuration(kint64min, 0)
            ELSE Infinity(is_neg)
       ELSE IF is_neg /\ lo # 0 THEN MakeDuration(-hi - 1, kTicksPerSecond - lo)
       ELSE MakeDuration(IF is_neg THEN -hi ELSE hi, lo)

Uint128Max == 2^(2 * HiBits) - 1
SafeMultiply(a, b) ==
    IF b # 0 /\ a \div 2^HiBits # 0 /\ a > Uint128Max \div b THEN Uint128Max ELSE a * b

IsNegative(a, r) == (a.hi < 0) # (r < 0)

\* operator*= and operator/= of an int64_t.
Times(a, r) ==
    IF IsInfiniteDuration(a) THEN Infinity(IsNegative(a, r))
    ELSE MakeDurationFromU128(SafeMultiply(MakeU128Ticks(a), Max({r, -r})), IsNegative(a, r))

DividedBy(a, r) ==
    IF IsInfiniteDuration(a) \/ r = 0 THEN Infinity(IsNegative(a, r))
    ELSE MakeDurationFromU128(MakeU128Ticks(a) \div Max({r, -r}), IsNegative(a, r))

\* The quotient and the remainder.
Division(q, rem) == [q |-> q, rem |-> rem]
PerSecond(nanos) == NanosPerSecond \div nanos

\* When the fast path divides: by one of its units that the quotient fits, or by whole seconds.
FastByUnit(num, den) ==
    /\ den.hi = 0
    /\ \E u \in FastNanos :
          /\ den.lo = u * kTicksPerNanosecond
          /\ num.hi >= 0 /\ num.hi < (kint64max - kTicksPerSecond) \div PerSecond(u)
FastBySeconds(den) == den.hi > 0 /\ den.lo = 0

IDivBySeconds(num, den_hi) ==
    LET borrow == IF num.hi < 0 /\ num.lo # 0 THEN 1 ELSE 0
        q == Quotient(num.hi + borrow, den_hi)
        rem_sec == Remainder(num.hi + borrow, den_hi)
    IN IF num.hi >= 0 THEN Division(q, MakeDuration(rem_sec, num.lo))
       ELSE IF rem_sec > 0 THEN Division(q + 1, MakeDuration(rem_sec - den_hi - borrow, num.lo))
       ELSE Division(q, MakeDuration(rem_sec - borrow, num.lo))

IDivSlowPath(satq, num, den) ==
    LET num_neg == Less(num, ZeroDuration)
        quotient_neg == num_neg # Less(den, ZeroDuration)
        a == MakeU128Ticks(num)
        b == MakeU128Ticks(den)
        quotient == IF satq /\ a \div b > kint64max
                    THEN IF quotient_neg THEN -kint64min ELSE kint64max
                    ELSE a \div b
    IN IF IsInfiniteDuration(num) \/ den = ZeroDuration
       THEN Division(IF quotient_neg THEN kint64min ELSE kint64max, Infinity(num_neg))
       ELSE IF IsInfiniteDuration(den) THEN Division(0, num)
       ELSE Division(IF ~quotient_neg \/ quotient = 0
                     THEN quotient % (kint64max + 1)
                     ELSE -((quotient - 1) % (kint64max + 1)) - 1,
                     MakeDurationFromU128(a - quotient * b, num_neg))

IDivDurationImpl(satq, num, den) ==
    IF IsInfiniteDuration(num) \/ IsInfiniteDuration(den) THEN IDivSlowPath(satq, num, den)
    ELSE IF FastByUnit(num, den)
    THEN Division(num.hi * PerSecond(den.lo \div kTicksPerNanosecond) + num.lo \div den.lo,
                  MakeDuration(0, num.lo % den.lo))
    ELSE IF FastBySeconds(den) THEN IDivBySeconds(num, den.hi)
    ELSE IDivSlowPath(satq, num, den)

IDivDuration(num, den) == IDivDurationImpl(TRUE, num, den)
Mod(a, b) == IDivDurationImpl(FALSE, a, b).rem

Trunc(a, unit) == Minus(a, Mod(a, unit))
Floor(a, unit) ==
    LET td == Trunc(a, unit) IN IF ~Less(a, td) THEN td ELSE Minus(td, AbsDuration(unit))
Ceil(a, unit) ==
    LET td == Trunc(a, unit) IN IF ~Less(td, a) THEN td ELSE Plus(td, AbsDuration(unit))

\* FromInt64 of a unit below a second, of which there are n in a second, and of minutes (or hours).
FromInt64(v, n) ==
    LET ticks == Quotient(Remainder(v, n) * kTicksPerSecond, n)
    IN IF ticks < 0 THEN MakeDuration(Quotient(v, n) - 1, ticks + kTicksPerSecond)
       ELSE MakeDuration(Quotient(v, n), ticks)
Minutes(v) ==
    IF v <= Quotient(kint64max, SecondsPerMinute) /\ v >= Quotient(kint64min, SecondsPerMinute)
    THEN MakeDuration(v * SecondsPerMinute, 0)
    ELSE Infinity(v <= 0)
Nanoseconds(v) == FromInt64(v, NanosPerSecond)

\* Counts below this need no check for overflow: 2^33 for nanoseconds, 2^43, 2^53.
FastLimit(n) == Max({2^k : k \in {j \in 0..HiBits : 2^j * n <= 2^(HiBits - 1)}})
IsFast(a, n) == a.hi >= 0 /\ a.hi < FastLimit(n)
FastCount(a, n) == a.hi * n + a.lo \div (kTicksPerSecond \div n)

\* ToInt64Nanoseconds, ToInt64Microseconds, ToInt64Milliseconds: n in a second.
ToInt64(a, n) == IF IsFast(a, n) THEN FastCount(a, n) ELSE IDivDuration(a, FromInt64(1, n)).q

ToInt64Seconds(a) == IF ~IsInfiniteDuration(a) /\ a.hi < 0 /\ a.lo # 0 THEN a.hi + 1 ELSE a.hi
ToInt64Minutes(a) ==
    IF IsInfiniteDuration(a) THEN a.hi ELSE Quotient(ToInt64Seconds(a), SecondsPerMinute)

FloorToUnit(a, unit) ==
    LET div == IDivDuration(a, unit)
    IN IF div.q > 0 \/ ~Less(div.rem, ZeroDuration) \/ div.q = kint64min THEN div.q ELSE div.q - 1

\* ToUnixNanos, ToUnixMicros, ToUnixMillis.
ToUnix(a, n) == IF IsFast(a, n) THEN FastCount(a, n) ELSE FloorToUnit(a, FromInt64(1, n))

\* The ends of a timespec, and that of d (truncated towards zero) and of a Time (floored).
time_t == -(2^(TimeTBits - 1))..(2^(TimeTBits - 1) - 1)
Timespec(sec, nsec) == [tv_sec |-> sec, tv_nsec |-> nsec]
EndOfTime(a) ==
    IF Less(a, ZeroDuration) THEN Timespec(Min(time_t), 0)
    ELSE Timespec(Max(time_t), NanosPerSecond - 1)

ToTimespec(a) ==
    LET lo == IF a.hi < 0 THEN a.lo + kTicksPerNanosecond - 1 ELSE a.lo
        carry == IF a.hi < 0 /\ lo >= kTicksPerSecond THEN 1 ELSE 0
    IN IF IsInfiniteDuration(a) \/ a.hi + carry \notin time_t THEN EndOfTime(a)
       ELSE Timespec(a.hi + carry, (lo - carry * kTicksPerSecond) \div kTicksPerNanosecond)

TimeToTimespec(a) ==
    IF IsInfiniteDuration(a) \/ a.hi \notin time_t THEN EndOfTime(a)
    ELSE Timespec(a.hi, a.lo \div kTicksPerNanosecond)

DurationFromTimespec(ts) ==
    IF ts.tv_nsec \in 0..(NanosPerSecond - 1)
    THEN MakeDuration(ts.tv_sec, ts.tv_nsec * kTicksPerNanosecond)
    ELSE Plus(MakeDuration(ts.tv_sec, 0), Nanoseconds(ts.tv_nsec))
-----------------------------------------------------------------------------
(* Arithmetic without bounds: ticks, where Big stands for infinity. *)
Finite == (kint64min * kTicksPerSecond)..(kint64max * kTicksPerSecond + kTicksPerSecond - 1)
Big == 4^HiBits * kTicksPerSecond
Infinities == {-Big, Big}

Value(a) ==
    IF IsInfiniteDuration(a) THEN IF a.hi < 0 THEN -Big ELSE Big
    ELSE a.hi * kTicksPerSecond + a.lo

Saturated(x) == IF x \in Finite THEN x ELSE IF x < 0 THEN -Big ELSE Big
Clamp(x) == Max({kint64min, Min({kint64max, x})})
Sign(x) == IF x < 0 THEN -1 ELSE 1

\* Infinity is sticky.
SumOf(x, y) == IF x \in Infinities THEN x ELSE IF y \in Infinities THEN y ELSE Saturated(x + y)
QuotientOf(x, y) ==
    IF x \in Infinities \/ y = 0 THEN Sign(x) * Sign(y) * Big
    ELSE IF y \in Infinities THEN 0 ELSE Quotient(x, y)
RemainderOf(x, y) ==
    IF x \in Infinities \/ y = 0 THEN Sign(x) * Big
    ELSE IF y \in Infinities THEN x ELSE Remainder(x, y)

Become(a, x) == d' = a /\ exact' = x

Durations ==
    {MakeDuration(hi, lo) : hi \in Int64, lo \in 0..(kTicksPerSecond - 1)}
        \cup {InfiniteDuration, NegativeInfinity}

Init == d = ZeroDuration /\ exact = 0

Add(b) == Become(Plus(d, b), SumOf(exact, Value(b)))
Subtract(b) == Become(Minus(d, b), SumOf(exact, -Value(b)))
Negate == Become(Negated(d), Saturated(-exact))
Multiply(r) ==
    Become(Times(d, r), IF exact \in Infinities THEN exact * Sign(r) ELSE Saturated(exact * r))
Divide(r) == Become(DividedBy(d, r), Saturated(QuotientOf(exact, r)))
TakeMod(b) == Become(Mod(d, b), RemainderOf(exact, Value(b)))
Construct(v, n) == Become(FromInt64(v, n), v * (kTicksPerSecond \div n))
ConstructMinutes(v) == Become(Minutes(v), Saturated(v * SecondsPerMinute * kTicksPerSecond))
ConstructTimespec(sec, nsec) ==
    Become(DurationFromTimespec(Timespec(sec, nsec)),
           Saturated((sec * NanosPerSecond + nsec) * kTicksPerNanosecond))

Units == {PerSecond(u) : u \in FastNanos}

Next ==
    \/ \E b \in Durations : Add(b) \/ Subtract(b) \/ TakeMod(b)
    \/ Negate
    \/ \E r \in Int64 : Multiply(r) \/ Divide(r) \/ ConstructMinutes(r)
    \/ \E v \in Int64, n \in Units \cup {1} : Construct(v, n)
    \/ \E sec \in time_t, nsec \in Int64 : ConstructTimespec(sec, nsec)

Spec == Init /\ [][Next]_vars
-----------------------------------------------------------------------------
\* The operators compute what exact arithmetic does, saturating at the infinities, and no value
\* leaves its width on the way: after every sequence of operations d has a valid representation
\* of the exact value.
ArithmeticExact == d \in Durations /\ Value(d) = exact

\* operator< is the order of the values, on both sides of the infinities.
OrderExact == \A b \in Durations : Less(d, b) <=> Value(d) < Value(b)

\* IDivDuration keeps num = den * q + rem, with a quotient that is capped to an int64_t and a
\* remainder that takes the difference, whichever of its paths is taken.
DivisionExact ==
    \A b \in Durations \ {ZeroDuration} : ~IsInfiniteDuration(d) =>
        LET div == IDivDuration(d, b)
        IN /\ div.q = Clamp(QuotientOf(exact, Value(b)))
           /\ div.rem \in Durations
           /\ ~IsInfiniteDuration(b) => Value(div.rem) = exact - Value(b) * div.q

\* Trunc, Floor and Ceil round to a multiple of the unit, towards zero, down and up.  The unit
\* of kint64min seconds, which has no absolute value, is left out.
RoundingExact ==
    \A u \in Durations \ {ZeroDuration, MakeDuration(kint64min, 0)} :
        ~IsInfiniteDuration(u) /\ ~IsInfiniteDuration(d) =>
            LET unit == Max({Value(u), -Value(u)})
            IN /\ Value(Trunc(d, u)) = Quotient(exact, unit) * unit
               /\ Value(Floor(d, u)) = Saturated((exact \div unit) * unit)
               /\ Value(Ceil(d, u)) = Saturated(-((-exact) \div unit) * unit)

\* Conversions saturate.  Those of a Duration truncate, those of a Time floor; a timespec is
\* normalised, and going through one loses nothing but the ticks below a nanosecond.
ConversionsExact ==
    /\ \A n \in Units :
          /\ ToInt64(d, n) = Clamp(Quotient(exact, kTicksPerSecond \div n))
          /\ ToUnix(d, n) = Clamp(exact \div (kTicksPerSecond \div n))
    /\ ToInt64Seconds(d) = Clamp(Quotient(exact, kTicksPerSecond))
    /\ ToInt64Minutes(d) = Clamp(Quotient(exact, kTicksPerSecond * SecondsPerMinute))
    /\ LET Nanos(ts) == ts.tv_sec * NanosPerSecond + ts.tv_nsec
           Within(x) == Max({Nanos(Timespec(Min(time_t), 0)),
                             Min({x, Nanos(Timespec(Max(time_t), NanosPerSecond - 1))})})
       IN /\ Nanos(ToTimespec(d)) = Within(Quotient(exact, kTicksPerNanosecond))
          /\ Nanos(TimeToTimespec(d)) = Within(exact \div kTicksPerNanosecond)
          /\ ToTimespec(d).tv_nsec \in 0..(NanosPerSecond - 1)
=============================================================================
