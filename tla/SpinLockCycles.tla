--------------------------- MODULE SpinLockCycles ---------------------------
(***************************************************************************)
(* The encoding of a wait time in the upper bits of the SpinLock word:     *)
(* SpinLock::EncodeWaitCycles and DecodeWaitCycles (spinlock.cc), with the *)
(* width of the word and the timestamp shift as constants (32 and 7 in the *)
(* code).  The two cycle-clock readings of SlowLock are the state: the     *)
(* second is taken after each delay, possibly on another CPU whose counter *)
(* is behind.                                                              *)
(***************************************************************************)
EXTENDS Integers, FiniteSetsExt

CONSTANTS
    WordBits,               \* 32: the lock word is a uint32_t
    kProfileTimestampShift, \* 7
    MaxTime                 \* bound: the largest reading of CycleClock::Now

VARIABLES wait_start_time, wait_end_time

vars == <<wait_start_time, wait_end_time>>

kLockwordReservedShift == 3
kSpinLockSleeper == 8

\* kWaitTimeMask keeps everything above the three reserved bits.
MaskWaitTime(w) == (w \div 8) * 8

\* static_cast<uint32_t>(std::min(scaled_wait_time, kMaxWaitTime) << kLockwordReservedShift)
Clamped(scaled) ==
    LET kMaxWaitTime == (2^WordBits - 1) \div 2^kLockwordReservedShift
    IN (Min({scaled, kMaxWaitTime}) * 2^kLockwordReservedShift) % 2^WordBits

\* Arithmetic shift of the (signed) difference; zero becomes kSpinLockSleeper, which is
\* itself never used for a measured wait.
EncodeWaitCycles(start, end) ==
    LET c == Clamped((end - start) \div 2^kProfileTimestampShift)
    IN CASE c = 0                -> kSpinLockSleeper
         [] c = kSpinLockSleeper -> kSpinLockSleeper + 2^kLockwordReservedShift
         [] OTHER                -> c

DecodeWaitCycles(w) ==
    MaskWaitTime(w) * 2^(kProfileTimestampShift - kLockwordReservedShift)

Init == wait_start_time \in 0..MaxTime /\ wait_end_time = wait_start_time

\* wait_start_time = CycleClock::Now() on entry to the wait.
StartWait ==
    /\ wait_start_time' \in 0..MaxTime
    /\ wait_end_time' = wait_start_time'

\* CycleClock::Now() after a delay.
ReadClock ==
    /\ wait_end_time' \in 0..MaxTime
    /\ UNCHANGED wait_start_time

Next == StartWait \/ ReadClock

Spec == Init /\ [][Next]_vars
-----------------------------------------------------------------------------
Elapsed == wait_end_time - wait_start_time
Encoded == EncodeWaitCycles(wait_start_time, wait_end_time)

\* A thread that waited always leaves wait bits in the word, and only there, even when
\* the clock ran backwards: otherwise its unlock() would wake nobody.
EncodingIsWaitBits ==
    /\ Encoded \in 1..(2^WordBits - 1)
    /\ MaskWaitTime(Encoded) = Encoded

\* kSpinLockSleeper alone stands for "nothing measured": a measured wait is never
\* mistaken for it, so SlowUnlock reports exactly the contended acquisitions.
SleeperMeansUnmeasured ==
    Elapsed >= 0 =>
        (Encoded = kSpinLockSleeper <=> Elapsed < 2^kProfileTimestampShift)

\* A decoded wait time is the elapsed time rounded down to the granularity, except for
\* one unit (reported as two) and for waits beyond the field, which report its maximum.
DecodedIsElapsed ==
    LET unit  == 2^kProfileTimestampShift
        limit == (2^WordBits - 1) \div 8
    IN Elapsed >= unit =>
         DecodeWaitCycles(Encoded) =
            Max({2, Min({Elapsed \div unit, limit})}) * unit
=============================================================================
