--------------------------- MODULE MonotonicInstant ---------------------------
(***************************************************************************)
(* talpid-time on Unix (talpid-time/src/unix.rs): an Instant is a          *)
(* TimeSpec read from CLOCK_BOOTTIME or CLOCK_MONOTONIC, and the time      *)
(* elapsed between two instants is computed field by field, borrowing one *)
(* second when the nanosecond field of the later instant is the smaller.  *)
(*                                                                         *)
(* NSEC_PER_SEC is a constant so that TLC can take a small value; the     *)
(* arithmetic is the code's for every value of it.  A Duration is a       *)
(* record of whole seconds and nanoseconds below NSEC_PER_SEC, which is   *)
(* what Duration::new makes of arguments that already are in range.       *)
(***************************************************************************)
EXTENDS Integers

CONSTANTS
    NSEC_PER_SEC,  \* nanoseconds per second
    MaxSec,        \* bound on tv_sec of the instants the clock returns
    NoDuration     \* Option<Duration>::None

(* The assumptions the code states at lines 26-28: tv_sec >= 0 and         *)
(* tv_nsec < NSEC_PER_SEC, which clock_gettime guarantees.                 *)
ASSUME InstantConstantsAssumption ==
    /\ NSEC_PER_SEC \in Nat \ {0}
    /\ MaxSec \in Nat
    /\ NoDuration \notin [sec: Int, nsec: Int]

(* The TimeSpec values now() can return.                                   *)
Instants == [sec: 0..MaxSec, nsec: 0..NSEC_PER_SEC - 1]

(* Duration values, normalised.                                            *)
Durations == [sec: Nat, nsec: 0..NSEC_PER_SEC - 1]

ZERO == [sec |-> 0, nsec |-> 0]

(* The length of a TimeSpec or Duration in nanoseconds.                    *)
Nanos(t) == t.sec * NSEC_PER_SEC + t.nsec

(* Mutant: the result is returned without the check for a negative      *)
(* tv_sec.                                                                 *)
CheckedDurationSinceNoNegCheck(self, earlier) ==
    IF self.nsec < earlier.nsec
      THEN [sec |-> self.sec - earlier.sec - 1,
            nsec |-> NSEC_PER_SEC - earlier.nsec + self.nsec]
      ELSE [sec |-> self.sec - earlier.sec,
            nsec |-> self.nsec - earlier.nsec]

(* Mutant: no borrow of a second from tv_sec.                              *)
CheckedDurationSinceNoBorrow(self, earlier) ==
    LET d == IF self.nsec < earlier.nsec
               THEN [sec |-> self.sec - earlier.sec,
                     nsec |-> NSEC_PER_SEC - earlier.nsec + self.nsec]
               ELSE [sec |-> self.sec - earlier.sec,
                     nsec |-> self.nsec - earlier.nsec]
    IN  IF d.sec < 0 THEN NoDuration ELSE d

(* Instant::checked_duration_since                                         *)
CheckedDurationSince(self, earlier) ==
    LET d == IF self.nsec < earlier.nsec
               THEN [sec |-> self.sec - earlier.sec - 1,
                     nsec |-> NSEC_PER_SEC - earlier.nsec + self.nsec]
               ELSE [sec |-> self.sec - earlier.sec,
                     nsec |-> self.nsec - earlier.nsec]
    IN  IF d.sec < 0 THEN NoDuration ELSE d

(* Instant::duration_since: zero when earlier is the later one.            *)
DurationSince(self, earlier) ==
    LET r == CheckedDurationSince(self, earlier)
    IN  IF r = NoDuration THEN ZERO ELSE r

(* Reference: the exact difference of the two instants in nanoseconds, as *)
(* the one normalised Duration of that length, or None when negative.     *)
ElapsedRef(self, earlier) ==
    IF Nanos(self) < Nanos(earlier) THEN NoDuration
    ELSE CHOOSE r \in Instants :
             Nanos(r) = Nanos(self) - Nanos(earlier)

VARIABLES
    clock,    \* the TimeSpec the clock reads now
    start,    \* an instant taken earlier with Instant::now
    mSelf,    \* the receiver (self) of the last measurement
    mEarlier, \* the argument of the last measurement
    checked,  \* what checked_duration_since returned for them
    elapsed   \* what duration_since returned for them

vars == <<clock, start, mSelf, mEarlier, checked, elapsed>>

TypeOK ==
    /\ clock \in Instants
    /\ start \in Instants
    /\ mSelf \in Instants
    /\ mEarlier \in Instants
    /\ checked \in Durations \cup {NoDuration}
    /\ elapsed \in Durations
-----------------------------------------------------------------------------
(* The clock moves forward by at most one second.  The clock is           *)
(* monotonic, but an Instant may also be compared with one taken later,    *)
(* which is what start may be after Now.                                   *)
Tick ==
    /\ \E t \in Instants :
         /\ Nanos(clock) < Nanos(t)
         /\ Nanos(t) <= Nanos(clock) + NSEC_PER_SEC
         /\ clock' = t
    /\ UNCHANGED <<start, mSelf, mEarlier, checked, elapsed>>

(* Instant::now: start takes the clock's reading.                          *)
Now ==
    /\ start' = clock
    /\ UNCHANGED <<clock, mSelf, mEarlier, checked, elapsed>>

(* Both measurements, of the clock against start and of start against the *)
(* clock.                                                                  *)
Measure ==
    /\ \E pair \in {<<clock, start>>, <<start, clock>>} :
         /\ mSelf' = pair[1]
         /\ mEarlier' = pair[2]
         /\ checked' = CheckedDurationSince(pair[1], pair[2])
         /\ elapsed' = DurationSince(pair[1], pair[2])
    /\ UNCHANGED <<clock, start>>

Init ==
    /\ clock \in Instants
    /\ start \in Instants
    /\ Nanos(start) <= Nanos(clock)
    /\ mSelf = clock
    /\ mEarlier = start
    /\ checked = CheckedDurationSince(clock, start)
    /\ elapsed = DurationSince(clock, start)

Next == Tick \/ Now \/ Measure

Spec == Init /\ [][Next]_vars
-----------------------------------------------------------------------------
(* checked_duration_since and duration_since return the exact difference  *)
(* of two instants, normalised (the borrow at line 30 keeps tv_nsec below *)
(* NSEC_PER_SEC and tv_sec exact), None or zero when the earlier instant  *)
(* is the later one, including when only the nanoseconds say so.         *)
DurationMatchesReference ==
    LET ref == ElapsedRef(mSelf, mEarlier)
    IN  /\ checked = ref
        /\ elapsed = IF ref = NoDuration THEN ZERO ELSE ref
=============================================================================
