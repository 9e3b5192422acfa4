------------------------ MODULE MonotonicInstantProofs ------------------------
(***************************************************************************)
(* Proofs about talpid-time's elapsed-time arithmetic for every value of   *)
(* NSEC_PER_SEC and of the bound on tv_sec.                                *)
(***************************************************************************)
EXTENDS MonotonicInstant, TLAPS

USE InstantConstantsAssumption

(* Two normalised TimeSpecs of the same length in nanoseconds are equal:   *)
(* the representation the reference chooses from is unique.               *)
LEMMA NanosInjective ==
    ASSUME NEW a \in Instants, NEW b \in Instants, Nanos(a) = Nanos(b)
    PROVE  a = b
<1> DEFINE N == NSEC_PER_SEC
<1>1. a.sec \in Nat /\ b.sec \in Nat /\ a.nsec \in 0..N - 1 /\ b.nsec \in 0..N - 1
    BY DEF Instants
<1>2. a.sec = b.sec
    <2>1. CASE a.sec < b.sec
          <3>1. b.sec * N >= a.sec * N + N
                BY <1>1, <2>1
          <3>2. FALSE
                BY <1>1, <3>1 DEF Nanos
          <3>3. QED BY <3>2
    <2>2. CASE b.sec < a.sec
          <3>1. a.sec * N >= b.sec * N + N
                BY <1>1, <2>2
          <3>2. FALSE
                BY <1>1, <3>1 DEF Nanos
          <3>3. QED BY <3>2
    <2>3. QED BY <1>1, <2>1, <2>2
<1>3. a.nsec = b.nsec
    BY <1>1, <1>2 DEF Nanos
<1>4. QED BY <1>2, <1>3 DEF Instants

(* checked_duration_since is None exactly when self is the earlier         *)
(* instant, and otherwise a normalised TimeSpec whose length is the exact *)
(* difference.                                                             *)
LEMMA CheckedDurationSinceExact ==
    ASSUME NEW s \in Instants, NEW e \in Instants
    PROVE  /\ Nanos(s) < Nanos(e) => CheckedDurationSince(s, e) = NoDuration
           /\ Nanos(s) >= Nanos(e) =>
                /\ CheckedDurationSince(s, e) \in Instants
                /\ Nanos(CheckedDurationSince(s, e)) = Nanos(s) - Nanos(e)
<1> DEFINE N == NSEC_PER_SEC
<1>1. s.sec \in 0..MaxSec /\ e.sec \in 0..MaxSec
      /\ s.nsec \in 0..N - 1 /\ e.nsec \in 0..N - 1
    BY DEF Instants
<1>0. Nanos(s) \in Int /\ Nanos(e) \in Int
    BY <1>1 DEF Nanos
<1>2. CASE s.nsec < e.nsec
    <2> DEFINE d == [sec |-> s.sec - e.sec - 1, nsec |-> N - e.nsec + s.nsec]
    <2>1. CheckedDurationSince(s, e) = IF s.sec - e.sec - 1 < 0 THEN NoDuration ELSE d
          BY <1>2 DEF CheckedDurationSince
    <2>2. (s.sec - e.sec - 1) * N = s.sec * N - e.sec * N - N
          BY <1>1
    <2>3. Nanos(s) - Nanos(e) = (s.sec - e.sec - 1) * N + (N - e.nsec + s.nsec)
          BY <1>1, <2>2 DEF Nanos
    <2>4. CASE s.sec - e.sec - 1 < 0
          <3>1. s.sec <= e.sec
                BY <1>1, <2>4
          <3>2. s.sec * N <= e.sec * N
                BY <1>1, <3>1
          <3>3. Nanos(s) < Nanos(e)
                BY <1>1, <1>2, <3>2 DEF Nanos
          <3>4. QED BY <1>0, <2>1, <2>4, <3>3
    <2>5. CASE s.sec - e.sec - 1 >= 0
          <3>1. d \in Instants
                BY <1>1, <1>2, <2>5 DEF Instants
          <3>2. (s.sec - e.sec - 1) * N >= 0
                BY <1>1, <2>5
          <3>3. Nanos(s) >= Nanos(e)
                BY <1>0, <1>1, <1>2, <2>3, <3>2
          <3>4. Nanos(d) = Nanos(s) - Nanos(e)
                BY <2>3 DEF Nanos
          <3>5. QED BY <1>0, <1>1, <2>1, <2>5, <3>1, <3>3, <3>4
    <2>6. QED BY <2>4, <2>5, <1>1
<1>3. CASE ~(s.nsec < e.nsec)
    <2> DEFINE d == [sec |-> s.sec - e.sec, nsec |-> s.nsec - e.nsec]
    <2>1. CheckedDurationSince(s, e) = IF s.sec - e.sec < 0 THEN NoDuration ELSE d
          BY <1>3 DEF CheckedDurationSince
    <2>2. (s.sec - e.sec) * N = s.sec * N - e.sec * N
          BY <1>1
    <2>3. Nanos(s) - Nanos(e) = (s.sec - e.sec) * N + (s.nsec - e.nsec)
          BY <1>1, <2>2 DEF Nanos
    <2>4. CASE s.sec - e.sec < 0
          <3>1. s.sec + 1 <= e.sec
                BY <1>1, <2>4
          <3>2. s.sec * N + N <= e.sec * N
                BY <1>1, <3>1
          <3>3. Nanos(s) < Nanos(e)
                BY <1>1, <3>2 DEF Nanos
          <3>4. QED BY <1>0, <2>1, <2>4, <3>3
    <2>5. CASE s.sec - e.sec >= 0
          <3>1. d \in Instants
                BY <1>1, <1>3, <2>5 DEF Instants
          <3>2. (s.sec - e.sec) * N >= 0
                BY <1>1, <2>5
          <3>3. Nanos(s) >= Nanos(e)
                BY <1>0, <1>1, <1>3, <2>3, <3>2
          <3>4. Nanos(d) = Nanos(s) - Nanos(e)
                BY <2>3 DEF Nanos
          <3>5. QED BY <1>0, <1>1, <2>1, <2>5, <3>1, <3>3, <3>4
    <2>6. QED BY <2>4, <2>5, <1>1
<1>4. QED BY <1>2, <1>3

(* checked_duration_since computes the reference difference.              *)
LEMMA CheckedMatchesReference ==
    ASSUME NEW s \in Instants, NEW e \in Instants
    PROVE  CheckedDurationSince(s, e) = ElapsedRef(s, e)
<1>1. Nanos(s) \in Int /\ Nanos(e) \in Int
    BY DEF Instants, Nanos
<1>2. CASE Nanos(s) < Nanos(e)
    BY <1>2, CheckedDurationSinceExact DEF ElapsedRef
<1>3. CASE ~(Nanos(s) < Nanos(e))
    <2> DEFINE d == CheckedDurationSince(s, e)
    <2>1. d \in Instants /\ Nanos(d) = Nanos(s) - Nanos(e)
          BY <1>1, <1>3, CheckedDurationSinceExact
    <2>2. \A r \in Instants : Nanos(r) = Nanos(s) - Nanos(e) => r = d
          BY <2>1, NanosInjective
    <2>3. (CHOOSE r \in Instants : Nanos(r) = Nanos(s) - Nanos(e)) = d
          BY <2>1, <2>2
    <2>4. QED BY <1>3, <2>3 DEF ElapsedRef
<1>4. QED BY <1>2, <1>3

(* The results a measurement leaves behind are the code's results for the *)
(* two instants it measured.                                               *)
MeasureInv ==
    /\ TypeOK
    /\ checked = CheckedDurationSince(mSelf, mEarlier)
    /\ elapsed = DurationSince(mSelf, mEarlier)

(* A measurement returns a Duration in range, or None.                      *)
LEMMA ResultsType ==
    ASSUME NEW s \in Instants, NEW e \in Instants
    PROVE  /\ CheckedDurationSince(s, e) \in Durations \cup {NoDuration}
           /\ DurationSince(s, e) \in Durations
<1>1. Instants \subseteq Durations
    BY DEF Instants, Durations
<1>2. ZERO \in Durations
    BY DEF ZERO, Durations
<1>3. CheckedDurationSince(s, e) \in Instants \cup {NoDuration}
    BY CheckedDurationSinceExact DEF Nanos, Instants
<1>4. QED BY <1>1, <1>2, <1>3 DEF DurationSince

(* The first measurement is the code's: Init satisfies the invariant.   *)
THEOREM MeasureInit == Init => MeasureInv
<1> SUFFICES ASSUME Init PROVE MeasureInv
    OBVIOUS
<1>1. clock \in Instants /\ start \in Instants
    BY DEF Init
<1>2. QED BY <1>1, ResultsType DEF Init, MeasureInv, TypeOK

(* Every step (clock tick, Instant::now, or a measurement by              *)
(* checked_duration_since and duration_since) preserves it.               *)
THEOREM MeasureNext == MeasureInv /\ [Next]_vars => MeasureInv'
<1> SUFFICES ASSUME MeasureInv, [Next]_vars PROVE MeasureInv'
    OBVIOUS
<1>1. CASE Tick
    BY <1>1 DEF Tick, MeasureInv, TypeOK
<1>2. CASE Now
    BY <1>2 DEF Now, MeasureInv, TypeOK
<1>3. CASE Measure
    <2>1. PICK pair \in {<<clock, start>>, <<start, clock>>} :
                 /\ mSelf' = pair[1]
                 /\ mEarlier' = pair[2]
                 /\ checked' = CheckedDurationSince(pair[1], pair[2])
                 /\ elapsed' = DurationSince(pair[1], pair[2])
          BY <1>3 DEF Measure
    <2>2. pair[1] \in Instants /\ pair[2] \in Instants
          BY <2>1 DEF MeasureInv, TypeOK
    <2>3. QED BY <1>3, <2>1, <2>2, ResultsType DEF Measure, MeasureInv, TypeOK
<1>4. CASE UNCHANGED vars
    BY <1>4 DEF vars, MeasureInv, TypeOK
<1>5. QED BY <1>1, <1>2, <1>3, <1>4 DEF Next

(* Every state the clock and the two measurements reach satisfies the     *)
(* inductive invariant.                                                    *)
THEOREM MeasureCorrect == Spec => []MeasureInv
BY MeasureInit, MeasureNext, PTL DEF Spec

(* For every NSEC_PER_SEC and every bound on tv_sec, checked_duration_since *)
(* and duration_since agree with the exact difference of the instants.    *)
THEOREM DurationCorrect == Spec => []DurationMatchesReference
<1>1. MeasureInv => DurationMatchesReference
    BY CheckedMatchesReference DEF MeasureInv, TypeOK, DurationMatchesReference, DurationSince
<1>2. QED BY <1>1, MeasureCorrect, PTL

(* The type invariant of the run: the clock and every instant stay within  *)
(* the TimeSpec range clock_gettime returns, and every result is a         *)
(* normalised Duration or None.                                            *)
THEOREM InstantTypeOK == Spec => []TypeOK
<1>1. MeasureInv => TypeOK
    BY DEF MeasureInv
<1>2. QED BY <1>1, MeasureCorrect, PTL
=============================================================================
