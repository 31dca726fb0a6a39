------------------------- MODULE ArmArchTimerLibEx -------------------------
(***************************************************************************)
(* ArmArchTimerLibEx: conversions between counter ticks and time, in       *)
(* 64-bit arithmetic.  The counter and its frequency are the hardware's;   *)
(* freq is what GetPlatformTimerFreq returns.                              *)
(***************************************************************************)
EXTENDS Integers, TLAPS

CONSTANTS UINT64_VALUES, UINT32_VALUES,  \* 2^64 and 2^32
          NANO, MICRO                    \* 1,000,000,000 and 1,000,000

\* What the code relies on of these numbers.
NumbersFit ==
  /\ UINT64_VALUES \in Nat /\ UINT32_VALUES \in Nat /\ NANO \in Nat /\ MICRO \in Nat \ {0}
  /\ (UINT32_VALUES - 1) * NANO < UINT64_VALUES

UINT64 == 0 .. (UINT64_VALUES - 1)
MultU64x64(a, b) == (a * b) % UINT64_VALUES

\* GetPlatformTimerFreq asserts that a frequency is not zero; "Frequency < 0x100000000".
Frequencies == 1 .. (UINT32_VALUES - 1)

\* The number of turns of the loop in which MicroSecondDelay waits.
MicroSecondDelay(us, freq) == MultU64x64(us, freq) \div MICRO

\* Nanoseconds are rounded up to microseconds.
MicroSecondsFor(ns) == (ns \div 1000) + (IF ns % 1000 = 0 THEN 0 ELSE 1)
NanoSecondDelay(ns, freq) ==
  MicroSecondDelay(MicroSecondsFor(ns), freq)

GetTimeInNanoSecond(ticks, freq) ==
  ( MultU64x64(ticks \div freq, NANO)
    + MultU64x64(ticks % freq, NANO) \div freq ) % UINT64_VALUES

-----------------------------------------------------------------------------
\* A quotient can be taken of the whole and of the remainder apart.
LEMMA DivisionInParts ==
  ASSUME NEW t \in Nat, NEW n \in Nat, NEW f \in Nat \ {0}
  PROVE  (t * n) \div f = (t \div f) * n + ((t % f) * n) \div f
<1> DEFINE q == t \div f
           r == t % f
           d == (r * n) \div f
           e == (r * n) % f
<1>1. q \in Nat /\ r \in Nat /\ t = f * q + r
  OBVIOUS
<1> HIDE DEF q, r
<1>2. r * n \in Nat
  BY <1>1
<1>3. d \in Nat /\ e \in 0 .. (f - 1) /\ r * n = f * d + e
  BY <1>2
<1> HIDE DEF d, e
<1>4. t * n = f * (q * n + d) + e
  BY <1>1, <1>3
<1>5. q * n + d \in Nat
  BY <1>1, <1>3
<1>6. ASSUME NEW k \in Nat, NEW a \in 0 .. (f - 1)
      PROVE  (f * k + a) \div f = k
  OBVIOUS
<1>7. (f * (q * n + d) + e) \div f = q * n + d
  BY <1>3, <1>5, <1>6
<1> QED
  BY <1>4, <1>7 DEF q, r, d

\* Reducing a summand first changes nothing.
LEMMA ModOfSum ==
  ASSUME NEW a \in Nat, NEW b \in Nat, NEW m \in Nat \ {0}
  PROVE  ((a % m) + b) % m = (a + b) % m
<1> DEFINE q == a \div m
           r == a % m
           p == (r + b) \div m
           s == (r + b) % m
<1>1. q \in Nat /\ r \in Nat /\ a = m * q + r
  OBVIOUS
<1> HIDE DEF q, r
<1>2. p \in Nat /\ s \in 0 .. (m - 1) /\ r + b = m * p + s
  BY <1>1
<1> HIDE DEF p, s
<1>3. a + b = m * (p + q) + s
  BY <1>1, <1>2
<1>4. ASSUME NEW k \in Nat, NEW e \in 0 .. (m - 1)
      PROVE  (m * k + e) % m = e
  OBVIOUS
<1>5. p + q \in Nat
  BY <1>1, <1>2
<1>6. (m * (p + q) + s) % m = s
  BY <1>2, <1>4, <1>5
<1> QED
  BY <1>3, <1>6 DEF r, s

\* GetTimeInNanoSecond is exact: the two divisions, the products of which are cut to 64
\* bits, give the time rounded down once, modulo 2^64.  The product with the remainder does
\* not overflow, as the comment in the code says; the one with the quotient may.
THEOREM NanoSecondsExact ==
  ASSUME NumbersFit, NEW ticks \in UINT64, NEW freq \in Frequencies
  PROVE  /\ (ticks % freq) * NANO \in UINT64
         /\ GetTimeInNanoSecond(ticks, freq) = ((ticks * NANO) \div freq) % UINT64_VALUES
<1> DEFINE q == ticks \div freq
           r == ticks % freq
           d == (r * NANO) \div freq
<1>1. /\ ticks \in Nat /\ freq \in Nat \ {0} /\ freq <= UINT32_VALUES - 1
      /\ NANO \in Nat /\ UINT64_VALUES \in Nat \ {0} /\ UINT32_VALUES \in Nat
      /\ (UINT32_VALUES - 1) * NANO < UINT64_VALUES
  BY DEF UINT64, Frequencies, NumbersFit
<1>2. q \in Nat /\ r \in Nat /\ r < freq
  BY <1>1
<1>3. d \in Nat
  BY <1>1, <1>2
<1>4. (ticks * NANO) \div freq = q * NANO + d
  BY <1>1, DivisionInParts
<1> HIDE DEF q, r
<1>5. r * NANO \in UINT64
  <2>1. r <= UINT32_VALUES - 1
    BY <1>1, <1>2
  <2>2. r * NANO <= (UINT32_VALUES - 1) * NANO
    BY <1>1, <1>2, <2>1
  <2> QED
    BY <1>1, <1>2, <2>2 DEF UINT64
<1>6. MultU64x64(r, NANO) = r * NANO
  BY <1>1, <1>5 DEF MultU64x64, UINT64
<1>7. GetTimeInNanoSecond(ticks, freq) = (((q * NANO) % UINT64_VALUES) + d) % UINT64_VALUES
  BY <1>6 DEF GetTimeInNanoSecond, MultU64x64, q, r
<1> HIDE DEF d
<1>8. q * NANO \in Nat
  BY <1>1, <1>2
<1>9. (((q * NANO) % UINT64_VALUES) + d) % UINT64_VALUES = (q * NANO + d) % UINT64_VALUES
  BY <1>1, <1>3, <1>8, ModOfSum
<1> QED
  BY <1>4, <1>5, <1>7, <1>9 DEF r

\* NanoSecondDelay takes at least as many turns as the delay has whole ticks, as long as the
\* product fits in 64 bits: rounding down to ticks never undoes the rounding up to
\* microseconds.  (A turn of the loop is not a tick: the calls that read the counter are
\* commented out.)
THEOREM DelayNotTooShort ==
  ASSUME NumbersFit, NANO = 1000 * MICRO, NEW ns \in Nat, NEW freq \in Frequencies,
         MicroSecondsFor(ns) * freq \in UINT64
  PROVE  (ns * freq) \div NANO <= NanoSecondDelay(ns, freq)
<1> DEFINE us == MicroSecondsFor(ns)
           y == (ns * freq) \div NANO
           z == us * freq
<1>1. freq \in Nat \ {0} /\ MICRO \in Nat \ {0} /\ NANO \in Nat \ {0} /\ UINT64_VALUES \in Nat
  BY DEF Frequencies, NumbersFit
<1>2. us \in Nat /\ ns <= 1000 * us
  BY DEF MicroSecondsFor
<1>3. ns * freq \in Nat
  BY <1>1
<1>4. y \in Nat /\ NANO * y <= ns * freq
  BY <1>1, <1>3
<1> HIDE DEF us, y
<1>5. z \in Nat /\ ns * freq <= 1000 * z
  BY <1>1, <1>2
<1>6. MicroSecondDelay(us, freq) = z \div MICRO
  <2>1. z \in 0 .. (UINT64_VALUES - 1)
    BY DEF us, UINT64
  <2> QED
    BY <1>1, <2>1 DEF MicroSecondDelay, MultU64x64
<1> HIDE DEF z
<1>7. 1000 * (MICRO * y) <= 1000 * z
  BY <1>1, <1>3, <1>4, <1>5
<1>8. MICRO * y <= z
  BY <1>1, <1>4, <1>5, <1>7
<1>9. ASSUME NEW m \in Nat \ {0}, NEW a \in Nat, NEW b \in Nat, m * a <= b
      PROVE  a <= b \div m
  BY <1>9
<1>10. y <= z \div MICRO
  BY <1>1, <1>4, <1>5, <1>8, <1>9
<1> QED
  BY <1>6, <1>10 DEF NanoSecondDelay, us, y
=============================================================================
