----------------------------- MODULE CompactBits -----------------------------
(***************************************************************************)
(* The difficulty arithmetic of header.ts: targets, their compact form and *)
(* the retarget.  The compact form has a mantissa of three digits, the top *)
(* bit of which is a sign, and an exponent; a digit is a byte there and    *)
(* one of Radix here, a target has 32 of them there.                       *)
(***************************************************************************)
EXTENDS Integers, FiniteSetsExt

CONSTANTS
  Radix,            \* 256 in the code
  TargetDigits,     \* 32
  targetTimespan,   \* 1 209 600
  PowLimitExponent, PowLimitMantissa,
  LongestPeriod     \* bound on the timespans of a run

\* A shift by so many digits multiplies, or divides, by this.
Power[digits \in 0 .. TargetDigits + 1] ==
  IF digits = 0 THEN 1 ELSE Power[digits - 1] * Radix

SignBit == Power[3] \div 2

Compact == [exponent : 0 .. TargetDigits + 1, mantissa : 0 .. Power[3] - 1]

powLimitBits == [exponent |-> PowLimitExponent, mantissa |-> PowLimitMantissa]

NoTarget == -1   \* a negative target, or an overflow

bitsToTarget(bits) ==
  LET target == IF bits.exponent <= 3
                THEN bits.mantissa \div Power[3 - bits.exponent]
                ELSE bits.mantissa * Power[bits.exponent - 3]
  IN  IF bits.mantissa >= SignBit \/ target >= Power[TargetDigits] THEN NoTarget ELSE target

ASSUME BitsAssumption ==
  /\ Radix \in Nat \ {0} /\ Radix % 2 = 0 /\ TargetDigits \in Nat /\ TargetDigits >= 3
  /\ targetTimespan \in Nat \ {0} /\ targetTimespan % 4 = 0
  /\ powLimitBits \in Compact /\ bitsToTarget(powLimitBits) # NoTarget

SizeOf(target) == Min({n \in 0 .. TargetDigits : target < Power[n]})

Mantissa(target, size) ==
  IF size <= 3 THEN target * Power[3 - size] ELSE target \div Power[size - 3]

\* A mutant: the sign bit is overlooked.
TargetToBitsUnsigned(target) ==
  [exponent |-> SizeOf(target), mantissa |-> Mantissa(target, SizeOf(target))]

\* A mantissa that would set the sign bit gives up a digit.
targetToBits(target) ==
  LET size    == SizeOf(target)
      compact == Mantissa(target, size)
  IN  IF compact >= SignBit
      THEN [exponent |-> size + 1, mantissa |-> compact \div Radix]
      ELSE [exponent |-> size, mantissa |-> compact]

\* The timespan of a period that counts.
Clamped(timespan) ==
  Max({targetTimespan \div 4, Min({targetTimespan * 4, timespan})})

calcNextBits(prevBits, firstTime, lastTime) ==
  LET scaled == (bitsToTarget(prevBits) * Clamped(lastTime - firstTime)) \div targetTimespan
  IN  targetToBits(Min({scaled, bitsToTarget(powLimitBits)}))

workFromBits(bits) == Power[TargetDigits] \div (bitsToTarget(bits) + 1)

\* The floor that every verifier of a bundle puts under a header's own target.
checkPowLimit(bits) ==
  bitsToTarget(bits) # NoTarget /\ bitsToTarget(bits) <= bitsToTarget(powLimitBits)

-----------------------------------------------------------------------------
\* A chain from the limit on, one period after another; clocks may run backwards.

VARIABLE closing   \* the bits of the last period

NoPeriod == [exponent |-> -1, mantissa |-> 0]

BitsInit == closing = powLimitBits

PeriodEnds ==
  \E timespan \in -1 .. LongestPeriod : closing' = calcNextBits(closing, 1, 1 + timespan)

BitsSpec == BitsInit /\ [][PeriodEnds]_closing

Targets == {bitsToTarget(bits) : bits \in Compact} \ {NoTarget}

(***************************************************************************)
(* A chain that retargets is one the verifiers take and the sync can weigh. *)
(* Whatever its periods took, the next target is the largest that can be   *)
(* written in compact form and is neither above the limit nor above the    *)
(* scaled one, so at most four times easier and, but for digits lost, four *)
(* times harder; it reads back, passes the floor, and a period's blocks    *)
(* never count for less work when they are harder to find.                 *)
(***************************************************************************)
RetargetsAreConsensus ==
  closing # NoPeriod => \A timespan \in -1 .. LongestPeriod :
    LET target == bitsToTarget(closing)
        next   == calcNextBits(closing, 1, 1 + timespan)
        May(t) == /\ t <= bitsToTarget(powLimitBits)
                  /\ t <= 4 * target
                  /\ \/ 4 * t <= target
                     \/ t * targetTimespan <= target * timespan
    IN  /\ checkPowLimit(next)
        /\ May(bitsToTarget(next))
        /\ \A t \in Targets : May(t) => t <= bitsToTarget(next)
        /\ bitsToTarget(next) < target => workFromBits(next) >= workFromBits(closing)
        /\ workFromBits(next) > workFromBits(closing) => bitsToTarget(next) < target
=============================================================================
