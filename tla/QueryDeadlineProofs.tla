------------------------ MODULE QueryDeadlineProofs ------------------------
(***************************************************************************)
(* Deadlines are kept, for seconds, milliseconds and ints of any size, so  *)
(* for those of the machine.                                               *)
(***************************************************************************)
EXTENDS QueryDeadline, TLAPS

----------------------------------------------------------------------------
(***************************************************************************)
(* Arithmetic.                                                             *)
(***************************************************************************)
LEMMA Division ==
  ASSUME NEW k \in Nat \ {0}, NEW x \in Nat
  PROVE  /\ x \div k \in Nat
         /\ x % k \in Nat /\ x % k < k
         /\ x = k * (x \div k) + (x % k)
OBVIOUS

USE DeadlineAssumption

LEMMA Product ==
  ASSUME NEW k \in Int, NEW x \in Int, NEW y \in Int
  PROVE  k * x \in Int /\ k * (x + y) = k * x + k * y /\ k * (x + 1) = k * x + k
OBVIOUS

LEMMA Scaled ==
  ASSUME NEW k \in Nat, NEW x \in Int, NEW y \in Int, x <= y
  PROVE  k * x \in Int /\ k * y \in Int /\ k * x <= k * y
<1>1. k * (y - x) >= 0
  OBVIOUS
<1> QED
  BY <1>1

LEMMA ScaledBelow ==
  ASSUME NEW k \in Nat, NEW x \in Int, NEW y \in Int, x < y
  PROVE  k * x \in Int /\ k * y \in Int /\ k * x + k <= k * y
<1>1. k * (y - x - 1) >= 0
  OBVIOUS
<1> QED
  BY <1>1

LEMMA SecondType ==
  NsPerSec \in Nat \ {0} /\ NsPerSec = NsPerMs * MsPerSec
BY DEF NsPerSec

LEMMA IntOf ==
  ASSUME NEW m \in Unsigned
  PROVE  /\ AsInt(m) \in Int
         /\ m <= IntMax => AsInt(m) = m
         /\ m > IntMax => AsInt(m) < 0 /\ AsInt(m) + MsPerSec <= m
BY DEF Unsigned, AsInt

(* div gives a quotient and a remainder of the same sign as the timeout. *)
LEMMA QuotRem ==
  ASSUME NEW i \in Int
  PROVE  /\ Quot(i) \in Int /\ Rem(i) \in Int
         /\ -MsPerSec < Rem(i) /\ Rem(i) < MsPerSec
         /\ i >= 0 => Rem(i) >= 0
<1>1. CASE i >= 0
  <2>1. /\ i \div MsPerSec \in Nat
        /\ i % MsPerSec \in Nat /\ i % MsPerSec < MsPerSec
        /\ i = MsPerSec * (i \div MsPerSec) + (i % MsPerSec)
    <3>1. i \in Nat
      BY <1>1
    <3> QED
      BY <3>1, Division
  <2>2. Quot(i) = i \div MsPerSec
    BY <1>1 DEF Quot
  <2>3. Rem(i) = i % MsPerSec
    BY <2>1, <2>2 DEF Rem
  <2> QED
    BY <2>1, <2>2, <2>3
<1>2. CASE i < 0
  <2> DEFINE j == -i
  <2>1. /\ j \div MsPerSec \in Nat
        /\ j % MsPerSec \in Nat /\ j % MsPerSec < MsPerSec
        /\ j = MsPerSec * (j \div MsPerSec) + (j % MsPerSec)
    <3>1. j \in Nat
      BY <1>2
    <3> HIDE DEF j
    <3> QED
      BY <3>1, Division
  <2>2. Quot(i) = -(j \div MsPerSec)
    BY <1>2 DEF Quot
  <2> DEFINE q == j \div MsPerSec
  <2>3. MsPerSec * (-q) = -(MsPerSec * q)
    BY <2>1
  <2>4. Rem(i) = -(j % MsPerSec)
    <3>1. Rem(i) = i - MsPerSec * (-q)
      BY <2>2 DEF Rem
    <3> DEFINE d == MsPerSec * q
    <3>2. d \in Int
      BY <2>1, Product
    <3>3. Rem(i) = i + d /\ -i = d + (j % MsPerSec) /\ j % MsPerSec \in Int
      BY <2>1, <2>3, <3>1, <3>2
    <3> HIDE DEF d, j, q
    <3> QED
      BY <1>2, <3>2, <3>3
  <2> QED
    BY <1>2, <2>1, <2>2, <2>4
<1> QED
  BY <1>1, <1>2

(* The two parts of a deadline add up to what was asked for, whether a second
   is carried over or not. *)
LEMMA DeadlineIs ==
  ASSUME now \in Nat, NEW m \in Unsigned
  PROVE  /\ Deadline(m) \in [sec : Int, nsec : (-NsPerSec)..NsPerSec]
         /\ NsPerSec * Deadline(m).sec + Deadline(m).nsec = now + NsPerMs * AsInt(m)
         /\ m <= IntMax => Deadline(m).nsec >= 0
<1> DEFINE i == AsInt(m)
           q == Quot(i)
           r == Rem(i)
           s == (now \div NsPerSec) + q
           ns == (now % NsPerSec) + NsPerMs * r
<1>1. /\ now \div NsPerSec \in Nat
      /\ now % NsPerSec \in Nat /\ now % NsPerSec < NsPerSec
      /\ now = NsPerSec * (now \div NsPerSec) + (now % NsPerSec)
  BY SecondType, Division
<1>2. /\ i \in Int /\ q \in Int /\ r \in Int
      /\ -MsPerSec < r /\ r < MsPerSec
      /\ m <= IntMax => r >= 0
  BY IntOf, QuotRem DEF Unsigned
<1>3. /\ NsPerMs * r \in Int
      /\ -NsPerSec <= NsPerMs * r /\ NsPerMs * r + NsPerMs <= NsPerSec
      /\ r >= 0 => NsPerMs * r >= 0
  <2>1. NsPerMs * r + NsPerMs <= NsPerMs * MsPerSec
    BY <1>2, ScaledBelow
  <2>2. NsPerMs * (-MsPerSec) <= NsPerMs * r
    BY <1>2, Scaled
  <2>3. NsPerMs * (-MsPerSec) = -(NsPerMs * MsPerSec)
    OBVIOUS
  <2>4. r >= 0 => NsPerMs * 0 <= NsPerMs * r
    BY <1>2, Scaled
  <2> QED
    BY <1>2, <2>1, <2>2, <2>3, <2>4, SecondType
<1>4. NsPerSec * q + NsPerMs * r = NsPerMs * i
  <2>1. r = i - MsPerSec * q
    BY DEF Rem
  <2> HIDE DEF i, q, r
  <2>2. NsPerMs * (i - MsPerSec * q) = NsPerMs * i - (NsPerMs * MsPerSec) * q
    BY <1>2
  <2> QED
    BY <1>2, <2>1, <2>2, SecondType
<1>5. /\ NsPerSec * s = NsPerSec * (now \div NsPerSec) + NsPerSec * q
      /\ NsPerSec * (s + 1) = NsPerSec * s + NsPerSec
  <2>1. NsPerSec \in Int /\ now \div NsPerSec \in Int /\ q \in Int /\ s \in Int
    BY <1>1, <1>2, SecondType
  <2> HIDE DEF q
  <2>2. NsPerSec * s = NsPerSec * (now \div NsPerSec) + NsPerSec * q
    BY <2>1, Product
  <2> HIDE DEF s
  <2> QED
    BY <2>1, <2>2, Product
<1>6. NsPerSec * s + ns = now + NsPerMs * i
  <2> DEFINE a == NsPerSec * (now \div NsPerSec)
             b == NsPerSec * q
             d == NsPerMs * r
             e == now % NsPerSec
  <2>1. a \in Int /\ b \in Int /\ d \in Int /\ e \in Int /\ NsPerMs * i \in Int
    <3>1. /\ NsPerSec \in Int /\ NsPerMs \in Int /\ e \in Int
          /\ now \div NsPerSec \in Int
      BY <1>1, SecondType
    <3> HIDE DEF q, r, i
    <3> QED
      BY <1>2, <3>1, Product
  <2>2. NsPerSec * s = a + b /\ ns = e + d /\ now = a + e /\ b + d = NsPerMs * i
    BY <1>1, <1>4, <1>5
  <2> HIDE DEF a, b, d, e, s, ns, i
  <2> QED
    BY <2>1, <2>2
<1>7. Deadline(m) = IF ns > NsPerSec THEN [sec |-> s + 1, nsec |-> ns - NsPerSec]
                    ELSE [sec |-> s, nsec |-> ns]
  BY DEF Deadline
<1>8. /\ s \in Int /\ ns \in Int
      /\ -NsPerSec <= ns /\ ns <= NsPerSec + NsPerSec
      /\ m <= IntMax => ns >= 0
  <2> DEFINE d == NsPerMs * r
  <2>1. /\ d \in Int /\ -NsPerSec <= d /\ d + NsPerMs <= NsPerSec
        /\ m <= IntMax => d >= 0
    BY <1>2, <1>3
  <2> HIDE DEF d, q, r
  <2>2. ns = (now % NsPerSec) + d
    BY DEF d
  <2>3. s \in Int
    BY <1>1, <1>2
  <2> DEFINE e == now % NsPerSec
  <2>4. e \in Nat /\ e < NsPerSec /\ ns = e + d
    BY <1>1, <2>2
  <2> HIDE DEF ns, e, s
  <2> QED
    BY <2>1, <2>3, <2>4, SecondType
<1>9. NsPerSec * s \in Int /\ NsPerMs * i \in Int
  BY <1>2, <1>8, SecondType
<1> HIDE DEF s, ns, i
<1> QED
  <2>1. CASE ns > NsPerSec
    <3>1. Deadline(m) = [sec |-> s + 1, nsec |-> ns - NsPerSec]
      BY <1>7, <2>1
    <3> QED
      BY <1>5, <1>6, <1>8, <1>9, <2>1, <3>1, SecondType DEF i
  <2>2. CASE ~(ns > NsPerSec)
    <3>1. Deadline(m) = [sec |-> s, nsec |-> ns]
      BY <1>7, <2>2
    <3> QED
      BY <1>6, <1>8, <1>9, <2>2, <3>1, SecondType DEF i
  <2> QED
    BY <2>1, <2>2

----------------------------------------------------------------------------
(***************************************************************************)
(* Types.                                                                  *)
(***************************************************************************)
LEMMA NowType == TypeOK => now \in Nat /\ since \in Nat /\ seen \in Nat
BY DEF TypeOK

(* Every variable has its type, the nanoseconds of a deadline among them
   (sqlwriter.cc:134-154). *)
THEOREM TypeCorrect == Spec => []TypeOK
<1>1. Init => TypeOK
  <2> SUFFICES ASSUME Init PROVE TypeOK
    OBVIOUS
  <2>1. now \in 0..MaxNow
    <3>1. now \in 0..(NsPerSec - 1)
      BY DEF Init
    <3>2. NsPerSec <= NsPerMs * IntMax
      BY SecondType, Scaled
    <3>3. NsPerMs * IntMax \in Nat
      OBVIOUS
    <3> QED
      BY <3>1, <3>2, <3>3, SecondType
  <2>2. d_ttd \in [sec : Int, nsec : (-NsPerSec)..NsPerSec]
    BY SecondType DEF Init
  <2>3. msec \in Unsigned
    BY DEF Init, Unsigned
  <2>4. now \in Nat /\ since \in 0..now /\ seen \in since..now
    <3>1. since = now /\ seen = now
      BY DEF Init
    <3>2. now \in Nat /\ now \in 0..now /\ now \in now..now
      BY <2>1
    <3> QED
      BY <3>1, <3>2
  <2> QED
    BY <2>1, <2>2, <2>3, <2>4 DEF Init, TypeOK
<1>2. TypeOK /\ [Next]_vars => TypeOK'
  <2> SUFFICES ASSUME TypeOK, [Next]_vars PROVE TypeOK'
    OBVIOUS
  <2>1. ASSUME NEW m \in Unsigned, ExecPrep(m) PROVE TypeOK'
    <3>1. Deadline(m) \in [sec : Int, nsec : (-NsPerSec)..NsPerSec]
      BY NowType, DeadlineIs
    <3>2. /\ now' = now /\ since' = now /\ seen' = now /\ ended' = ended
          /\ running' = TRUE /\ msec' = m
          /\ d_ttd' \in {d_ttd, Deadline(m)} /\ handler' \in {handler, TRUE}
      BY <2>1 DEF ExecPrep
    <3>3. now \in 0..now /\ now \in now..now
      BY NowType
    <3> QED
      BY <3>1, <3>2, <3>3 DEF TypeOK, Unsigned, NsPerSec
  <2>2. ASSUME NEW how \in {"done", "failed", "interrupted"}, Leave(how)
        PROVE  TypeOK'
    BY <2>2 DEF Leave, TypeOK
  <2>3. CASE Step
    BY <2>2, <2>3 DEF Step
  <2>4. CASE Progress
    <3>1. ASSUME seen' = now,
                 UNCHANGED <<now, running, msec, since, d_ttd, handler, ended>>
          PROVE  TypeOK'
      <4>1. now \in since..now
        BY DEF TypeOK
      <4> QED
        BY <3>1, <4>1 DEF TypeOK, Unsigned, NsPerSec
    <3> QED
      BY <2>2, <2>4, <3>1 DEF Progress
  <2>5. CASE Tick
    BY <2>5 DEF Tick, TypeOK
  <2>6. CASE UNCHANGED vars
    BY <2>6 DEF vars, TypeOK
  <2> QED
    BY <2>1, <2>3, <2>4, <2>5, <2>6 DEF Next
<1> QED
  BY <1>1, <1>2, PTL DEF Spec

----------------------------------------------------------------------------
(***************************************************************************)
(* The deadline of a running statement is its start and its timeout.       *)
(***************************************************************************)
Limited == running /\ msec # 0

DeadlineInv ==
  /\ HandlerOfThisCall
  /\ Limited =>
       /\ NsPerSec * d_ttd.sec + d_ttd.nsec = since + NsPerMs * AsInt(msec)
       /\ msec <= IntMax => d_ttd.nsec >= 0
  /\ NeverEarly
  /\ NotLate

(* The handler compares part by part: what that says about the times. *)
LEMMA PastIs ==
  ASSUME TypeOK, Past
  PROVE  NsPerSec * d_ttd.sec + d_ttd.nsec <= now
<1> DEFINE t == now \div NsPerSec
           e == now % NsPerSec
           s == d_ttd.sec
           ns == d_ttd.nsec
<1>1. t \in Nat /\ e \in Nat /\ now = NsPerSec * t + e
  BY NowType, SecondType, Division
<1>2. s \in Int /\ ns \in Int /\ ns <= NsPerSec
  BY SecondType DEF TypeOK
<1>3. s < t \/ (s = t /\ ns < e)
  BY DEF Past
<1> HIDE DEF t, e, s, ns
<1>4. CASE s < t
  <2>1. NsPerSec * s \in Int /\ NsPerSec * t \in Int /\ NsPerSec * s + NsPerSec <= NsPerSec * t
    <3>1. NsPerSec \in Nat /\ s \in Int /\ t \in Int
      BY <1>1, <1>2, SecondType
    <3> QED
      BY <1>4, <3>1, ScaledBelow
  <2> QED
    BY <1>1, <1>2, <2>1, NowType, SecondType DEF s, ns
<1>5. CASE s = t /\ ns < e
  <2>1. NsPerSec * s \in Int
    BY <1>2, SecondType, Product
  <2> QED
    BY <1>1, <1>2, <1>5, <2>1, NowType DEF s, ns
<1> QED
  BY <1>3, <1>4, <1>5

LEMMA NotPastIs ==
  ASSUME TypeOK, ~Past
  PROVE  LET total == NsPerSec * d_ttd.sec + d_ttd.nsec IN
         /\ now <= total + NsPerSec
         /\ d_ttd.nsec >= 0 => now <= total
<1> DEFINE t == now \div NsPerSec
           e == now % NsPerSec
           s == d_ttd.sec
           ns == d_ttd.nsec
<1>1. t \in Nat /\ e \in Nat /\ e < NsPerSec /\ now = NsPerSec * t + e
  BY NowType, SecondType, Division
<1>2. s \in Int /\ ns \in Int /\ -NsPerSec <= ns
  BY SecondType DEF TypeOK
<1>3. ~(s < t) /\ ~(s = t /\ ns < e)
  BY DEF Past
<1> HIDE DEF t, e, s, ns
<1>4. CASE s > t
  <2>1. NsPerSec * s \in Int /\ NsPerSec * t \in Int /\ NsPerSec * t + NsPerSec <= NsPerSec * s
    BY <1>1, <1>2, <1>4, SecondType, ScaledBelow
  <2> QED
    BY <1>1, <1>2, <2>1, NowType, SecondType DEF s, ns
<1>5. CASE s = t /\ ns >= e
  <2>1. NsPerSec * s \in Int
    BY <1>2, SecondType, Product
  <2> QED
    BY <1>1, <1>2, <1>5, <2>1, NowType, SecondType DEF s, ns
<1> QED
  BY <1>1, <1>2, <1>3, <1>4, <1>5

LEMMA TimeoutType ==
  ASSUME TypeOK
  PROVE  /\ msec \in Nat /\ AsInt(msec) \in Int
         /\ NsPerMs * msec \in Nat /\ NsPerMs * AsInt(msec) \in Int
<1>1. msec \in Nat /\ AsInt(msec) \in Int
  BY IntOf DEF TypeOK, Unsigned
<1> QED
  BY <1>1, Product

(* An interrupt comes in time. *)
LEMMA InterruptStep ==
  ASSUME TypeOK, DeadlineInv, running, handler, Past
  PROVE  msec # 0 /\ (msec <= IntMax => now - since >= NsPerMs * msec)
<1>1. Limited
  BY DEF DeadlineInv, HandlerOfThisCall, Limited
<1>2. NsPerSec * d_ttd.sec + d_ttd.nsec = since + NsPerMs * AsInt(msec)
  BY <1>1 DEF DeadlineInv
<1>3. msec <= IntMax => AsInt(msec) = msec
  BY IntOf DEF TypeOK
<1> QED
  BY <1>1, <1>2, <1>3, PastIs, NowType, TimeoutType DEF Limited

(* And a statement that goes on has time left. *)
LEMMA GoesOnStep ==
  ASSUME TypeOK, DeadlineInv, Limited, ~Past
  PROVE  now - since <= NsPerMs * msec
<1> DEFINE i == AsInt(msec)
<1>1. NsPerSec * d_ttd.sec + d_ttd.nsec = since + NsPerMs * i
  BY DEF DeadlineInv
<1>2. CASE msec <= IntMax
  BY <1>1, <1>2, IntOf, NotPastIs, NowType, TimeoutType DEF DeadlineInv, TypeOK
<1>3. CASE msec > IntMax
  <2>1. i \in Int /\ i + MsPerSec <= msec /\ msec \in Int
    BY <1>3, IntOf, TimeoutType DEF TypeOK
  <2>2. now <= (since + NsPerMs * i) + NsPerSec
    BY <1>1, NotPastIs
  <2> HIDE DEF i
  <2>3. NsPerMs * (i + MsPerSec) <= NsPerMs * msec
    BY <2>1, Scaled
  <2>4. NsPerMs * (i + MsPerSec) = NsPerMs * i + NsPerSec
    BY <2>1, Product, SecondType
  <2>5. NsPerMs * i \in Int
    BY <2>1, Product
  <2> QED
    BY <2>2, <2>3, <2>4, <2>5, NowType, TimeoutType, SecondType
<1> QED
  BY <1>2, <1>3, TimeoutType

LEMMA DeadlineStep ==
  ASSUME TypeOK, DeadlineInv, [Next]_vars
  PROVE  DeadlineInv'
<1>1. ASSUME NEW m \in Unsigned, ExecPrep(m) PROVE DeadlineInv'
  <2>1. /\ ~running /\ running' /\ msec' = m /\ since' = now /\ seen' = now
        /\ m # 0 => d_ttd' = Deadline(m)
        /\ m = 0 => handler' = handler
    BY <1>1 DEF ExecPrep
  <2>2. /\ NsPerSec * Deadline(m).sec + Deadline(m).nsec = now + NsPerMs * AsInt(m)
        /\ m <= IntMax => Deadline(m).nsec >= 0
    BY NowType, DeadlineIs
  <2>3. HandlerOfThisCall'
    BY <2>1 DEF HandlerOfThisCall, DeadlineInv
  <2>4. NeverEarly'
    BY <2>1 DEF NeverEarly
  <2>5. NotLate'
    <3>1. NsPerMs * m >= 0 /\ now - now = 0
      BY NowType, Scaled DEF Unsigned
    <3> QED
      BY <2>1, <3>1 DEF NotLate
  <2>6. (Limited =>
          /\ NsPerSec * d_ttd.sec + d_ttd.nsec = since + NsPerMs * AsInt(msec)
          /\ msec <= IntMax => d_ttd.nsec >= 0)'
    <3> SUFFICES ASSUME Limited'
                 PROVE  /\ NsPerSec * d_ttd'.sec + d_ttd'.nsec = since' + NsPerMs * AsInt(msec')
                        /\ msec' <= IntMax => d_ttd'.nsec >= 0
      BY DEF AsInt, NsPerSec
    <3> QED
      BY <2>1, <2>2 DEF Limited
  <2> QED
    BY <2>3, <2>4, <2>5, <2>6 DEF DeadlineInv
<1>2. CASE Step
  BY <1>2 DEF Step, Leave, DeadlineInv, HandlerOfThisCall, NeverEarly, NotLate, Limited
<1>3. ASSUME running, handler, Past, Leave("interrupted") PROVE DeadlineInv'
  <2>1. msec # 0 /\ (msec <= IntMax => now - since >= NsPerMs * msec)
    BY <1>3, InterruptStep
  <2> QED
    BY <1>3, <2>1 DEF Leave, DeadlineInv, HandlerOfThisCall, NeverEarly, NotLate, Limited
<1>4. ASSUME running, handler, ~Past, seen' = now,
             UNCHANGED <<now, running, msec, since, d_ttd, handler, ended>>
      PROVE  DeadlineInv'
  <2>1. Limited
    BY <1>4 DEF DeadlineInv, HandlerOfThisCall, Limited
  <2>2. now - since <= NsPerMs * msec
    BY <1>4, <2>1, GoesOnStep
  <2> QED
    BY <1>4, <2>2 DEF DeadlineInv, HandlerOfThisCall, NeverEarly, NotLate, Limited, NsPerSec, AsInt
<1>5. CASE Progress
  BY <1>3, <1>4, <1>5 DEF Progress
<1>6. CASE Tick
  <2>1. /\ now' = now + 1
        /\ UNCHANGED <<running, msec, since, d_ttd, handler, seen, ended>>
    BY <1>6 DEF Tick
  <2>2. NeverEarly'
    BY <2>1, NowType, TimeoutType DEF DeadlineInv, NeverEarly
  <2> QED
    BY <2>1, <2>2 DEF DeadlineInv, HandlerOfThisCall, NotLate, Limited, NsPerSec, AsInt
<1>7. CASE UNCHANGED vars
  BY <1>7 DEF vars, DeadlineInv, HandlerOfThisCall, NeverEarly, NotLate, Limited, NsPerSec, AsInt
<1> QED
  BY <1>1, <1>2, <1>5, <1>6, <1>7 DEF Next

LEMMA DeadlineInvariant == Spec => []DeadlineInv
<1>1. Init => DeadlineInv
  BY DEF Init, DeadlineInv, HandlerOfThisCall, NeverEarly, NotLate, Limited
<1> QED
  BY <1>1, DeadlineStep, TypeCorrect, PTL DEF Spec

(* No statement is interrupted before its timeout has passed, if an int can
   hold it, or without one (sqlwriter.cc:134-154). *)
THEOREM Patient == Spec => []NeverEarly
BY DeadlineInvariant, PTL DEF DeadlineInv

(* Whenever the handler lets a statement go on, its timeout has not passed
   (sqlwriter.cc:147-154). *)
THEOREM Punctual == Spec => []NotLate
BY DeadlineInvariant, PTL DEF DeadlineInv

(* The handler is there for a statement with a timeout only, and goes with it
   (sqlwriter.cc:158-164). *)
THEOREM HandlerGoes == Spec => []HandlerOfThisCall
BY DeadlineInvariant, PTL DEF DeadlineInv
=============================================================================
