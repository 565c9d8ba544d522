--------------------------- MODULE QueryDeadline ---------------------------
(***************************************************************************)
(* DeadlineCatcher: execPrep with a timeout computes a deadline, installs  *)
(* a progress handler that SQLite calls again and again while it executes  *)
(* a statement on the connection, and removes it however the execution     *)
(* ends.  One connection executes one statement at a time.                 *)
(*                                                                         *)
(* Time is counted in nanoseconds; how many make a millisecond, how many   *)
(* of those a second, and the width of an int are parameters.              *)
(***************************************************************************)
EXTENDS Integers

CONSTANTS
  NsPerMs,     \* 1000000
  MsPerSec,    \* 1000
  IntMax,      \* 2^31 - 1
  LastStart,   \* bound: no statement starts after this time
  MaxNow       \* bound: when time stops

ASSUME DeadlineAssumption ==
  /\ {NsPerMs, MsPerSec, IntMax} \subseteq Nat \ {0}
  /\ MsPerSec <= IntMax
  /\ {LastStart, MaxNow} \subseteq Nat
  /\ MaxNow >= LastStart + NsPerMs * IntMax + 1

VARIABLES
  now,       \* CLOCK_MONOTONIC
  running,   \* a statement is being executed
  msec,      \* its timeout; 0 is none
  since,     \* when it started
  d_ttd,     \* the deadline
  handler,   \* a progress handler is installed on the connection
  seen,      \* when the handler last let this statement go on
  ended      \* how the last statement ended

vars == <<now, running, msec, since, d_ttd, handler, seen, ended>>

NsPerSec == NsPerMs * MsPerSec
Unsigned == 0..(2 * IntMax + 1)

(* Every variable has its type; the nanoseconds of a deadline may be negative
   when its timeout was, and never are more than a second. *)
TypeOK ==
  /\ now \in 0..MaxNow
  /\ running \in BOOLEAN
  /\ msec \in Unsigned
  /\ since \in 0..now
  /\ d_ttd \in [sec : Int, nsec : (-NsPerSec)..NsPerSec]
  /\ handler \in BOOLEAN
  /\ seen \in since..now
  /\ ended \in {"none", "done", "failed", "interrupted"}

(* The clock may show any part of a second. *)
Init ==
  /\ now \in 0..(NsPerSec - 1)
  /\ running = FALSE
  /\ msec = 0
  /\ since = now
  /\ d_ttd = [sec |-> 0, nsec |-> 0]
  /\ handler = FALSE
  /\ seen = now
  /\ ended = "none"

----------------------------------------------------------------------------
(* div takes an int, to which an unsigned converts modulo 2^32, and rounds
   towards zero. *)
AsInt(m) == IF m <= IntMax THEN m ELSE m - 2 * (IntMax + 1)
Quot(i)  == IF i >= 0 THEN i \div MsPerSec ELSE -((-i) \div MsPerSec)
Rem(i)   == i - MsPerSec * Quot(i)

(* Mistake: nothing is carried over to the seconds. *)
DeadlineUncarried(m) ==
  [sec  |-> (now \div NsPerSec) + Quot(AsInt(m)),
   nsec |-> (now % NsPerSec) + NsPerMs * Rem(AsInt(m))]

(* Exactly one second of nanoseconds is not carried over. *)
Deadline(m) ==
  LET s == (now \div NsPerSec) + Quot(AsInt(m))
      n == (now % NsPerSec) + NsPerMs * Rem(AsInt(m))
  IN  IF n > NsPerSec THEN [sec |-> s + 1, nsec |-> n - NsPerSec]
      ELSE [sec |-> s, nsec |-> n]

(* Mistake: the parts are compared each on their own. *)
PastInBoth == /\ d_ttd.sec < now \div NsPerSec
              /\ d_ttd.nsec < now % NsPerSec

(* The deadline is before the clock: std::tie compares the seconds first. *)
Past ==
  \/ d_ttd.sec < now \div NsPerSec
  \/ d_ttd.sec = now \div NsPerSec /\ d_ttd.nsec < now % NsPerSec

ExecPrep(m) ==
  /\ ~running
  /\ now <= LastStart
  /\ running' = TRUE
  /\ msec' = m
  /\ since' = now
  /\ seen' = now
  /\ IF m = 0 THEN UNCHANGED <<d_ttd, handler>>
     ELSE d_ttd' = Deadline(m) /\ handler' = TRUE
  /\ UNCHANGED <<now, ended>>

(* Mistake: a statement that throws leaves the handler where it is. *)
LeaveOnly(how) ==
  /\ running' = FALSE
  /\ handler' = IF how = "done" /\ msec # 0 THEN FALSE ELSE handler
  /\ ended' = how
  /\ UNCHANGED <<now, msec, since, d_ttd, seen>>

(* The end of execPrep, normally or by throwing, is that of the catcher. *)
Leave(how) ==
  /\ running' = FALSE
  /\ handler' = IF msec # 0 THEN FALSE ELSE handler
  /\ ended' = how
  /\ UNCHANGED <<now, msec, since, d_ttd, seen>>

Step == running /\ (Leave("done") \/ Leave("failed"))

(* SQLite calls the handler, whoever installed it. *)
Progress ==
  /\ running /\ handler
  /\ \/ /\ Past
        /\ Leave("interrupted")
     \/ /\ ~Past
        /\ seen' = now
        /\ UNCHANGED <<now, running, msec, since, d_ttd, handler, ended>>

Tick ==
  /\ now < MaxNow
  /\ now' = now + 1
  /\ UNCHANGED <<running, msec, since, d_ttd, handler, seen, ended>>

Next == (\E m \in Unsigned : ExecPrep(m)) \/ Step \/ Progress \/ Tick

(* Time passes, and SQLite calls the handler as long as it executes. *)
Spec == Init /\ [][Next]_vars /\ WF_vars(Tick) /\ WF_vars(Progress)

----------------------------------------------------------------------------
(* A statement is not interrupted before its time, provided that its timeout
   fits an int, and never when it has none (sqlwriter.cc:134-154). *)
NeverEarly ==
  ended = "interrupted" /\ ~running =>
    msec # 0 /\ (msec <= IntMax => now - since >= NsPerMs * msec)

(* Nor is it let go on once its time is over. *)
NotLate == running /\ msec # 0 => seen - since <= NsPerMs * msec

(* A statement without a timeout runs without a handler, whatever became of
   those before it: a handler that was left would use a catcher that is gone
   (sqlwriter.cc:158-164). *)
HandlerOfThisCall == handler => running /\ msec # 0

(* A statement with a timeout comes to an end, even when its query does not. *)
RunawayEnds == running /\ msec # 0 ~> ~running
=============================================================================
