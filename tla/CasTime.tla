------------------------------- MODULE CasTime -------------------------------
(***************************************************************************)
(* The conversions between the times of the database and the numbers of    *)
(* CAS (hdat/common.hpp): microseconds or days since 1960-01-01, and       *)
(* microseconds since midnight.                                            *)
(*                                                                         *)
(* A civil time is abstracted to its seconds since 1970-01-01, a date to   *)
(* its days, so that timegm and gmtime of the C library are the identity.  *)
(* What is left is the arithmetic: the shift of the origin, the truncating *)
(* division of C and its signed remainder.  A conversion that may throw    *)
(* returns a sequence, empty when it throws.                               *)
(*                                                                         *)
(* Two casts of the code are left out.  fromTimeCAS casts the seconds to   *)
(* int32_t, which a TIME of the server (at most 838:59:59) fits; and       *)
(* toDateTimeCAS casts a double to the unsigned ino64_t, which for a time  *)
(* before 1960 is undefined in C++ and keeps the sign on x86-64.           *)
(***************************************************************************)
EXTENDS Integers, Sequences

CONSTANTS secToMicroSec, dayToSec,
          CASshiftSec  \* seconds from 1960-01-01 to 1970-01-01

ASSUME CasTimeAssumption ==
    /\ secToMicroSec \in Nat \ {0}
    /\ dayToSec \in Nat \ {0, 1}
    /\ CASshiftSec \in Nat
    /\ CASshiftSec % dayToSec = 0

\* The operators / and % of C, for a positive divisor.
quotient(a, b) == IF a >= 0 THEN a \div b ELSE -((-a) \div b)

remainder(a, b) == a - b * quotient(a, b)

-----------------------------------------------------------------------------
(* DATETIME: [sec, second_part].                                           *)

\* The result -1 of timegm is taken for an error.
toDateTimeCAS(dt) ==
    IF dt.sec = -1 THEN <<>>
    ELSE <<(dt.sec + CASshiftSec) * secToMicroSec + dt.second_part>>

\* Mutant: a negative remainder is made positive and the second is kept.
fromDateTimeUnadjusted(dtInt) ==
    LET microSec      == remainder(dtInt, secToMicroSec)
        UnixTimestamp == quotient(dtInt, secToMicroSec) - CASshiftSec
    IN  [sec |-> UnixTimestamp,
         second_part |-> IF microSec < 0 THEN microSec + secToMicroSec ELSE microSec]

fromDateTimeCAS(dtInt) ==
    LET microSec      == remainder(dtInt, secToMicroSec)
        UnixTimestamp == quotient(dtInt, secToMicroSec) - CASshiftSec
    IN  IF microSec < 0
        THEN [sec |-> UnixTimestamp - 1, second_part |-> microSec + secToMicroSec]
        ELSE [sec |-> UnixTimestamp, second_part |-> microSec]

-----------------------------------------------------------------------------
(* DATE: days since 1970-01-01.                                            *)

toDateCAS(day) ==
    LET inputDate == day * dayToSec
    IN  IF inputDate = -1 THEN <<>> ELSE <<quotient(inputDate + CASshiftSec, dayToSec)>>

\* The day of the civil time that gmtime returns.
fromDateCAS(dtInt) == (dtInt * dayToSec - CASshiftSec) \div dayToSec

-----------------------------------------------------------------------------
(* TIME: [neg, hour, minute, second, second_part].                         *)

toTimeCAS(dt) ==
    LET timeVal == dt.second_part + secToMicroSec * (dt.second + dt.minute * 60 + dt.hour * 3600)
    IN  IF dt.neg THEN -timeVal ELSE timeVal

fromTimeCAS(cas_time) ==
    LET abs_time      == IF cas_time < 0 THEN -cas_time ELSE cas_time
        total_seconds == quotient(abs_time, secToMicroSec)
        total_minutes == quotient(total_seconds, 60)
    IN  [neg         |-> abs_time # cas_time,
         hour        |-> quotient(total_minutes, 60),
         minute      |-> remainder(total_minutes, 60),
         second      |-> remainder(total_seconds, 60),
         second_part |-> remainder(abs_time, secToMicroSec)]
==============================================================================
