------------------------------ MODULE StoredTime ------------------------------
(* Timestamps as internal/storage keeps them: texts in Go's RFC3339Nano        *)
(* layout, which drops the trailing zeros of the fraction (and the whole       *)
(* fraction when it is zero), compared by SQLite as texts.  The module runs    *)
(* the lease of one queue row on such texts: recoverStaleQueueClaims compares  *)
(* updated_at with the cutoff now - queueClaimLease.                           *)
(*                                                                             *)
(* A time is a number of ticks; a second has Base^Places ticks, and a fraction *)
(* Places digits of the given Base (ten and nine in Go).  Everything in front  *)
(* of the fraction has a fixed width and is one character here.                *)
EXTENDS Integers, Sequences

CONSTANTS Base, Places, Lease, MaxTime

ASSUME TimeConstants ==
    /\ Base \in Nat \ {0, 1} /\ Places \in Nat \ {0}
    /\ Lease \in Nat /\ MaxTime \in Nat

VARIABLES
    now,        \* the wall clock
    rowStatus,  \* the row: "pending" or "sending"
    updatedAt   \* when the row was last written

timeVars == <<now, rowStatus, updatedAt>>

(* The powers of the base, up to that of a second. *)
Power[n \in 0..Places] == IF n = 0 THEN 1 ELSE Base * Power[n - 1]

Second == Power[Places]

(* Character codes: '.' sorts before the digits, 'Z' after them. *)
Dot == -1
Zed == Base

Digit(t, place) == ((t % Second) \div Power[Places - place]) % Base

(* The number of digits that remain when trailing zeros are dropped. *)
Kept(t) ==
    CHOOSE n \in 0..Places :
        /\ \A place \in (n + 1)..Places : Digit(t, place) = 0
        /\ n > 0 => Digit(t, n) # 0

(* UTC().Format(time.RFC3339Nano) *)
Text(t) ==
    <<t \div Second>>
        \o (IF Kept(t) = 0 THEN <<>>
            ELSE <<Dot>> \o [place \in 1..Kept(t) |-> Digit(t, place)])
        \o <<Zed>>

(* SQLite's comparison of two texts. *)
AtMost(s, t) ==
    \/ s = t
    \/ \E i \in 1..Len(t) :
          /\ \A j \in 1..(i - 1) : j <= Len(s) /\ s[j] = t[j]
          /\ i > Len(s) \/ s[i] < t[i]

TimeInit == now = Lease /\ rowStatus = "pending" /\ updatedAt = Lease

Tick ==
    /\ now < MaxTime
    /\ now' = now + 1
    /\ UNCHANGED <<rowStatus, updatedAt>>

ClaimQueue ==
    /\ rowStatus = "pending"
    /\ rowStatus' = "sending"
    /\ updatedAt' = now
    /\ UNCHANGED now

(* Mutated Stale: the lease is not subtracted. *)
StaleNow == AtMost(Text(updatedAt), Text(now))

(* updated_at <= cutoff *)
Stale == AtMost(Text(updatedAt), Text(now - Lease))

recoverStaleQueueClaims ==
    /\ rowStatus = "sending"
    /\ Stale
    /\ rowStatus' = "pending"
    /\ updatedAt' = now
    /\ UNCHANGED now

(* MarkDelivered, MarkRetry, MarkDeadLetter: the owner settles the claim. *)
Settle ==
    /\ rowStatus = "sending"
    /\ rowStatus' = "pending"
    /\ updatedAt' = now
    /\ UNCHANGED now

TimeNext == Tick \/ ClaimQueue \/ recoverStaleQueueClaims \/ Settle

TimeSpec == TimeInit /\ [][TimeNext]_timeVars

-------------------------------------------------------------------------------
Age == now - updatedAt

(* Text order misleads the lease by less than one second: no claim younger     *)
(* than the lease minus a second is recovered, and none older than the lease   *)
(* plus a second is missed.                                                    *)
SkewBelowOneSecond ==
    /\ Stale => Age > Lease - Second
    /\ ~ Stale => Age < Lease + Second
===============================================================================
