--------------------------------- MODULE Meter ---------------------------------
(***************************************************************************)
(* What a pmt::PMT promises a client that calls Read(): a meter. Every     *)
(* State that it reports is of the past or the present, no State is older  *)
(* than the one before, and its energy is one that a device between        *)
(* MinPower and MaxPower may have drawn since the energy counts. Nothing   *)
(* is said about the energy from one report to the next: an extrapolated   *)
(* one may be corrected downwards.                                         *)
(*                                                                         *)
(* Accounting.tla implements it for any power of the device and whole      *)
(* States, SharedState.tla for the member-by-member copies of two threads. *)
(* Energy is in half watt-ticks, as in Accounting.tla.                     *)
(***************************************************************************)
EXTENDS Integers

CONSTANTS
    MinPower, MaxPower,  \* the powers between which the device stays
    Torn                 \* time and energy of a report may be of different samples

VARIABLES
    now,       \* the present
    base,      \* the time and the energy from which the reported energy counts
    lag,       \* the longest stretch of time whose energy may be missing
    trusted,   \* energy and power of the device have agreed so far
    reported   \* the last State that Read() returned

vars == <<now, base, lag, trusted, reported>>

\* The report before the first one: of the epoch, before any time of the clock.
NoReport == [timestamp |-> 0, joules |-> 0]

\* The energy of r is possible for a device that has been measured since b. When it
\* may be torn, it may miss the last sample, or be newer than its time says; it is
\* never more than what has been drawn by now.
Plausible(b, r) ==
    LET since == r.timestamp - b.timestamp
        upto  == (IF Torn THEN now ELSE r.timestamp) - b.timestamp
    IN  /\ r.joules - b.joules >= 2 * MinPower * (since - lag)
        /\ r.joules - b.joules <= 2 * MaxPower * upto

Init ==
    /\ now > 0
    /\ base = NoReport
    /\ lag = 0
    /\ trusted = TRUE
    /\ reported = NoReport

\* Time passes; the device may be measured at longer distances, or contradict itself.
Pass ==
    /\ now' >= now
    /\ lag' >= lag
    /\ trusted' => trusted
    /\ UNCHANGED <<base, reported>>

\* Read() returns. The count of the energy may have started anew since the last one.
Report ==
    /\ reported'.timestamp \in reported.timestamp .. now
    /\ base'.timestamp \in base.timestamp .. reported'.timestamp
    /\ trusted => Plausible(base', reported')
    /\ UNCHANGED <<now, lag, trusted>>

Next == Pass \/ Report

Spec == Init /\ [][Next]_vars

=============================================================================
