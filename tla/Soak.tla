-------------------------------- MODULE Soak ---------------------------------
(***************************************************************************)
(* The soak monitor (internal/soak): snapshots of a long run, an alert     *)
(* when the failure rate is high or the p99 latency drifts from the median *)
(* of a trailing window, a file per snapshot and a summary at the end.     *)
(***************************************************************************)
EXTENDS Integers, Sequences, FiniteSets, SequencesExt

CONSTANTS
    Snaps,       \* snapshots the engine may hand over: [p99, failed, ingested]
    AnomalyWindow,
    MaxSnapshots \* bound: snapshots of a run

VARIABLES
    snapshots,   \* Monitor.snapshots
    alerts,      \* Monitor.alerts
    files,       \* snapshot file of a time stamp
    summary      \* soak-summary.json, once saved

soakVars == <<snapshots, alerts, files, summary>>

ASSUME SoakAssumption ==
    /\ AnomalyWindow \in Nat \ {0} /\ MaxSnapshots \in Nat
    /\ \A s \in Snaps : s.p99 \in Nat

SoakInit ==
    /\ snapshots = <<>> /\ alerts = <<>>
    /\ files = [t \in {} |-> <<>>]
    /\ summary = <<>>

\* Mutant of Window: the latest snapshot is compared with itself.
WindowWithLatest(ss, now) == {i \in 1..Len(ss) : ss[i].at > now - AnomalyWindow /\ ss[i].at <= now}

\* The window leaves out both its ends, so also the snapshot at now; the
\* comment on medianP99WithinWindow writes the lower end as part of it.
Window(ss, now) == {i \in 1..Len(ss) : ss[i].at > now - AnomalyWindow /\ ss[i].at < now}

\* Of the values sorted, the one at place r.
Sorted(ss, win, r) ==
    CHOOSE v \in {ss[i].p99 : i \in win} :
        /\ Cardinality({i \in win : ss[i].p99 < v}) < r
        /\ Cardinality({i \in win : ss[i].p99 <= v}) >= r

\* Twice the median, so that it is an integer; 0 for fewer than three.
medianP99WithinWindow(ss, now) ==
    LET win == Window(ss, now)
        n == Cardinality(win)
        mid == n \div 2
    IN  IF n < 3 THEN 0
        ELSE IF n % 2 = 0 THEN Sorted(ss, win, mid) + Sorted(ss, win, mid + 1)
        ELSE 2 * Sorted(ss, win, mid + 1)

\* Thresholds: one failure in a hundred, drift over 10% and over 25%.
detect(ss, latest) ==
    LET twice == medianP99WithinWindow(ss, latest.at)
        rate == IF 100 * latest.failed > latest.failed + latest.ingested
                THEN <<[kind |-> "high_failure_rate", severity |-> "WARN", of |-> Len(ss)]>> ELSE <<>>
        drift == IF twice > 0 /\ 20 * latest.p99 > 11 * twice
                 THEN <<[kind |-> "p99_drift", of |-> Len(ss),
                         severity |-> IF 8 * latest.p99 > 5 * twice THEN "CRITICAL" ELSE "WARN"]>>
                 ELSE <<>>
    IN  rate \o drift

\* The memory is updated whether or not the file is written; a file of the
\* same second is overwritten.  Time does not go back.
Take(s, wrote) ==
    LET ss == Append(snapshots, s)
        new == detect(ss, s)
    IN  /\ summary = <<>> /\ Len(snapshots) < MaxSnapshots
        /\ snapshots # <<>> => s.at >= Last(snapshots).at
        /\ snapshots' = ss
        /\ alerts' = alerts \o new
        /\ files' = IF wrote THEN [t \in DOMAIN files \cup {s.at} |->
                                     IF t = s.at THEN [snap |-> s, alerts |-> new] ELSE files[t]]
                             ELSE files
        /\ UNCHANGED summary

Save ==
    /\ summary = <<>>
    /\ summary' = <<[snapshots |-> snapshots, alerts |-> alerts]>>
    /\ UNCHANGED <<snapshots, alerts, files>>

\* Bound: the times of snapshots, from one to beyond the reach of a window.
Times == 0..AnomalyWindow + 1

SoakNext == Save \/ \E s \in Snaps, t \in Times, wrote \in BOOLEAN :
                        Take([at |-> t, p99 |-> s.p99, failed |-> s.failed, ingested |-> s.ingested], wrote)

-----------------------------------------------------------------------------
(* Properties.                                                             *)

\* A drift alert is not the echo of its own snapshot or of one odd value: at
\* least three snapshots precede it in the window, and at least half of them
\* lie below the current p99 by the margin of its severity.
DriftJustified ==
    \A k \in 1..Len(alerts) : alerts[k].kind = "p99_drift" =>
        LET s == snapshots[alerts[k].of]
            earlier == {i \in 1..(alerts[k].of - 1) :
                          snapshots[i].at < s.at /\ snapshots[i].at > s.at - AnomalyWindow}
            below == {i \in earlier : IF alerts[k].severity = "CRITICAL"
                                      THEN 4 * s.p99 > 5 * snapshots[i].p99
                                      ELSE 10 * s.p99 > 11 * snapshots[i].p99}
        IN  Cardinality(earlier) >= 3 /\ 2 * Cardinality(below) >= Cardinality(earlier)

\* The files never hold what the summary does not: a snapshot file is a
\* snapshot that was taken, with exactly the alerts it raised.
FilesAgree ==
    \A t \in DOMAIN files :
        LET own == files[t].alerts
        IN  \E i \in 1..Len(snapshots), p \in 0..(Len(alerts) - Len(own)) :
                /\ files[t].snap = snapshots[i] /\ snapshots[i].at = t
                /\ \A j \in 1..Len(own) : own[j] = alerts[p + j]
                /\ \A k \in 1..Len(alerts) : alerts[k].of = i <=> k \in (p + 1)..(p + Len(own))

\* An alert is justified by the snapshots before it, and the files on disk tell
\* what the monitor has in memory.
SnapshotsSound == DriftJustified /\ FilesAgree
=============================================================================
