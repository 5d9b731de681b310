-------------------------- MODULE MySQLTaskStatus --------------------------
(***************************************************************************)
(* The read-only status call (mysql_task_boundary.py:207-233) a client      *)
(* makes when it does not know what became of a mutation, beside the store  *)
(* of MySQLTaskBoundary. It reads its clock, then one row, and reports a    *)
(* live row past its time as expired without writing anything.              *)
(***************************************************************************)
EXTENDS MySQLTaskBoundary

VARIABLES
    reader,     \* the status call in progress
    told        \* what a client was last told about each task

statusVars == <<vars, reader, told>>

NoReader == [task |-> NoTask, now |-> 0]

StatusInit ==
    /\ Init
    /\ reader = NoReader
    /\ told = [t \in Tasks |-> "nothing"]

BeginStatus ==
    /\ reader = NoReader
    /\ \E t \in Tasks : /\ HasRow(t)
                        /\ reader' = [task |-> t, now |-> clock]
    /\ UNCHANGED <<vars, told>>

(* The status projection of a row at a given time. *)
Projected(t, now) ==
    IF ~HasRow(t) THEN "unavailable"
    ELSE IF Lapsed(rows[t], now) THEN "expired"
    ELSE rows[t].status

Status ==
    /\ reader # NoReader
    /\ told' = [told EXCEPT ![reader.task] = Projected(reader.task, reader.now)]
    /\ reader' = NoReader
    /\ UNCHANGED vars

StatusNext ==
    \/ Next /\ UNCHANGED <<reader, told>>
    \/ BeginStatus
    \/ Status

StatusSpec == StatusInit /\ [][StatusNext]_statusVars

(* "A claim capability cannot commit past its TTL or revive the state"      *)
(* (tests/test_m47_b5_contracts.py:139): a claim whose task is past its      *)
(* time, and was reported expired to a client, does not bring it back. The   *)
(* committer reads its clock before its transaction, so a stalled one can.   *)
ReportedExpiredIsNotRevived ==
    [][\A t \in Tasks :
          told[t] = "expired" /\ rows[t].status = "claimed" /\ Lapsed(rows[t], clock)
              => rows'[t].status # "active"]_statusVars
=============================================================================
