------------------------------ MODULE MCSyncJobs ------------------------------
(***************************************************************************)
(* A small instance of SyncJobs for TLC: two APT sources that share one    *)
(* permit and one RPM source, asked for all together or one alone.         *)
(***************************************************************************)
EXTENDS SyncJobs

TwoGroups   == [all |-> {"ubuntu", "debian", "rocky"}, single |-> {"ubuntu"}]
SomeFormats == [ubuntu |-> "apt", debian |-> "apt", rocky |-> "rpm"]
OnePermit   == [apt |-> 1, rpm |-> 1, apk |-> 1]
AllOrNone   == {Sources, {}}
================================================================================
