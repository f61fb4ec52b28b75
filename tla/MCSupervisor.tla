---------------------------- MODULE MCSupervisor ----------------------------
(* Small supervisors: two or three children of different kind and priority. *)
EXTENDS Supervisor

MixedKinds      == <<"daemon", "daemon", "task">>
MixedPriorities == <<"normal", "low", "low">>

\* The ratios of the real table (10 / 3 / 1) cut down to 2 / 2 / 1.
SmallLimits == [critical |-> 2, normal |-> 2, low |-> 1]

CodesBadOnly == {0, -9}
=============================================================================
