------------------------------ MODULE MCNotify ------------------------------
(* Instances of Notify for TLC.                                            *)
EXTENDS Notify

\* A warning of a known source.
OneTransition == {[id |-> 1, source |-> "imgw", rank |-> 1, type |-> "new"]}

\* With its cancellation, which must not notify anybody.
WithCancellation ==
  OneTransition \cup {[id |-> 2, source |-> "imgw", rank |-> 1, type |-> "cancelled"]}
=============================================================================
