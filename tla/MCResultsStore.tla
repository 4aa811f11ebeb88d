--------------------------- MODULE MCResultsStore ---------------------------
(* ResultsStore on small instances; the .cfg files give the constants.     *)
EXTENDS ResultsStore

CONSTANT s1

MCNames == (0..MaxOrdinal) \X Sigs
SameSig == [p \in Procs |-> s1]
AnyTarget == {Absent, {}, {<<MaxOrdinal, s1>>}}
EmptyTarget == {Absent, {}}
=============================================================================
