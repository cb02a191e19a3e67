------------------------- MODULE InitialSizeClass -------------------------
(***************************************************************************)
(* The decisions of package initialsizeclass: on which size class an       *)
(* action is tried first, and what has to happen once the outcome is       *)
(* known.  Probabilities, execution times and timeouts are left out, so    *)
(* that every decision the analyzers can take is a possible one.           *)
(*                                                                         *)
(* A learner is the object through which the scheduler reports the outcome *)
(* of one execution.  All learners that follow from one another share a    *)
(* handle on the statistics of the action, which is released by the last   *)
(* one.  A learner remembers the smaller size class it is concerned with.  *)
(***************************************************************************)
EXTENDS Integers, FiniteSetsExt

CONSTANT SizeClasses        \* Size classes that workers can announce.

ASSUME SizeClassesAssumption ==
    /\ SizeClasses \subseteq Nat
    /\ \E c \in SizeClasses : \A d \in SizeClasses : d <= c

Largest == Max(SizeClasses)

\* The task is completed, and has no learner any more.
NoLearner == [kind |-> "none", class |-> Largest]

LargestLearner == [kind |-> "largest", class |-> Largest]

Learner ==
    [kind : {"none", "largest", "smaller", "largestBackground", "smallerBackground"},
     class : SizeClasses]

(***************************************************************************)
(* Selector.Select(): run on the largest size class right away; run on a   *)
(* smaller one and fall back to the largest; or run on the largest one,    *)
(* and again on a smaller one in the background.                           *)
(***************************************************************************)
Select(classes) ==
    LET top == Max(classes) IN
    {[class |-> top, learner |-> LargestLearner]}
      \cup {[class |-> c, learner |-> [kind |-> "smaller", class |-> c]] :
               c \in classes \ {top}}
      \cup {[class |-> top, learner |-> [kind |-> "largestBackground", class |-> c]] :
               c \in classes \ {top}}

(***************************************************************************)
(* Learner.Succeeded(): the executions to perform in the background.  The  *)
(* smaller size class may have disappeared in the meantime, in which case  *)
(* the handle is released.                                                 *)
(***************************************************************************)
Succeeded(learner, classes) ==
    IF learner.kind = "largestBackground" /\ learner.class \in classes
    THEN {[class |-> learner.class,
           learner |-> [kind |-> "smallerBackground", class |-> learner.class]]}
    ELSE {}

\* Mutant of Failed: a failure on a smaller size class is definitive.
FailedDefinitively(learner) == NoLearner

(***************************************************************************)
(* Learner.Failed(): the learner with which execution has to be retried on *)
(* the largest size class, or none if the failure is definitive.           *)
(***************************************************************************)
Failed(learner) ==
    IF learner.kind = "smaller" THEN LargestLearner ELSE NoLearner

=============================================================================
