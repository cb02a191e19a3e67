---------------------------- MODULE MCEvaluation ----------------------------
(***************************************************************************)
(* An instance of Evaluation in which ka needs kb if the override oi is    *)
(* old, kb needs ka if it is new, and both need each other if it is        *)
(* cyclic, in which case kt is blocked on their cycle as well.             *)
(***************************************************************************)
EXTENDS Evaluation

CONSTANTS ka, kb, kc, oi, oj, kt

MCReference == (kc :> 1) @@ (ka :> 2) @@ (kb :> 3) @@ (kt :> 4) @@ (oi :> 5) @@ (oj :> 6)

Override(version, n) == (oi :> version) @@ (oj :> n)

MCBuilds == {<<Override("old", 0), Override("new", 1)>>,
             <<Override("new", 0), Override("new", 0)>>,
             <<Override("cyclic", 0)>>}

\* A build of which the only key that is requested is not on the cycle itself.
MCCycleBuilds == {<<Override("needed", 0)>>}

MCDependencies(inputs, k) ==
    CASE k = kt -> <<ka>>
      [] k = ka -> <<oj, oi>> \o (IF inputs[oi] = "new" THEN <<>> ELSE <<kb>>)
      [] k = kb -> <<oi>> \o (CASE inputs[oi] = "old" -> <<>>
                                [] inputs[oi] = "cyclic" -> <<kc, ka>>
                                [] OTHER -> <<ka>>)
      [] OTHER -> <<>>

=============================================================================
