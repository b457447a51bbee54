---------------------------- MODULE MCDFAMinimize ----------------------------
(***************************************************************************)
(* DFAs of five states: a symbol that goes anywhere from three of them,    *)
(* and one that walks two cycles. Five states are the least for a split    *)
(* into three parts.                                                       *)
(***************************************************************************)
EXTENDS DFAMinimize, TLC

CONSTANTS s1, s2, s3, s4, s5, a, b

MCState == {s1, s2, s3, s4, s5}
MCSymbol == {a, b}

Cycle == s1 :> s2 @@ s2 :> s1 @@ s3 :> s4 @@ s4 :> s5 @@ s5 :> s3

MCDFAs ==
  {[delta |-> [x \in MCState \X MCSymbol |->
                 IF x[2] = b THEN Cycle[x[1]]
                 ELSE IF x[1] \in {s1, s2, s3} THEN f[x[1]] ELSE x[1]],
    start |-> s1, final |-> F] :
     f \in [{s1, s2, s3} -> MCState],
     F \in {{}, {s5}, {s3, s4}, MCState}}

MCPartitions == {<<>>, <<{s1, s2, s3}, {s4}, {s5}>>}
=============================================================================
