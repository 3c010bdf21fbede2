---------------------------- MODULE MCReactions ----------------------------
(***************************************************************************)
(* An instance of Reactions for TLC: a source S whose output reaches D     *)
(* over two paths, directly and through A, and a second source T.  D and T *)
(* are inside the composite C.  A connects its input to an output of its   *)
(* own.                                                                    *)
(*                                                                         *)
(*    S.out --> A.in ==> A.thru --> E.in1                                  *)
(*         \      A.out --> C.in2 --> D.in2                                *)
(*          `----------> C.in1 --> D.in1                                   *)
(*    T.out --> C.out --> E.in2                                            *)
(***************************************************************************)
EXTENDS Reactions, TLC

CONSTANTS H, C, S, T, A, D, E,
  Sout, Tout, Ain, Athru, Aout, Cin1, Cin2, Cout, Din1, Din2, Ein1, Ein2

TheAtomics == {S, T, A, D, E}
TheComposites == {H, C}
TheParent == S :> H @@ A :> H @@ E :> H @@ C :> H @@ D :> C @@ T :> C
\* What ComputeAccessorPriorities gives these accessors: by their depths, 0 for
\* H, C, S and T, 1 for A, 2 for D and E.
ThePriority == H :> 1 @@ C :> 2 @@ S :> 3 @@ T :> 4 @@ A :> 5 @@ D :> 6 @@ E :> 7
TheInputs == S :> <<>> @@ T :> <<>> @@ A :> <<Ain>> @@ D :> <<Din1, Din2>> @@ E :> <<Ein1, Ein2>>
Ev(p) == <<p, "event">>
Null(p) == <<p, "null">>
TheSends ==
  S :> {<<Ev(Sout)>>, <<Ev(Sout), Ev(Sout)>>, <<Ev(Sout), Ev(Sout), Ev(Sout)>>,
        <<Ev(Sout), Null(Sout), Ev(Sout)>>}
    @@ T :> {<<Ev(Tout)>>, <<Ev(Tout), Ev(Tout)>>, <<Null(Tout)>>}
    @@ A :> {<<>>, <<Ev(Aout)>>} @@ D :> {<<>>} @@ E :> {<<>>}
BothSources == {S, T}
TheDestinations ==
  Sout :> <<Ain, Cin1>> @@ Ain :> <<Athru>> @@ Athru :> <<Ein1>> @@ Aout :> <<Cin2>>
    @@ Cin1 :> <<Din1>> @@ Cin2 :> <<Din2>> @@ Din1 :> <<>> @@ Din2 :> <<>>
    @@ Tout :> <<Cout>> @@ Cout :> <<Ein2>> @@ Ein1 :> <<>> @@ Ein2 :> <<>>
=============================================================================
