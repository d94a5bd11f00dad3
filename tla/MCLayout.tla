------------------------------ MODULE MCLayout ------------------------------
(* Classes of the shapes that the layouts of the host and of the kernel treat differently, as inputs of
   Layout. *)
EXTENDS Integers, Sequences

Prim(n, size) == [n |-> n, t |-> <<"prim", size>>]
Of(n, r) == [n |-> n, t |-> <<"rec", r>>]
Class(b, f, pod) == [bases |-> b, fields |-> f, pod |-> pod]

Accessor ==
  [accessor        |-> Class(<<"device_accessor">>, <<>>, FALSE),
   device_accessor |-> Class(<<>>, <<Prim("ptr", 8), Prim("sz", 8)>>, FALSE),
   local_accessor  |-> Class(<<"common_ref_ops">>, <<Prim("ptr", 8), Prim("sz", 8)>>, FALSE),
   common_ref_ops  |-> Class(<<>>, <<>>, FALSE)]

Empty == Class(<<>>, <<>>, TRUE)
Padded == <<Prim("b1", 4), Prim("b2", 1)>>
Acc(n) == Of(n, "accessor")
Local(n) == Of(n, "local_accessor")

(* a class with at most one base that is not empty, without accessors in the bases of members *)
PlainBases ==
  {Empty, Class(<<>>, <<Prim("b1", 1)>>, TRUE), Class(<<>>, Padded, FALSE),
   Class(<<>>, <<Prim("b1", 1), Prim("b2", 8)>>, TRUE),
   Class(<<"E">>, <<[n |-> "b1", t |-> <<"arr", 3, <<"prim", 1>>>>]>>, FALSE)}
Members ==
  {Class(<<>>, <<>>, TRUE), Class(<<"B">>, <<Prim("s1", 1)>>, FALSE), Class(<<"E", "B">>, <<Prim("s1", 4)>>, FALSE),
   Class(<<>>, <<Prim("s1", 1), Acc("s2")>>, FALSE), Class(<<"B">>, <<Local("s1"), Acc("s2")>>, FALSE)}
Kernels ==
  {Class(b, f, FALSE) :
     b \in {<<>>, <<"A">>, <<"E2", "A">>},
     f \in {<<Acc("k1")>>, <<Prim("k1", 1), Acc("k2"), Of("k3", "S"), Acc("k4")>>, <<Of("k1", "S"), Local("k2"), Acc("k3")>>,
            <<Local("k1"), Prim("k2", 4), Acc("k3"), Prim("k4", 1)>>}}
KernelBases == {Class(<<>>, <<Prim("a1", 4), Acc("a2")>>, FALSE), Class(<<>>, <<Prim("a1", 4), Prim("a2", 1)>>, FALSE)}

Program(b, s, a, k) == [E |-> Empty, E2 |-> Empty, C |-> Empty, B |-> b, S |-> s, A |-> a, K |-> k]

Order == <<"common_ref_ops", "device_accessor", "accessor", "local_accessor", "E", "E2", "C", "B", "S", "A", "K">>
Programs == {Program(b, s, a, k) : b \in PlainBases, s \in Members, a \in KernelBases, k \in Kernels}
=============================================================================
