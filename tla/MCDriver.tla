------------------------------- MODULE MCDriver -------------------------------
(* Builds of two sources: compiled and linked at once, or one at a time    *)
(* with -c, for the targets given or the default ones; as inputs of Driver. *)
EXTENDS Sequences

Targets == {"cpu-c", "cpu-openmp", "nvidia-cuda", "amd-hip"}

Inv(ins, ts, e, out) == [inputs |-> ins, targets |-> ts, exe |-> e, output |-> out]

Lists == {<<>>} \union {<<t>> : t \in Targets}

Separate ==
  {Inv(<<s>>, ts, FALSE, out) : s \in {"a.cpp", "b.cpp"}, ts \in Lists, out \in {"a.o", "b.o"}}
    \union {Inv(ins, ts, TRUE, "a.o") :
              ins \in {<<"a.o">>, <<"a.o", "b.o">>, <<"a.cpp", "b.o">>, <<"a.cpp", "b.cpp">>},
              ts \in {<<>>, <<"cpu-c">>}}
    \union {Inv(<<"a.o">>, <<>>, FALSE, "b.o"), Inv(<<"a.cpp", "b.cpp">>, <<>>, FALSE, "b.o")}

Killed ==
  {Inv(<<"a.cpp">>, <<t>>, FALSE, "a.o") : t \in Targets}
    \union {Inv(<<"a.o", "b.cpp">>, <<"cpu-c">>, TRUE, "a.o"), Inv(<<"a.o">>, <<>>, FALSE, "b.o"),
            Inv(<<"b.o">>, <<>>, TRUE, "a.o"), Inv(<<"c.o">>, <<>>, TRUE, "a.o")}
=============================================================================
