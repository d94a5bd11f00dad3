-------------------------------- MODULE MCUnit --------------------------------
(* Inputs of Unit: two kernels, functors and lambdas that call each other *)
EXTENDS Integers, Sequences

Method(r, body) == [static |-> TRUE, of |-> r, sig |-> << <<"ptr", "rec", r>> >>, inits |-> <<>>, body |-> body]
Free(body) == [static |-> TRUE, of |-> "", sig |-> << <<"int">>, <<"ref", "const", "rec", "Q">> >>, inits |-> <<>>, body |-> body]

Recs == [LocalAcc |-> << <<"ptr", "char">> >>, P |-> <<>>, Q |-> << <<"int">> >>,
         S |-> << <<"arr", "rec", "P">>, <<"const", "ptr", "const", "rec", "Q">>, <<"const", "int">> >>,
         F |-> << <<"rec", "LocalAcc">>, <<"rec", "S">>, <<"rec", "L">> >>,
         G |-> << <<"rec", "LocalAcc">> >>, N |-> << <<"ptr", "rec", "N">> >>,
         D |-> << <<"int">> >>,
         L |-> << <<"int">> >>, W |-> << <<"rec", "F">> >>, V |-> << <<"rec", "L">> >>]

(* b is the body of the functor of the first kernel, c that of the second, a lambda *)
Source(b, c) ==
  [recs |-> Recs, captures |-> [W |-> {"fn"}, V |-> {"fn"}, L |-> {"z"}],
   funs |-> [Fop |-> Method("F", b), Lop |-> Method("L", << <<"use", "z">>, <<"call", "h">>, <<"use", "z">> >>),
             Gop |-> Method("G", << <<"call", "h">> >>),
             h |-> Free(<< <<"call", "max">>, <<"local", <<"rec", "Q">> >>, <<"call", "sqrt">> >>),
             even |-> Free(<< <<"call", "odd">> >>), odd |-> Free(<< <<"call", "even">> >>),
             ctor |-> [Method("D", <<>>) EXCEPT !.inits = << <<"call", "h">> >>],
             node |-> [Free(<< <<"use", "p">> >>) EXCEPT !.sig = << <<"ptr", "rec", "N">> >>],
             nop |-> Free(<<>>)],
   kernels |-> << [n |-> "k1", rec |-> "W",
                   body |-> << <<"call", "iter">>, <<"mark", "F">>, <<"use", "fn">>, <<"call", "Fop">>,
                               <<"use", "fn">>, <<"call", "leader">> >>],
                  [n |-> "k2", rec |-> "V", body |-> <<<<"use", "fn">>>> \o c \o <<<<"use", "fn">>>>] >>]

Items == { <<"call", "Lop">>, <<"call", "even">>, <<"call", "ctor">>, <<"call", "barrier">>, <<"call", "lid">>,
           <<"call", "assume">>, <<"call", "max">>, <<"local", <<"arr", "rec", "D">> >> }

Plain == {<<Source(<<i, j>>, <<k>>)>> : i \in Items, j \in Items, k \in {<<"call", "Lop">>, <<"call", "odd">>}}
=============================================================================
