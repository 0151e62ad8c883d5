------------------------------- MODULE MCGCode -------------------------------
(* Two lines of each form, some with a number shorter than the one before.  *)
EXTENDS GCode

Arg(letter, number) == [letter |-> letter, number |-> number]
Line(code, args) == [code |-> code, args |-> args]

n12p25 == <<"1", "2", ".", "2", "5">>
n3p5 == <<"3", ".", "5">>
n16 == <<"1", "6">>
n7 == <<"7">>
n16p5 == <<"1", "6", ".", "5">>
n0012p250 == <<"0", "0", "1", "2", ".", "2", "5", "0">>

MCLines ==
  {Line(M10, <<>>), Line(M1, <<>>), Line(M1, <<Arg(<<>>, n16)>>),
   Line(M1, <<Arg(<<>>, n16p5)>>),
   Line(<<"G", "2", "8">>, <<>>),
   Line(G1, <<Arg(<<"X">>, n12p25), Arg(<<"Y">>, n3p5)>>),
   Line(G1, <<Arg(<<"X">>, n3p5), Arg(<<"Y">>, n12p25)>>),
   Line(G1, <<Arg(<<"X">>, n16), Arg(<<"Y">>, n7)>>),
   Line(G1, <<Arg(<<"X">>, n0012p250)>>),
   Line(G1, <<Arg(<<"Y">>, n3p5)>>)}

(* Memory: ten characters, the last one the terminator.  Clear; old digits   *)
(* in temp and behind it; an exponent behind the number of a short line.    *)
Ten(t) == [k \in 1..10 |-> IF k \in DOMAIN t THEN t[k] ELSE Nul]
MCStack == {Ten(<<>>), Ten(<<"?", "9", "9", "9", "9", "?", "?", "?", "6">>),
            Ten(<<"?", "?", "?", "e", "1">>)}
MCGarbage == {0, 54321}
=============================================================================
