------------------------------ MODULE MCXargs ------------------------------
(* Xargs for TLC: every input of up to three characters of four kinds, and *)
(* longer ones that fill the buffer, end early or escape.                  *)
EXTENDS Xargs

CharsHere == {"a", "b", "c", "d", "_", " ", "\n", "'", "\\", "NUL"}
InputsHere ==
    UNION {[1 .. n -> {"a", " ", "\n", "'"}] : n \in 0 .. 3} \cup
    {<<"a", " ", "b", "c">>, <<"a", " ", "b", "\n", "c", "\n">>, <<"a", "b", "c", "d">>,
     <<"a", "\n", "_", "\n", "b">>, <<"a", "NUL", "_", "NUL">>, <<"\\", " ", "a", "\\">>}

Plain == [z |-> FALSE, L |-> 0, x |-> FALSE, E |-> <<>>, p |-> FALSE]
SettingsHere ==
    {Plain, [Plain EXCEPT !.z = TRUE], [Plain EXCEPT !.L = 1], [Plain EXCEPT !.x = TRUE],
     [Plain EXCEPT !.E = <<"_">>], [Plain EXCEPT !.p = TRUE]}
=============================================================================
