------------------------------ MODULE StreamSets -----------------------------
(* Texts of three lines and a blank one, some with a trailing fragment.    *)
EXTENDS Sequences

Lines == {<<>>, <<"cr">>, <<"k">>, <<"d", "a">>, <<"d", "a", "x">>,
          <<"d", "a", "sp", "y", "cr">>}

Texts(lines) ==
  {a \o <<"n">> \o b \o <<"n">> \o c \o <<"n", "n">> \o t :
     a \in lines, b \in lines, c \in lines, t \in {<<>>, <<"d", "a", "x">>}}

AsciiStreams == Texts(Lines)

(* One event of one character that takes two bytes. *)
CharStreams == {<<"d", "a", "x", "c1", "c2", "x", "n", "n">>}
=============================================================================
