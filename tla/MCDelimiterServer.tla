------------------------- MODULE MCDelimiterServer -------------------------
(* Two workers; u and v have rows from before.  For u is put a text that    *)
(* holds a part of the delimiter, one the server refuses, one too short to  *)
(* pack, one far too short, a body that is no stream, one that is cut, and  *)
(* none; v's name is too long; and one message is no request.               *)
EXTENDS DelimiterServer

CONSTANTS c1, w1, w2

SomePieces ==
  {"@", "%", "&", ")", "RQUPJ", "RQDPJ", "u", "v", "'", "x", "y", "junk", "cut"}
Puts == {<<"RQUPJ", "u">> \o b : b \in {<<>>} \cup {<<p>> : p \in {"@", "'", "x", "y", "junk", "cut"}}}
SomeMessages == Puts \cup {<<"RQDPJ", "u">>, <<"RQDPJ", "v">>, <<"@">>}
FewMessages ==   \* for three of them on the connection
  {<<"RQUPJ", "u", "@">>, <<"RQUPJ", "u", "'">>, <<"RQUPJ", "u">>, <<"RQDPJ", "u">>}
Rows == {[user |-> u, text |-> <<"v">>, by |-> None] : u \in {"u", "v"}}
Streams == {<<"cut">>}
Junk == {<<"junk">>}
Quotes == {<<"'">>}
Shorts == {<<"x">>}
Tinies == {<<"y">>}
=============================================================================
