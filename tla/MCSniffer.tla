----------------------------- MODULE MCSniffer -----------------------------
(* Instances of Sniffer for TLC: keywords cut short, that share their bytes
   with each other and with the texts; a name and a password that fill their
   arrays, one that is longer, and answers that mention the keywords. *)
EXTENDS Sniffer

ShortOk == <<"+", "O", "K">>
ShortErr == <<"-", "R">>
ShortUser == <<"U", "R", " ">>
ShortPass == <<"P", "S", " ">>
Letters == {"+", "O", "K", "-", "R", "U", " ", "P", "S", "a"}
SomeTexts == {<<"+", "-">>, <<"P", "S", "-", "a">>}
ShortTexts == {<<"a">>, <<"+", "-">>}
SomeRemarks == {<<"U", "R", " ", "a">>, <<"P", "S", " ", "a">>}
NoRemark == {<<>>}
SomeAddresses == {<<"a">>, <<"a", "a", "a">>}
=============================================================================
