------------------------------ MODULE MCConsole ------------------------------
EXTENDS Console

MCBytes == {"a", "o", " ", "\n"}
MCEditLine == <<"a">>
MCContents == {<<"a">>, <<"\n", "\n", "a">>, <<"a", "\n", "\n", "a">>, <<"a", "\n", "a">>}
MCJunk == {<< >>, <<"o", "o">>}
MCParams == {<<0, 0>>, <<1, 5>>, <<3, 0>>, <<4, 0>>, <<5, 0>>, <<6, 0>>, <<9, 0>>, <<12, 0>>, <<15, 0>>, <<21, 0>>, <<200, 0>>}
=============================================================================
