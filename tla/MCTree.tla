------------------------------- MODULE MCTree -------------------------------
EXTENDS Tree

MCSlices == <<"9s", "a-bs", "posts", "tasks">>
MCNames == {<<"posts", "">>, <<"9s", "">>, <<"a-bs", "">>, <<"", "">>}
=============================================================================
