---------------------------- MODULE MCCharDevices ----------------------------
(* Instances of CharDevices for TLC. *)
EXTENDS CharDevices, TLC

Letters == {"a", "b", "x", "y", Newline}

\* one line of two characters and a part of the next one, and a long line
TypedLines == {<<"x", Newline, "y">>, <<"x", "y", Newline>>}
SomeTexts == {<<>>, <<"a", "b">>}

\* two messages of the other side, of two and of one character
TwoMessages == Message(1, 2) \o Message(2, 1)
=============================================================================
