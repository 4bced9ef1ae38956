---------------------------- MODULE MCLogObservers ----------------------------
(* The instance of LogObservers for TLC: the log of MCLogTailer, and a       *)
(* program that writes to both pipes, an error with secrets to one of them.  *)
EXTENDS MCLogTailer, LogObservers

Output(stream, kind, words) ==
  [stream |-> stream, words |-> words, kind |-> kind, err |-> IF kind = "text" THEN 0 ELSE 1]

SecretAndError ==
  <<Output("stdout", "text", <<"text">>),
    Output("stderr", "head", <<"Error:", "mail">>),
    Output("stderr", "frame", <<"key=", "text">>)>>

UserPattern(name, find, with, unsafe) ==
  [name |-> name, find |-> find, with |-> with, unsafe |-> unsafe]

OneOfOwnAndOneUnsafe ==
  <<UserPattern("user", <<{"Error:"}, {"[EMAIL]"}>>, <<"Error:", "[USER]">>, FALSE),
    UserPattern("email", <<{"mail"}>>, <<"mail">>, TRUE)>>

AllPatterns == Len(Patterns)
HalfOrAll   == {3, AllPatterns}

=============================================================================
