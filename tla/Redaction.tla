------------------------------- MODULE Redaction -------------------------------
(***************************************************************************)
(* Redactor of src/redaction/index.ts: the list of patterns it installs    *)
(* and what redactText makes of a text.                                    *)
(*                                                                         *)
(* A text is a sequence of words, and a pattern finds a sequence of words: *)
(* each of its elements is the set of the words that one may be.  Of the   *)
(* words the model keeps what the default patterns tell apart.  A key and  *)
(* its value ("token=...") are two words with no space between them.       *)
(***************************************************************************)
EXTENDS Naturals, Sequences

CONSTANT UserPatterns  \* redaction.patterns, and whether each is found unsafe

\* What a bearer token may be written with.
TokenWord == {"token", "jwt", "aws", "card", "ip", "text"}

Word == TokenWord \cup {"mail", "Bearer", "key=", "Error:", "at"}

Marker == {"[EMAIL]", "[TOKEN]", "[JWT]", "[SECRET]", "[CARD]", "[AWS_KEY]", "[IP]", "[USER]"}

ASSUME RedactionAssumption ==
  UserPatterns \in Seq([name : STRING, find : Seq(SUBSET (Word \cup Marker)) \ {<<>>},
                        with : Seq(Word \cup Marker), unsafe : BOOLEAN])

Pattern(name, find, with) == [name |-> name, find |-> find, with |-> with]

\* Keys (of several lines) are left out: a line has no more than a part of one.
DefaultPatterns ==
  <<Pattern("email", <<{"mail"}>>, <<"[EMAIL]">>),
    Pattern("bearer_token", <<{"Bearer"}, TokenWord>>, <<"Bearer", "[TOKEN]">>),
    Pattern("jwt_like_token", <<{"jwt"}>>, <<"[JWT]">>),
    Pattern("api_key_param", <<{"key="}, Word \cup Marker>>, <<"key=", "[SECRET]">>),
    Pattern("credit_card_like", <<{"card"}>>, <<"[CARD]">>),
    Pattern("aws_access_key", <<{"aws"}>>, <<"[AWS_KEY]">>),
    Pattern("ipv4", <<{"ip"}>>, <<"[IP]">>)>>

\* A Map keeps the place of a name that is set again; looksUnsafe and probeRegex refuse.
Install(patterns, user) ==
  LET same == {i \in DOMAIN patterns : patterns[i].name = user.name}
      new  == Pattern(user.name, user.find, user.with)
  IN  IF user.unsafe THEN patterns
      ELSE IF same = {} THEN Append(patterns, new)
      ELSE [i \in DOMAIN patterns |-> IF i \in same THEN new ELSE patterns[i]]

Patterns ==
  LET installed[n \in 0 .. Len(UserPatterns)] ==
        IF n = 0 THEN DefaultPatterns ELSE Install(installed[n - 1], UserPatterns[n])
  IN  installed[Len(UserPatterns)]

FoundAt(pattern, text, i) ==
  /\ i + Len(pattern.find) - 1 <= Len(text)
  /\ \A k \in DOMAIN pattern.find : text[i + k - 1] \in pattern.find[k]

\* text.replace with the g flag: what was found is passed over.
Step(acc, pattern, text, i) ==
  IF acc.skip > 0 THEN [acc EXCEPT !.skip = @ - 1]
  ELSE IF FoundAt(pattern, text, i)
  THEN [out |-> acc.out \o pattern.with, skip |-> Len(pattern.find) - 1]
  ELSE [out |-> Append(acc.out, text[i]), skip |-> 0]

Replaced(text, pattern) ==
  LET upTo[i \in 0 .. Len(text)] ==
        IF i = 0 THEN [out |-> <<>>, skip |-> 0] ELSE Step(upTo[i - 1], pattern, text, i)
  IN  upTo[Len(text)].out

\* redactText, when the time lasts for the first `count' patterns.
Redact(text, count) ==
  LET after[n \in 0 .. count] ==
        IF n = 0 THEN text ELSE Replaced(after[n - 1], Patterns[n])
  IN  after[count]

=============================================================================
