---------------------------- MODULE MCInvestigation ----------------------------
(* A small instance of Investigation for TLC: four files of code that may    *)
(* import each other, a file c that is no code, a test, a package and a      *)
(* route; and a Python file with its test.                                   *)
EXTENDS Investigation

CONSTANTS a, b, c, d, e, t, g, u, p, r

\* Cycles, two ways to a node, and paths longer than each walk.
AllProjects ==
  [imports  : {ScriptImports \cup {<<u, g>>} :
                 ScriptImports \in SUBSET {<<a, b>>, <<b, a>>, <<b, c>>, <<d, c>>, <<d, a>>,
                                          <<b, d>>, <<e, b>>, <<t, d>>}},
   requires : {{}, {<<a, p>>, <<e, p>>}},
   handles  : SUBSET {<<r, e>>}]

\* A file may go by two names, and a frame may lie outside the repository.
SomeFrames == {"a", "dist/a", "b", "c", "e", "library"}

SomeFiles ==
  [f \in SomeFrames |->
     CASE f \in {"a", "dist/a"} -> a [] f = "b" -> b [] f = "c" -> c [] f = "e" -> e
       [] OTHER -> NoFile]

SomeTraces ==
  {<<>>, <<"library", "a", "dist/a">>, <<"c", "library">>, <<"e">>, <<"a", "b", "dist/a">>,
   <<"c", "a">>, <<"b", "a", "c">>}

=============================================================================
