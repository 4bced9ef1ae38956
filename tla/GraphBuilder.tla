------------------------------ MODULE GraphBuilder ------------------------------
(***************************************************************************)
(* The architecture graph of a project: buildGraphFromEntries of           *)
(* src/graph/builder.ts.  What a file imports is read off its text in the  *)
(* code; here a project says it.                                           *)
(***************************************************************************)
EXTENDS FiniteSets

CONSTANTS
  CodeFile,  \* files of the languages whose imports are read
  OtherFile, \* other files that an import may lead to
  Test,      \* the code files that are tests
  Python,    \* the code files in Python, whose imports lead to Python files
  Package,   \* packages of other authors
  Route,     \* routes of the service
  Projects   \* what the files of the projects say: imports, requires, handles

ASSUME ProjectAssumption ==
  /\ Test \subseteq CodeFile /\ Python \subseteq CodeFile
  /\ CodeFile \cap OtherFile = {}
  /\ \A S \in {CodeFile, OtherFile, Package, Route} : IsFiniteSet(S)
  /\ \A project \in Projects :
       /\ project.imports \subseteq CodeFile \X (CodeFile \cup OtherFile)
       /\ \A i \in project.imports : i[1] \in Python => i[2] \in Python
       /\ project.requires \subseteq CodeFile \X Package
       /\ project.handles \subseteq Route \X (CodeFile \cup OtherFile)

FileId(file)       == <<"file", file>>
TestId(file)       == <<"test", file>>
PackageId(package) == <<"package", package>>
RouteId(route)     == <<"route", route>>

TypeOf(id)  == id[1]
LabelOf(id) == id[2]

\* The identifiers with a node of their own.  A test has two, one of them as a file; a
\* package that nobody requires has none in the code, and no edge here.
Listed == {FileId(f) : f \in CodeFile} \cup {TestId(t) : t \in Test}
          \cup {PackageId(p) : p \in Package} \cup {RouteId(r) : r \in Route}

\* An import leads to a file that is no code as well: an edge, but no node.
Node == Listed \cup {FileId(f) : f \in OtherFile}

Imports(project)   == {<<FileId(i[1]), FileId(i[2])>> : i \in project.imports}
DependsOn(project) == {<<FileId(i[1]), PackageId(i[2])>> : i \in project.requires}
HandledBy(project) ==
  {<<RouteId(i[1]), FileId(i[2])>> : i \in {h \in project.handles : h[2] \in CodeFile}}

\* The imports of a test are read once more for these edges, but not those in Python.
Tests(project) ==
  {<<TestId(i[1]), FileId(i[2])>> : i \in {j \in project.imports : j[1] \in Test \ Python}}

BuiltGraph(project) ==
  Imports(project) \cup DependsOn(project) \cup HandledBy(project) \cup Tests(project)

=============================================================================
