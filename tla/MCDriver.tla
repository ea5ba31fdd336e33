------------------------------ MODULE MCDriver ------------------------------
\* Two files, each unreadable or with a source that fails in one of the passes or in
\* none, for a command of the command line and for a client that makes two calls.
EXTENDS Driver

Found(pass, kind, lines) == [pass |-> pass, kind |-> kind, lines |-> lines]
Holding(parse, elab, core, read) ==
  [parse |-> parse, elab |-> elab, core |-> core, read |-> read, links |-> 2]

MismatchFound == Found("SurfaceToCore", "TypeMismatch", <<3>>)
RedefinitionFound == Found("SurfaceToCore", "ItemRedefinition", <<4, 1>>)
UnreachableFound == Found("SurfaceToCore", "UnreachablePattern", <<2>>)
FieldsFound == Found("CoreTyping", "MissingStructFields", <<3, 1>>)

FormatSources ==
  { Holding(<<>>, <<>>, <<>>, "reads"), Holding(<<>>, <<>>, <<>>, "fails"),
    Holding(<<Found("Parse", "UnrecognizedToken", <<1>>)>>, <<>>, <<>>, "reads"),
    Holding(<<>>, <<UnreachableFound>>, <<>>, "reads"),
    Holding(<<>>, <<MismatchFound, UnreachableFound>>, <<FieldsFound>>, "reads"),
    Holding(<<>>, <<RedefinitionFound, MismatchFound>>, <<>>, "fails"),
    Holding(<<>>, <<>>, <<FieldsFound>>, "reads") }

MCPaths == {"a", "b"}
MCUnreadable == [unreadable |-> TRUE]
MCMaxCalls == 2

=============================================================================
