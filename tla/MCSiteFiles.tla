---------------------------- MODULE MCSiteFiles ----------------------------
EXTENDS SiteFiles

\* Paths of up to two segments, and some longer ones.
Segments == {"", "..", "d", "a.php", ".git"}
RawPaths ==
  {<<s>> : s \in Segments} \cup {<<s, t>> : s \in {"..", "d"}, t \in Segments}
  \cup {<<"d", "..", "a.php">>, <<".git", "..", "a.php">>, <<"a.php", "">>, <<".git", "d", "f">>,
        <<"d", "NUL">>, <<"d", ".git", "">>, <<".well-known", "f">>}
Directories == {<<>>, <<"d">>, <<".git">>, <<".git", "d">>, <<".well-known">>}
FileSet == {<<<<"a.php">>, "plain">>, <<<<"d", "index.html">>, "plain">>,
          <<<<"d", "index.html">>, "gzip">>, <<<<".git", "d", "f">>, "plain">>}
ChangingSet == {<<<<"a.php">>, "plain">>, <<<<"d", "index.html">>, "gzip">>}
DottedNames == {".git", ".well-known"}
ScriptNames == {"a.php", "index.php"}
NoNames == {"NUL"}
AcceptSets == {{}, {"br", "gzip"}}
FrontPath == <<"a.php">>
=============================================================================
