--------------------------- MODULE MCLibrarySync ---------------------------
\* Small instances of LibrarySync for TLC.
EXTENDS LibrarySync
CONSTANTS s1, s2, s3, s4, s5, a1, a2

TwoAlbums == [s \in {s1, s2, s3, s4, s5} |->
                IF s \in {s1, s4} THEN a1 ELSE IF s \in {s2, s3} THEN a2 ELSE NoAlbum]
Short == {<<>>, <<s1, s2>>, <<s1, s2, s3>>}
One == {<<s1>>}
OneOrBoth == {{a1}, {a1, a2}}
Never == {{}}
=============================================================================
