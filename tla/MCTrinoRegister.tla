---------------------------- MODULE MCTrinoRegister ----------------------------
\* A bucket: a table in its project's directory itself, one deeper down and one
\* directly below the project with the same name, another directly below, a
\* project whose name is no identifier, and one behind it.
EXTENDS TrinoRegister

Place(project, path) == [project |-> project, path |-> path]

\* In the order of their keys: lake, lake/a/b, lake/a_b, lake/c, my-data/t,
\* sales/t.
MCOrder ==
    << Place("lake", <<>>),
       Place("lake", << <<"a">>, <<"b">> >>),
       Place("lake", << <<"a", "b">> >>),
       Place("lake", << <<"c">> >>),
       Place("my-data", << <<"t">> >>),
       Place("sales", << <<"t">> >>) >>
=============================================================================
