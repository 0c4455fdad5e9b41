--------------------------- MODULE MCUnixAddress ---------------------------
(***************************************************************************)
(* A sun_path of 5 bytes: files of up to 4 bytes, abstract names of up to  *)
(* 3.                                                                      *)
(***************************************************************************)
EXTENDS UnixAddress

MCBytes == {"/", "?", "a", "unnamed", "file", "abstract", "^"}
MCControls == {"^"}
MCSchemes == {"unix", "ed", "ed2"}
MCLetterSchemes == {"unix", "ed"}

MCPaths == {
    <<>>, <<"a">>, <<"/">>, <<"/", "/", "a", "/", "/">>,
    <<"a", "a", "a">>, <<"a", "a", "a", "a">>, <<"a", "a", "a", "a", "a">>,
    <<"a", "^">>, <<"?", "a">>
}

MCStructures == {
    <<NUL, NUL, "a", NUL, NUL>>,
    <<"a", NUL, "a", "a", "a">>,            \* bytes after the name
    <<"a", "a", "a", "a", "a">>,            \* no NUL
    <<NUL, "a", NUL, "a", "a">>,
    <<NUL, "a", "a", "a", "a">>
}

MCKernelNames == {
    <<>>,                                   \* not bound
    <<NUL, "a", NUL, "a">>,
    <<"a", "a", "a", "a", "a">>             \* no room for a NUL
}

=============================================================================
