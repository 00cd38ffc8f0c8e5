---------------------------- MODULE MCHttpServer ----------------------------
(* Instances of HttpServer: a page, a file, a form with a body, and a path and a *)
(* method without a route, with the ways of asking for the end of the connection. *)
EXTENDS HttpServer

Ask(method, path, http10, connection, length) ==
    [method |-> method, path |-> path, http10 |-> http10, connection |-> connection,
     length |-> length]

MCKinds ==
    {Ask("GET", "/", FALSE, "", NoLength), Ask("GET", "/logo", TRUE, "Keep-Alive", NoLength),
     Ask("POST", "/form", FALSE, "", 2), Ask("POST", "/form", FALSE, "", 0),
     Ask("GET", "/", TRUE, "", NoLength), Ask("GET", "/", FALSE, "close", NoLength),
     Ask("PUT", "/form", FALSE, "", 1), Ask("POST", "/form", FALSE, "", BadLength)}
MCFormOrPage == {Ask("GET", "/", FALSE, "", NoLength), Ask("POST", "/form", FALSE, "", 2)}

MCPages == {<<"GET", "/">>, <<"POST", "/form">>}
MCFiles == {<<"GET", "/logo">>}

=============================================================================
