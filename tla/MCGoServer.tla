----------------------------- MODULE MCGoServer -----------------------------
(***************************************************************************)
(* An instance of GoServer for TLC.                                        *)
(***************************************************************************)
EXTENDS GoServer, TLC

Env(port, key, url) == [APP_PORT |-> port, AUTHORIZATION_KEY |-> key, DATABASE_URL |-> url]
Ask(path, method, creates, upgrade, token) ==
    [path |-> path, method |-> method, creates |-> creates, upgrade |-> upgrade, token |-> token]

\* Nothing set, all set, a port that is no number, one that cannot be listened on,
\* and a database that cannot be opened.
AllEnvs == {Env(Nil, Nil, Nil), Env(8080, Key, "file"), Env(NotANumber, Key, Nil),
            Env(-1, Nil, Nil), Env(Nil, Key, "bad")}

NoPorts == {-1}

AllRequests == {Ask("sync", "POST", FALSE, FALSE, Key), Ask("sync", "GET", FALSE, FALSE, "wrong"),
                Ask("graphql", "POST", TRUE, FALSE, Nil), Ask("graphql", "GET", FALSE, TRUE, Nil),
                Ask("healthz", "GET", FALSE, FALSE, Nil)}
=============================================================================
