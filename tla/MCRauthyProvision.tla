-------------------------- MODULE MCRauthyProvision --------------------------
(* Model-checking instance of RauthyProvision: the declarations considered. *)
EXTENDS RauthyProvision

Declared(f, ks, keeps, transients, pages) ==
    [focus : {f}, kind : ks, present : {TRUE}, keep : keeps, transient : transients, paged : pages]

\* Every kind of item, --no-auto-remove and a paged list where they matter;
\* the transient key around the simplest class and the provider class.
MCSettings ==
    Declared("name", {"group", "attribute"}, BOOLEAN, BOOLEAN, {FALSE}) \cup
    Declared("provider", {"provider"}, BOOLEAN, {FALSE}, {FALSE}) \cup
    Declared("user", {"plain", "password", "email", "federated"}, {FALSE}, {FALSE}, {FALSE}) \cup
    Declared("user", {"password"}, {TRUE}, {FALSE}, {TRUE}) \cup
    Declared("client", {"public", "confidential"}, {FALSE}, {FALSE}, {FALSE})
=============================================================================
