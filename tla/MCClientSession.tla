-------------------------- MODULE MCClientSession --------------------------
(* Clients of all kinds against servers of all kinds.                       *)
EXTENDS ClientSession

Usual == [tls |-> "optional", encryption |-> TRUE, compress |-> TRUE, sasl |-> TRUE,
          forceNonSasl |-> FALSE, credentials |-> TRUE, certificate |-> FALSE,
          manageRoster |-> TRUE, quitAt |-> {}]
MCSettings ==
    {Usual,
     [Usual EXCEPT !.tls = "required", !.manageRoster = FALSE],
     [Usual EXCEPT !.tls = "required", !.encryption = FALSE],
     [Usual EXCEPT !.tls = "disabled", !.compress = FALSE],
     [Usual EXCEPT !.sasl = FALSE, !.tls = "required"],
     [Usual EXCEPT !.forceNonSasl = TRUE],
     [Usual EXCEPT !.credentials = FALSE],
     [Usual EXCEPT !.credentials = FALSE, !.certificate = TRUE],
     [Usual EXCEPT !.quitAt = {"bound", "finished"}],
     [Usual EXCEPT !.quitAt = {"authentication", "roster"}],
     [Usual EXCEPT !.quitAt = {"connected", "encryption"}]}

Full == [tls |-> "offered", auth |-> {"DIGEST-MD5", "PLAIN", "ANONYMOUS"},
         session |-> {"session"}, compression |-> "early"]
MCPolicies ==
    {Full,
     [Full EXCEPT !.tls = "needed", !.auth = {"PLAIN", "EXTERNAL"}, !.compression = "late"],
     [Full EXCEPT !.tls = "never", !.auth = {"PLAIN", "iqauth"}, !.session = {}],
     [Full EXCEPT !.tls = "needed", !.auth = {"iqauth"}],
     [Full EXCEPT !.tls = "never", !.auth = {}, !.compression = "never"]}
=============================================================================
