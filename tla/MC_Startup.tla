----------------------------- MODULE MC_Startup -----------------------------
(* Configurations for TLC: two that serve, with different URLs, credential *)
(* configurations, stores and filters, and one for each way to panic.      *)
EXTENDS Startup

Off == Toggle(FALSE, FALSE)
Chosen == Toggle(TRUE, TRUE)
Listed == Toggle(TRUE, FALSE)

NoFilter == [a \in Aggregates |-> {}]

Good(url, id) ==
    [event_store |-> "postgres", connection_string |-> TRUE, url |-> url,
     base_path |-> <<"/", "c", "/">>,
     did_methods |-> [m \in SupportedDidMethod |->
        IF m = "jwk" THEN Chosen ELSE IF m = "web" THEN Listed ELSE Off],
     signing_algorithms_supported |-> [a \in Algorithms |-> IF a = "EdDSA" THEN Chosen ELSE Off],
     issuer_did |-> FALSE, domain_linkage_enabled |-> TRUE,
     credential_configurations |-> <<id>>,
     http |-> [enabled |-> TRUE, events |-> [NoFilter EXCEPT
        !["server_config"] = {"ServerMetadataInitialized", "CredentialConfigurationAdded"},
        !["received_offer"] = {"CredentialOfferAccepted", "TokenResponseReceived"}]]]

MCConfigs ==
    LET one == Good("u1", "k1")
        two == Good("u2", "k2")
    IN {one,
        [two EXCEPT !.http.events["offer"] = {"CredentialOfferCreated"}],
        [two EXCEPT !.event_store = "in_memory", !.base_path = None, !.http.enabled = FALSE],
        [two EXCEPT !.did_methods["iota_rms"] = Listed],
        [two EXCEPT !.did_methods["jwk"] = Listed],
        [two EXCEPT !.http = None],
        [two EXCEPT !.connection_string = FALSE],
        [two EXCEPT !.credential_configurations = <<>>],
        [two EXCEPT !.signing_algorithms_supported["RS256"] = Listed],
        [two EXCEPT !.base_path = <<"/", "/">>],
        [two EXCEPT !.did_methods["web"] = Off]}

(* One that serves and asks for a single event of the holder. *)
ClaimConfigs ==
    {[Good("u1", "k1") EXCEPT !.http.events = [NoFilter EXCEPT
        !["received_offer"] = {"TokenResponseReceived"}]]}

MCBatches ==
    {[aggregate |-> "offer", events |-> <<"CredentialOfferCreated">>],
     [aggregate |-> "received_offer",
      events |-> <<"CredentialOfferAccepted", "TokenResponseReceived">>]}
=============================================================================
