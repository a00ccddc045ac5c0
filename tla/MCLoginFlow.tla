----------------------------- MODULE MCLoginFlow ----------------------------
(***************************************************************************)
(* LoginFlow on a small instance: the README's set-up, where GitHub knows  *)
(* one callback URL, the browser flow's, and Google the page's.            *)
(***************************************************************************)
EXTENDS LoginFlow

MCSymmetry == Permutations(Tabs) \cup Permutations(States) \cup Permutations(Codes)

MCConfiguredURL == [p \in OAuthConfigs |-> IF p = "github" THEN CallbackURL(p) ELSE SpaURL]

Nowhere == <<>>
App == <<"http:", "/", "/", "app">>
AppPage == App \o <<"/", "page">>
AppElsewhere == App \o <<".elsewhere", "/">>
Here == <<"/", "page">>
OtherHost == <<"/", "/", "elsewhere", "/">>

MCAsked == {AppPage, AppElsewhere, Here, OtherHost}
MCRedirects == MCAsked \cup {Home, Nowhere}
MCAllowlists == {{App}, {}}

\* "Jane" and "jane" are one address to EqualFold.
MCCaseFold == [e \in Shown |-> IF e = "Jane" THEN "jane" ELSE e]

Listed(e, p, v) == [email |-> e, primary |-> p, verified |-> v]

\* GitHub: an address it verified in another spelling; one of two it has not
\* verified; none shown publicly; no list.
MCAnswers == [p \in OAuthConfigs |->
    CASE p = "github" ->
           {[id |-> "n1", email |-> "jane", emails |-> <<Listed("joe", TRUE, FALSE), Listed("Jane", FALSE, TRUE)>>],
            [id |-> "n1", email |-> "jane", emails |-> <<Listed("joe", TRUE, TRUE), Listed("jane", FALSE, FALSE)>>],
            [id |-> "n1", email |-> "", emails |-> <<Listed("joe", FALSE, FALSE), Listed("jane", TRUE, TRUE)>>],
            [id |-> "n1", email |-> "jane", emails |-> Unreadable]}
      [] p = "google" -> {[id |-> "n1", email |-> "jane", verifiedEmail |-> TRUE]}
      [] p = "microsoft" -> {[id |-> "n1", mail |-> "", upn |-> "jane"]}]
=============================================================================
