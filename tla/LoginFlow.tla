----------------------------- MODULE LoginFlow ------------------------------
(***************************************************************************)
(* A login from the first click to the credential, in two flows that share *)
(* the state store and the exchange of the code:                           *)
(*  - the browser flow, /auth/oauth/{p}/start and /callback, which lands   *)
(*    on the page it was asked to return to;                               *)
(*  - the RPC flow, StartOAuth and OAuthCallback, driven by the front-end  *)
(*    page, which keeps the name of the provider in localStorage, or by a  *)
(*    program with a redirect URL of its own.                              *)
(* The tabs of one browser run them at the same time, URLs are loaded      *)
(* twice, the provider refuses, answers get lost, the process restarts     *)
(* with another allowlist.                                                 *)
(*                                                                         *)
(* The state tokens are the ledger of Tickets, which StateStore keeps to.  *)
(* The provider's side of the protocol (one use of a code, same redirect   *)
(* URL) is external.  Who gets an account is UserDirectory, what becomes   *)
(* of the session BrowserSessions.                                         *)
(***************************************************************************)
EXTENDS Tickets, RedirectPolicy, ProviderProfiles

CONSTANTS
    Tabs,           \* the browser's tabs, or other programs that log a user in
    Codes,          \* the authorization codes providers may issue
    NoCode,         \* no code in the URL, or the code is not issued yet
    NoState,        \* no state in hand
    NoProvider,     \* nothing in localStorage
    OAuthConfigs,   \* the providers the server is configured for
    ConfiguredURL,  \* the redirect URL configured for each of them
    Asked,          \* the values of redirect_uri, the empty one included
    Allowlists,     \* the values ALLOWED_REDIRECT_URIS may have
    Answers,        \* what each provider may answer about a user
    Horizon,        \* bound of the clock
    MaxRestarts     \* bound of the restarts

CallbackURL(p) == <<"callback", p>>
SpaURL == <<"spa">>
CustomURL == <<"custom">>
RedirectURLs == {CallbackURL(p) : p \in Providers} \cup {SpaURL, CustomURL}
Home == <<"/">>

\* An issued code, and with what it was presented at a token endpoint.
IssuedCode == [provider : Providers, url : RedirectURLs, used : BOOLEAN,
               tries : 0..2, at : SUBSET Providers, with : SUBSET RedirectURLs]

ASSUME FlowAssumption ==
    /\ OAuthConfigs \subseteq Providers
    /\ ConfiguredURL \in [OAuthConfigs -> {SpaURL} \cup {CallbackURL(p) : p \in Providers}]
    /\ \A p \in OAuthConfigs : ConfiguredURL[p] \in {SpaURL, CallbackURL(p)}
    /\ NoRedirect = <<>>
    /\ Asked \cup {NoRedirect, Home} \subseteq Redirects
    /\ \A p \in OAuthConfigs \cap Fetchable : Answers[p] \subseteq RawAnswer(p)
    /\ NoCode \notin Codes /\ NoState \notin States /\ NoProvider \notin Providers
    /\ NoTicket \notin Ticket /\ NoCode \notin IssuedCode
    /\ Unreadable \notin Profile /\ Unreadable \notin Seq(GitHubEmail)
    /\ Horizon \in Nat /\ MaxRestarts \in Nat

\* Return addresses are URLs; the list's entries, by the documentation of
\* ALLOWED_REDIRECT_URIS, are URLs with a host.
ASSUME RedirectAssumption ==
    /\ \A r \in Redirects : r \in Seq(STRING)
    /\ \A list \in Allowlists : \A p \in list : p \in Seq(STRING) /\ HasHost(p)

VARIABLES
    tab,         \* what each tab is doing
    codes,       \* the codes: who issued them, what became of them
    remembered,  \* localStorage's provider, shared by the tabs
    allowlist    \* the running process's AllowedRedirectURIs

flowVars == <<tab, codes, remembered, allowlist>>
vars == <<ledgerVars, flowVars>>

\* "consent" is at the provider, "return" on the way back from it; "exchange",
\* "fetch", "upsert" and "issue" are calls of AuthenticateOAuthUser and its
\* callers that a handler waits for.
Handling == {"exchange", "fetch", "upsert", "issue"}
Views == {"idle", "consent", "return", "in", "error"} \cup Handling

Blank == [view |-> "idle", provider |-> NoProvider, state |-> NoState, code |-> NoCode,
          url |-> SpaURL, uri |-> <<>>, raw |-> Unreadable, profile |-> Unreadable]

Init ==
    /\ LedgerInit
    /\ tab = [t \in Tabs |-> Blank]
    /\ codes = [c \in Codes |-> NoCode]
    /\ remembered = NoProvider
    /\ allowlist \in Allowlists

Become(t, r) == tab' = [tab EXCEPT ![t] = r]
Fail(t) == Become(t, [tab[t] EXCEPT !.view = "error", !.uri = <<>>, !.raw = Unreadable,
                                     !.profile = Unreadable])
Refuse(t) == Become(t, [Blank EXCEPT !.view = "error"])
Land(t, uri) == Become(t, [Blank EXCEPT !.view = "in", !.uri = uri])

\* A tab that shows no login under way may start another one.
Free(t) == tab[t].view \in {"idle", "in", "error"}

\* Mutated form of the next definition, caught by TypeOK: the default is a page
\* nobody asked for.
WithDefault_OtherPage(uri) == IF uri = <<>> THEN <<"/", "index">> ELSE uri

WithDefault(uri) == IF uri = <<>> THEN Home ELSE uri

-----------------------------------------------------------------------------
\* Mutated forms of operations below: slips this code could have had, each caught
\* by a property of the run MCLoginFlow.  No specification uses them.

\* The browser flow exchanges with the configured redirect URL.
SentURL_Configured(t) == ConfiguredURL[tab[t].provider]

-----------------------------------------------------------------------------
(* Start *)

\* GET /auth/login: straight back to the module if the cookie names a valid
\* session (which it may or may not, see BrowserSessions), else the page with
\* the providers.
HandleLogin(t, asked) ==
    /\ Free(t)
    /\ IF IsAllowedRedirect(WithDefault(asked), allowlist)
         THEN Land(t, WithDefault(asked))
         ELSE Refuse(t)
    /\ UNCHANGED <<ledgerVars, codes, remembered, allowlist>>

\* A fresh state for provider p and return address r, and the tab at the
\* consent page, which will send it back to url.
Leave(t, p, r, url) ==
    \E s \in States :
        /\ Issue(s, p, r)
        /\ Become(t, [Blank EXCEPT !.view = "consent", !.provider = p, !.state = s, !.url = url])

\* GET /auth/oauth/{p}/start.
HandleOAuthStart(t, p, asked) ==
    /\ Free(t)
    /\ IF p \in OAuthConfigs /\ IsAllowedRedirect(WithDefault(asked), allowlist)
         THEN Leave(t, p, WithDefault(asked), CallbackURL(p))
         ELSE Refuse(t) /\ UNCHANGED ledgerVars
    /\ UNCHANGED <<codes, remembered, allowlist>>

\* StartOAuth called by the page, which then notes the provider and leaves for
\* the authorization URL.
StartFromPage(t, p) ==
    /\ Free(t)
    /\ IF p \in OAuthConfigs
         THEN \/ Leave(t, p, NoRedirect, ConfiguredURL[p]) /\ remembered' = p
              \/ /\ \E s \in States : Issue(s, p, NoRedirect)  \* the answer is lost
                 /\ Refuse(t)
                 /\ UNCHANGED remembered
         ELSE Refuse(t) /\ UNCHANGED <<ledgerVars, remembered>>
    /\ UNCHANGED <<codes, allowlist>>

\* StartOAuth called with a redirect_url of the caller's own.
StartFromProgram(t, p) ==
    /\ Free(t)
    /\ p \in OAuthConfigs
    /\ Leave(t, p, NoRedirect, CustomURL)
    /\ UNCHANGED <<codes, remembered, allowlist>>

-----------------------------------------------------------------------------
(* The provider's consent page, and the way back *)

Consent(t, c) ==
    /\ tab[t].view = "consent"
    /\ codes[c] = NoCode
    /\ codes' = [codes EXCEPT ![c] = [provider |-> tab[t].provider, url |-> tab[t].url,
                                      used |-> FALSE, tries |-> 0, at |-> {}, with |-> {}]]
    /\ Become(t, [tab[t] EXCEPT !.view = "return", !.code = c])
    /\ UNCHANGED <<ledgerVars, remembered, allowlist>>

\* The provider sends the browser back without a code.
Decline(t) ==
    /\ tab[t].view = "consent"
    /\ Become(t, [tab[t] EXCEPT !.view = "return"])
    /\ UNCHANGED <<ledgerVars, codes, remembered, allowlist>>

\* The URL the provider sent tab t to is loaded again, there or elsewhere.
LoadAgain(t, u) ==
    /\ tab[t].code # NoCode
    /\ Free(u)
    /\ Become(u, [tab[t] EXCEPT !.view = "return", !.uri = <<>>, !.raw = Unreadable,
                                !.profile = Unreadable])
    /\ UNCHANGED <<ledgerVars, codes, remembered, allowlist>>

\* The state of tab t is presented for provider p; Good lets the handler go on.
GoOn(t, p, uri) ==
    Become(t, [tab[t] EXCEPT !.view = "exchange", !.provider = p, !.uri = uri])

\* GET /auth/oauth/{p}/callback: an error of the provider leaves the state
\* alone, everything else settles it first; so does the load balancer when it
\* picks another replica, whose map has never held the state.
HandleOAuthCallback(t) ==
    LET p == tab[t].provider
        s == tab[t].state
        uri == WithDefault(ledger[s].redirectURI)
    IN  /\ tab[t].view = "return"
        /\ tab[t].url = CallbackURL(p)
        /\ \/ Fail(t) /\ UNCHANGED ledgerVars
           \/ /\ Settle(s, p)
              /\ IF /\ Good(s, p)
                    /\ IsAllowedRedirect(uri, allowlist)
                    /\ tab[t].code # NoCode
                   THEN GoOn(t, p, uri)
                   ELSE Fail(t)
        /\ UNCHANGED <<codes, remembered, allowlist>>

\* The page finds a code and a state in its URL and posts them to OAuthCallback
\* with the provider localStorage holds now.
CallbackFromPage(t) ==
    /\ tab[t].view = "return"
    /\ tab[t].url = SpaURL
    /\ \/ Fail(t) /\ UNCHANGED ledgerVars  \* nothing to post, or to another replica
       \/ /\ tab[t].code # NoCode
          /\ remembered # NoProvider
          /\ Settle(tab[t].state, remembered)
          /\ IF Good(tab[t].state, remembered) THEN GoOn(t, remembered, <<>>) ELSE Fail(t)
    /\ UNCHANGED <<codes, remembered, allowlist>>

\* The program posts the code with the provider it asked for.
CallbackFromProgram(t) ==
    /\ tab[t].view = "return"
    /\ tab[t].url = CustomURL
    /\ \/ Fail(t) /\ UNCHANGED ledgerVars
       \/ /\ tab[t].code # NoCode
          /\ Settle(tab[t].state, tab[t].provider)
          /\ IF Good(tab[t].state, tab[t].provider)
               THEN GoOn(t, tab[t].provider, <<>>)
               ELSE Fail(t)
    /\ UNCHANGED <<codes, remembered, allowlist>>

-----------------------------------------------------------------------------
(* AuthenticateOAuthUser and the credential *)

BrowserFlow(t) == tab[t].url \in {CallbackURL(p) : p \in Providers}

\* The redirect URL the exchange sends: the browser flow overrides the
\* configured one with its callback.
SentURL(t) == IF BrowserFlow(t) THEN CallbackURL(tab[t].provider)
                                ELSE ConfiguredURL[tab[t].provider]

\* What the token endpoint of p accepts (external).
Accepts(p, c, url) ==
    /\ codes[c].provider = p
    /\ codes[c].url = url
    /\ ~codes[c].used

\* An issued code k after its exchange with p, which named url.
Tried(k, p, url, ok) ==
    [k EXCEPT !.used = @ \/ ok,
              !.tries = IF @ < 2 THEN @ + 1 ELSE @,
              !.at = @ \cup {p},
              !.with = @ \cup {url}]

Exchange(t) ==
    LET p == tab[t].provider
        c == tab[t].code
    IN  /\ tab[t].view = "exchange"
        /\ IF p \in OAuthConfigs
             THEN /\ codes' = [codes EXCEPT ![c] = Tried(@, p, SentURL(t), Accepts(p, c, SentURL(t)))]
                  /\ \/ /\ Accepts(p, c, SentURL(t))
                        /\ Become(t, [tab[t] EXCEPT !.view = "fetch"])
                     \/ Fail(t)
             ELSE Fail(t) /\ UNCHANGED codes
        /\ UNCHANGED <<ledgerVars, remembered, allowlist>>

\* The profile of the user who consented; without an address there is no login.
Fetch(t) ==
    LET p == tab[t].provider
    IN  /\ tab[t].view = "fetch"
        /\ \/ /\ p \in Fetchable
              /\ \E a \in Answers[p] :
                    LET f == UserInfoFetcher(p, a)
                    IN  IF f.email # NoEmail
                          THEN Become(t, [tab[t] EXCEPT !.view = "upsert", !.raw = a, !.profile = f])
                          ELSE Fail(t)
           \/ Fail(t)
        /\ UNCHANGED <<ledgerVars, codes, remembered, allowlist>>

\* UpsertByProvider and what follows it (UserDirectory): an active account, or
\* a refusal, or an error.
Upsert(t) ==
    /\ tab[t].view = "upsert"
    /\ \/ Become(t, [tab[t] EXCEPT !.view = "issue", !.raw = Unreadable, !.profile = Unreadable])
       \/ Fail(t)
    /\ UNCHANGED <<ledgerVars, codes, remembered, allowlist>>

\* The session and its cookie, or the JWT; the insert fails or the answer is
\* lost.  The page then drops code and state from its URL.
IssueCredential(t) ==
    /\ tab[t].view = "issue"
    /\ Land(t, tab[t].uri) \/ Fail(t)
    /\ UNCHANGED <<ledgerVars, codes, remembered, allowlist>>

-----------------------------------------------------------------------------
(* Environment *)

\* Logging out in any tab clears localStorage.
ForgetProvider ==
    /\ remembered # NoProvider
    /\ remembered' = NoProvider
    /\ UNCHANGED <<ledgerVars, tab, codes, allowlist>>

Tick ==
    /\ now < Horizon
    /\ Elapse
    /\ UNCHANGED flowVars

\* Handlers die, the tabs that wait for them show an error; the new process
\* knows no state and may allow other redirects.
Restart ==
    /\ epoch < MaxRestarts
    /\ NewEpoch
    /\ tab' = [t \in Tabs |-> IF tab[t].view \in Handling
                               THEN [tab[t] EXCEPT !.view = "error", !.uri = <<>>,
                                                   !.raw = Unreadable, !.profile = Unreadable]
                               ELSE tab[t]]
    /\ allowlist' \in Allowlists
    /\ UNCHANGED <<codes, remembered>>

Handler(t) ==
    \/ HandleOAuthCallback(t) \/ CallbackFromPage(t) \/ CallbackFromProgram(t)
    \/ Exchange(t) \/ Fetch(t) \/ Upsert(t) \/ IssueCredential(t)

Start(t) ==
    \/ \E asked \in Asked : HandleLogin(t, asked)
    \/ \E p \in Providers :
          \/ \E asked \in Asked : HandleOAuthStart(t, p, asked)
          \/ StartFromPage(t, p)
          \/ StartFromProgram(t, p)

Next ==
    \/ \E t \in Tabs : Start(t) \/ Handler(t) \/ Decline(t)
    \/ \E t \in Tabs, c \in Codes : Consent(t, c)
    \/ \E t, u \in Tabs : LoadAgain(t, u)
    \/ ForgetProvider
    \/ Tick
    \/ Restart

Spec == Init /\ [][Next]_vars

-----------------------------------------------------------------------------
(* Properties *)

TabState ==
    [view : Views, provider : Providers \cup {NoProvider}, state : States \cup {NoState},
     code : Codes \cup {NoCode}, url : RedirectURLs, uri : Redirects,
     raw : (UNION {Answers[p] : p \in OAuthConfigs}) \cup {Unreadable},
     profile : Profile \cup {Unreadable}]

\* Type invariant: who holds what in which view.
TypeOK ==
    /\ now \in 0..Horizon /\ epoch \in 0..MaxRestarts
    /\ ledger \in [States -> Ticket \cup {NoTicket}]
    /\ tab \in [Tabs -> TabState]
    /\ codes \in [Codes -> IssuedCode \cup {NoCode}]
    /\ remembered \in Providers \cup {NoProvider}
    /\ allowlist \in Allowlists

\* A code is only ever presented to the provider that issued it, although the
\* page takes the provider's name from a localStorage that any tab may have
\* overwritten since: the state is bound to the provider.
CodeGoesHome ==
    \A c \in Codes : codes[c] # NoCode => codes[c].at \subseteq {codes[c].provider}

\* A callback URL loaded twice, in whatever tabs and whenever, presents its code
\* once: the state stops the second request before the exchange.
ReplayStopsHere ==
    \A c \in Codes : codes[c] # NoCode => codes[c].tries <= 1

\* The exchange names the redirect URL the authorization request named, which
\* providers insist on, whichever flow began the login and whichever ended it.
\* The exception is a redirect_url of the caller's own, which OAuthCallback has
\* no way to know.
ExchangeMatches ==
    \A c \in Codes : codes[c] # NoCode /\ codes[c].url # CustomURL =>
        codes[c].with \subseteq {codes[c].url}

\* A tab that a login sends on lands, to the browser's reading of the URL, on a page
\* of this origin or on the scheme, host and port of an entry of the list the
\* process that sends it was started with: the URL was tested at the start and is
\* tested again at the callback, against the list of the process that serves it.
LandsOnAllowedSite ==
    [][\A t \in Tabs : tab[t]'.view = "in" /\ tab[t]'.uri # <<>> /\ tab[t]' # tab[t] =>
          AllowedSite(tab[t]'.uri, allowlist')]_vars

\* The profile an account is linked by claims nothing the provider did not.
ProfileHonest ==
    \A t \in Tabs : tab[t].view = "upsert" =>
        Honest(tab[t].provider, tab[t].raw, tab[t].profile)
=============================================================================
