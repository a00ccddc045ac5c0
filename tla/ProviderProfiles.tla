-------------------------- MODULE ProviderProfiles --------------------------
(***************************************************************************)
(* From what an identity provider answers to the profile a login is made   *)
(* with (pkg/auth/oauth_providers.go): pure operators, no state.           *)
(*                                                                         *)
(* An answer is the JSON body as the fetcher's struct decodes it.  No      *)
(* fetcher looks at the HTTP status, so the body of an error answer is     *)
(* decoded too and leaves every field it lacks at its zero value: NoEmail  *)
(* for an address, NoId for GitHub's number and for the other two's        *)
(* strings.  Names and avatars, which nothing decides on, are left out.    *)
(***************************************************************************)
EXTENDS Naturals, Sequences, FiniteSetsExt

CONSTANTS
    Emails,      \* the addresses a provider may show
    NoEmail,     \* the absent address
    SubjectIds,  \* the ids a provider gives its own users
    NoId,        \* the id field of an answer without one
    CaseFold,    \* the class of addresses that differ in letter case only
    Unreadable   \* no answer: the call failed, or the body is not JSON

ASSUME ProfileAssumption ==
    /\ NoEmail \notin Emails
    /\ NoId \notin SubjectIds
    /\ CaseFold \in [Emails \cup {NoEmail} -> Emails \cup {NoEmail}]
    /\ \A e \in Emails : CaseFold[e] # CaseFold[NoEmail]

Shown == Emails \cup {NoEmail}
Ids == SubjectIds \cup {NoId}

GoogleAnswer == [id : Ids, email : Shown, verifiedEmail : BOOLEAN]
MicrosoftAnswer == [id : Ids, mail : Shown, upn : Shown]
GitHubEmail == [email : Shown, primary : BOOLEAN, verified : BOOLEAN]
GitHubAnswer == [id : Ids, email : Shown, emails : Seq(GitHubEmail) \cup {Unreadable}]

Profile == [id : Ids, email : Shown, emailVerified : BOOLEAN]

-----------------------------------------------------------------------------
(* GitHub *)

\* Mutated form of the next definition, caught by ProfileHonest: the public address
\* gets the flag of the primary one.
PickGitHubEmail_PrimaryFlag(public, emails) ==
    LET Primary  == {i \in DOMAIN emails : emails[i].primary}
        Verified == {i \in DOMAIN emails : emails[i].verified}
        Flag     == Primary # {} /\ emails[Min(Primary)].verified
    IN  IF public # NoEmail THEN [email |-> public, verified |-> Flag]
        ELSE IF Primary # {} THEN [email |-> emails[Min(Primary)].email, verified |-> Flag]
        ELSE IF Verified # {} THEN [email |-> emails[Min(Verified)].email, verified |-> TRUE]
        ELSE [email |-> NoEmail, verified |-> FALSE]

\* The public address when there is one, verified if the first entry of the
\* list that spells it says so; otherwise the first primary address, the first
\* verified one, the first.
PickGitHubEmail(public, emails) ==
    LET Same     == {i \in DOMAIN emails : CaseFold[emails[i].email] = CaseFold[public]}
        Primary  == {i \in DOMAIN emails : emails[i].primary}
        Verified == {i \in DOMAIN emails : emails[i].verified}
        Entry(i) == [email |-> emails[i].email, verified |-> emails[i].verified]
    IN  IF public # NoEmail
          THEN [email |-> public, verified |-> Same # {} /\ emails[Min(Same)].verified]
        ELSE IF Primary # {} THEN Entry(Min(Primary))
        ELSE IF Verified # {} THEN Entry(Min(Verified))
        ELSE IF emails # <<>> THEN [email |-> emails[1].email, verified |-> FALSE]
        ELSE [email |-> NoEmail, verified |-> FALSE]

\* Without the list of addresses the login goes on with nothing verified.
FetchGitHubUserInfo(a) ==
    LET emails == IF a.emails = Unreadable THEN <<>> ELSE a.emails
        choice == PickGitHubEmail(a.email, emails)
    IN  [id |-> a.id, email |-> choice.email, emailVerified |-> choice.verified]

-----------------------------------------------------------------------------
(* Google and Microsoft *)

FetchGoogleUserInfo(a) ==
    [id |-> a.id, email |-> a.email, emailVerified |-> a.verifiedEmail]

\* Graph does not say whether an address is verified.
FetchMicrosoftUserInfo(a) ==
    [id |-> a.id, email |-> IF a.mail # NoEmail THEN a.mail ELSE a.upn,
     emailVerified |-> FALSE]

-----------------------------------------------------------------------------
(* The table of fetchers, and what an answer is *)

Fetchable == {"google", "github", "microsoft"}

RawAnswer(p) ==
    CASE p = "google" -> GoogleAnswer
      [] p = "github" -> GitHubAnswer
      [] p = "microsoft" -> MicrosoftAnswer

UserInfoFetcher(p, a) ==
    CASE p = "google" -> FetchGoogleUserInfo(a)
      [] p = "github" -> FetchGitHubUserInfo(a)
      [] p = "microsoft" -> FetchMicrosoftUserInfo(a)

\* What the answer a of provider p itself asserts: the addresses it names, and
\* of those the ones it calls verified.
Named(p, a) ==
    CASE p = "google" -> {a.email}
      [] p = "microsoft" -> {a.mail, a.upn}
      [] p = "github" -> {a.email} \cup
            (IF a.emails = Unreadable THEN {} ELSE {a.emails[i].email : i \in DOMAIN a.emails})

Vouched(p, a) ==
    CASE p = "google" -> IF a.verifiedEmail THEN {a.email} ELSE {}
      [] p = "microsoft" -> {}
      [] p = "github" -> IF a.emails = Unreadable THEN {}
            ELSE {a.emails[i].email : i \in {j \in DOMAIN a.emails : a.emails[j].verified}}

\* The profile f says no more than the answer a of provider p does: its address
\* is one the answer names, and is called verified only if the answer vouches
\* for that address, in some spelling.
Honest(p, a, f) ==
    /\ f.email # NoEmail => f.email \in Named(p, a)
    /\ f.emailVerified /\ f.email # NoEmail =>
          \E e \in Vouched(p, a) : CaseFold[e] = CaseFold[f.email]
=============================================================================
