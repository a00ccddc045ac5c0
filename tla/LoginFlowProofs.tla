-------------------------- MODULE LoginFlowProofs --------------------------
(***************************************************************************)
(* LoginFlow for every number of tabs, states, codes, providers and        *)
(* restarts, every allowlist and every answer of a provider.               *)
(*                                                                         *)
(* First the two pure policies: what isAllowedRedirect lets through, and   *)
(* what the fetchers make of an answer.  Then the inductive invariant: a   *)
(* code and the state it came with stay together in all copies of a        *)
(* callback URL, so that the state's first presentation, which settles it, *)
(* is also the code's.                                                     *)
(***************************************************************************)
EXTENDS LoginFlow, WellFoundedInduction, TLAPS

-----------------------------------------------------------------------------
(* The policies *)

\* A set of naturals has a least member.
LEMMA LeastMember ==
    ASSUME NEW S, S \subseteq Nat, S # {}
    PROVE  \E m \in S : \A n \in S : m <= n
<1>1. PICK m \in S : \A n \in S : ~(<<n, m>> \in OpToRel(<, Nat))
  BY WFMin, NatLessThanWellFounded
<1>2. \A n \in S : ~(n < m)
  BY <1>1 DEF OpToRel
<1> QED BY <1>2

LEMMA MinMember ==
    ASSUME NEW S, S \subseteq Nat, S # {}
    PROVE  Min(S) \in S
BY LeastMember DEF Min

\* The address and the flag pickGitHubEmail returns belong together.
LEMMA PickHonest ==
    ASSUME NEW public \in Shown, NEW emails \in Seq(GitHubEmail),
           NEW pick, pick = PickGitHubEmail(public, emails)
    PROVE  /\ pick \in [email : Shown, verified : BOOLEAN]
           /\ pick.email # NoEmail =>
                 pick.email = public \/ \E i \in DOMAIN emails : emails[i].email = pick.email
           /\ pick.verified =>
                 \E i \in DOMAIN emails :
                     emails[i].verified /\ CaseFold[emails[i].email] = CaseFold[pick.email]
<1> DEFINE Same     == {i \in DOMAIN emails : CaseFold[emails[i].email] = CaseFold[public]}
           Primary  == {i \in DOMAIN emails : emails[i].primary}
           Verified == {i \in DOMAIN emails : emails[i].verified}
           Entry(i) == [email |-> emails[i].email, verified |-> emails[i].verified]
<1>1. DOMAIN emails \subseteq Nat /\ \A i \in DOMAIN emails : emails[i] \in GitHubEmail
  OBVIOUS
<1>2. /\ Same # {} => Min(Same) \in Same
      /\ Primary # {} => Min(Primary) \in Primary
      /\ Verified # {} => Min(Verified) \in Verified
  BY <1>1, MinMember
<1>3. \A i \in DOMAIN emails : emails[i].email \in Shown /\ emails[i].verified \in BOOLEAN
  BY <1>1 DEF GitHubEmail
<1>4. emails # <<>> => 1 \in DOMAIN emails
  OBVIOUS
<1>5. CASE public # NoEmail
  <2>1. pick = [email |-> public, verified |-> Same # {} /\ emails[Min(Same)].verified]
    BY <1>5 DEF PickGitHubEmail
  <2>2. pick.email = public /\ pick.verified = (Same # {} /\ emails[Min(Same)].verified)
    BY <2>1
  <2>3. pick \in [email : Shown, verified : BOOLEAN]
    BY <2>1
  <2>4. pick.verified =>
           \E i \in DOMAIN emails :
               emails[i].verified /\ CaseFold[emails[i].email] = CaseFold[pick.email]
    <3>1. SUFFICES ASSUME pick.verified PROVE \E i \in DOMAIN emails :
               emails[i].verified /\ CaseFold[emails[i].email] = CaseFold[pick.email]
      OBVIOUS
    <3>2. Same # {} /\ emails[Min(Same)].verified
      BY <2>2, <3>1
    <3>3. Min(Same) \in Same
      BY <1>2, <3>2
    <3>4. Min(Same) \in DOMAIN emails /\ CaseFold[emails[Min(Same)].email] = CaseFold[public]
      BY <3>3
    <3> QED BY <2>2, <3>2, <3>4
  <2> QED BY <2>2, <2>3, <2>4
<1>6. CASE public = NoEmail /\ Primary # {}
  <2>1. pick = Entry(Min(Primary))
    BY <1>6 DEF PickGitHubEmail
  <2> QED BY <1>2, <1>3, <1>6, <2>1
<1>7. CASE public = NoEmail /\ Primary = {} /\ Verified # {}
  <2>1. pick = Entry(Min(Verified))
    BY <1>7 DEF PickGitHubEmail
  <2> QED BY <1>2, <1>3, <1>7, <2>1
<1>8. CASE public = NoEmail /\ Primary = {} /\ Verified = {} /\ emails # <<>>
  <2>1. pick = [email |-> emails[1].email, verified |-> FALSE]
    BY <1>8 DEF PickGitHubEmail
  <2>2. 1 \in DOMAIN emails /\ emails[1].email \in Shown
    BY <1>3, <1>4, <1>8
  <2>3. pick \in [email : Shown, verified : BOOLEAN] /\ pick.email = emails[1].email /\ ~pick.verified
    BY <2>1, <2>2
  <2> QED BY <2>2, <2>3
<1>9. CASE public = NoEmail /\ Primary = {} /\ Verified = {} /\ emails = <<>>
  <2>1. pick = [email |-> NoEmail, verified |-> FALSE]
    BY <1>9 DEF PickGitHubEmail
  <2> QED BY <2>1 DEF Shown
<1> QED BY <1>5, <1>6, <1>7, <1>8, <1>9

\* Every fetcher's profile claims nothing its answer does not.
THEOREM FetchersHonest ==
    ASSUME NEW p \in Fetchable, NEW a \in RawAnswer(p)
    PROVE  /\ UserInfoFetcher(p, a) \in Profile
           /\ Honest(p, a, UserInfoFetcher(p, a))
<1>1. CASE p = "google"
  <2>1. a \in GoogleAnswer
    BY <1>1 DEF RawAnswer
  <2>2. UserInfoFetcher(p, a) = [id |-> a.id, email |-> a.email, emailVerified |-> a.verifiedEmail]
    BY <1>1 DEF UserInfoFetcher, FetchGoogleUserInfo
  <2>3. Named(p, a) = {a.email} /\ Vouched(p, a) = IF a.verifiedEmail THEN {a.email} ELSE {}
    BY <1>1 DEF Named, Vouched
  <2> QED BY <2>1, <2>2, <2>3 DEF GoogleAnswer, Profile, Honest
<1>2. CASE p = "microsoft"
  <2>1. a \in MicrosoftAnswer
    BY <1>2 DEF RawAnswer
  <2>2. UserInfoFetcher(p, a) = [id |-> a.id, email |-> IF a.mail # NoEmail THEN a.mail ELSE a.upn,
                                 emailVerified |-> FALSE]
    BY <1>2 DEF UserInfoFetcher, FetchMicrosoftUserInfo
  <2>3. Named(p, a) = {a.mail, a.upn}
    BY <1>2 DEF Named
  <2> QED BY <2>1, <2>2, <2>3 DEF MicrosoftAnswer, Profile, Honest
<1>3. CASE p = "github"
  <2> DEFINE emails == IF a.emails = Unreadable THEN <<>> ELSE a.emails
             pick   == PickGitHubEmail(a.email, emails)
             f      == UserInfoFetcher(p, a)
  <2>1. a \in GitHubAnswer
    BY <1>3 DEF RawAnswer
  <2>2. a.id \in Ids /\ a.email \in Shown /\ emails \in Seq(GitHubEmail)
    <3>1. a.id \in Ids /\ a.email \in Shown /\ a.emails \in Seq(GitHubEmail) \cup {Unreadable}
      BY <2>1 DEF GitHubAnswer
    <3>2. <<>> \in Seq(GitHubEmail)
      OBVIOUS
    <3>3. emails \in Seq(GitHubEmail)
      <4>1. CASE a.emails = Unreadable
        BY <3>2, <4>1
      <4>2. CASE a.emails # Unreadable
        BY <3>1, <4>2
      <4> QED BY <4>1, <4>2
    <3> QED BY <3>1, <3>3
  <2>3. f = [id |-> a.id, email |-> pick.email, emailVerified |-> pick.verified]
    BY <1>3 DEF UserInfoFetcher, FetchGitHubUserInfo
  <2>4. /\ pick \in [email : Shown, verified : BOOLEAN]
        /\ pick.email # NoEmail =>
              pick.email = a.email \/ \E i \in DOMAIN emails : emails[i].email = pick.email
        /\ pick.verified =>
              \E i \in DOMAIN emails :
                  emails[i].verified /\ CaseFold[emails[i].email] = CaseFold[pick.email]
    <3>1. pick = PickGitHubEmail(a.email, emails)
      OBVIOUS
    <3> HIDE DEF emails, pick
    <3> QED BY <2>2, <3>1, PickHonest
  <2>5. f \in Profile
    BY <2>2, <2>3, <2>4 DEF Profile
  <2>6. a.emails = Unreadable => DOMAIN emails = {}
    OBVIOUS
  <2>7. f.email # NoEmail => f.email \in Named(p, a)
    BY <1>3, <2>3, <2>4, <2>6 DEF Named
  <2>8. f.emailVerified => \E e \in Vouched(p, a) : CaseFold[e] = CaseFold[f.email]
    <3>1. SUFFICES ASSUME pick.verified
                   PROVE  \E e \in Vouched(p, a) : CaseFold[e] = CaseFold[pick.email]
      BY <2>3
    <3>2. PICK i \in DOMAIN emails :
              emails[i].verified /\ CaseFold[emails[i].email] = CaseFold[pick.email]
      BY <2>4, <3>1
    <3>3. a.emails # Unreadable
      BY <2>6, <3>2
    <3>4. emails[i].email \in Vouched(p, a)
      BY <1>3, <3>2, <3>3 DEF Vouched
    <3> QED BY <3>2, <3>4
  <2> QED BY <2>5, <2>7, <2>8 DEF Honest
<1> QED BY <1>1, <1>2, <1>3 DEF Fetchable

\* Where the authority of a URL ends.
LEMMA AuthorityEnds ==
    ASSUME NEW uri \in Seq(STRING), HasHost(uri)
    PROVE  \E n \in 4..Len(uri) :
              /\ AuthorityEndsAt(uri, n)
              /\ n = Len(uri) \/ uri[n + 1] \in Delimiters
<1> DEFINE Ends == {n \in 4..Len(uri) : n = Len(uri) \/ uri[n + 1] \in Delimiters}
<1>1. Len(uri) \in Nat /\ Len(uri) >= 4
  BY DEF HasHost
<1>2. Len(uri) \in Ends /\ Ends \subseteq Nat
  BY <1>1
<1>3. PICK n \in Ends : \A m \in Ends : n <= m
  BY <1>2, LeastMember
<1>4. \A i \in 4..n : uri[i] \notin Delimiters
  <2>1. SUFFICES ASSUME NEW i \in 4..n, uri[i] \in Delimiters PROVE FALSE
    OBVIOUS
  <2>2. uri[4] \notin Delimiters
    BY DEF HasHost
  <2>3. i - 1 \in 4..Len(uri) /\ (i - 1) + 1 = i /\ i - 1 < n
    BY <1>1, <2>1, <2>2
  <2>4. uri[(i - 1) + 1] \in Delimiters
    BY <2>1, <2>3
  <2>5. i - 1 \in Ends
    BY <2>3, <2>4
  <2>6. n \in Nat /\ n <= i - 1
    BY <1>1, <1>3, <2>5
  <2> QED BY <1>1, <2>1, <2>3, <2>6
<1>5. \A i \in 4..n : uri[i] # Backslash
  <2>1. \A i \in 4..n : i \in 4..Len(uri) /\ \A j \in 4..i : j \in 4..n
    BY <1>1
  <2> QED BY <1>4, <2>1 DEF HasHost
<1> QED BY <1>1, <1>3, <1>4, <1>5 DEF AuthorityEndsAt

LEMMA PrefixMeans ==
    ASSUME NEW s \in Seq(STRING), NEW t \in Seq(STRING), IsPrefix(s, t)
    PROVE  Len(s) <= Len(t) /\ \A i \in 1..Len(s) : s[i] = t[i]
<1>1. /\ Len(s) \in Nat /\ Len(t) \in Nat /\ Len(s) <= Len(t)
      /\ SubSeq(s, 1, Len(s)) = SubSeq(t, 1, Len(s))
  BY DEF IsPrefix
<1>2. \A i \in 1..Len(s) : SubSeq(s, 1, Len(s))[i] = s[i] /\ SubSeq(t, 1, Len(s))[i] = t[i]
  BY <1>1
<1> QED BY <1>1, <1>2

\* A path isAllowedRedirect takes for one of this origin is one to the browser too,
\* if the two agree on its second character.
LEMMA PathsStayHere ==
    ASSUME NEW uri \in Seq(STRING), SameOrigin(uri), ReadAlike(uri)
    PROVE  StaysHere(uri)
<1>1. uri # <<>> /\ Len(uri) \in Nat /\ uri[1] = "/"
  BY DEF SameOrigin
<1>2. SUFFICES ASSUME NEW i \in 2..Len(uri), uri[i] \in Slashes
               PROVE  \E j \in 2..(i - 1) : uri[j] # Tabulator
  BY <1>1 DEF StaysHere, Slashes
<1>3. uri[2] \notin {"/", Backslash, Tabulator}
  BY <1>1, <1>2 DEF SameOrigin, ReadAlike
<1>4. i # 2
  BY <1>2, <1>3 DEF Slashes
<1> QED BY <1>1, <1>3, <1>4

\* isAllowedRedirect lets nothing through but this origin and the sites of the
\* list, as the browser reads the URL: to the browser it is a path, or its scheme,
\* host and port are those of an entry, whatever follows.  Only of a path is it
\* assumed that browser and server agree on the character after the first slash.
THEOREM RedirectStaysOnSite ==
    ASSUME NEW uri \in Seq(STRING), NEW list,
           \A p \in list : p \in Seq(STRING) /\ HasHost(p),
           IsAllowedRedirect(uri, list)
    PROVE  AllowedSite(uri, list)
<1>1. CASE SameOrigin(uri)
  BY <1>1, PathsStayHere DEF AllowedSite
<1>2. CASE ~SameOrigin(uri)
  <2>1. HasHost(uri)
    BY <1>2 DEF IsAllowedRedirect
  <2>2. PICK p \in list : IsPrefix(p, uri) /\ OnBoundary(uri, p)
    BY <1>2 DEF IsAllowedRedirect
  <2>3. p \in Seq(STRING) /\ HasHost(p)
    OBVIOUS
  <2>4. Len(p) <= Len(uri) /\ \A i \in 1..Len(p) : p[i] = uri[i]
    BY <2>2, <2>3, PrefixMeans
  <2>5. PICK n \in 4..Len(p) :
            /\ AuthorityEndsAt(p, n)
            /\ n = Len(p) \/ p[n + 1] \in Delimiters
    BY <2>3, AuthorityEnds
  <2>6. Len(p) \in Nat /\ Len(uri) \in Nat /\ n \in Nat
    BY <2>3, <2>5
  <2>7. n \in 4..Len(uri) /\ \A i \in 1..n : uri[i] = p[i]
    BY <2>4, <2>5, <2>6
  <2>8. \A i \in 4..n : uri[i] \notin Delimiters /\ uri[i] # Backslash
    BY <2>5, <2>6, <2>7 DEF AuthorityEndsAt
  <2>9. n = Len(uri) \/ uri[n + 1] \in Delimiters
    <3>1. CASE n # Len(p)
      <4>1. p[n + 1] \in Delimiters /\ n + 1 \in 1..Len(p)
        BY <2>5, <2>6, <3>1
      <4> QED BY <2>4, <4>1
    <3>2. CASE n = Len(p)
      <4>1. p[Len(p)] # "/"
        BY <2>5, <2>6, <2>7, <2>8, <3>2 DEF Delimiters
      <4> QED BY <2>2, <3>2, <4>1 DEF OnBoundary
    <3> QED BY <3>1, <3>2
  <2>10. AuthorityEndsAt(uri, n)
    BY <2>1, <2>7, <2>8, <2>9 DEF AuthorityEndsAt
  <2>11. SameSite(uri, p)
    BY <2>5, <2>7, <2>10 DEF SameSite
  <2> QED BY <2>11 DEF AllowedSite
<1> QED BY <1>1, <1>2

-----------------------------------------------------------------------------
(* The inductive invariant *)

\* A tab with a state in hand: the state is issued, for the tab's provider, and
\* the URL the provider sends it to is one of the three there are.
StateInHand(r) ==
    r.state # NoState =>
        /\ ledger[r.state] # NoTicket
        /\ ledger[r.state].provider = r.provider
        /\ r.provider \in OAuthConfigs
        /\ r.url \in {CallbackURL(r.provider), ConfiguredURL[r.provider], CustomURL}

\* A tab with a code: it was issued to such a tab, and has been nowhere as long as
\* the state has not.
CodeInHand(r) ==
    r.code # NoCode =>
        /\ r.state # NoState
        /\ codes[r.code] # NoCode
        /\ codes[r.code].provider = r.provider
        /\ codes[r.code].url = r.url
        /\ ~ledger[r.state].presented => codes[r.code].tries = 0

\* A login under way.
UnderWay(r) ==
    /\ r.view \in {"consent", "return"} \cup Handling => r.state # NoState
    /\ r.view \in Handling =>
          /\ r.code # NoCode
          /\ r.uri = <<>> \/ IsAllowedRedirect(r.uri, allowlist)
    /\ r.view = "exchange" => ledger[r.state].presented /\ codes[r.code].tries = 0

Sound(r) == StateInHand(r) /\ CodeInHand(r) /\ UnderWay(r)

\* The copies of a callback URL name one state, and one of them at most got past it.
CopiesAgree ==
    \A t, u \in Tabs : tab[t].code = tab[u].code /\ tab[t].code # NoCode =>
        /\ tab[t].state = tab[u].state
        /\ tab[t].view = "exchange" /\ tab[u].view = "exchange" => t = u

IInv ==
    /\ TypeOK
    /\ \A t \in Tabs : Sound(tab[t])
    /\ CopiesAgree
    /\ ReplayStopsHere /\ CodeGoesHome /\ ExchangeMatches /\ ProfileHonest

\* What every step does to the ledger: an issued state stays issued, for the same
\* provider and return address, and once presented stays so.
LedgerGrows ==
    /\ now' \in 0..Horizon /\ epoch' \in 0..MaxRestarts
    /\ ledger' \in [States -> Ticket \cup {NoTicket}]
    /\ \A s \in States : ledger[s] # NoTicket =>
          /\ ledger'[s] # NoTicket
          /\ ledger'[s].provider = ledger[s].provider
          /\ ledger[s].presented => ledger'[s].presented

LEMMA LedgerKept ==
    ASSUME TypeOK, UNCHANGED ledgerVars
    PROVE  LedgerGrows
BY DEF TypeOK, LedgerGrows, ledgerVars

LEMMA IssueGrows ==
    ASSUME TypeOK, NEW s \in States, NEW p \in Providers, NEW r \in Redirects, Issue(s, p, r)
    PROVE  /\ LedgerGrows
           /\ ledger'[s] # NoTicket /\ ledger'[s].provider = p
<1>1. /\ now \in Nat /\ epoch \in Nat
      /\ now' = now /\ epoch' = epoch /\ DOMAIN ledger = States
      /\ ledger[s] = NoTicket
      /\ ledger \in [States -> Ticket \cup {NoTicket}]
  BY FlowAssumption DEF TypeOK, Issue
<1> DEFINE new == [provider |-> p, redirectURI |-> r, issuedAt |-> now,
                   epoch |-> epoch, presented |-> FALSE, granted |-> 0]
<1>2. ledger' = [ledger EXCEPT ![s] = new]
  BY DEF Issue
<1>3. new \in Ticket
  BY <1>1 DEF Ticket
<1>4. new # NoTicket
  BY <1>3, FlowAssumption
<1>5. new.provider = p
  OBVIOUS
<1> HIDE DEF new
<1>6. ledger'[s] = new /\ \A q \in States : q # s => ledger'[q] = ledger[q]
  BY <1>1, <1>2
<1>7. ledger' \in [States -> Ticket \cup {NoTicket}]
  BY <1>1, <1>2, <1>3
<1> QED BY <1>1, <1>4, <1>5, <1>6, <1>7 DEF LedgerGrows, TypeOK

LEMMA SettleGrows ==
    ASSUME TypeOK, NEW s \in States, NEW p, ledger[s] # NoTicket, Settle(s, p)
    PROVE  /\ LedgerGrows
           /\ ledger'[s].presented
<1>1. /\ now' = now /\ epoch' = epoch /\ DOMAIN ledger = States
      /\ ledger \in [States -> Ticket \cup {NoTicket}] /\ ledger[s] \in Ticket
  BY DEF TypeOK, Settle
<1> DEFINE new == [ledger[s] EXCEPT !.presented = TRUE,
                                    !.granted = IF Good(s, p) THEN @ + 1 ELSE @]
<1>2. ledger' = [ledger EXCEPT ![s] = new]
  BY <1>1 DEF Settle, Settled
<1>3. new \in Ticket
  <2>1. ledger[s].granted \in Nat
    BY <1>1 DEF Ticket
  <2>2. (IF Good(s, p) THEN ledger[s].granted + 1 ELSE ledger[s].granted) \in Nat
    BY <2>1
  <2> HIDE DEF Good
  <2> QED BY <1>1, <2>2 DEF Ticket
<1>4. new # NoTicket
  BY <1>3, FlowAssumption
<1>5. new.provider = ledger[s].provider /\ new.presented
  BY <1>1 DEF Ticket
<1> HIDE DEF new
<1>6. ledger'[s] = new /\ \A q \in States : q # s => ledger'[q] = ledger[q]
  BY <1>1, <1>2
<1>7. ledger' \in [States -> Ticket \cup {NoTicket}]
  BY <1>1, <1>2, <1>3
<1> QED BY <1>1, <1>4, <1>5, <1>6, <1>7 DEF LedgerGrows, TypeOK

\* A tab that a step leaves alone stays sound.
LEMMA StaysSound ==
    ASSUME TypeOK, LedgerGrows, UNCHANGED <<codes, allowlist>>,
           NEW r \in TabState, Sound(r)
    PROVE  Sound(r)'
<1>1. r.state # NoState => r.state \in States
  BY DEF TabState
<1>2. r.view \in Handling => r.view \in {"consent", "return"} \cup Handling
  OBVIOUS
<1>3. r.view = "exchange" => r.view \in Handling
  BY DEF Handling
<1>4. StateInHand(r)'
  BY <1>1 DEF Sound, StateInHand, LedgerGrows
<1>5. CodeInHand(r)'
  BY <1>1 DEF Sound, StateInHand, CodeInHand, LedgerGrows
<1>6. UnderWay(r)'
  BY <1>1, <1>2, <1>3 DEF Sound, StateInHand, UnderWay, LedgerGrows
<1> QED BY <1>4, <1>5, <1>6 DEF Sound

\* One tab becomes r, the codes stay what they are.
LEMMA OneTab ==
    ASSUME IInv, LedgerGrows, NEW t \in Tabs, NEW r \in TabState, Become(t, r),
           UNCHANGED <<codes, allowlist>>,
           remembered' \in Providers \cup {NoProvider},
           Sound(r)',
           r.code # NoCode =>
              \E v \in Tabs : tab[v].code = r.code /\ tab[v].state = r.state,
           r.view = "exchange" =>
              \A u \in Tabs : tab[u].view = "exchange" => tab[u].code # r.code,
           r.view = "upsert" => Honest(r.provider, r.raw, r.profile)
    PROVE  IInv'
<1>1. /\ tab \in [Tabs -> TabState] /\ DOMAIN tab = Tabs
      /\ tab' = [tab EXCEPT ![t] = r]
  BY DEF IInv, TypeOK, Become
<1>2. tab'[t] = r /\ \A u \in Tabs : u # t => tab'[u] = tab[u]
  BY <1>1
<1>3. TypeOK'
  <2>1. tab' \in [Tabs -> TabState]
    BY <1>1
  <2> QED BY <2>1 DEF IInv, TypeOK, LedgerGrows
<1>4. \A u \in Tabs : Sound(tab[u])'
  <2>1. SUFFICES ASSUME NEW u \in Tabs PROVE Sound(tab[u])'
    OBVIOUS
  <2>2. CASE u = t
    BY <1>2, <2>2 DEF Sound, StateInHand, CodeInHand, UnderWay
  <2>3. CASE u # t
    <3> DEFINE q == tab[u]
    <3>1. q \in TabState /\ Sound(q)
      BY <1>1 DEF IInv
    <3>2. tab'[u] = q
      BY <1>2, <2>3
    <3> QED BY <3>1, <3>2, StaysSound DEF Sound, StateInHand, CodeInHand, UnderWay, IInv
  <2> QED BY <2>2, <2>3
<1>5. CopiesAgree'
  <2>1. SUFFICES ASSUME NEW u \in Tabs, NEW w \in Tabs,
                        tab'[u].code = tab'[w].code, tab'[u].code # NoCode
                 PROVE  /\ tab'[u].state = tab'[w].state
                        /\ tab'[u].view = "exchange" /\ tab'[w].view = "exchange" => u = w
    BY DEF CopiesAgree
  <2>2. CASE u = t /\ w = t
    BY <2>2
  <2>3. CASE u = t /\ w # t
    <3>1. tab'[u] = r /\ tab'[w] = tab[w]
      BY <1>2, <2>3
    <3>2. PICK v \in Tabs : tab[v].code = r.code /\ tab[v].state = r.state
      BY <2>1, <3>1
    <3> QED BY <2>1, <3>1, <3>2 DEF IInv, CopiesAgree
  <2>4. CASE u # t /\ w = t
    <3>1. tab'[w] = r /\ tab'[u] = tab[u]
      BY <1>2, <2>4
    <3>2. PICK v \in Tabs : tab[v].code = r.code /\ tab[v].state = r.state
      BY <2>1, <3>1
    <3> QED BY <2>1, <3>1, <3>2 DEF IInv, CopiesAgree
  <2>5. CASE u # t /\ w # t
    BY <1>2, <2>1, <2>5 DEF IInv, CopiesAgree
  <2> QED BY <2>2, <2>3, <2>4, <2>5
<1>6. (ReplayStopsHere /\ CodeGoesHome /\ ExchangeMatches)'
  BY DEF IInv, ReplayStopsHere, CodeGoesHome, ExchangeMatches
<1>7. ProfileHonest'
  BY <1>2 DEF IInv, ProfileHonest
<1> QED BY <1>3, <1>4, <1>5, <1>6, <1>7 DEF IInv

-----------------------------------------------------------------------------
(* What a step makes of its tab *)

LEMMA BlankTyped ==
    ASSUME TypeOK, NEW v \in {"in", "error"}, NEW uri \in Redirects
    PROVE  /\ [Blank EXCEPT !.view = v, !.uri = uri] \in TabState
           /\ [Blank EXCEPT !.view = v] \in TabState
           /\ Blank \in TabState
<1>1. <<>> \in Redirects
  BY FlowAssumption
<1>2. Blank \in TabState
  BY <1>1 DEF Blank, TabState, Views, RedirectURLs
<1> QED BY <1>2 DEF Blank, TabState, Views

\* A tab without state and code keeps the invariant, whatever it shows.
LEMMA BlankKeeps ==
    ASSUME IInv, LedgerGrows, NEW t \in Tabs, NEW r \in TabState, Become(t, r),
           UNCHANGED <<codes, allowlist>>,
           remembered' \in Providers \cup {NoProvider},
           r.state = NoState, r.code = NoCode, r.view \in {"in", "error"}
    PROVE  IInv'
<1>1. r.view \notin {"consent", "return", "upsert"} \cup Handling /\ "exchange" \in Handling
  BY DEF Handling
<1>2. Sound(r)'
  BY <1>1 DEF Sound, StateInHand, CodeInHand, UnderWay
<1> QED BY <1>1, <1>2, OneTab

LEMMA RefuseKeeps ==
    ASSUME IInv, LedgerGrows, NEW t \in Tabs, Refuse(t), UNCHANGED <<codes, allowlist>>,
           remembered' \in Providers \cup {NoProvider}
    PROVE  IInv'
<1> DEFINE r == [Blank EXCEPT !.view = "error"]
<1>1. r.state = NoState /\ r.code = NoCode /\ r.view \in {"in", "error"}
  BY DEF Blank
<1>2. r \in TabState
  BY BlankTyped, FlowAssumption DEF IInv
<1>3. Become(t, r)
  BY DEF Refuse
<1> HIDE DEF r
<1> QED BY <1>1, <1>2, <1>3, BlankKeeps

LEMMA LandKeeps ==
    ASSUME IInv, LedgerGrows, NEW t \in Tabs, NEW uri \in Redirects, Land(t, uri),
           UNCHANGED <<codes, allowlist>>,
           remembered' \in Providers \cup {NoProvider}
    PROVE  IInv'
<1> DEFINE r == [Blank EXCEPT !.view = "in", !.uri = uri]
<1>1. r.state = NoState /\ r.code = NoCode /\ r.view \in {"in", "error"}
  BY DEF Blank
<1>2. r \in TabState
  BY BlankTyped DEF IInv
<1>3. Become(t, r)
  BY DEF Land
<1> HIDE DEF r
<1> QED BY <1>1, <1>2, <1>3, BlankKeeps

\* A tab that keeps its state, its code and what they are for keeps the invariant
\* in any view but that of an exchange.
LEMMA SameHandKeeps ==
    ASSUME IInv, LedgerGrows, NEW t \in Tabs, NEW v \in Tabs, NEW r \in TabState, Become(t, r),
           UNCHANGED <<codes, remembered, allowlist>>,
           r.state = tab[v].state, r.code = tab[v].code,
           r.provider = tab[v].provider, r.url = tab[v].url,
           r.view # "exchange",
           r.view \in {"return"} \cup Handling => r.state # NoState,
           r.view # "consent",
           r.view \in Handling => r.uri = tab[v].uri /\ tab[v].view \in Handling,
           r.view = "upsert" => Honest(r.provider, r.raw, r.profile)
    PROVE  IInv'
<1>1. tab[v] \in TabState /\ Sound(tab[v])
  BY DEF IInv, TypeOK
<1>2. r.state # NoState => r.state \in States
  BY DEF TabState
<1>3. StateInHand(r)'
  BY <1>1, <1>2 DEF Sound, StateInHand, LedgerGrows
<1>4. CodeInHand(r)'
  BY <1>1, <1>2 DEF Sound, StateInHand, CodeInHand, LedgerGrows
<1>5. UnderWay(r)'
  BY <1>1 DEF Sound, UnderWay
<1>6. remembered' \in Providers \cup {NoProvider}
  BY DEF IInv, TypeOK
<1> QED BY <1>3, <1>4, <1>5, <1>6, OneTab DEF Sound

LEMMA FailKeeps ==
    ASSUME IInv, LedgerGrows, NEW t \in Tabs, Fail(t), UNCHANGED <<codes, remembered, allowlist>>
    PROVE  IInv'
<1> DEFINE r == [tab[t] EXCEPT !.view = "error", !.uri = <<>>, !.raw = Unreadable,
                               !.profile = Unreadable]
<1>1. tab[t] \in TabState
  BY DEF IInv, TypeOK
<1>2. r \in TabState
  BY <1>1, FlowAssumption DEF TabState, Views
<1>3. /\ r.state = tab[t].state /\ r.code = tab[t].code
      /\ r.provider = tab[t].provider /\ r.url = tab[t].url /\ r.view = "error"
  BY <1>1 DEF TabState
<1>4. Become(t, r)
  BY DEF Fail
<1>5. "error" \notin {"return", "consent", "upsert", "exchange"} \cup Handling
  BY DEF Handling
<1> HIDE DEF r
<1> QED BY <1>2, <1>3, <1>4, <1>5, SameHandKeeps

LEMMA LeaveKeeps ==
    ASSUME IInv, NEW t \in Tabs, NEW p \in OAuthConfigs, NEW red \in Redirects,
           NEW url \in {CallbackURL(p), ConfiguredURL[p], CustomURL},
           Leave(t, p, red, url), UNCHANGED <<codes, allowlist>>,
           remembered' \in Providers \cup {NoProvider}
    PROVE  IInv'
<1>1. PICK s \in States :
          /\ Issue(s, p, red)
          /\ Become(t, [Blank EXCEPT !.view = "consent", !.provider = p, !.state = s, !.url = url])
  BY DEF Leave
<1> DEFINE r == [Blank EXCEPT !.view = "consent", !.provider = p, !.state = s, !.url = url]
<1>2. p \in Providers /\ url \in RedirectURLs
  BY FlowAssumption DEF RedirectURLs
<1>3. LedgerGrows /\ ledger'[s] # NoTicket /\ ledger'[s].provider = p
  BY <1>1, <1>2, IssueGrows DEF IInv
<1>4. Blank \in TabState
  BY BlankTyped, FlowAssumption DEF IInv
<1>5. r \in TabState
  BY <1>2, <1>4 DEF TabState, Views
<1>6. /\ r.state = s /\ r.provider = p /\ r.url = url /\ r.code = NoCode /\ r.view = "consent"
  BY DEF Blank
<1>7. s # NoState
  BY FlowAssumption
<1>8. "consent" \notin {"exchange", "upsert"} \cup Handling
  BY DEF Handling
<1> HIDE DEF r
<1>9. Sound(r)'
  BY <1>3, <1>6, <1>7, <1>8 DEF Sound, StateInHand, CodeInHand, UnderWay
<1>10. Become(t, r)
  BY <1>1 DEF r
<1> QED BY <1>3, <1>5, <1>6, <1>8, <1>9, <1>10, OneTab

\* The state that lets a handler go on has not been presented, so neither has the
\* code, in this tab or any other.
LEMMA GoOnKeeps ==
    ASSUME IInv, NEW t \in Tabs, NEW p \in Providers, NEW uri \in Redirects,
           tab[t].view = "return", tab[t].code # NoCode,
           Good(tab[t].state, p), Settle(tab[t].state, p), GoOn(t, p, uri),
           uri = <<>> \/ IsAllowedRedirect(uri, allowlist),
           UNCHANGED <<codes, remembered, allowlist>>
    PROVE  IInv'
<1> DEFINE s == tab[t].state
           c == tab[t].code
<1> SUFFICES ASSUME NEW r, r = [tab[t] EXCEPT !.view = "exchange", !.provider = p, !.uri = uri]
             PROVE  IInv'
  OBVIOUS
<1>1. tab[t] \in TabState /\ Sound(tab[t])
  BY DEF IInv, TypeOK
<1>2. s # NoState /\ s \in States
  BY <1>1 DEF Sound, UnderWay, TabState
<1>3. /\ ledger[s] # NoTicket /\ ~ledger[s].presented
      /\ ledger[s].provider = p /\ p = tab[t].provider
  BY <1>1, <1>2 DEF Sound, StateInHand, Good
<1>4. LedgerGrows /\ ledger'[s].presented
  BY <1>2, <1>3, SettleGrows DEF IInv
<1>5. r \in TabState
  BY <1>1 DEF TabState, Views, Handling
<1>6. /\ r.state = s /\ r.code = c /\ r.provider = p /\ r.url = tab[t].url
      /\ r.view = "exchange" /\ r.uri = uri
  BY <1>1 DEF TabState
<1>7. codes[c].tries = 0
  BY <1>1, <1>3 DEF Sound, CodeInHand
<1>8. ASSUME NEW u \in Tabs, tab[u].view = "exchange" PROVE tab[u].code # c
  <2>1. Sound(tab[u])
    BY DEF IInv
  <2>2. ledger[tab[u].state].presented
    BY <1>8, <2>1 DEF Sound, UnderWay
  <2>3. tab[u].state # s
    BY <1>3, <2>2
  <2> QED BY <2>3 DEF IInv, CopiesAgree
<1>9. Become(t, r)
  BY DEF GoOn
<1>10. "exchange" \in Handling /\ remembered' \in Providers \cup {NoProvider}
  BY DEF Handling, IInv, TypeOK
<1>11. StateInHand(r)'
  BY <1>1, <1>2, <1>3, <1>4, <1>6 DEF Sound, StateInHand, LedgerGrows
<1>12. CodeInHand(r)'
  BY <1>1, <1>2, <1>3, <1>4, <1>6 DEF Sound, CodeInHand
<1>13. UnderWay(r)'
  BY <1>2, <1>4, <1>6, <1>7 DEF UnderWay
<1> QED BY <1>4, <1>5, <1>6, <1>8, <1>9, <1>10, <1>11, <1>12, <1>13, OneTab DEF Sound

-----------------------------------------------------------------------------
(* The actions *)

LEMMA Redirections ==
    /\ <<>> \in Redirects /\ Home \in Redirects
    /\ \A asked \in Redirects : WithDefault(asked) \in Redirects
BY FlowAssumption DEF WithDefault

LEMMA HandleLoginKeeps ==
    ASSUME IInv, NEW t \in Tabs, NEW asked \in Asked, HandleLogin(t, asked)
    PROVE  IInv'
<1>1. LedgerGrows /\ UNCHANGED <<codes, allowlist>> /\ remembered' \in Providers \cup {NoProvider}
  BY LedgerKept DEF HandleLogin, IInv, TypeOK
<1>2. WithDefault(asked) \in Redirects
  BY Redirections, FlowAssumption
<1>3. Land(t, WithDefault(asked)) \/ Refuse(t)
  BY DEF HandleLogin
<1> QED BY <1>1, <1>2, <1>3, LandKeeps, RefuseKeeps

LEMMA HandleOAuthStartKeeps ==
    ASSUME IInv, NEW t \in Tabs, NEW p \in Providers, NEW asked \in Asked,
           HandleOAuthStart(t, p, asked)
    PROVE  IInv'
<1>1. UNCHANGED <<codes, allowlist>> /\ remembered' \in Providers \cup {NoProvider}
  BY DEF HandleOAuthStart, IInv, TypeOK
<1>2. CASE p \in OAuthConfigs /\ IsAllowedRedirect(WithDefault(asked), allowlist)
  <2>1. Leave(t, p, WithDefault(asked), CallbackURL(p))
    BY <1>2 DEF HandleOAuthStart
  <2>2. WithDefault(asked) \in Redirects
    BY Redirections, FlowAssumption
  <2> QED BY <1>1, <1>2, <2>1, <2>2, LeaveKeeps
<1>3. CASE ~(p \in OAuthConfigs /\ IsAllowedRedirect(WithDefault(asked), allowlist))
  <2>1. Refuse(t) /\ LedgerGrows
    BY <1>3, LedgerKept DEF HandleOAuthStart, IInv
  <2> QED BY <1>1, <2>1, RefuseKeeps
<1> QED BY <1>2, <1>3

LEMMA StartFromPageKeeps ==
    ASSUME IInv, NEW t \in Tabs, NEW p \in Providers, StartFromPage(t, p)
    PROVE  IInv'
<1>1. UNCHANGED <<codes, allowlist>> /\ NoRedirect \in Redirects
  BY FlowAssumption DEF StartFromPage
<1>2. CASE p \in OAuthConfigs /\ Leave(t, p, NoRedirect, ConfiguredURL[p]) /\ remembered' = p
  BY <1>1, <1>2, LeaveKeeps
<1>3. CASE /\ \E s \in States : Issue(s, p, NoRedirect)
           /\ Refuse(t) /\ UNCHANGED remembered
  <2>1. LedgerGrows
    BY <1>1, <1>3, IssueGrows DEF IInv
  <2>2. remembered' \in Providers \cup {NoProvider}
    BY <1>3 DEF IInv, TypeOK
  <2> QED BY <1>1, <1>3, <2>1, <2>2, RefuseKeeps
<1>4. CASE Refuse(t) /\ UNCHANGED <<ledgerVars, remembered>>
  <2>1. LedgerGrows /\ remembered' \in Providers \cup {NoProvider}
    BY <1>4, LedgerKept DEF IInv, TypeOK
  <2> QED BY <1>1, <1>4, <2>1, RefuseKeeps
<1> QED BY <1>2, <1>3, <1>4 DEF StartFromPage

LEMMA StartFromProgramKeeps ==
    ASSUME IInv, NEW t \in Tabs, NEW p \in Providers, StartFromProgram(t, p)
    PROVE  IInv'
<1>1. /\ UNCHANGED <<codes, allowlist>> /\ NoRedirect \in Redirects
      /\ remembered' \in Providers \cup {NoProvider}
      /\ p \in OAuthConfigs /\ Leave(t, p, NoRedirect, CustomURL)
  BY FlowAssumption DEF StartFromProgram, IInv, TypeOK
<1> QED BY <1>1, LeaveKeeps

LEMMA ConsentKeeps ==
    ASSUME IInv, NEW t \in Tabs, NEW c \in Codes, Consent(t, c)
    PROVE  IInv'
<1> SUFFICES ASSUME NEW r, r = [tab[t] EXCEPT !.view = "return", !.code = c],
                    NEW new, new = [provider |-> tab[t].provider, url |-> tab[t].url,
                                    used |-> FALSE, tries |-> 0, at |-> {}, with |-> {}]
             PROVE  IInv'
  OBVIOUS
<1>1. /\ tab[t] \in TabState /\ Sound(tab[t]) /\ tab[t].view = "consent" /\ codes[c] = NoCode
      /\ DOMAIN tab = Tabs /\ DOMAIN codes = Codes
      /\ tab \in [Tabs -> TabState] /\ codes \in [Codes -> IssuedCode \cup {NoCode}]
      /\ tab' = [tab EXCEPT ![t] = r] /\ codes' = [codes EXCEPT ![c] = new]
      /\ UNCHANGED <<now, epoch, ledger, remembered, allowlist>>
  BY DEF IInv, TypeOK, Consent, Become, ledgerVars
<1>2. /\ tab'[t] = r /\ \A u \in Tabs : u # t => tab'[u] = tab[u]
      /\ codes'[c] = new /\ \A d \in Codes : d # c => codes'[d] = codes[d]
  BY <1>1
<1>3. tab[t].state # NoState /\ tab[t].state \in States
  BY <1>1 DEF Sound, UnderWay, TabState
<1>4. /\ tab[t].provider \in OAuthConfigs /\ tab[t].provider \in Providers
      /\ tab[t].url \in RedirectURLs
  BY <1>1, <1>3, FlowAssumption DEF Sound, StateInHand, TabState
<1>5. new \in IssuedCode
  BY <1>4 DEF IssuedCode
<1>6. new # NoCode /\ c # NoCode
  BY <1>5, FlowAssumption
<1>7. r \in TabState
  BY <1>1 DEF TabState, Views
<1>8. /\ r.view = "return" /\ r.code = c /\ r.state = tab[t].state
      /\ r.provider = tab[t].provider /\ r.url = tab[t].url
  BY <1>1 DEF TabState
<1>9. /\ new.provider = r.provider /\ new.url = r.url /\ new.tries = 0
      /\ new.at = {} /\ new.with = {}
  BY <1>8
<1>10. \A u \in Tabs : tab[u].code # c
  BY <1>1, <1>6 DEF IInv, Sound, CodeInHand
<1>11. "return" \notin {"exchange", "upsert"} \cup Handling
  BY DEF Handling
<1>12. TypeOK'
  <2>1. tab' \in [Tabs -> TabState] /\ codes' \in [Codes -> IssuedCode \cup {NoCode}]
    BY <1>1, <1>5, <1>7
  <2> QED BY <1>1, <2>1 DEF IInv, TypeOK
<1>13. \A u \in Tabs : Sound(tab[u])'
  <2>1. SUFFICES ASSUME NEW u \in Tabs PROVE Sound(tab[u])'
    OBVIOUS
  <2>2. CASE u = t
    BY <1>1, <1>2, <1>3, <1>6, <1>8, <1>9, <1>11, <2>2
    DEF Sound, StateInHand, CodeInHand, UnderWay
  <2>3. CASE u # t
    <3>1. tab'[u] = tab[u] /\ tab[u] \in TabState /\ Sound(tab[u])
      BY <1>1, <1>2, <2>3 DEF IInv
    <3>2. tab[u].code # NoCode => tab[u].code \in Codes /\ codes'[tab[u].code] = codes[tab[u].code]
      BY <1>2, <1>10, <3>1 DEF TabState
    <3>3. tab[u].view \in Handling => tab[u].code # NoCode
      BY <3>1 DEF Sound, UnderWay
    <3>4. tab[u].view = "exchange" => tab[u].view \in Handling
      BY DEF Handling
    <3> QED BY <1>1, <3>1, <3>2, <3>3, <3>4 DEF Sound, StateInHand, CodeInHand, UnderWay
  <2> QED BY <2>2, <2>3
<1>14. CopiesAgree'
  <2>1. SUFFICES ASSUME NEW u \in Tabs, NEW w \in Tabs,
                        tab'[u].code = tab'[w].code, tab'[u].code # NoCode
                 PROVE  /\ tab'[u].state = tab'[w].state
                        /\ tab'[u].view = "exchange" /\ tab'[w].view = "exchange" => u = w
    BY DEF CopiesAgree
  <2>2. CASE u = t \/ w = t
    <3>1. u = t /\ w = t
      BY <1>2, <1>8, <1>10, <2>1, <2>2
    <3> QED BY <3>1
  <2>3. CASE u # t /\ w # t
    BY <1>2, <2>1, <2>3 DEF IInv, CopiesAgree
  <2> QED BY <2>2, <2>3
<1>15. (ReplayStopsHere /\ CodeGoesHome /\ ExchangeMatches)'
  <2>1. new.tries <= 1
    BY <1>9
  <2>2. ReplayStopsHere'
    BY <1>2, <2>1 DEF IInv, ReplayStopsHere
  <2>3. CodeGoesHome'
    BY <1>2, <1>9 DEF IInv, CodeGoesHome
  <2>4. ExchangeMatches'
    BY <1>2, <1>9 DEF IInv, ExchangeMatches
  <2> QED BY <2>2, <2>3, <2>4
<1>16. ProfileHonest'
  BY <1>2, <1>8, <1>11 DEF IInv, ProfileHonest
<1> QED BY <1>12, <1>13, <1>14, <1>15, <1>16 DEF IInv

LEMMA DeclineKeeps ==
    ASSUME IInv, NEW t \in Tabs, Decline(t)
    PROVE  IInv'
<1> SUFFICES ASSUME NEW r, r = [tab[t] EXCEPT !.view = "return"] PROVE IInv'
  OBVIOUS
<1>1. /\ Become(t, r) /\ tab[t].view = "consent" /\ LedgerGrows
      /\ UNCHANGED <<codes, remembered, allowlist>>
  BY LedgerKept DEF Decline, IInv
<1>2. tab[t] \in TabState /\ Sound(tab[t])
  BY DEF IInv, TypeOK
<1>3. r \in TabState
  BY <1>2 DEF TabState, Views
<1>4. /\ r.view = "return" /\ r.code = tab[t].code /\ r.state = tab[t].state
      /\ r.provider = tab[t].provider /\ r.url = tab[t].url
  BY <1>2 DEF TabState
<1>5. r.state # NoState
  BY <1>1, <1>2, <1>4 DEF Sound, UnderWay
<1>6. "return" \notin {"exchange", "upsert", "consent"} \cup Handling
  BY DEF Handling
<1> QED BY <1>1, <1>3, <1>4, <1>5, <1>6, SameHandKeeps

LEMMA LoadAgainKeeps ==
    ASSUME IInv, NEW t \in Tabs, NEW u \in Tabs, LoadAgain(t, u)
    PROVE  IInv'
<1> SUFFICES ASSUME NEW r, r = [tab[t] EXCEPT !.view = "return", !.uri = <<>>,
                                              !.raw = Unreadable, !.profile = Unreadable]
             PROVE IInv'
  OBVIOUS
<1>1. /\ Become(u, r) /\ tab[t].code # NoCode /\ LedgerGrows
      /\ UNCHANGED <<codes, remembered, allowlist>>
  BY LedgerKept DEF LoadAgain, IInv
<1>2. tab[t] \in TabState /\ Sound(tab[t])
  BY DEF IInv, TypeOK
<1>3. r \in TabState
  BY <1>2, FlowAssumption DEF TabState, Views
<1>4. /\ r.view = "return" /\ r.code = tab[t].code /\ r.state = tab[t].state
      /\ r.provider = tab[t].provider /\ r.url = tab[t].url
  BY <1>2 DEF TabState
<1>5. r.state # NoState
  BY <1>1, <1>2, <1>4 DEF Sound, CodeInHand
<1>6. "return" \notin {"exchange", "upsert", "consent"} \cup Handling
  BY DEF Handling
<1> QED BY <1>1, <1>3, <1>4, <1>5, <1>6, SameHandKeeps

\* What the three callback handlers know of the tab they serve.
LEMMA Returned ==
    ASSUME IInv, NEW t \in Tabs, tab[t].view = "return"
    PROVE  /\ tab[t].state \in States /\ ledger[tab[t].state] # NoTicket
           /\ ledger[tab[t].state] \in Ticket
           /\ tab[t].provider \in Providers
<1>1. tab[t] \in TabState /\ Sound(tab[t])
  BY DEF IInv, TypeOK
<1>2. tab[t].state \in States /\ ledger[tab[t].state] # NoTicket /\ tab[t].provider \in OAuthConfigs
  BY <1>1 DEF Sound, UnderWay, StateInHand, TabState
<1> QED BY <1>2, FlowAssumption DEF IInv, TypeOK

LEMMA HandleOAuthCallbackKeeps ==
    ASSUME IInv, NEW t \in Tabs, HandleOAuthCallback(t)
    PROVE  IInv'
<1> DEFINE p == tab[t].provider
           s == tab[t].state
           uri == WithDefault(ledger[s].redirectURI)
<1>1. tab[t].view = "return" /\ UNCHANGED <<codes, remembered, allowlist>>
  BY DEF HandleOAuthCallback
<1>2. s \in States /\ ledger[s] # NoTicket /\ ledger[s] \in Ticket /\ p \in Providers
  BY <1>1, Returned
<1>3. CASE Fail(t) /\ UNCHANGED ledgerVars
  BY <1>1, <1>3, LedgerKept, FailKeeps DEF IInv
<1>4. CASE Settle(s, p) /\ Fail(t)
  BY <1>1, <1>2, <1>4, SettleGrows, FailKeeps DEF IInv
<1>5. CASE /\ Settle(s, p) /\ Good(s, p) /\ IsAllowedRedirect(uri, allowlist)
           /\ tab[t].code # NoCode /\ GoOn(t, p, uri)
  <2>1. uri \in Redirects
    BY <1>2, Redirections DEF Ticket
  <2> HIDE DEF uri
  <2> QED BY <1>1, <1>2, <1>5, <2>1, GoOnKeeps
<1> QED BY <1>3, <1>4, <1>5 DEF HandleOAuthCallback

LEMMA CallbackFromPageKeeps ==
    ASSUME IInv, NEW t \in Tabs, CallbackFromPage(t)
    PROVE  IInv'
<1> DEFINE s == tab[t].state
<1>1. tab[t].view = "return" /\ UNCHANGED <<codes, remembered, allowlist>>
  BY DEF CallbackFromPage
<1>2. s \in States /\ ledger[s] # NoTicket
  BY <1>1, Returned
<1>3. CASE Fail(t) /\ UNCHANGED ledgerVars
  BY <1>1, <1>3, LedgerKept, FailKeeps DEF IInv
<1>4. CASE Settle(s, remembered) /\ Fail(t)
  BY <1>1, <1>2, <1>4, SettleGrows, FailKeeps DEF IInv
<1>5. CASE /\ tab[t].code # NoCode /\ remembered # NoProvider
           /\ Settle(s, remembered) /\ Good(s, remembered) /\ GoOn(t, remembered, <<>>)
  <2>1. remembered \in Providers
    BY <1>5 DEF IInv, TypeOK
  <2> QED BY <1>1, <1>2, <1>5, <2>1, Redirections, GoOnKeeps
<1> QED BY <1>3, <1>4, <1>5 DEF CallbackFromPage

LEMMA CallbackFromProgramKeeps ==
    ASSUME IInv, NEW t \in Tabs, CallbackFromProgram(t)
    PROVE  IInv'
<1> DEFINE s == tab[t].state
           p == tab[t].provider
<1>1. tab[t].view = "return" /\ UNCHANGED <<codes, remembered, allowlist>>
  BY DEF CallbackFromProgram
<1>2. s \in States /\ ledger[s] # NoTicket /\ p \in Providers
  BY <1>1, Returned
<1>3. CASE Fail(t) /\ UNCHANGED ledgerVars
  BY <1>1, <1>3, LedgerKept, FailKeeps DEF IInv
<1>4. CASE Settle(s, p) /\ Fail(t)
  BY <1>1, <1>2, <1>4, SettleGrows, FailKeeps DEF IInv
<1>5. CASE tab[t].code # NoCode /\ Settle(s, p) /\ Good(s, p) /\ GoOn(t, p, <<>>)
  BY <1>1, <1>2, <1>5, Redirections, GoOnKeeps
<1> QED BY <1>3, <1>4, <1>5 DEF CallbackFromProgram

\* The exchange sends what the authorization request named, except for a
\* redirect_url of the caller's own.
LEMMA SentMatches ==
    ASSUME IInv, NEW t \in Tabs, tab[t].state # NoState
    PROVE  SentURL(t) \in RedirectURLs /\ (tab[t].url # CustomURL => SentURL(t) = tab[t].url)
<1>1. /\ tab[t].provider \in OAuthConfigs /\ tab[t].provider \in Providers
      /\ tab[t].url \in {CallbackURL(tab[t].provider), ConfiguredURL[tab[t].provider], CustomURL}
  BY FlowAssumption DEF IInv, Sound, StateInHand
<1>2. ConfiguredURL[tab[t].provider] \in {SpaURL, CallbackURL(tab[t].provider)}
  BY <1>1, FlowAssumption
<1>3. \A p \in Providers : CallbackURL(p) # SpaURL /\ CallbackURL(p) # CustomURL
  BY DEF CallbackURL, SpaURL, CustomURL
<1>4. SpaURL # CustomURL
  BY DEF SpaURL, CustomURL
<1>5. \A p, q \in Providers : CallbackURL(p) = CallbackURL(q) => p = q
  BY DEF CallbackURL
<1>6. CallbackURL(tab[t].provider) \in RedirectURLs /\ SpaURL \in RedirectURLs
  BY <1>1 DEF RedirectURLs
<1> QED BY <1>1, <1>2, <1>3, <1>4, <1>5, <1>6 DEF SentURL, BrowserFlow

LEMMA TriedCode ==
    ASSUME NEW k \in IssuedCode, k.tries = 0, NEW p \in Providers, NEW url \in RedirectURLs,
           NEW ok \in BOOLEAN
    PROVE  /\ Tried(k, p, url, ok) \in IssuedCode
           /\ Tried(k, p, url, ok).provider = k.provider
           /\ Tried(k, p, url, ok).url = k.url
           /\ Tried(k, p, url, ok).tries = 1
           /\ Tried(k, p, url, ok).at = k.at \cup {p}
           /\ Tried(k, p, url, ok).with = k.with \cup {url}
<1> DEFINE used == k.used \/ ok
           tries == IF k.tries < 2 THEN k.tries + 1 ELSE k.tries
<1>1. /\ k.at \cup {p} \in SUBSET Providers /\ k.with \cup {url} \in SUBSET RedirectURLs
      /\ tries = 1 /\ 1 \in 0..2
  BY DEF IssuedCode
<1>2. used \in BOOLEAN
  OBVIOUS
<1>3. Tried(k, p, url, ok) = [k EXCEPT !.used = used, !.tries = tries,
                                       !.at = k.at \cup {p}, !.with = k.with \cup {url}]
  BY DEF Tried, IssuedCode
<1> HIDE DEF used, tries
<1> QED BY <1>1, <1>2, <1>3 DEF IssuedCode

LEMMA ExchangeKeeps ==
    ASSUME IInv, NEW t \in Tabs, Exchange(t)
    PROVE  IInv'
<1> SUFFICES ASSUME NEW c, c = tab[t].code, NEW p, p = tab[t].provider, NEW sent, sent = SentURL(t),
                    NEW r, tab' = [tab EXCEPT ![t] = r],
                    r \in {[tab[t] EXCEPT !.view = "fetch"],
                           [tab[t] EXCEPT !.view = "error", !.uri = <<>>, !.raw = Unreadable,
                                          !.profile = Unreadable]}
             PROVE  IInv'
  BY DEF Exchange, Become, Fail
<1>1. /\ tab[t] \in TabState /\ Sound(tab[t]) /\ tab[t].view = "exchange"
      /\ DOMAIN tab = Tabs /\ DOMAIN codes = Codes
      /\ tab \in [Tabs -> TabState] /\ codes \in [Codes -> IssuedCode \cup {NoCode}]
      /\ UNCHANGED <<now, epoch, ledger, remembered, allowlist>>
  BY DEF IInv, TypeOK, Exchange, ledgerVars
<1>2. /\ tab[t].state # NoState /\ tab[t].state \in States /\ c \in Codes /\ c # NoCode
      /\ codes[c] # NoCode /\ codes[c] \in IssuedCode /\ codes[c].tries = 0
      /\ codes[c].provider = p /\ codes[c].url = tab[t].url
      /\ ledger[tab[t].state].presented
      /\ p \in OAuthConfigs /\ p \in Providers
  <2>1. "exchange" \in Handling
    BY DEF Handling
  <2> QED BY <1>1, <2>1, FlowAssumption DEF Sound, UnderWay, StateInHand, CodeInHand, TabState
<1>3. sent \in RedirectURLs /\ (codes[c].url # CustomURL => sent = codes[c].url)
  BY <1>2, SentMatches
<1> DEFINE acc == Accepts(p, c, sent)
           new == Tried(codes[c], p, sent, acc)
<1>4. codes' = [codes EXCEPT ![c] = new]
  <2>1. tab[t].provider \in OAuthConfigs
    BY <1>2
  <2>2. codes' = [codes EXCEPT ![tab[t].code] =
                    Tried(@, tab[t].provider, SentURL(t),
                          Accepts(tab[t].provider, tab[t].code, SentURL(t)))]
    BY <2>1 DEF Exchange
  <2> QED BY <1>1, <1>2, <2>2
<1>5. acc \in BOOLEAN
  BY DEF Accepts
<1>6. /\ new \in IssuedCode
      /\ new.provider = codes[c].provider /\ new.url = codes[c].url /\ new.tries = 1
      /\ new.at = codes[c].at \cup {p} /\ new.with = codes[c].with \cup {sent}
  BY <1>2, <1>3, <1>5, TriedCode
<1>7. new # NoCode
  BY <1>6, FlowAssumption
<1> HIDE DEF new
<1>8. /\ tab'[t] = r /\ \A u \in Tabs : u # t => tab'[u] = tab[u]
      /\ codes'[c] = new /\ \A d \in Codes : d # c => codes'[d] = codes[d]
  <2>1. tab'[t] = r /\ \A u \in Tabs : u # t => tab'[u] = tab[u]
    <3>1. DOMAIN tab = Tabs
      BY <1>1
    <3> QED BY <3>1
  <2>2. codes'[c] = new /\ \A d \in Codes : d # c => codes'[d] = codes[d]
    BY <1>1, <1>2, <1>4
  <2> QED BY <2>1, <2>2
<1>9. r \in TabState
  <2>1. tab[t] \in TabState
    BY <1>1
  <2>2. [tab[t] EXCEPT !.view = "fetch"] \in TabState
    BY <2>1 DEF TabState, Views, Handling
  <2>3. [tab[t] EXCEPT !.view = "error", !.uri = <<>>, !.raw = Unreadable,
                       !.profile = Unreadable] \in TabState
    BY <2>1, FlowAssumption DEF TabState, Views
  <2> QED BY <2>2, <2>3
<1>10. /\ r.view \in {"fetch", "error"} /\ r.code = c /\ r.state = tab[t].state
       /\ r.provider = p /\ r.url = tab[t].url
       /\ r.view = "fetch" => r.uri = tab[t].uri
  BY <1>1 DEF TabState
<1>11. TypeOK'
  <2>1. tab' \in [Tabs -> TabState] /\ codes' \in [Codes -> IssuedCode \cup {NoCode}]
    BY <1>1, <1>4, <1>6, <1>9
  <2> QED BY <1>1, <2>1 DEF IInv, TypeOK
<1>12. \A u \in Tabs : tab[u].code = c => tab[u].state = tab[t].state
  BY <1>2 DEF IInv, CopiesAgree
<1>13. \A u \in Tabs : Sound(tab[u])'
  <2>1. SUFFICES ASSUME NEW u \in Tabs PROVE Sound(tab[u])'
    OBVIOUS
  <2>2. CASE u = t
    <3>1. /\ r.view \notin {"consent", "return", "exchange"}
          /\ r.view \in Handling => r.view = "fetch"
          /\ "exchange" \in Handling
      BY <1>10 DEF Handling
    <3>2. StateInHand(tab[u])'
      BY <1>1, <1>8, <1>10, <2>2 DEF Sound, StateInHand
    <3>3. CodeInHand(tab[u])'
      BY <1>1, <1>2, <1>6, <1>7, <1>8, <1>10, <2>2 DEF CodeInHand
    <3>4. UnderWay(tab[u])'
      BY <1>1, <1>2, <1>8, <1>10, <2>2, <3>1 DEF Sound, UnderWay
    <3> QED BY <3>2, <3>3, <3>4 DEF Sound
  <2>3. CASE u # t
    <3>1. tab'[u] = tab[u] /\ tab[u] \in TabState /\ Sound(tab[u])
      BY <1>1, <1>8, <2>3 DEF IInv
    <3>2. StateInHand(tab[u])'
      BY <1>1, <3>1 DEF Sound, StateInHand
    <3>3. CodeInHand(tab[u])'
      <4>1. CASE tab[u].code = c
        BY <1>1, <1>2, <1>6, <1>7, <1>8, <1>12, <3>1, <4>1 DEF Sound, CodeInHand
      <4>2. CASE tab[u].code # c
        BY <1>1, <1>8, <3>1, <4>2 DEF Sound, CodeInHand, TabState
      <4> QED BY <4>1, <4>2
    <3>4. UnderWay(tab[u])'
      <4>1. tab[u].view = "exchange" => tab[u].code # c /\ tab[u].code \in Codes
        <5>1. "exchange" \in Handling
          BY DEF Handling
        <5>2. tab[u].view = "exchange" => tab[u].code # NoCode
          BY <3>1, <5>1 DEF Sound, UnderWay
        <5> QED BY <1>1, <1>2, <2>3, <3>1, <5>2 DEF IInv, CopiesAgree, TabState
      <4> QED BY <1>1, <1>8, <3>1, <4>1 DEF Sound, UnderWay
    <3> QED BY <3>2, <3>3, <3>4 DEF Sound
  <2> QED BY <2>2, <2>3
<1>14. CopiesAgree'
  <2>1. \A u \in Tabs : /\ tab'[u].code = tab[u].code /\ tab'[u].state = tab[u].state
                        /\ tab'[u].view = "exchange" => tab[u].view = "exchange"
    BY <1>8, <1>10
  <2> QED BY <2>1 DEF IInv, CopiesAgree
<1>15. ReplayStopsHere'
  <2>1. new.tries <= 1
    BY <1>6
  <2> QED BY <1>8, <2>1 DEF IInv, ReplayStopsHere
<1>16. CodeGoesHome'
  BY <1>2, <1>6, <1>8 DEF IInv, CodeGoesHome
<1>17. ExchangeMatches'
  BY <1>2, <1>3, <1>6, <1>8 DEF IInv, ExchangeMatches
<1>18. ProfileHonest'
  BY <1>8, <1>10 DEF IInv, ProfileHonest
<1> QED BY <1>11, <1>13, <1>14, <1>15, <1>16, <1>17, <1>18 DEF IInv

LEMMA FetchKeeps ==
    ASSUME IInv, NEW t \in Tabs, Fetch(t)
    PROVE  IInv'
<1> DEFINE p == tab[t].provider
<1>1. tab[t].view = "fetch" /\ UNCHANGED <<codes, remembered, allowlist>> /\ LedgerGrows
  BY LedgerKept DEF Fetch, IInv
<1>2. CASE Fail(t)
  BY <1>1, <1>2, FailKeeps
<1>3. ASSUME NEW a \in Answers[p], p \in Fetchable,
             Become(t, [tab[t] EXCEPT !.view = "upsert", !.raw = a,
                                      !.profile = UserInfoFetcher(p, a)])
      PROVE  IInv'
  <2> SUFFICES ASSUME NEW f, f = UserInfoFetcher(p, a),
                      NEW r, r = [tab[t] EXCEPT !.view = "upsert", !.raw = a, !.profile = f]
               PROVE  IInv'
    OBVIOUS
  <2>1. tab[t] \in TabState /\ Sound(tab[t]) /\ Become(t, r)
    BY <1>3 DEF IInv, TypeOK
  <2>2. tab[t].view \in Handling /\ "upsert" \in Handling
    BY <1>1 DEF Handling
  <2>3. tab[t].state # NoState /\ p \in OAuthConfigs
    BY <2>1, <2>2 DEF Sound, UnderWay, StateInHand
  <2>4. a \in RawAnswer(p)
    BY <1>3, <2>3, FlowAssumption
  <2>5. f \in Profile /\ Honest(p, a, f)
    BY <1>3, <2>4, FetchersHonest
  <2>6. a \in UNION {Answers[q] : q \in OAuthConfigs}
    BY <1>3, <2>3
  <2>7. r \in TabState
    BY <2>1, <2>2, <2>5, <2>6 DEF TabState, Views
  <2>8. /\ r.view = "upsert" /\ r.state = tab[t].state /\ r.code = tab[t].code
        /\ r.provider = tab[t].provider /\ r.url = tab[t].url /\ r.uri = tab[t].uri
        /\ r.raw = a /\ r.profile = f
    BY <2>1 DEF TabState
  <2> QED BY <1>1, <2>1, <2>2, <2>3, <2>5, <2>7, <2>8, SameHandKeeps
<1> QED BY <1>1, <1>2, <1>3 DEF Fetch

LEMMA UpsertKeeps ==
    ASSUME IInv, NEW t \in Tabs, Upsert(t)
    PROVE  IInv'
<1>1. tab[t].view = "upsert" /\ UNCHANGED <<codes, remembered, allowlist>> /\ LedgerGrows
  BY LedgerKept DEF Upsert, IInv
<1>2. CASE Fail(t)
  BY <1>1, <1>2, FailKeeps
<1>3. CASE Become(t, [tab[t] EXCEPT !.view = "issue", !.raw = Unreadable, !.profile = Unreadable])
  <2> SUFFICES ASSUME NEW r, r = [tab[t] EXCEPT !.view = "issue", !.raw = Unreadable,
                                                !.profile = Unreadable]
               PROVE  IInv'
    OBVIOUS
  <2>1. tab[t] \in TabState /\ Sound(tab[t]) /\ Become(t, r)
    BY <1>3 DEF IInv, TypeOK
  <2>2. tab[t].view \in Handling /\ "issue" \in Handling
    BY <1>1 DEF Handling
  <2>3. tab[t].state # NoState
    BY <2>1, <2>2 DEF Sound, UnderWay
  <2>4. r \in TabState
    BY <2>1, <2>2 DEF TabState, Views
  <2>5. /\ r.view = "issue" /\ r.state = tab[t].state /\ r.code = tab[t].code
        /\ r.provider = tab[t].provider /\ r.url = tab[t].url /\ r.uri = tab[t].uri
    BY <2>1 DEF TabState
  <2> QED BY <1>1, <2>1, <2>2, <2>3, <2>4, <2>5, SameHandKeeps
<1> QED BY <1>2, <1>3 DEF Upsert

LEMMA IssueCredentialKeeps ==
    ASSUME IInv, NEW t \in Tabs, IssueCredential(t)
    PROVE  IInv'
<1>1. /\ UNCHANGED <<codes, remembered, allowlist>> /\ LedgerGrows
      /\ tab[t].uri \in Redirects /\ remembered' \in Providers \cup {NoProvider}
  BY LedgerKept DEF IssueCredential, IInv, TypeOK, TabState
<1> QED BY <1>1, LandKeeps, FailKeeps DEF IssueCredential

\* Neither the clock nor a logout elsewhere changes what a tab holds.
LEMMA BackgroundKeeps ==
    ASSUME IInv, LedgerGrows, UNCHANGED <<tab, codes, allowlist>>,
           remembered' \in Providers \cup {NoProvider}
    PROVE  IInv'
<1>1. TypeOK'
  BY DEF IInv, TypeOK, LedgerGrows
<1>2. ASSUME NEW t \in Tabs PROVE Sound(tab[t])'
  <2> SUFFICES ASSUME NEW r, r = tab[t] PROVE Sound(tab[t])'
    OBVIOUS
  <2>1. r \in TabState /\ Sound(r) /\ tab'[t] = r
    BY DEF IInv, TypeOK
  <2>2. Sound(r)'
    BY <2>1, StaysSound DEF IInv
  <2> QED BY <2>1, <2>2 DEF Sound, StateInHand, CodeInHand, UnderWay
<1>3. (CopiesAgree /\ ReplayStopsHere /\ CodeGoesHome /\ ExchangeMatches /\ ProfileHonest)'
  BY DEF IInv, CopiesAgree, ReplayStopsHere, CodeGoesHome, ExchangeMatches, ProfileHonest
<1> QED BY <1>1, <1>2, <1>3 DEF IInv

LEMMA ForgetProviderKeeps ==
    ASSUME IInv, ForgetProvider
    PROVE  IInv'
<1>1. LedgerGrows /\ UNCHANGED <<tab, codes, allowlist>> /\ remembered' \in Providers \cup {NoProvider}
  BY LedgerKept DEF ForgetProvider, IInv
<1> QED BY <1>1, BackgroundKeeps

LEMMA TickKeeps ==
    ASSUME IInv, Tick
    PROVE  IInv'
<1>1. /\ UNCHANGED <<tab, codes, allowlist>> /\ remembered' \in Providers \cup {NoProvider}
      /\ ledger' = ledger /\ epoch' = epoch /\ now \in 0..Horizon /\ now' = now + 1
      /\ now < Horizon /\ Horizon \in Nat
  BY FlowAssumption DEF Tick, Elapse, flowVars, IInv, TypeOK
<1>2. now' \in 0..Horizon
  BY <1>1
<1>3. LedgerGrows
  BY <1>1, <1>2 DEF LedgerGrows, IInv, TypeOK
<1> QED BY <1>1, <1>3, BackgroundKeeps

\* The handlers that die give up what they had found out; the tabs keep their URLs.
LEMMA RestartKeeps ==
    ASSUME IInv, Restart
    PROVE  IInv'
<1> DEFINE dead(t) == [tab[t] EXCEPT !.view = "error", !.uri = <<>>, !.raw = Unreadable,
                                     !.profile = Unreadable]
<1>1. /\ UNCHANGED <<codes, remembered>> /\ allowlist' \in Allowlists
      /\ ledger' = ledger /\ now' = now /\ epoch \in 0..MaxRestarts /\ epoch' = epoch + 1
      /\ epoch < MaxRestarts /\ MaxRestarts \in Nat
      /\ tab \in [Tabs -> TabState]
      /\ tab' = [t \in Tabs |-> IF tab[t].view \in Handling THEN dead(t) ELSE tab[t]]
  BY FlowAssumption DEF Restart, NewEpoch, IInv, TypeOK
<1>2. \A t \in Tabs : dead(t) \in TabState
  <2>1. SUFFICES ASSUME NEW t \in Tabs PROVE dead(t) \in TabState
    OBVIOUS
  <2>2. tab[t] \in TabState
    BY <1>1
  <2> QED BY <2>2, FlowAssumption DEF TabState, Views
<1>3. \A t \in Tabs :
         /\ tab'[t].code = tab[t].code /\ tab'[t].state = tab[t].state
         /\ tab'[t].provider = tab[t].provider /\ tab'[t].url = tab[t].url
         /\ tab'[t].view \notin Handling
         /\ tab'[t].view # "error" => tab'[t] = tab[t]
  <2>1. SUFFICES ASSUME NEW t \in Tabs
                 PROVE  /\ tab'[t].code = tab[t].code /\ tab'[t].state = tab[t].state
                        /\ tab'[t].provider = tab[t].provider /\ tab'[t].url = tab[t].url
                        /\ tab'[t].view \notin Handling
                        /\ tab'[t].view # "error" => tab'[t] = tab[t]
    OBVIOUS
  <2>2. tab[t] \in TabState /\ "error" \notin Handling
    BY <1>1 DEF Handling
  <2>3. CASE tab[t].view \in Handling
    <3>1. tab'[t] = dead(t)
      BY <1>1, <2>3
    <3> QED BY <2>2, <3>1 DEF TabState
  <2>4. CASE tab[t].view \notin Handling
    BY <1>1, <2>4
  <2> QED BY <2>3, <2>4
<1>4. TypeOK'
  <2>1. tab' \in [Tabs -> TabState]
    BY <1>1, <1>2
  <2>2. epoch \in 0..MaxRestarts /\ epoch' = epoch + 1 /\ epoch < MaxRestarts /\ MaxRestarts \in Nat
    BY <1>1
  <2>3. epoch' \in 0..MaxRestarts
    BY <2>2
  <2> QED BY <1>1, <2>1, <2>3 DEF IInv, TypeOK
<1>5. "exchange" \in Handling /\ "upsert" \in Handling /\ "error" \notin {"consent", "return"} \cup Handling
  BY DEF Handling
<1>6. ASSUME NEW t \in Tabs PROVE Sound(tab[t])'
  <2>1. Sound(tab[t])
    BY DEF IInv
  <2>2. StateInHand(tab[t])' /\ CodeInHand(tab[t])'
    BY <1>1, <1>3, <2>1 DEF Sound, StateInHand, CodeInHand
  <2>3. UnderWay(tab[t])'
    BY <1>3, <1>5, <2>1 DEF Sound, UnderWay
  <2> QED BY <2>2, <2>3 DEF Sound
<1>7. CopiesAgree'
  BY <1>3, <1>5 DEF IInv, CopiesAgree
<1>8. (ReplayStopsHere /\ CodeGoesHome /\ ExchangeMatches)'
  BY <1>1 DEF IInv, ReplayStopsHere, CodeGoesHome, ExchangeMatches
<1>9. ProfileHonest'
  BY <1>3, <1>5 DEF ProfileHonest
<1> QED BY <1>4, <1>6, <1>7, <1>8, <1>9 DEF IInv

-----------------------------------------------------------------------------
(* The theorems *)

LEMMA InitIInv == Init => IInv
<1> SUFFICES ASSUME Init PROVE IInv
  OBVIOUS
<1>1. Blank \in TabState
  <2>1. <<>> \in Redirects
    BY FlowAssumption
  <2> QED BY <2>1 DEF Blank, TabState, Views, RedirectURLs
<1>2. \A t \in Tabs : tab[t] = Blank
  BY DEF Init
<1>3. TypeOK
  BY <1>1, FlowAssumption DEF Init, LedgerInit, TypeOK
<1>4. /\ Blank.view = "idle" /\ Blank.state = NoState /\ Blank.code = NoCode
      /\ "idle" \notin {"consent", "return", "exchange", "upsert"} \cup Handling
  BY DEF Blank, Handling
<1>5. \A t \in Tabs : Sound(tab[t])
  BY <1>2, <1>4 DEF Sound, StateInHand, CodeInHand, UnderWay
<1>6. CopiesAgree /\ ProfileHonest
  BY <1>2, <1>4 DEF CopiesAgree, ProfileHonest
<1>7. ReplayStopsHere /\ CodeGoesHome /\ ExchangeMatches
  BY DEF Init, ReplayStopsHere, CodeGoesHome, ExchangeMatches
<1> QED BY <1>3, <1>5, <1>6, <1>7 DEF IInv

LEMMA NextKeepsIInv == IInv /\ [Next]_vars => IInv'
<1> SUFFICES ASSUME IInv, [Next]_vars PROVE IInv'
  OBVIOUS
<1>1. ASSUME NEW t \in Tabs, Start(t) PROVE IInv'
  BY <1>1, HandleLoginKeeps, HandleOAuthStartKeeps, StartFromPageKeeps, StartFromProgramKeeps DEF Start
<1>2. ASSUME NEW t \in Tabs, Handler(t) PROVE IInv'
  BY <1>2, HandleOAuthCallbackKeeps, CallbackFromPageKeeps, CallbackFromProgramKeeps,
     ExchangeKeeps, FetchKeeps, UpsertKeeps, IssueCredentialKeeps DEF Handler
<1>3. ASSUME NEW t \in Tabs, Decline(t) PROVE IInv'
  BY <1>3, DeclineKeeps
<1>4. ASSUME NEW t \in Tabs, NEW c \in Codes, Consent(t, c) PROVE IInv'
  BY <1>4, ConsentKeeps
<1>5. ASSUME NEW t \in Tabs, NEW u \in Tabs, LoadAgain(t, u) PROVE IInv'
  BY <1>5, LoadAgainKeeps
<1>6. CASE ForgetProvider \/ Tick \/ Restart
  BY <1>6, ForgetProviderKeeps, TickKeeps, RestartKeeps
<1>7. CASE UNCHANGED vars
  <2>1. LedgerGrows /\ UNCHANGED <<tab, codes, allowlist>> /\ remembered' \in Providers \cup {NoProvider}
    BY <1>7, LedgerKept DEF vars, flowVars, ledgerVars, IInv, TypeOK
  <2> QED BY <2>1, BackgroundKeeps
<1> QED BY <1>1, <1>2, <1>3, <1>4, <1>5, <1>6, <1>7 DEF Next

\* What the theorems below rest on.
THEOREM InductiveInvariant == Spec => []IInv
<1>1. Init => IInv
  BY InitIInv
<1>2. IInv /\ [Next]_vars => IInv'
  BY NextKeepsIInv
<1> QED BY <1>1, <1>2, PTL DEF Spec

\* Every tab's record has its type, whatever is loaded when.
THEOREM TypeCorrect == Spec => []TypeOK
<1>1. IInv => TypeOK
  BY DEF IInv
<1> QED BY <1>1, InductiveInvariant, PTL

\* HandleOAuthCallback and OAuthCallback: a code is presented to the provider that
\* issued it and to no other.
THEOREM CodeGoesHomeCorrect == Spec => []CodeGoesHome
<1>1. IInv => CodeGoesHome
  BY DEF IInv
<1> QED BY <1>1, InductiveInvariant, PTL

\* A code is presented once, however often its callback URL is loaded.
THEOREM ReplayStopsHereCorrect == Spec => []ReplayStopsHere
<1>1. IInv => ReplayStopsHere
  BY DEF IInv
<1> QED BY <1>1, InductiveInvariant, PTL

\* AuthenticateOAuthUser: the exchange names the authorization request's redirect URL.
THEOREM ExchangeMatchesCorrect == Spec => []ExchangeMatches
<1>1. IInv => ExchangeMatches
  BY DEF IInv
<1> QED BY <1>1, InductiveInvariant, PTL

\* What UpsertByProvider is called with claims no more than the provider's answer.
THEOREM ProfileHonestCorrect == Spec => []ProfileHonest
<1>1. IInv => ProfileHonest
  BY DEF IInv
<1> QED BY <1>1, InductiveInvariant, PTL

\* A step that turns one tab into r turns no other.
LEMMA OneChanges ==
    ASSUME IInv, NEW t \in Tabs, NEW u \in Tabs, NEW r, Become(u, r), tab'[t] # tab[t]
    PROVE  t = u /\ tab'[t] = r
BY DEF IInv, TypeOK, Become

LEMMA NotSentOn ==
    ASSUME IInv, NEW t \in Tabs, NEW u \in Tabs, tab'[t] # tab[t],
           Fail(u) \/ Refuse(u) \/ (\E p, r, url : Leave(u, p, r, url))
           \/ (\E p, uri : GoOn(u, p, uri))
    PROVE  tab'[t].view # "in"
<1>1. tab[u] \in TabState
  BY DEF IInv, TypeOK
<1>2. CASE Fail(u)
  <2>1. tab'[t] = [tab[u] EXCEPT !.view = "error", !.uri = <<>>, !.raw = Unreadable,
                                 !.profile = Unreadable]
    BY <1>2, OneChanges DEF Fail
  <2> QED BY <1>1, <2>1 DEF TabState
<1>3. CASE Refuse(u)
  <2>1. tab'[t] = [Blank EXCEPT !.view = "error"]
    BY <1>3, OneChanges DEF Refuse
  <2> QED BY <2>1 DEF Blank
<1>4. ASSUME NEW p, NEW r, NEW url, Leave(u, p, r, url) PROVE tab'[t].view # "in"
  <2>1. PICK s \in States :
           tab'[t] = [Blank EXCEPT !.view = "consent", !.provider = p, !.state = s, !.url = url]
    BY <1>4, OneChanges DEF Leave
  <2> QED BY <2>1 DEF Blank
<1>5. ASSUME NEW p, NEW uri, GoOn(u, p, uri) PROVE tab'[t].view # "in"
  <2>1. tab'[t] = [tab[u] EXCEPT !.view = "exchange", !.provider = p, !.uri = uri]
    BY <1>5, OneChanges DEF GoOn
  <2> QED BY <1>1, <2>1 DEF TabState
<1> QED BY <1>2, <1>3, <1>4, <1>5

\* Two actions send a tab on: a login page nobody needs, and a credential.
LEMMA OnlyThese ==
    ASSUME IInv, Next, NEW t \in Tabs, tab'[t].view = "in", tab'[t] # tab[t]
    PROVE  (\E asked \in Asked : HandleLogin(t, asked)) \/ IssueCredential(t)
<1>1. ASSUME NEW u \in Tabs, Start(u) PROVE \E asked \in Asked : HandleLogin(t, asked)
  <2>1. PICK asked \in Asked : HandleLogin(u, asked)
    BY <1>1, NotSentOn DEF Start, HandleOAuthStart, StartFromPage, StartFromProgram
  <2>2. t = u
    BY <2>1, OneChanges DEF HandleLogin, Land, Refuse
  <2> QED BY <2>1, <2>2
<1>2. ASSUME NEW u \in Tabs, Handler(u) PROVE IssueCredential(t)
  <2>1. tab[u] \in TabState
    BY DEF IInv, TypeOK
  <2>2. CASE HandleOAuthCallback(u) \/ CallbackFromPage(u) \/ CallbackFromProgram(u)
    BY <2>2, NotSentOn DEF HandleOAuthCallback, CallbackFromPage, CallbackFromProgram
  <2>3. CASE Exchange(u)
    <3>1. CASE Become(u, [tab[u] EXCEPT !.view = "fetch"])
      <4>1. tab'[t] = [tab[u] EXCEPT !.view = "fetch"]
        BY <3>1, OneChanges
      <4> QED BY <2>1, <4>1 DEF TabState
    <3> QED BY <2>3, <3>1, NotSentOn DEF Exchange
  <2>4. CASE Fetch(u)
    <3>1. ASSUME NEW a, NEW f, Become(u, [tab[u] EXCEPT !.view = "upsert", !.raw = a, !.profile = f])
          PROVE FALSE
      <4>1. tab'[t] = [tab[u] EXCEPT !.view = "upsert", !.raw = a, !.profile = f]
        BY <3>1, OneChanges
      <4> QED BY <2>1, <4>1 DEF TabState
    <3> QED BY <2>4, <3>1, NotSentOn DEF Fetch
  <2>5. CASE Upsert(u)
    <3>1. CASE Become(u, [tab[u] EXCEPT !.view = "issue", !.raw = Unreadable, !.profile = Unreadable])
      <4>1. tab'[t] = [tab[u] EXCEPT !.view = "issue", !.raw = Unreadable, !.profile = Unreadable]
        BY <3>1, OneChanges
      <4> QED BY <2>1, <4>1 DEF TabState
    <3> QED BY <2>5, <3>1, NotSentOn DEF Upsert
  <2>6. CASE IssueCredential(u)
    <3>1. t = u
      BY <2>6, OneChanges DEF IssueCredential, Land, Fail
    <3> QED BY <2>6, <3>1
  <2> QED BY <1>2, <2>2, <2>3, <2>4, <2>5, <2>6 DEF Handler
<1>3. ASSUME NEW u \in Tabs, Decline(u) PROVE FALSE
  <2>1. tab'[t] = [tab[u] EXCEPT !.view = "return"] /\ tab[u] \in TabState
    BY <1>3, OneChanges DEF Decline, IInv, TypeOK
  <2> QED BY <2>1 DEF TabState
<1>4. ASSUME NEW u \in Tabs, NEW c \in Codes, Consent(u, c) PROVE FALSE
  <2>1. tab'[t] = [tab[u] EXCEPT !.view = "return", !.code = c] /\ tab[u] \in TabState
    BY <1>4, OneChanges DEF Consent, IInv, TypeOK
  <2> QED BY <2>1 DEF TabState
<1>5. ASSUME NEW u \in Tabs, NEW w \in Tabs, LoadAgain(u, w) PROVE FALSE
  <2>1. /\ tab'[t] = [tab[u] EXCEPT !.view = "return", !.uri = <<>>, !.raw = Unreadable,
                                    !.profile = Unreadable]
        /\ tab[u] \in TabState
    BY <1>5, OneChanges DEF LoadAgain, IInv, TypeOK
  <2> QED BY <2>1 DEF TabState
<1>6. CASE ForgetProvider \/ Tick
  BY <1>6 DEF ForgetProvider, Tick, flowVars
<1>7. CASE Restart
  <2>1. tab[t] \in TabState
    BY DEF IInv, TypeOK
  <2>2. tab'[t] = [tab[t] EXCEPT !.view = "error", !.uri = <<>>, !.raw = Unreadable,
                                 !.profile = Unreadable]
    BY <1>7 DEF Restart
  <2> QED BY <2>1, <2>2 DEF TabState
<1> QED BY <1>1, <1>2, <1>3, <1>4, <1>5, <1>6, <1>7 DEF Next

LEMMA LoginLands ==
    ASSUME IInv, NEW t \in Tabs, NEW asked \in Asked, HandleLogin(t, asked),
           tab'[t].view = "in", tab'[t] # tab[t]
    PROVE  IsAllowedRedirect(tab'[t].uri, allowlist')
<1>1. allowlist' = allowlist /\ ~Refuse(t)
  BY NotSentOn DEF HandleLogin
<1>2. /\ IsAllowedRedirect(WithDefault(asked), allowlist)
      /\ Land(t, WithDefault(asked))
  BY <1>1 DEF HandleLogin
<1>3. tab'[t].uri = WithDefault(asked)
  BY <1>2, OneChanges DEF Land, Blank
<1> QED BY <1>1, <1>2, <1>3

LEMMA CredentialLands ==
    ASSUME IInv, NEW t \in Tabs, IssueCredential(t),
           tab'[t].view = "in", tab'[t] # tab[t], tab'[t].uri # <<>>
    PROVE  IsAllowedRedirect(tab'[t].uri, allowlist')
<1>1. allowlist' = allowlist /\ tab[t].view \in Handling /\ Land(t, tab[t].uri)
  BY NotSentOn DEF IssueCredential, Handling
<1>2. tab'[t].uri = tab[t].uri
  BY <1>1, OneChanges DEF Land, Blank
<1>3. Sound(tab[t])
  BY DEF IInv
<1>4. tab[t].uri = <<>> \/ IsAllowedRedirect(tab[t].uri, allowlist)
  BY <1>1, <1>3 DEF Sound, UnderWay
<1> QED BY <1>1, <1>2, <1>4

\* A login lands, to the browser's reading, on a page of this origin or on the site
\* of an entry of the allowlist.
THEOREM LandingCorrect == Spec => LandsOnAllowedSite
<1> DEFINE Lands ==
        \A t \in Tabs : tab[t]'.view = "in" /\ tab[t]'.uri # <<>> /\ tab[t]' # tab[t] =>
          AllowedSite(tab[t]'.uri, allowlist')
<1>1. ASSUME IInv, IInv', [Next]_vars PROVE [Lands]_vars
  <2>1. SUFFICES ASSUME NEW t \in Tabs, tab'[t].view = "in", tab'[t].uri # <<>>, tab'[t] # tab[t],
                        Next
                 PROVE  AllowedSite(tab'[t].uri, allowlist')
    BY <1>1 DEF vars, flowVars
  <2>2. tab'[t].uri \in Redirects /\ allowlist' \in Allowlists
    BY <1>1 DEF IInv, TypeOK, TabState
  <2>3. IsAllowedRedirect(tab'[t].uri, allowlist')
    <3>1. CASE \E asked \in Asked : HandleLogin(t, asked)
      BY <1>1, <2>1, <3>1, LoginLands
    <3>2. CASE IssueCredential(t)
      BY <1>1, <2>1, <3>2, CredentialLands
    <3> QED BY <1>1, <2>1, <3>1, <3>2, OnlyThese
  <2> QED BY <2>2, <2>3, RedirectAssumption, RedirectStaysOnSite
<1>2. IInv /\ IInv' /\ [Next]_vars => [Lands]_vars
  BY <1>1
<1> QED BY <1>2, InductiveInvariant, PTL DEF Spec, LandsOnAllowedSite

\* A callback presents a state that was issued, for a provider there is.
LEMMA CallbackSettles ==
    ASSUME IInv, NEW t \in Tabs, tab[t].view = "return"
    PROVE  /\ tab[t].state \in States
           /\ tab[t].provider \in Providers
           /\ remembered # NoProvider => remembered \in Providers
<1>1. tab[t] \in TabState /\ remembered \in Providers \cup {NoProvider} /\ Sound(tab[t])
  BY DEF IInv, TypeOK
<1>2. tab[t].state # NoState
  BY <1>1 DEF Sound, CodeInHand, UnderWay
<1>3. tab[t].provider \in OAuthConfigs
  BY <1>1, <1>2 DEF Sound, StateInHand
<1> QED BY <1>1, <1>2, <1>3, FlowAssumption DEF TabState

\* Every login is a client of the ledger that StateStore keeps: it issues, settles
\* and restarts as the ledger says, and touches no ticket otherwise.
THEOREM LedgerUsed == Spec => LedgerSpec
<1>1. ASSUME IInv, [Next]_vars PROVE [LedgerNext]_ledgerVars
  <2>1. ASSUME NEW t \in Tabs, Start(t) PROVE [LedgerNext]_ledgerVars
    <3>1. ASSUME NEW p \in Providers, NEW r \in Redirects, NEW s \in States, Issue(s, p, r)
          PROVE  LedgerNext
      BY <3>1 DEF LedgerNext
    <3>2. NoRedirect \in Redirects /\ \A asked \in Asked : WithDefault(asked) \in Redirects
      BY FlowAssumption DEF WithDefault
    <3>3. CASE \E asked \in Asked : HandleLogin(t, asked)
      BY <3>3 DEF HandleLogin
    <3>4. CASE \E p \in Providers, asked \in Asked : HandleOAuthStart(t, p, asked)
      BY <3>1, <3>2, <3>4 DEF HandleOAuthStart, Leave
    <3>5. CASE \E p \in Providers : StartFromPage(t, p) \/ StartFromProgram(t, p)
      BY <3>1, <3>2, <3>5 DEF StartFromPage, StartFromProgram, Leave
    <3> QED BY <2>1, <3>3, <3>4, <3>5 DEF Start
  <2>2. ASSUME NEW t \in Tabs, Handler(t) PROVE [LedgerNext]_ledgerVars
    <3>1. ASSUME NEW s \in States, NEW p \in Providers, Settle(s, p) PROVE LedgerNext
      BY <3>1 DEF LedgerNext
    <3>2. CASE HandleOAuthCallback(t) \/ CallbackFromPage(t) \/ CallbackFromProgram(t)
      <4>1. tab[t].view = "return"
        BY <3>2 DEF HandleOAuthCallback, CallbackFromPage, CallbackFromProgram
      <4>2. /\ tab[t].state \in States /\ tab[t].provider \in Providers
            /\ remembered # NoProvider => remembered \in Providers
        BY <1>1, <4>1, CallbackSettles
      <4>3. CASE UNCHANGED ledgerVars
        BY <4>3
      <4>4. CASE Settle(tab[t].state, tab[t].provider)
        BY <3>1, <4>2, <4>4
      <4>5. CASE remembered # NoProvider /\ Settle(tab[t].state, remembered)
        BY <3>1, <4>2, <4>5
      <4>6. CASE HandleOAuthCallback(t)
        BY <4>3, <4>4, <4>6 DEF HandleOAuthCallback
      <4>7. CASE CallbackFromPage(t)
        BY <4>3, <4>5, <4>7 DEF CallbackFromPage
      <4>8. CASE CallbackFromProgram(t)
        BY <4>3, <4>4, <4>8 DEF CallbackFromProgram
      <4> QED BY <3>2, <4>6, <4>7, <4>8
    <3>3. CASE Exchange(t) \/ Fetch(t) \/ Upsert(t) \/ IssueCredential(t)
      BY <3>3 DEF Exchange, Fetch, Upsert, IssueCredential
    <3> QED BY <2>2, <3>2, <3>3 DEF Handler
  <2>3. CASE \/ \E t \in Tabs : Decline(t)
             \/ \E t \in Tabs, c \in Codes : Consent(t, c)
             \/ \E t, u \in Tabs : LoadAgain(t, u)
             \/ ForgetProvider \/ UNCHANGED vars
    BY <2>3 DEF Decline, Consent, LoadAgain, ForgetProvider, vars
  <2>4. CASE Tick \/ Restart
    BY <2>4 DEF Tick, Restart, LedgerNext
  <2> QED BY <1>1, <2>1, <2>2, <2>3, <2>4 DEF Next
<1>2. IInv /\ [Next]_vars => [LedgerNext]_ledgerVars
  BY <1>1
<1>3. Init => LedgerInit
  BY DEF Init
<1> QED BY <1>2, <1>3, InductiveInvariant, PTL DEF Spec, LedgerSpec

============================================================================
