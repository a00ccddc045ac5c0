--------------------------- MODULE RedirectPolicy ---------------------------
(***************************************************************************)
(* Where a login may send the browser afterwards: isAllowedRedirect of     *)
(* pkg/auth/browser_handlers.go, on URLs cut into tokens.  A delimiter is  *)
(* a token, a scheme with its colon is one, and the text between two of    *)
(* them is one or several, cut so that a URL that continues the last name  *)
(* of another one extends it by a token:                                   *)
(*     "http://app/x"   is <<"http:", "/", "/", "app", "/", "x">>           *)
(*     "http://app.net" is <<"http:", "/", "/", "app", ".net">>             *)
(* A backslash and a tab are tokens too, for the browsers' sake: they take *)
(* the one for a slash and leave the other out; a tab stands for the line  *)
(* breaks as well, which they leave out too.                               *)
(***************************************************************************)
EXTENDS Naturals, Sequences, SequencesExt

Schemes == {"http:", "https:"}
Delimiters == {"/", "?", "#"}
Backslash == "\\"
Tabulator == "\t"

\* Mutated form of the next definition, caught by LandsOnAllowedSite: "//host"
\* passes for a path.
SameOrigin_AnySlash(uri) ==
    /\ uri # <<>>
    /\ uri[1] = "/"

\* A path of this origin, not the "//host" form.
SameOrigin(uri) ==
    /\ uri # <<>>
    /\ uri[1] = "/"
    /\ Len(uri) > 1 => uri[2] # "/"

\* url.Parse gives the URL a web scheme and a host; it refuses control characters
\* anywhere and a backslash in the host.
HasHost(uri) ==
    /\ Len(uri) >= 4
    /\ uri[1] \in Schemes
    /\ uri[2] = "/" /\ uri[3] = "/"
    /\ uri[4] \notin Delimiters
    /\ \A i \in 1..Len(uri) : uri[i] # Tabulator
    /\ \A n \in 4..Len(uri) :
          (\A i \in 4..n : uri[i] \notin Delimiters) => uri[n] # Backslash

\* Mutated form of the next definition, caught by LandsOnAllowedSite: any URL that
\* begins like a listed one is allowed.
OnBoundary_Anywhere(uri, prefix) == Len(uri) >= Len(prefix)

\* The listed prefix ends where a path segment of the URL does.
OnBoundary(uri, prefix) ==
    \/ prefix[Len(prefix)] = "/"
    \/ Len(uri) = Len(prefix)
    \/ uri[Len(prefix) + 1] \in Delimiters

IsAllowedRedirect(uri, prefixes) ==
    \/ SameOrigin(uri)
    \/ /\ HasHost(uri)
       /\ \E p \in prefixes : p # <<>> /\ IsPrefix(p, uri) /\ OnBoundary(uri, p)

-----------------------------------------------------------------------------
(* The reference: where a browser goes, whatever the code tests *)

Slashes == {"/", Backslash}

\* Relative to a page of this origin the URL names a path of it: it begins with a
\* slash, and no second one follows it at once, tabs aside, to introduce a host.
StaysHere(uri) ==
    /\ uri # <<>>
    /\ uri[1] \in Slashes
    /\ \A i \in 2..Len(uri) :
          uri[i] \in Slashes => \E j \in 2..(i - 1) : uri[j] # Tabulator

\* The server and the browser agree on what follows the slash a URL begins with.
ReadAlike(uri) ==
    Len(uri) > 1 /\ uri[1] = "/" => uri[2] \notin {Backslash, Tabulator}

\* To a browser, the scheme and authority of uri are its first n tokens.
AuthorityEndsAt(uri, n) ==
    /\ HasHost(uri)
    /\ n \in 4..Len(uri)
    /\ \A i \in 4..n : uri[i] \notin Delimiters \cup {Backslash}
    /\ n = Len(uri) \/ uri[n + 1] \in Delimiters \cup {Backslash}

SameSite(uri, other) ==
    \E n \in 4..Len(uri) :
        /\ AuthorityEndsAt(uri, n)
        /\ AuthorityEndsAt(other, n)
        /\ \A i \in 1..n : uri[i] = other[i]

\* A page the configuration lets a login return to: one of this origin, or of the
\* scheme, host and port of a listed URL.
AllowedSite(uri, prefixes) ==
    ReadAlike(uri) => StaysHere(uri) \/ \E p \in prefixes : SameSite(uri, p)
=============================================================================
