----------------------------- MODULE ReleasePosts -----------------------------
(***************************************************************************)
(* The GitHub queries of the release post tool                             *)
(* (tools/release-posts/lib/github-api.ts).                                 *)
(*                                                                         *)
(* getContributorData asks compareCommitsWithBasehead for the first page   *)
(* of base...head, computes the number of pages from total_commits, then   *)
(* asks for the remaining pages one await at a time, keeps the authors of  *)
(* commits that have one and whose login does not contain 'bot', and       *)
(* returns them unique by login and shuffled.  headRef is a branch: a      *)
(* commit may be pushed to it between two of the requests; the comparison  *)
(* lists commits oldest first, so a push appends.  Any request may fail,   *)
(* and the await then throws out of the function.                          *)
(*                                                                         *)
(* getMostRecentBeta takes the one page listReleases returns (newest       *)
(* first), keeps the releases whose name, in lower case, contains 'beta',  *)
(* throws when there is none and otherwise reduces to the latest by        *)
(* created_at.  getMostRecentFinal returns what getLatestRelease returns.  *)
(*                                                                         *)
(* A login or a release name is a model value; the constants say which of  *)
(* them contain 'bot' or 'beta', which is all the code asks of the text.   *)
(***************************************************************************)
EXTENDS Integers, Sequences, SequencesExt, FiniteSets

CONSTANTS
    Logins,        \* commit author logins
    BotLogins,     \* those whose text includes 'bot'
    NoAuthor,      \* a commit whose email is linked to no GitHub account
    PageSize,      \* PAGE_SIZE (100 in the code)
    MaxCommits,    \* most commits base...head holds in a run
    Names,         \* release names
    BetaNames,     \* those whose text, in lower case, includes 'beta'
    BetaCased,     \* those whose text as written includes 'beta'
    NoName,        \* a release without a name
    Times,         \* created_at values, ordered as numbers
    PerPage,       \* the size of listReleases' default page (30)
    MaxReleases    \* most releases the repository holds in a run

ASSUME BetaCased \subseteq BetaNames /\ BotLogins \subseteq Logins

Calls    == {"contributors", "beta", "final"}
Releases == [name : Names \cup {NoName}, at : Times, prerelease : BOOLEAN]

VARIABLES
    call,          \* which exported function runs
    pc,            \* "start", "paging", "done", "thrown" (by the code), "failed" (a request)
    head,          \* the commits of base...head on GitHub, oldest first
    total,         \* total_commits of the first response
    pages,         \* Math.ceil( total_commits / PAGE_SIZE )
    i,             \* the loop counter
    allAuthors,    \* the logins collected so far
    releases,      \* the releases on GitHub, newest first
    result         \* what the call returned

vars == <<call, pc, head, total, pages, i, allAuthors, releases, result>>

(***************************************************************************)
(* getContributorData                                                      *)
(***************************************************************************)

\* The commits page n of the comparison holds.
Page(h, n) == SubSeq(h, (n - 1) * PageSize + 1, IF n * PageSize < Len(h) THEN n * PageSize ELSE Len(h))

\* .filter( !! commit.author && ! commit.author.login.includes( 'bot' ) ).map( author )
AuthorsOf(commits) == SelectSeq(commits, LAMBDA c : c # NoAuthor /\ c \notin BotLogins)

\* filterUniqBy( arr, 'login' ): the first entry of each login, in order.
FilterUniqBy(arr) ==
    FoldLeft(LAMBDA seen, x : IF x \in ToSet(seen) THEN seen ELSE Append(seen, x), << >>, arr)

\* shuffle: any order of the same entries.
Shuffle(s) == {p \in [1..Len(s) -> ToSet(s)] : ToSet(p) = ToSet(s)}

\* Math.ceil( total_commits / PAGE_SIZE )
PagesFloor(n) == n \div PageSize
Pages(n) == (n + PageSize - 1) \div PageSize

\* The first compareCommitsWithBasehead call and the page 1 authors.
FirstPage ==
    /\ call = "contributors" /\ pc = "start"
    /\ total' = Len(head)
    /\ pages' = Pages(Len(head))
    /\ allAuthors' = AuthorsOf(Page(head, 1))
    /\ i' = 2
    /\ pc' = "paging"
    /\ UNCHANGED <<call, head, releases, result>>

\* for ( let i = 2; i <= pages; i++ ): one more page, fetched now.
NextPage ==
    /\ call = "contributors" /\ pc = "paging" /\ i <= pages
    /\ allAuthors' = allAuthors \o AuthorsOf(Page(head, i))
    /\ i' = i + 1
    /\ UNCHANGED <<call, pc, head, total, pages, releases, result>>

\* After the loop: the unique authors, shuffled.
ReturnContributors ==
    /\ call = "contributors" /\ pc = "paging" /\ ~(i <= pages)
    /\ result' \in Shuffle(FilterUniqBy(allAuthors))
    /\ pc' = "done"
    /\ UNCHANGED <<call, head, total, pages, i, allAuthors, releases>>

\* A commit is pushed to headRef between two requests.
PushToHead ==
    /\ call = "contributors" /\ pc \in {"start", "paging"}
    /\ Len(head) < MaxCommits
    /\ \E c \in Logins \cup {NoAuthor} : head' = Append(head, c)
    /\ UNCHANGED <<call, pc, total, pages, i, allAuthors, releases, result>>

(***************************************************************************)
(* getMostRecentBeta and getMostRecentFinal                                *)
(***************************************************************************)

\* Mutant: the name tested without toLowerCase().
IsBetaCased(r) == r.name # NoName /\ r.name \in BetaCased

\* release?.name && release.name.toLowerCase().includes( 'beta' )
IsBeta(r) == r.name # NoName /\ r.name \in BetaNames

\* betaReleases.reduce( ( latest, current ) => currentDate > latestDate ? current : latest )
LatestOf(rs) == FoldLeft(LAMBDA latest, cur : IF cur.at > latest.at THEN cur ELSE latest,
                         Head(rs), Tail(rs))

GetMostRecentBeta ==
    /\ call = "beta" /\ pc = "start"
    /\ LET listed == SubSeq(releases, 1, IF PerPage < Len(releases) THEN PerPage ELSE Len(releases))
           betas  == SelectSeq(listed, IsBeta)
       IN  IF betas = << >>
           THEN pc' = "thrown" /\ UNCHANGED result
           ELSE pc' = "done" /\ result' = LatestOf(betas)
    /\ UNCHANGED <<call, head, total, pages, i, allAuthors, releases>>

\* getLatestRelease: GitHub's latest published release that is not a
\* prerelease (the newest such one); a 404 when there is none.
GetMostRecentFinal ==
    /\ call = "final" /\ pc = "start"
    /\ LET finals == SelectSeq(releases, LAMBDA r : ~r.prerelease)
       IN  IF finals = << >>
           THEN pc' = "thrown" /\ UNCHANGED result
           ELSE pc' = "done" /\ result' = Head(finals)
    /\ UNCHANGED <<call, head, total, pages, i, allAuthors, releases>>

\* Any request is rejected (network, rate limit, bad token): the await throws.
RequestFails ==
    /\ pc \in {"start", "paging"}
    /\ pc' = "failed"
    /\ UNCHANGED <<call, head, total, pages, i, allAuthors, releases, result>>

Init ==
    /\ call \in Calls
    /\ pc = "start"
    /\ head \in IF call = "contributors" THEN BoundedSeq(Logins \cup {NoAuthor}, MaxCommits) ELSE {<< >>}
    /\ releases \in IF call = "contributors" THEN {<< >>}
                    ELSE {rs \in BoundedSeq(Releases, MaxReleases) :
                            \A k \in 1..Len(rs) - 1 : rs[k].at >= rs[k + 1].at}
    /\ total = 0 /\ pages = 0 /\ i = 0
    /\ allAuthors = << >>
    /\ result = << >>

Next ==
    \/ FirstPage \/ NextPage \/ ReturnContributors \/ PushToHead
    \/ GetMostRecentBeta \/ GetMostRecentFinal \/ RequestFails

Spec == Init /\ [][Next]_vars

(***************************************************************************)
(* Properties                                                              *)
(***************************************************************************)

\* Logins of the human authors of a list of commits, as the code tells them.
Humans(commits) == ToSet(AuthorsOf(commits))

\* getContributorData lists every human author of the total_commits commits
\* it counted, each once, and nobody who did not author a commit on the
\* head: the page count and the loop over pages 2..pages cover the whole
\* comparison, and the uniq spans pages, even with pushes between requests.
ContributorsAreTheAuthors ==
    call = "contributors" /\ pc = "done" =>
        /\ Humans(SubSeq(head, 1, total)) \subseteq ToSet(result)
        /\ ToSet(result) \subseteq Humans(head)
        /\ Len(result) = Cardinality(ToSet(result))

\* getMostRecentBeta returns a beta of the page it listed that no listed
\* beta is newer than, and throws only when that page holds no beta, names
\* written 'Beta' included.
BetaIsLatestListed ==
    call = "beta" =>
        LET listed == SubSeq(releases, 1, IF PerPage < Len(releases) THEN PerPage ELSE Len(releases))
            betas  == {k \in 1..Len(listed) : listed[k].name \in BetaNames}
        IN  /\ pc = "thrown" => betas = {}
            /\ pc = "done" =>
                 /\ \E k \in betas : result = listed[k]
                 /\ \A k \in betas : listed[k].at <= result.at

=============================================================================
