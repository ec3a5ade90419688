----------------------------- MODULE MediaFetcher -----------------------------
(***************************************************************************)
(* The media cache of one batch (media_fetcher.py).  Files are named after *)
(* their URL and evicted, least recently used first, when the next one     *)
(* does not fit.  A file may be asked for with the digest it must have;    *)
(* the digest of a cached file is computed once.                           *)
(*                                                                         *)
(* A caller holds the files it was given, of which it keeps only the path, *)
(* until it is done with all of them (spatial_pipeline.py, the visual      *)
(* adapters).  What a URL refers to may change between two downloads, and  *)
(* a file that nobody uses may get lost.                                   *)
(*                                                                         *)
(* A content is its own digest.  Downloads outside a batch, which have a   *)
(* file of their own, are left out.                                        *)
(***************************************************************************)
EXTENDS Naturals, SequencesExt

CONSTANTS
    Urls,
    Contents,
    Size,        \* bytes of a content
    None,        \* no file, no digest
    MaxBytes,    \* bytes of one download (max_bytes)
    MaxCache,    \* bytes of the cache (max_cache_bytes)
    MaxHeld,     \* bound on the files a caller holds
    MaxChanges   \* bound on changes of what a URL refers to, and on lost files

ASSUME NoneAssumption == None \notin Contents
ASSUME SizeAssumption == Size \in [Contents -> Nat]
ASSUME BoundsAssumption == MaxHeld \in Nat /\ MaxChanges \in Nat
\* WorkerSettings refuses any other configuration.
ASSUME BudgetAssumption == MaxBytes \in Nat /\ MaxCache \in Nat /\ MaxBytes <= MaxCache

VARIABLES
    remote,   \* what a URL refers to
    batch,    \* a batch has its cache directory
    order,    \* URLs of the cached files, least recently used first
    file,     \* per URL: what its file contains
    size,     \* per URL: the bytes its file counts
    bytes,    \* the bytes all files count
    sha,      \* per URL: the digest that was computed of its file
    held,     \* what the caller was given and has not returned
    changes   \* changes and lost files so far

cache == <<order, file, size, bytes, sha>>
vars == <<remote, batch, cache, held, changes>>

Empty == [u \in Urls |-> None]

Init ==
    /\ remote \in [Urls -> Contents]
    /\ batch = FALSE
    /\ order = <<>>
    /\ file = Empty
    /\ size = [u \in Urls |-> 0]
    /\ bytes = 0
    /\ sha = Empty
    /\ held = <<>>
    /\ changes = 0

Cleared ==
    /\ order' = <<>>
    /\ file' = Empty
    /\ size' = [u \in Urls |-> 0]
    /\ bytes' = 0
    /\ sha' = Empty

Begin ==
    /\ ~batch
    /\ batch' = TRUE
    /\ Cleared
    /\ UNCHANGED <<remote, held, changes>>

\* The directory is removed with all that is in it.
End ==
    /\ batch
    /\ held = <<>>
    /\ batch' = FALSE
    /\ Cleared
    /\ UNCHANGED <<remote, held, changes>>

-----------------------------------------------------------------------------
(* A download *)

Total(urls) == MapThenSumSet(LAMBDA u : size[u], urls)
Without(seq, u) == RemoveFirst(seq, u)
Oldest(seq, k) == Range(SubSeq(seq, 1, k))

\* The digest of a file is computed when it is first asked for.  With another digest than
\* the expected one the caller gets an error, and gives up.
Give(u, expected, content, digests) ==
    LET digest == IF digests[u] # None THEN digests[u] ELSE content
        given == [url |-> u, content |-> content, expected |-> expected]
    IN  /\ sha' = IF expected = None THEN digests ELSE [digests EXCEPT ![u] = digest]
        /\ held' = IF expected \in {None, digest} THEN Append(held, given) ELSE <<>>

Hit(u, expected) ==
    /\ file[u] # None
    /\ order' = Append(Without(order, u), u)
    /\ Give(u, expected, file[u], sha)
    /\ UNCHANGED <<file, size, bytes>>

\* (mutant) the digest of an evicted file stays
ForgetFilesOnly(urls) == sha

\* The digests that are left when the files of urls are gone.
Forget(urls) == [u \in Urls |-> IF u \in urls THEN None ELSE sha[u]]

\* The k oldest of the files are evicted, and no more than need be.
Evicts(files, used, k, required) ==
    LET Fits(j) == (used + required) - Total(Oldest(files, j)) <= MaxCache
    IN  /\ Fits(k) \/ k = Len(files)
        /\ \A j \in 0..(k - 1) : ~Fits(j)

\* A file of u that got lost does not count any more.
Fetch(u, expected) ==
    LET content == remote[u]
        others == Without(order, u)
        used == bytes - size[u]
    IN  /\ file[u] = None
        /\ Size[content] <= MaxBytes
        /\ \E k \in 0..Len(others) :
              LET evicted == Oldest(others, k)
              IN  /\ Evicts(others, used, k, Size[content])
                  /\ order' = Append(SubSeq(others, k + 1, Len(others)), u)
                  /\ file' = [v \in Urls |-> IF v = u THEN content
                                             ELSE IF v \in evicted THEN None ELSE file[v]]
                  /\ size' = [v \in Urls |-> IF v = u THEN Size[content]
                                             ELSE IF v \in evicted THEN 0 ELSE size[v]]
                  /\ bytes' = (used + Size[content]) - Total(evicted)
                  /\ Give(u, expected, content, Forget(evicted \cup {u}))

\* The caller goes on without the file.
FetchFails(u) ==
    /\ file[u] = None
    /\ order' = Without(order, u)
    /\ size' = [size EXCEPT ![u] = 0]
    /\ bytes' = bytes - size[u]
    /\ sha' = Forget({u})
    /\ UNCHANGED <<file, held>>

Download(u, expected) ==
    /\ batch
    /\ Len(held) < MaxHeld
    /\ Hit(u, expected) \/ Fetch(u, expected) \/ FetchFails(u)
    /\ UNCHANGED <<remote, batch, changes>>

Return ==
    /\ held # <<>>
    /\ held' = <<>>
    /\ UNCHANGED <<remote, batch, cache, changes>>

-----------------------------------------------------------------------------

Changed == changes < MaxChanges /\ changes' = changes + 1

Change(u) ==
    /\ Changed
    /\ \E c \in Contents : remote' = [remote EXCEPT ![u] = c]
    /\ UNCHANGED <<batch, cache, held>>

Lose(u) ==
    /\ Changed
    /\ \A i \in DOMAIN held : held[i].url # u
    /\ file' = [file EXCEPT ![u] = None]
    /\ UNCHANGED <<remote, batch, order, size, bytes, sha, held>>

Next ==
    \/ Begin \/ End \/ Return
    \/ \E u \in Urls, expected \in Contents \cup {None} : Download(u, expected)
    \/ \E u \in Urls : Change(u) \/ Lose(u)

Spec == Init /\ [][Next]_vars

-----------------------------------------------------------------------------
(* Properties *)

\* What the caller was given under a digest has that digest.
VerifiedIsExpected ==
    \A i \in DOMAIN held : held[i].expected \in {None, held[i].content}

\* What the caller holds fits into the cache.
Room ==
    MapThenSumSet(LAMBDA h : Size[h[2]],
                  {<<held[i].url, held[i].content>> : i \in DOMAIN held}) <= MaxCache

\* A caller finds at each path it holds what it was given there, with the digest it asked
\* for: neither a later download nor the digest of an earlier file gets into its way, as long
\* as all it holds fits into the cache.
HeldIsKept ==
    /\ VerifiedIsExpected
    /\ Room => \A i \in DOMAIN held : file[held[i].url] = held[i].content

=============================================================================
