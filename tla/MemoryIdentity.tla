--------------------------- MODULE MemoryIdentity ---------------------------
(***************************************************************************)
(* Which subject a job is about: derive_identity (worker/memory.py).       *)
(*                                                                         *)
(* A job's inputs are a sequence of values in the order of their names.  A *)
(* value is [is |-> "file" | "files" | "url" | "text" | "scalar" |         *)
(* "other", of |-> ...]: what a staged file holds (None: unreadable), a    *)
(* list of those, one URL, the URLs written in a prose, a number, anything *)
(* else.  A URL is the parts normalize_url tells apart.                    *)
(***************************************************************************)
EXTENDS Naturals, Sequences, SequencesExt, FiniteSets

CONSTANTS
    NoKey,
    UrlCap      \* _EMBEDDED_URL_CAP

\* The elements of S by an order: the k-th has k - 1 of them ahead of it.
InOrder(S, ahead) ==
    [k \in 1 .. Cardinality(S) |->
        CHOOSE x \in S : Cardinality({y \in S : <<y, x>> \in ahead}) = k - 1]

\* What a sequence has at some places, in its order.
Selected(seq, places) ==
    LET at == InOrder(places, {pair \in places \X places : pair[1] < pair[2]})
    IN  [k \in DOMAIN at |-> seq[at[k]]]

Url == [scheme : {"http", "https", "www."}, host : {"x.co", "y.co"},
        upper : BOOLEAN, query : BOOLEAN, slash : BOOLEAN, fragment : BOOLEAN]

\* Mutant: the trailing slash stays.
NormalizedSlash(u) ==
    [scheme |-> IF u.scheme = "www." THEN "https" ELSE u.scheme,
     www |-> u.scheme = "www.", host |-> u.host, query |-> u.query, slash |-> u.slash]

\* normalize_url: the host's case, a trailing slash and the fragment go; the
\* query and the scheme stay, and a bare www. is https.
Normalized(u) ==
    [scheme |-> IF u.scheme = "www." THEN "https" ELSE u.scheme,
     www |-> u.scheme = "www.", host |-> u.host, query |-> u.query, slash |-> FALSE]

\* _extract_urls: the first few of a prose.
Extracted(urls) == SubSeq(urls, 1, IF Len(urls) < UrlCap THEN Len(urls) ELSE UrlCap)

\* The staged files of a value that can be read.
FilesOf(value) ==
    LET files == CASE value.is = "file" -> <<value.of>>
                   [] value.is = "files" -> value.of
                   [] OTHER -> <<>>
    IN  Selected(files, {i \in DOMAIN files : files[i] # NoKey})

ImagesOf(value) == [i \in DOMAIN FilesOf(value) |-> [img |-> FilesOf(value)[i]]]

SitesOf(value) ==
    LET keyed(urls) == [i \in DOMAIN urls |-> [url |-> Normalized(urls[i])]]
    IN  CASE value.is = "url" -> keyed(<<value.of>>)
          [] value.is = "text" -> keyed(Extracted(value.of))
          [] OTHER -> <<>>

Once(seq) == Selected(seq, {i \in DOMAIN seq : \A j \in DOMAIN seq : j < i => seq[j] # seq[i]})

\* The images of all inputs before the sites of all inputs.
SubjectKeys(inputs) ==
    Once(FlattenSeq([i \in DOMAIN inputs |-> ImagesOf(inputs[i])])
         \o FlattenSeq([i \in DOMAIN inputs |-> SitesOf(inputs[i])]))

\* Files and URLs count by their keys, prose and numbers by name and value;
\* nothing else counts.
Fingerprint(inputs) ==
    [keys |-> SubjectKeys(inputs),
     scalars |-> {<<i, inputs[i]>> : i \in {j \in DOMAIN inputs :
                                               inputs[j].is \in {"text", "scalar"}}}]

derive_identity(inputs) ==
    [keys |-> ToSet(SubjectKeys(inputs)),
     primary |-> IF SubjectKeys(inputs) = <<>> THEN NoKey ELSE SubjectKeys(inputs)[1],
     fingerprint |-> Fingerprint(inputs)]
=============================================================================
