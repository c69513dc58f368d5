------------------------------ MODULE ServeNar ------------------------------
(***************************************************************************)
(* unpack.Handler (src/api/unpack/index.go, caching.go) and the listings   *)
(* it reads (src/pkg/nar/ls/list.go): how a request for a path in a store  *)
(* path is answered out of an archive, and what a client learns from a     *)
(* sequence of answers.                                                    *)
(*                                                                         *)
(* The handler walks the archive with a nar.Reader.  It is checked against *)
(* what that reader promises, ArchiveIterator, not against the code behind *)
(* it.  Everything upstream may fail, and the cache may have a listing at  *)
(* one request and none at the next.                                       *)
(*                                                                         *)
(* Paths are sequences of components.  A component may be empty: a URL may *)
(* hold two slashes in a row.  A symlink's target is a record, with the    *)
(* components and whether they start at the root.                          *)
(***************************************************************************)
EXTENDS Listing, FiniteSets

CONSTANTS
  Hash,         \* the hashes asked for
  WellFormed,   \* those of them that nixhash.ParseAny takes, as SHA-1
  Store,        \* [a set of hashes -> [name, entries]]: what the cache holds
  HashOf,       \* the hash in front of a store path's name
  Mount,        \* the store directory, "/nix/store"
  Urls,         \* the URL paths asked for
  Listings,     \* [hash -> set of listings the cache may have for it]
  Faults,       \* how a walk of an archive may go wrong: "cut", "fail"
  MaxRequests   \* a bound on the requests

ASSUME StoreIsKnown ==
  /\ Hash # {} /\ WellFormed \subseteq Hash
  /\ DOMAIN Store \subseteq Hash /\ DOMAIN Listings = DOMAIN Store
ASSUME PathsAreTyped ==
  Mount \in Path /\ Urls \subseteq Path /\ HashOf \in [Name -> Hash]

\* Archives are canonical trees: each path once, in order, and below directories.
ASSUME ArchivesAreTrees ==
  \A h \in DOMAIN Store :
    LET es == Store[h].entries IN
      /\ es \in Seq(Range(es))
      /\ \A i \in DOMAIN es : /\ es[i].path \in Path /\ es[i].size \in Nat
                             /\ es[i].type \in {"regular", "symlink", "directory"}
      /\ \A i, j \in DOMAIN es : i < j => Ordered(es[i].path, es[j].path) /\ es[i].path # es[j].path
      /\ \A i \in DOMAIN es : \A n \in 0..(Len(es[i].path) - 1) :
             \E j \in DOMAIN es : es[j].path = SubSeq(es[i].path, 1, n) /\ es[j].type = "directory"

\* A listing is a tree as well, of nodes of any type; a sound one is that of the archive.
ASSUME ListingsAreTrees ==
  \A h \in DOMAIN Listings : \A l \in Listings[h] :
    /\ \A p \in DOMAIN l.nodes :
         /\ p \in Seq(STRING) /\ l.nodes[p].size \in Nat
         /\ l.nodes[p].type \in {"regular", "symlink", "directory", "odd", Null}
         /\ \A n \in 0..Len(p) : SubSeq(p, 1, n) \in DOMAIN l.nodes
    /\ l.sound => /\ DOMAIN l.nodes = {e.path : e \in Range(Store[h].entries)}
                  /\ \A e \in Range(Store[h].entries) : l.nodes[e.path] = e

\* What a listing calls a file is one, whatever else is wrong with it.
ASSUME ListedFilesAreFiles ==
  \A h \in DOMAIN Listings : \A l \in Listings[h] : \A p \in DOMAIN l.nodes :
    l.nodes[p].type = "regular" =>
      \E e \in Range(Store[h].entries) : e.path = p /\ e.type = "regular"

ASSUME FaultsAreKnown == Faults \subseteq {"cut", "fail"}
ASSUME RequestsAreBounded == MaxRequests \in Nat

VARIABLES
  pc,                          \* where the handler is
  req,                         \* the request: hash, newPath, method, If-None-Match
  file,                        \* the NAR fetched from the cache
  stream, delivered, outcome,  \* the nar.Reader on it
  resp,                        \* the answer so far
  given,                       \* the ETags the client was given
  upstream,                    \* history: what the cache did for this request
  asked                        \* the requests so far

reader == <<stream, delivered, outcome>>
vars   == <<pc, req, file, reader, resp, given, upstream, asked>>

NoReq  == [hash |-> CHOOSE h \in Hash : TRUE, path |-> Root, method |-> "GET", tags |-> {}]
NoResp == [status |-> 0, page |-> << >>, tag |-> {}, size |-> 0, sent |-> 0,
           location |-> Root, torn |-> FALSE]
NoStream == [entries |-> << >>, intact |-> FALSE]

Init ==
  /\ pc = "idle" /\ req = NoReq
  /\ file = "unopened" /\ stream = NoStream /\ delivered = << >> /\ outcome = "unopened"
  /\ resp = NoResp /\ given = {} /\ upstream = {} /\ asked = 0

----------------------------------------------------------------------------
(***************************************************************************)
(* Paths and symlinks                                                      *)
(***************************************************************************)
Below(p, dir) == StartsWith(p, dir) /\ Len(p) > Len(dir)

TrimRight(p) == LET kept == {n \in 0..Len(p) : n = 0 \/ p[n] # ""}
                IN  SubSeq(p, 1, CHOOSE n \in kept : \A m \in kept : m <= n)
TrimLeft(p)  == Reverse(TrimRight(Reverse(p)))

\* archivePath: the mount path comes off, and one more component behind it.
ArchivePath(url) ==
  LET p == TrimRight(url)
  IN  TrimLeft(IF Below(p, Mount) THEN SubSeq(p, Len(Mount) + 2, Len(p)) ELSE p)

\* What filepath.Join and path.Clean make of it.
Clean(p) == FoldLeft(Join, Root, p)

StorePath(h) == Append(Mount, Store[h].name)

AbsSymlink(h, p, target) ==
  IF target.absolute THEN target.comps
  ELSE Clean(StorePath(h) \o Parent(p) \o target.comps)

(***************************************************************************)
(* redirectSymlink: http.Redirect cleans the target.  One outside of the   *)
(* store is only named, in a text the client gets with status 200.         *)
(***************************************************************************)
Redirect(h, p, target) ==
  LET to == AbsSymlink(h, p, target)
  IN  IF Below(to, Mount)
        THEN [NoResp EXCEPT !.status = 301, !.location = Clean(to)]
        ELSE [NoResp EXCEPT !.status = 200, !.location = to]

\* Mutant: the tag is the path alone.
TagOfPath(r) == [hash |-> NoReq.hash, path |-> r.path]

Tag(r) == [hash |-> r.hash, path |-> r.path]

\* setFileHeaders.
FileHeaders(r, size) == [NoResp EXCEPT !.status = 200, !.tag = {Tag(r)}, !.size = size]

Page(entries) == [NoResp EXCEPT !.status = 200, !.page = entries]

Error(status) == [NoResp EXCEPT !.status = status]

----------------------------------------------------------------------------
(***************************************************************************)
(* Listings: "nodes" is what the JSON holds, and "sound" says, for the     *)
(* properties only, that it describes the archive it lies beside.          *)
(***************************************************************************)
(***************************************************************************)
(* writeListedEntries: names in byte order, and a directory's children     *)
(* right behind it.                                                        *)
(***************************************************************************)
Children(nodes, dir) ==
  SetToSortSeq({p \in DOMAIN nodes : Len(p) = Len(dir) + 1 /\ StartsWith(p, dir)},
               LAMBDA p, q : <<Last(p), Last(q)>> \in NameOrder)

ListedEntries(nodes, dir) ==
  LET walk[d \in DOMAIN nodes] ==
        LET children == Children(nodes, d)
        IN  FlattenSeq([i \in DOMAIN children |->
              LET c == nodes[children[i]]
              IN  <<c>> \o IF c.type = "directory" THEN walk[c.path] ELSE << >>])
  IN  walk[dir]

(***************************************************************************)
(* The page stops at a node whose type is none it knows, with an error     *)
(* behind what has been written already.                                   *)
(***************************************************************************)
ListedPage(nodes, dir) ==
  LET entries == ListedEntries(nodes, dir)
      odd     == {i \in DOMAIN entries : entries[i].type = "odd"}
  IN  IF odd = {} THEN Page(entries)
      ELSE [Page(SubSeq(entries, 1, Min(odd) - 1)) EXCEPT !.torn = TRUE]

----------------------------------------------------------------------------
(***************************************************************************)
(* A request comes in by the store's own path, where the hash is a part of *)
(* the URL, or by a subdomain, which holds the hash.  Only the latter is   *)
(* looked at before anything else.  The client may send any of the tags it *)
(* was given.                                                              *)
(***************************************************************************)
Answer(r) == resp' = r /\ pc' = "return"

Ask(h, url, method) ==
  /\ asked' = asked + 1
  /\ \E tags \in SUBSET given :
       req' = [hash |-> h, path |-> ArchivePath(url), method |-> method, tags |-> tags]
  /\ file' = "unopened" /\ stream' = NoStream /\ delivered' = << >> /\ outcome' = "unopened"
  /\ UNCHANGED given

Serve == pc' = "start" /\ resp' = NoResp /\ upstream' = {}

\* middleware.CleanPath: what the router goes by.  The handler has the URL as it is.
RoutePath(url) == Clean(url)

AskStore(url, method) ==
  LET route == RoutePath(url)
  IN  /\ Below(route, Mount)
      /\ \E narDir \in Name : /\ narDir = route[Len(Mount) + 1]
                             /\ Ask(HashOf[narDir], url, method) /\ Serve

AskSubdomain(h, url, method) ==
  /\ Ask(h, url, method)
  /\ \/ h \in WellFormed /\ Serve
     \/ h \notin WellFormed /\ Answer(Error(500)) /\ upstream' = {"unasked"}

MatchTag ==
  /\ pc = "start"
  /\ IF Tag(req) \in req.tags
       THEN Answer([Error(304) EXCEPT !.tag = {Tag(req)}])
       ELSE pc' = "narinfo" /\ UNCHANGED resp
  /\ UNCHANGED <<req, file, reader, given, upstream, asked>>

GetNarInfo ==
  /\ pc = "narinfo"
  /\ \/ req.hash \in DOMAIN Store /\ pc' = "listing" /\ UNCHANGED <<resp, upstream>>
     \/ Answer(Error(500)) /\ upstream' = upstream \cup {"failed"}
  /\ UNCHANGED <<req, file, reader, given, asked>>

(***************************************************************************)
(* No listing, or one that ParseLS refuses: the archive has to be walked.  *)
(***************************************************************************)
NoListing ==
  /\ pc = "listing"
  /\ pc' = "fetch"
  /\ UNCHANGED <<req, file, reader, resp, given, upstream, asked>>

NeedsArchive(node) ==
  node.type = "odd" \/ (node.type = "regular" /\ req.method # "HEAD")

AnswerFromListing(nodes, node) ==
  CASE node.type = "directory" -> Answer(ListedPage(nodes, node.path))
    [] node.type = "symlink"   -> Answer(Redirect(req.hash, req.path, node.target))
    [] node.type = "regular"   -> Answer(FileHeaders(req, node.size))

UseListing(l) ==
  /\ pc = "listing" /\ "ok" \in ParseLS(l.nodes)
  /\ upstream' = upstream \cup {IF l.sound THEN "listed" ELSE "misled"}
  /\ LET found == Lookup(l.nodes, req.path)
     IN  \/ found = {} /\ Answer(Error(404))
         \/ \E node \in found :
              IF NeedsArchive(node) THEN pc' = "fetch" /\ UNCHANGED resp
                                    ELSE AnswerFromListing(l.nodes, node)
  /\ UNCHANGED <<req, file, reader, given, asked>>

(***************************************************************************)
(* An entry that is null in the JSON is a nil pointer, and validateNode    *)
(* follows it.  The Recoverer of main.go answers.                          *)
(***************************************************************************)
PanicOnListing(l) ==
  /\ pc = "listing" /\ "panic" \in ParseLS(l.nodes)
  /\ Answer(Error(500))
  /\ upstream' = upstream \cup {"panicked"}
  /\ UNCHANGED <<req, file, reader, given, asked>>

----------------------------------------------------------------------------
(***************************************************************************)
(* The archive.  A walk of it may break off with an error, or find the end *)
(* of a truncated archive, which the reader takes for the end of it.       *)
(***************************************************************************)
Walks(h) ==
  LET all == Store[h].entries
  IN  {[entries |-> all, intact |-> TRUE]}
        \cup (IF "fail" \in Faults THEN {[entries |-> all, intact |-> FALSE]} ELSE {})
        \cup (IF "cut" \in Faults
                THEN {[entries |-> SubSeq(all, 1, n), intact |-> TRUE] : n \in 0..(Len(all) - 1)}
                ELSE {})

Undisturbed(w) == w.intact /\ w.entries = Store[req.hash].entries

(***************************************************************************)
(* GetFile, compression.NewReader and nar.NewReader, each of which may     *)
(* fail; only with the first failing there is nothing to close.            *)
(***************************************************************************)
FetchFails ==
  /\ pc = "fetch"
  /\ file' \in {"unopened", "open"}
  /\ Answer(Error(500))
  /\ upstream' = upstream \cup {"failed"}
  /\ UNCHANGED <<req, reader, given, asked>>

Fetch ==
  /\ pc = "fetch"
  /\ file' = "open"
  /\ \E w \in Walks(req.hash) :
       /\ stream' = w
       /\ upstream' = upstream \cup (IF Undisturbed(w) THEN {} ELSE IF w.intact THEN {"cut"} ELSE {"failed"})
  /\ delivered' = << >> /\ outcome' = "none"
  /\ pc' = "scan"
  /\ UNCHANGED <<req, resp, given, asked>>

Reader == INSTANCE ArchiveIterator WITH Archives <- {}, archive <- stream

header == delivered'[Len(delivered')]

\* Mutant: the wanted path is looked for up to the end of the archive.
NeverPast(p) == FALSE

\* Mutant: the arguments the wrong way around.
PastReversed(p) == ~Ordered(req.path, p)

Past(p) == ~Ordered(p, req.path)

Scan ==
  /\ pc = "scan"
  /\ Reader!Deliver
  /\ IF header.path = req.path
       THEN CASE header.type = "directory" -> pc' = "page" /\ resp' = Page(<< >>)
              [] header.type = "symlink"   -> Answer(Redirect(req.hash, header.path, header.target))
              [] header.type = "regular"   ->
                   /\ resp' = FileHeaders(req, header.size)
                   /\ pc' = IF req.method = "HEAD" THEN "return" ELSE "copy"
       ELSE IF Past(header.path) THEN Answer(Error(404)) ELSE UNCHANGED <<pc, resp>>
  /\ UNCHANGED <<req, file, given, upstream, asked>>

ScanEnds ==
  /\ pc = "scan"
  /\ \/ Reader!Exhaust /\ Answer(Error(404))
     \/ Reader!Refuse /\ Answer(Error(500))
  /\ UNCHANGED <<req, file, given, upstream, asked>>

(***************************************************************************)
(* The page of a directory, an entry for every header below it.            *)
(***************************************************************************)
PageEntry ==
  /\ pc = "page"
  /\ Reader!Deliver
  /\ IF Below(header.path, req.path)
       THEN resp' = [resp EXCEPT !.page = Append(@, header)] /\ UNCHANGED pc
       ELSE pc' = "return" /\ UNCHANGED resp
  /\ UNCHANGED <<req, file, given, upstream, asked>>

\* Mutant: any error ends the page as io.EOF does.
PageEndsQuietly ==
  /\ pc = "page"
  /\ Reader!Exhaust \/ Reader!Refuse
  /\ pc' = "return"
  /\ UNCHANGED <<req, file, resp, given, upstream, asked>>

\* An error is appended to the page.  Its status has been sent.
PageEnds ==
  /\ pc = "page"
  /\ \/ Reader!Exhaust /\ UNCHANGED resp
     \/ Reader!Refuse /\ resp' = [resp EXCEPT !.torn = TRUE]
  /\ pc' = "return"
  /\ UNCHANGED <<req, file, given, upstream, asked>>

\* Mutant: io.Copy, which does not know the size of the file.
CopyToTheEnd ==
  /\ pc = "copy"
  /\ resp' = [resp EXCEPT !.sent = resp.size + 1]
  /\ pc' = "return"
  /\ UNCHANGED <<req, file, reader, given, upstream, asked>>

(***************************************************************************)
(* io.CopyN, whose error is not looked at.  The archive may end, or fail,  *)
(* in the middle of the file.                                              *)
(***************************************************************************)
Copy ==
  /\ pc = "copy"
  /\ \E n \in 0..resp.size :
       /\ n = resp.size \/ ~Undisturbed(stream)
       /\ resp' = [resp EXCEPT !.sent = n]
  /\ pc' = "return"
  /\ UNCHANGED <<req, file, reader, given, upstream, asked>>

(***************************************************************************)
(* The handler returns: what it deferred closes the reader and the file.   *)
(* The client has the answer, and the tag in it.                           *)
(***************************************************************************)
ReturnFromHandler ==
  /\ pc = "return"
  /\ file' = IF file = "open" THEN "closed" ELSE file
  /\ IF outcome \in {"none", "err"} THEN Reader!Close ELSE UNCHANGED reader
  /\ given' = given \cup resp.tag
  /\ pc' = "idle"
  /\ UNCHANGED <<req, resp, upstream, asked>>

----------------------------------------------------------------------------
Handler ==
  \/ MatchTag \/ GetNarInfo \/ NoListing \/ FetchFails \/ Fetch
  \/ \E h \in DOMAIN Store : h = req.hash /\ \E l \in Listings[h] : UseListing(l) \/ PanicOnListing(l)
  \/ Scan \/ ScanEnds \/ PageEntry \/ PageEnds \/ Copy \/ ReturnFromHandler

Client ==
  /\ pc = "idle" /\ asked < MaxRequests
  /\ \E url \in Urls, method \in {"GET", "HEAD"} :
       AskStore(url, method) \/ \E h \in Hash : AskSubdomain(h, url, method)

NoMoreRequests == pc = "idle" /\ asked = MaxRequests /\ UNCHANGED vars

Next == Handler \/ Client \/ NoMoreRequests

Spec == Init /\ [][Next]_vars

----------------------------------------------------------------------------
(***************************************************************************)
(* Properties                                                              *)
(***************************************************************************)
\* The variables keep to their types.
TypeOK ==
  /\ pc \in {"idle", "start", "narinfo", "listing", "fetch", "scan", "page", "copy", "return"}
  /\ req.hash \in Hash /\ req.path \in Path /\ req.tags \subseteq given
  /\ file \in {"unopened", "open", "closed"}
  /\ outcome \in {"unopened", "none", "eof", "err", "closed"}
  /\ resp.status \in {0, 200, 301, 304, 404, 500}
  /\ resp.sent \in 0..resp.size
  /\ asked \in 0..MaxRequests

(***************************************************************************)
(* What the archive as a whole holds at a path, and below one.             *)
(***************************************************************************)
NodesAt(h, p) == {e \in Range(Store[h].entries) : e.path = p}

Contained(h, dir) == {e \in Range(Store[h].entries) : Below(e.path, dir)}

\* A page names each of these once, in the order of the archive.
Lists(page, nodes) ==
  /\ Range(page) = nodes
  /\ \A i, j \in DOMAIN page : i < j => Ordered(page[i].path, page[j].path) /\ page[i].path # page[j].path

\* Whether r is the answer that q ought to get.
Expected(q, r) ==
  LET nodes == NodesAt(q.hash, q.path)
  IN  \/ nodes = {} /\ r = Error(404)
      \/ \E node \in nodes :
           CASE node.type = "directory" ->
                  Lists(r.page, Contained(q.hash, q.path)) /\ r = Page(r.page)
             [] node.type = "symlink"   -> r = Redirect(q.hash, q.path, node.target)
             [] node.type = "regular"   ->
                  r = IF q.method = "HEAD" THEN FileHeaders(q, node.size)
                      ELSE [FileHeaders(q, node.size) EXCEPT !.sent = node.size]

Answering == pc = "return" /\ resp.status # 304

(***************************************************************************)
(* strings.Split leaves empty names, which a listing passes over and a     *)
(* walk does not: behind two slashes between names a listing finds a node, *)
(* and a walk finds none.                                                  *)
(***************************************************************************)
Plain(p) == \A i \in DOMAIN p : p[i] # ""

ListedPlainly == "listed" \in upstream => Plain(req.path)

(***************************************************************************)
(* With nothing wrong upstream, every answer is the one the archive calls  *)
(* for, whether a listing gives it or the walk, and although the walk      *)
(* stops short of the end: it is not ended before the path could still     *)
(* come, and the page of a directory holds all that is below it and        *)
(* nothing else (index.go:176-179, 216-219).  Excepted is what a listing   *)
(* says of a path with two slashes between names.                          *)
(***************************************************************************)
AnswersTree ==
  Answering /\ upstream \subseteq {"listed"} /\ ListedPlainly => Expected(req, resp)

(***************************************************************************)
(* "A page made from the listing has to match one made by walking the      *)
(* archive, or a cache gaining listings would change what its users see"   *)
(* (listing_test.go:109-110).  It does not behind two slashes.             *)
(***************************************************************************)
PagesMatch ==
  Answering /\ upstream = {"listed"} /\ resp.page # << >> => Expected(req, resp)

(***************************************************************************)
(* A failure upstream shows: the client is answered 500, or can see that   *)
(* the answer breaks off, or has the whole and right answer all the same.  *)
(* It is never told that a path is not there when it is                    *)
(* (index.go:161-167, 184-188, 208).  The exception is the same.           *)
(***************************************************************************)
BreaksOff == resp.torn \/ (req.method # "HEAD" /\ resp.sent < resp.size)

FailureShows ==
  Answering /\ upstream \cap {"cut", "misled"} = {} /\ ListedPlainly =>
    resp.status = 500 \/ BreaksOff \/ Expected(req, resp)

(***************************************************************************)
(* "only file bytes are ever given an etag" (index.go:88-89): whatever     *)
(* answers the client collects, of whichever paths, a 304 is about a file  *)
(* that the archive of this very hash holds, at that path or at the one    *)
(* that a listing makes of it.                                             *)
(***************************************************************************)
NotModifiedIsFile ==
  resp.status = 304 =>
    \E e \in NodesAt(req.hash, req.path) \cup NodesAt(req.hash, Names(req.path)) : e.type = "regular"

(***************************************************************************)
(* The archive is read no further than one header past what is wanted:     *)
(* "there is nothing to gain from decompressing the remainder"             *)
(* (index.go:216-219).                                                     *)
(***************************************************************************)
StopsInTime ==
  \A i \in 1..(Len(delivered) - 1) :
    Ordered(delivered[i].path, req.path) \/ Below(delivered[i].path, req.path)
=============================================================================
