-------------------------- MODULE ServeNar_proofs --------------------------
(***************************************************************************)
(* Proofs about ServeNar, for every cache of sound archives, every         *)
(* sequence of requests, and an upstream that may fail at every step.      *)
(***************************************************************************)
EXTENDS ServeNar, NarPath_proofs

Before  == {"start", "narinfo", "listing", "fetch"}
Walking == {"scan", "page", "copy"}

\* The archive that is asked for, and whether this request has come to it.
All   == Store[req.hash].entries
Begun == pc # "idle" /\ outcome # "unopened"

\* What the stages of a request leave for the next ones.
Stages ==
  /\ pc \in Before => outcome = "unopened" /\ delivered = << >> /\ resp = NoResp
  /\ pc \in {"start", "narinfo", "listing"} => upstream = {}
  /\ pc \in {"listing", "fetch"} \cup Walking => req.hash \in DOMAIN Store
  /\ pc \in Walking => outcome = "none"

\* The headers that the walk has seen are the first ones of the archive.
Progress ==
  /\ req.hash \in DOMAIN Store
  /\ delivered \in Seq(Range(All)) /\ stream.entries \in Seq(Range(All))
  /\ Len(delivered) <= Len(stream.entries) /\ Len(stream.entries) <= Len(All)
  /\ \A i \in 1..Len(stream.entries) : stream.entries[i] = All[i]
  /\ \A i \in 1..Len(delivered) : delivered[i] = All[i]
  /\ stream.entries = All \/ "cut" \in upstream
  /\ stream.intact \/ "failed" \in upstream

\* The path was the k-th, that of a directory, and all that came since is below it.
OnPage(k) ==
  /\ delivered[k].path = req.path /\ delivered[k].type = "directory"
  /\ \A i \in 1..(k - 1) : Ordered(delivered[i].path, req.path)
  /\ \A i \in (k + 1)..Len(delivered) : Below(delivered[i].path, req.path)
  /\ resp = Page(resp.page) /\ resp.page \in Seq(Range(All))
  /\ Len(resp.page) = Len(delivered) - k
  /\ \A i \in 1..Len(resp.page) : resp.page[i] = delivered[k + i]

Position ==
  /\ pc = "scan" =>
       /\ resp = NoResp
       /\ \A i \in 1..Len(delivered) : /\ Ordered(delivered[i].path, req.path)
                                       /\ delivered[i].path # req.path
  /\ pc = "page" => \E k \in 1..Len(delivered) : OnPage(k)
  /\ pc = "copy" => \E k \in 1..Len(delivered) :
       /\ delivered[k].path = req.path /\ delivered[k].type = "regular"
       /\ resp = FileHeaders(req, delivered[k].size) /\ req.method # "HEAD"

\* The answer of a walk that no archive was cut short for.
Answered ==
  Answering /\ Begun /\ stream.entries = All =>
    Expected(req, resp) \/ (~stream.intact /\ (resp.status = 500 \/ BreaksOff))

NoDirectory == \A e \in NodesAt(req.hash, req.path) : e.type # "directory"

\* The answers that are given without a walk.
Unwalked ==
  Answering /\ ~Begun =>
    \/ resp.status = 500 /\ upstream \cap {"unasked", "failed", "panicked"} # {}
    \/ upstream = {"misled"}
    \/ upstream = {"listed"} /\ (Plain(req.path) /\ NoDirectory => Expected(req, resp))

\* A tag stands for a file.
IsFile(t) ==
  \E e \in NodesAt(t.hash, t.path) \cup NodesAt(t.hash, Names(t.path)) : e.type = "regular"

Tags ==
  /\ \A t \in given \cup resp.tag : IsFile(t)
  /\ resp.status = 304 => IsFile(req)

Inv == TypeOK /\ Stages /\ (Begun => Progress) /\ Position /\ Answered /\ StopsInTime

----------------------------------------------------------------------------
(***************************************************************************)
(* Archives                                                                *)
(***************************************************************************)
\* What an archive is made of.
LEMMA EntryFacts ==
  ASSUME NEW h \in DOMAIN Store
  PROVE  /\ Store[h].entries \in Seq(Range(Store[h].entries))
         /\ Len(Store[h].entries) \in Nat /\ DOMAIN Store[h].entries = 1..Len(Store[h].entries)
         /\ Range(Store[h].entries) = {Store[h].entries[i] : i \in 1..Len(Store[h].entries)}
         /\ \A i \in 1..Len(Store[h].entries) :
              /\ Store[h].entries[i].path \in Path /\ Store[h].entries[i].size \in Nat
              /\ Store[h].entries[i].type \in {"regular", "symlink", "directory"}
<1>1. /\ Store[h].entries \in Seq(Range(Store[h].entries))
      /\ \A i \in DOMAIN Store[h].entries :
           /\ Store[h].entries[i].path \in Path /\ Store[h].entries[i].size \in Nat
           /\ Store[h].entries[i].type \in {"regular", "symlink", "directory"}
  BY ArchivesAreTrees
<1>2. Len(Store[h].entries) \in Nat /\ DOMAIN Store[h].entries = 1..Len(Store[h].entries)
  BY <1>1, LenProperties
<1> QED
  BY <1>1, <1>2 DEF Range

\* Its order is that of the indices.
LEMMA EntryOrder ==
  ASSUME NEW h \in DOMAIN Store,
         NEW i \in 1..Len(Store[h].entries), NEW j \in 1..Len(Store[h].entries)
  PROVE  /\ i < j => /\ Ordered(Store[h].entries[i].path, Store[h].entries[j].path)
                     /\ Store[h].entries[i].path # Store[h].entries[j].path
         /\ Store[h].entries[i].path = Store[h].entries[j].path => i = j
<1>1. \A a, b \in 1..Len(Store[h].entries) :
        a < b => /\ Ordered(Store[h].entries[a].path, Store[h].entries[b].path)
                 /\ Store[h].entries[a].path # Store[h].entries[b].path
  <2>1. \A a, b \in DOMAIN Store[h].entries :
          a < b => /\ Ordered(Store[h].entries[a].path, Store[h].entries[b].path)
                   /\ Store[h].entries[a].path # Store[h].entries[b].path
    BY ArchivesAreTrees
  <2>2. DOMAIN Store[h].entries = 1..Len(Store[h].entries)
    BY EntryFacts
  <2> QED
    BY ONLY <2>1, <2>2
<1>2. i \in Nat /\ j \in Nat
  BY EntryFacts
<1>3. i < j \/ j < i \/ i = j
  BY <1>2
<1> QED
  BY <1>1, <1>3

\* A path is that of one node at most.
LEMMA NodesAtPath ==
  ASSUME NEW h \in DOMAIN Store, NEW p
  PROVE  /\ \A i \in 1..Len(Store[h].entries) :
              Store[h].entries[i].path = p => NodesAt(h, p) = {Store[h].entries[i]}
         /\ (\A i \in 1..Len(Store[h].entries) : Store[h].entries[i].path # p) => NodesAt(h, p) = {}
BY EntryFacts, EntryOrder DEF NodesAt

(***************************************************************************)
(* What lies between two paths below a directory is below it.              *)
(***************************************************************************)
LEMMA BelowConvex ==
  ASSUME NEW d \in Path, NEW m \in Path, NEW e \in Path,
         Ordered(d, m), Ordered(m, e), StartsWith(e, d)
  PROVE  StartsWith(m, d)
<1> DEFINE Differ(s, t, i) == /\ i \in (1..Len(s)) \cap (1..Len(t))
                              /\ AgreeUpTo(s, t, i - 1) /\ <<s[i], t[i]>> \in NameOrder
<1>0. /\ Len(d) \in Nat /\ Len(m) \in Nat /\ Len(e) \in Nat
      /\ \A i \in 1..Len(d) : d[i] \in Name
      /\ \A i \in 1..Len(m) : m[i] \in Name
      /\ \A i \in 1..Len(e) : e[i] \in Name
      /\ Len(d) <= Len(e) /\ \A i \in 1..Len(d) : d[i] = e[i]
  BY PathFacts DEF StartsWith, AgreeUpTo
<1>1. ASSUME NEW i, Differ(d, m, i) PROVE FALSE
  <2>1. /\ i \in 1..Len(d) /\ i \in 1..Len(m) /\ <<d[i], m[i]>> \in NameOrder
        /\ \A j \in 1..(i - 1) : d[j] = m[j]
    BY <1>1 DEF AgreeUpTo
  <2>2. CASE StartsWith(e, m)
    BY <1>0, <2>1, <2>2, NameOrderIsStrict DEF StartsWith, AgreeUpTo
  <2>3. ASSUME NEW j, Differ(m, e, j) PROVE FALSE
    <3>1. /\ j \in 1..Len(m) /\ j \in 1..Len(e) /\ <<m[j], e[j]>> \in NameOrder
          /\ \A l \in 1..(j - 1) : m[l] = e[l]
      BY <2>3 DEF AgreeUpTo
    <3>2. CASE j < i
      <4>1. m[j] = e[j] /\ m[j] \in Name
        BY <1>0, <2>1, <3>1, <3>2
      <4> QED
        BY <3>1, <4>1, NameOrderIsStrict
    <3>3. CASE j = i
      <4>1. <<m[i], d[i]>> \in NameOrder /\ m[i] \in Name /\ d[i] \in Name
        BY <1>0, <2>1, <3>1, <3>3
      <4> QED
        BY <2>1, <4>1, NameOrderIsStrict
    <3>4. CASE j > i
      <4>1. m[i] = d[i] /\ d[i] \in Name
        BY <1>0, <2>1, <3>1, <3>4
      <4> QED
        BY <2>1, <4>1, NameOrderIsStrict
    <3> QED
      BY <1>0, <2>1, <3>1, <3>2, <3>3, <3>4
  <2> QED
    BY <2>2, <2>3 DEF Ordered
<1> QED
  BY <1>1 DEF Ordered

(***************************************************************************)
(* The entries behind a directory's own, up to the first that is not below *)
(* it, are all that is below it.                                           *)
(***************************************************************************)
LEMMA PageWhole ==
  ASSUME NEW h \in DOMAIN Store, NEW k \in 1..Len(Store[h].entries),
         NEW m \in k..Len(Store[h].entries), NEW dir, dir = Store[h].entries[k].path,
         NEW S, NEW page \in Seq(S), Len(page) = m - k,
         \A i \in 1..Len(page) : page[i] = Store[h].entries[k + i],
         \A i \in (k + 1)..m : Below(Store[h].entries[i].path, dir),
         m < Len(Store[h].entries) => ~Below(Store[h].entries[m + 1].path, dir)
  PROVE  Lists(page, Contained(h, dir))
<1> DEFINE es == Store[h].entries
           n  == Len(es)
<1>1. /\ n \in Nat /\ k \in Nat /\ m \in Nat /\ k <= m /\ m <= n /\ 1 <= k
      /\ DOMAIN page = 1..(m - k) /\ \A i \in 1..n : es[i].path \in Path
      /\ Range(es) = {es[i] : i \in 1..n} /\ \A i \in 1..(m - k) : page[i] = es[k + i]
  <2>1. n \in Nat /\ Range(es) = {es[i] : i \in 1..n} /\ \A i \in 1..n : es[i].path \in Path
    BY EntryFacts
  <2>2. k \in Nat /\ m \in Nat /\ k <= m /\ m <= n /\ 1 <= k
    BY <2>1
  <2>3. DOMAIN page = 1..(m - k)
    BY LenProperties
  <2> QED
    BY <2>1, <2>2, <2>3
<1>2. \A i, j \in 1..n : i < j => Ordered(es[i].path, es[j].path) /\ es[i].path # es[j].path
  BY EntryOrder
<1>3. /\ dir \in Path /\ dir = es[k].path
      /\ \A i \in (k + 1)..m : Below(es[i].path, dir)
      /\ m < n => ~Below(es[m + 1].path, dir)
  BY <1>1
<1> HIDE DEF es, n
<1>4. ASSUME NEW j \in 1..n, Below(es[j].path, dir) PROVE j \in (k + 1)..m
  <2>1. StartsWith(es[j].path, dir) /\ es[j].path # dir /\ es[j].path \in Path
    BY <1>1, <1>3, <1>4, PathFacts DEF Below
  <2>2. Ordered(dir, es[j].path)
    BY <2>1 DEF Ordered
  <2>3. CASE j < k
    <3>1. Ordered(es[j].path, dir)
      BY <1>1, <1>2, <1>3, <2>3
    <3> QED
      BY <1>3, <2>1, <2>2, <3>1, OrderedAntisymmetric
  <2>4. CASE j > m
    <3>1. m + 1 \in 1..n /\ k < m + 1
      BY <1>1, <2>4
    <3>2. es[m + 1].path \in Path /\ Ordered(dir, es[m + 1].path) /\ es[m + 1].path # dir
      BY <1>1, <1>2, <1>3, <3>1
    <3>3. StartsWith(es[m + 1].path, dir)
      <4>1. CASE j = m + 1
        BY <2>1, <4>1
      <4>2. CASE j > m + 1
        <5>1. Ordered(es[m + 1].path, es[j].path)
          BY <1>2, <3>1, <4>2
        <5> QED
          BY <1>3, <2>1, <3>2, <5>1, BelowConvex
      <4>3. j = m + 1 \/ j > m + 1
        BY <1>1, <2>4
      <4> QED
        BY ONLY <4>1, <4>2, <4>3
    <3>4. Below(es[m + 1].path, dir)
      <4>1. Len(dir) \in Nat /\ Len(es[m + 1].path) \in Nat /\ Len(dir) <= Len(es[m + 1].path)
        BY <1>3, <3>2, <3>3, PathFacts DEF StartsWith
      <4>2. Len(dir) # Len(es[m + 1].path)
        BY <1>3, <3>2, <3>3, PathFacts DEF StartsWith, AgreeUpTo
      <4> QED
        BY ONLY <3>3, <4>1, <4>2 DEF Below
    <3>5. m < n
      BY <1>1, <3>1
    <3> QED
      BY <1>3, <3>4, <3>5
  <2>5. CASE j = k
    BY <1>3, <2>1, <2>5
  <2> QED
    BY <1>1, <2>3, <2>4, <2>5
<1>5. Range(page) \subseteq Contained(h, dir)
  <2> SUFFICES ASSUME NEW i \in 1..(m - k) PROVE page[i] \in Contained(h, dir)
    BY <1>1 DEF Range
  <2>1. k + i \in (k + 1)..m /\ k + i \in 1..n /\ page[i] = es[k + i]
    BY <1>1
  <2> QED
    BY <1>1, <1>3, <2>1 DEF Contained, es
<1>6. Contained(h, dir) \subseteq Range(page)
  <2> SUFFICES ASSUME NEW j \in 1..n, Below(es[j].path, dir) PROVE es[j] \in Range(page)
    BY <1>1 DEF Contained, es
  <2>1. j \in (k + 1)..m
    BY <1>4
  <2>2. j - k \in 1..(m - k) /\ k + (j - k) = j
    BY <1>1, <2>1
  <2>3. page[j - k] = es[j]
    BY <1>1, <2>2
  <2> QED
    BY <1>1, <2>2, <2>3 DEF Range
<1>7. ASSUME NEW i \in DOMAIN page, NEW j \in DOMAIN page, i < j
      PROVE  Ordered(page[i].path, page[j].path) /\ page[i].path # page[j].path
  <2>1. i \in 1..(m - k) /\ j \in 1..(m - k)
    BY <1>1
  <2>2. k + i \in 1..n /\ k + j \in 1..n /\ k + i < k + j
    <3>1. k \in Nat /\ m \in Nat /\ n \in Nat /\ m <= n
      BY <1>1
    <3> QED
      BY ONLY <2>1, <3>1, i < j
  <2>3. page[i] = es[k + i] /\ page[j] = es[k + j]
    BY <1>1, <2>1
  <2>4. Ordered(es[k + i].path, es[k + j].path) /\ es[k + i].path # es[k + j].path
    BY <1>2, <2>2
  <2> QED
    BY ONLY <2>3, <2>4
<1> QED
  BY <1>5, <1>6, <1>7 DEF Lists

----------------------------------------------------------------------------
(***************************************************************************)
(* Requests and answers                                                    *)
(***************************************************************************)
\* A set of numbers with a bound has a greatest one.
LEMMA GreatestExists ==
  ASSUME NEW len \in Nat, NEW K, K \subseteq 0..len, K # {}
  PROVE  \E n \in K : \A m \in K : m <= n
<1> DEFINE Gaps == {g \in Nat : len - g \in K}
<1>1. Gaps # {}
  <2>1. PICK n \in K : n \in 0..len
    OBVIOUS
  <2>2. len - n \in Nat /\ len - (len - n) = n
    BY <2>1
  <2>3. len - n \in Gaps
    BY <2>1, <2>2
  <2> QED
    BY <2>3
<1>2. PICK g \in Gaps : \A x \in Gaps : ~(<<x, g>> \in OpToRel(<, Nat))
  BY <1>1, WFMin, NatLessThanWellFounded
<1>3. \A x \in Gaps : ~(x < g)
  BY <1>2 DEF OpToRel
<1>4. g \in Nat /\ len - g \in K
  BY <1>2
<1>5. ASSUME NEW m \in K PROVE m <= len - g
  <2>1. m \in 0..len
    OBVIOUS
  <2>2. len - m \in Nat /\ len - (len - m) = m
    BY <2>1
  <2>3. len - m \in Gaps
    BY <2>2
  <2>4. ~(len - m < g)
    BY <1>3, <2>3
  <2> QED
    BY ONLY <1>4, <2>1, <2>4
<1> QED
  BY <1>4, <1>5

\* Taking slashes off the end of a path leaves a path (index.go:60).
LEMMA TrimRightType == ASSUME NEW p \in Path PROVE TrimRight(p) \in Path
<1> DEFINE kept == {n \in 0..Len(p) : n = 0 \/ p[n] # ""}
           last == CHOOSE n \in kept : \A m \in kept : m <= n
<1>1. Len(p) \in Nat /\ \A i \in 1..Len(p) : p[i] \in Name
  BY PathFacts
<1>2. 0 \in kept
  <2>1. 0 \in 0..Len(p)
    BY <1>1
  <2> QED
    BY <2>1, Zenon
<1>3. kept \subseteq 0..Len(p)
  BY Zenon
<1>4. TrimRight(p) = SubSeq(p, 1, last)
  BY DEF TrimRight
<1> HIDE DEF kept
<1>5. last \in 0..Len(p)
  BY <1>1, <1>2, <1>3, GreatestExists
<1> HIDE DEF last
<1>6. \A i \in 1..last : p[i] \in Name
  BY <1>1, <1>5
<1>7. SubSeq(p, 1, last) \in Seq(Name)
  BY <1>5, <1>6, SubSeqProperties
<1> QED
  BY <1>4, <1>7 DEF Path

\* archivePath returns a path, whatever the URL is (index.go:56-77).
LEMMA ArchivePathType == ASSUME NEW url \in Path PROVE ArchivePath(url) \in Path
<1>1. ASSUME NEW p \in Path PROVE Reverse(p) \in Path
  BY PathFacts DEF Reverse, Path
<1>2. ASSUME NEW p \in Path PROVE TrimLeft(p) \in Path
  BY <1>1, TrimRightType DEF TrimLeft
<1>3. TrimRight(url) \in Path
  BY TrimRightType
<1>4. ASSUME NEW p \in Path, Below(p, Mount)
      PROVE  SubSeq(p, Len(Mount) + 2, Len(p)) \in Path
  <2>1. /\ Len(Mount) \in Nat /\ Len(p) \in Nat /\ Len(Mount) < Len(p)
        /\ \A i \in 1..Len(p) : p[i] \in Name
    BY <1>4, PathsAreTyped, PathFacts DEF Below
  <2>2. \A i \in (Len(Mount) + 2)..Len(p) : p[i] \in Name
    BY <2>1
  <2>3. SubSeq(p, Len(Mount) + 2, Len(p)) \in Seq(Name)
    BY <2>1, <2>2, SubSeqProperties
  <2> QED
    BY <2>3 DEF Path
<1> QED
  BY <1>2, <1>3, <1>4 DEF ArchivePath

\* The answers there are.
LEMMA ErrorFacts ==
  ASSUME NEW s
  PROVE  Error(s).status = s /\ Error(s).tag = {} /\ Error(s).size = 0 /\ Error(s).sent = 0
BY DEF Error, NoResp

\* A page to which entries are added is the page of them all (servenar.go:117).
LEMMA PageWith ==
  ASSUME NEW old, NEW new
  PROVE  [Page(old) EXCEPT !.page = new] = Page(new)
<1>1. ASSUME NEW r
      PROVE  [[r EXCEPT !.status = 200, !.page = old] EXCEPT !.page = new]
               = [r EXCEPT !.status = 200, !.page = new]
  BY ZenonT(60)
<1> QED
  BY ONLY <1>1, ZenonT(60) DEF Page

\* What a page, torn or not, is but for its entries.
LEMMA PageFacts ==
  ASSUME NEW entries
  PROVE  /\ Page(entries).status = 200 /\ Page(entries).tag = {} /\ Page(entries).page = entries
         /\ Page(entries).size = 0 /\ Page(entries).sent = 0
         /\ [Page(entries) EXCEPT !.torn = TRUE].status = 200 /\ [Page(entries) EXCEPT !.torn = TRUE].tag = {}
         /\ [Page(entries) EXCEPT !.torn = TRUE].size = 0 /\ [Page(entries) EXCEPT !.torn = TRUE].sent = 0
         /\ [Page(entries) EXCEPT !.torn = TRUE].torn = TRUE
BY DEF Page, NoResp

LEMMA FileFacts ==
  ASSUME NEW r, NEW size, NEW n
  PROVE  /\ FileHeaders(r, size).status = 200 /\ FileHeaders(r, size).tag = {Tag(r)}
         /\ FileHeaders(r, size).size = size /\ FileHeaders(r, size).sent = 0
         /\ [FileHeaders(r, size) EXCEPT !.sent = n].status = 200
         /\ [FileHeaders(r, size) EXCEPT !.sent = n].tag = {Tag(r)}
         /\ [FileHeaders(r, size) EXCEPT !.sent = n].size = size
         /\ [FileHeaders(r, size) EXCEPT !.sent = n].sent = n
BY DEF FileHeaders, NoResp

LEMMA RedirectFacts ==
  ASSUME NEW h, NEW p, NEW target
  PROVE  /\ Redirect(h, p, target).status \in {200, 301} /\ Redirect(h, p, target).tag = {}
         /\ Redirect(h, p, target).size = 0 /\ Redirect(h, p, target).sent = 0
BY DEF Redirect, NoResp

\* When a path is not in the archive, 404 is the answer.
LEMMA ExpectNothing ==
  ASSUME NEW q, q.hash \in DOMAIN Store,
         \A i \in 1..Len(Store[q.hash].entries) : Store[q.hash].entries[i].path # q.path
  PROVE  Expected(q, Error(404))
BY NodesAtPath DEF Expected

\* When it is, the answer is that for its node.
LEMMA ExpectNode ==
  ASSUME NEW q, q.hash \in DOMAIN Store,
         NEW i \in 1..Len(Store[q.hash].entries), NEW node, node = Store[q.hash].entries[i],
         node.path = q.path, NEW r,
         \/ /\ node.type = "directory"
            /\ Lists(r.page, Contained(q.hash, q.path)) /\ r = Page(r.page)
         \/ node.type = "symlink" /\ r = Redirect(q.hash, q.path, node.target)
         \/ /\ node.type = "regular"
            /\ r = IF q.method = "HEAD" THEN FileHeaders(q, node.size)
                   ELSE [FileHeaders(q, node.size) EXCEPT !.sent = node.size]
  PROVE  Expected(q, r)
<1>1. node \in NodesAt(q.hash, q.path)
  BY NodesAtPath
<1> QED
  BY <1>1 DEF Expected

----------------------------------------------------------------------------
(***************************************************************************)
(* Listings                                                                *)
(***************************************************************************)
\* The first components of the first components of a path.
LEMMA PrefixOfPrefix ==
  ASSUME NEW S, NEW q \in Seq(S), NEW n \in 0..Len(q), NEW m \in 0..n
  PROVE  SubSeq(SubSeq(q, 1, n), 1, m) = SubSeq(q, 1, m)
<1>1. Len(q) \in Nat /\ n \in Nat /\ m \in Nat /\ m <= n /\ n <= Len(q)
      /\ \A i \in 1..Len(q) : q[i] \in S
  BY LenProperties, ElementOfSeq
<1>2. /\ SubSeq(q, 1, n) \in Seq(S) /\ Len(SubSeq(q, 1, n)) = n
      /\ \A i \in 1..n : SubSeq(q, 1, n)[i] = q[i]
  BY <1>1, SubSeqProperties
<1>3. /\ SubSeq(q, 1, m) \in Seq(S) /\ Len(SubSeq(q, 1, m)) = m
      /\ \A i \in 1..m : SubSeq(q, 1, m)[i] = q[i]
  BY <1>1, SubSeqProperties
<1> DEFINE r == SubSeq(q, 1, n)
<1>4. r \in Seq(S) /\ Len(r) = n /\ \A i \in 1..n : r[i] = q[i]
  BY <1>2
<1> HIDE DEF r
<1>5. \A i \in 1..m : r[i] \in S
  BY <1>1, <1>4
<1>6. /\ SubSeq(r, 1, m) \in Seq(S) /\ Len(SubSeq(r, 1, m)) = m
      /\ \A i \in 1..m : SubSeq(r, 1, m)[i] = r[i]
  BY <1>1, <1>4, <1>5, SubSeqProperties
<1>7. \A i \in 1..m : SubSeq(r, 1, m)[i] = SubSeq(q, 1, m)[i]
  BY <1>1, <1>3, <1>4, <1>6
<1>8. SubSeq(r, 1, m) = SubSeq(q, 1, m)
  BY <1>3, <1>6, <1>7, SeqEqual
<1> QED
  BY <1>8 DEF r

(***************************************************************************)
(* A listing that ParseLS takes has no null node that Lookup could find:   *)
(* above it would be the first fault, and that one ParseLS meets.          *)
(***************************************************************************)
LEMMA ParsedNodes ==
  ASSUME NEW h \in DOMAIN Store, NEW l \in Listings[h], "ok" \in ParseLS(l.nodes),
         NEW q \in DOMAIN l.nodes
  PROVE  l.nodes[q].type \in {"regular", "symlink", "directory", "odd"} /\ l.nodes[q].size \in Nat
<1> DEFINE bad == {n \in 0..Len(q) : Faulty(l.nodes, SubSeq(q, 1, n))}
<1>1. /\ q \in Seq(STRING) /\ l.nodes[q].size \in Nat
      /\ l.nodes[q].type \in {"regular", "symlink", "directory", "odd", Null}
      /\ \A n \in 0..Len(q) : SubSeq(q, 1, n) \in DOMAIN l.nodes
  BY ListingsAreTrees, StoreIsKnown
<1>2. Errors(l.nodes) = {} /\ Panics(l.nodes) = {}
  BY DEF ParseLS
<1>3. Len(q) \in Nat
  BY <1>1, LenProperties
<1>4. ASSUME bad # {} PROVE FALSE
  <2>1. bad \subseteq Nat
    BY <1>3
  <2>2. PICK n \in bad : \A m \in bad : ~(<<m, n>> \in OpToRel(<, Nat))
    BY <1>4, <2>1, WFMin, NatLessThanWellFounded
  <2>3. n \in 0..Len(q) /\ n \in Nat /\ Faulty(l.nodes, SubSeq(q, 1, n))
    BY <2>1, <2>2
  <2>4. \A m \in bad : ~(m < n)
    BY <2>1, <2>2 DEF OpToRel
  <2>5. ASSUME NEW m \in 0..(n - 1)
        PROVE  ~Faulty(l.nodes, SubSeq(SubSeq(q, 1, n), 1, m))
    <3>1. m \in 0..n /\ m \in 0..Len(q) /\ m < n
      BY <1>3, <2>3
    <3>2. ~Faulty(l.nodes, SubSeq(q, 1, m))
      BY <2>4, <3>1
    <3> QED
      BY <1>1, <2>3, <3>1, <3>2, PrefixOfPrefix
  <2>6. Len(SubSeq(q, 1, n)) = n
    BY <1>1, <1>3, <2>3
  <2>7. SubSeq(q, 1, n) \in Met(l.nodes)
    BY <1>1, <2>3, <2>5, <2>6 DEF Met
  <2> QED
    BY <1>2, <2>3, <2>7 DEF Errors
<1>5. ASSUME bad = {} PROVE l.nodes[q].type # Null
  <2>1. SubSeq(q, 1, Len(q)) = q
    BY <1>1, <1>3
  <2>2. Len(q) \in 0..Len(q) /\ \A n \in 0..(Len(q) - 1) : n \in 0..Len(q)
    BY <1>3
  <2>3. q \in Met(l.nodes) /\ ~Faulty(l.nodes, q)
    BY <1>5, <2>1, <2>2 DEF Met
  <2> QED
    BY <1>2, <2>3 DEF Panics
<1> QED
  BY <1>1, <1>4, <1>5

----------------------------------------------------------------------------
(***************************************************************************)
(* The invariant.  First the steps that come before an archive is opened.  *)
(***************************************************************************)
LEMMA InitInv == Init => Inv
<1> SUFFICES ASSUME Init PROVE Inv
  OBVIOUS
<1>1. NoReq.hash \in Hash
  BY StoreIsKnown DEF NoReq
<1>2. Root \in Path
  BY DEF Root, Path
<1>3. TypeOK
  BY <1>1, <1>2, RequestsAreBounded DEF Init, TypeOK, NoReq, NoResp
<1>4. Stages /\ ~Begun /\ Position /\ Answered
  BY DEF Init, Stages, Begun, Position, Answered, Answering, Before, Walking
<1>5. StopsInTime
  BY DEF Init, StopsInTime
<1> QED
  BY <1>3, <1>4, <1>5 DEF Inv

LEMMA AskInv ==
  ASSUME Inv, NEW h \in Hash, NEW url \in Path, NEW method, Ask(h, url, method),
         asked < MaxRequests, Serve \/ Answer(Error(500))
  PROVE  Inv'
<1>1. PICK tags \in SUBSET given :
        req' = [hash |-> h, path |-> ArchivePath(url), method |-> method, tags |-> tags]
  BY DEF Ask
<1>2. req'.hash \in Hash /\ req'.path \in Path /\ req'.tags \subseteq given
  BY <1>1, ArchivePathType
<1>3. /\ \/ pc' = "start" /\ resp' = NoResp /\ upstream' = {}
         \/ pc' = "return" /\ resp' = Error(500)
      /\ file' = "unopened"
      /\ delivered' = << >> /\ outcome' = "unopened" /\ given' = given
      /\ asked < MaxRequests /\ asked' = asked + 1
  BY DEF Ask, Serve, Answer
<1>4. asked' \in 0..MaxRequests
  BY <1>3, RequestsAreBounded DEF Inv, TypeOK
<1>5. /\ NoResp.status = 0 /\ NoResp.sent = 0 /\ NoResp.size = 0
      /\ Error(500).status = 500 /\ Error(500).sent = 0 /\ Error(500).size = 0
  BY DEF NoResp, Error
<1>6. TypeOK'
  BY <1>2, <1>3, <1>4, <1>5 DEF TypeOK
<1>7. Stages' /\ ~Begun' /\ Position' /\ Answered'
  BY <1>3 DEF Stages, Begun, Position, Answered, Answering, Before, Walking
<1>8. StopsInTime'
  BY <1>3 DEF StopsInTime
<1> QED
  BY <1>6, <1>7, <1>8 DEF Inv

\* A step of the handler to its next stage, or to an answer without a walk.
LEMMA EarlyStep ==
  ASSUME Inv, pc \in Before, pc' \in Before \cup {"return"},
         UNCHANGED <<req, reader, given, asked>>, file' \in {"unopened", "open", "closed"},
         pc' # "return" => resp' = resp,
         pc' = "return" => /\ resp'.status \in {0, 200, 301, 304, 404, 500}
                           /\ resp'.size \in Nat /\ resp'.sent = 0,
         pc' \in {"start", "narinfo", "listing"} => upstream' = {},
         pc' \in {"listing", "fetch"} => req.hash \in DOMAIN Store
  PROVE  Inv'
<1>1. /\ outcome = "unopened" /\ outcome' = "unopened" /\ delivered = << >> /\ delivered' = << >>
      /\ resp = NoResp /\ req' = req /\ given' = given /\ asked' = asked
  BY DEF Inv, Stages, reader
<1>2. resp'.status \in {0, 200, 301, 304, 404, 500} /\ resp'.sent \in 0..resp'.size
  BY <1>1 DEF Inv, TypeOK, Before
<1>3. TypeOK'
  BY <1>1, <1>2 DEF Inv, TypeOK, Before
<1>4. Stages' /\ ~Begun' /\ Position' /\ Answered'
  BY <1>1 DEF Stages, Begun, Position, Answered, Before, Walking
<1>5. StopsInTime'
  BY <1>1 DEF StopsInTime
<1> QED
  BY <1>3, <1>4, <1>5 DEF Inv

LEMMA MatchTagInv == Inv /\ MatchTag => Inv'
<1> SUFFICES ASSUME Inv, MatchTag PROVE Inv'
  OBVIOUS
<1>1. /\ pc = "start" /\ UNCHANGED <<req, reader, given, asked>> /\ upstream' = upstream
      /\ file' = file /\ file \in {"unopened", "open", "closed"} /\ upstream = {}
  BY DEF MatchTag, Inv, TypeOK, Stages
<1>2. \/ pc' = "return" /\ resp' = [Error(304) EXCEPT !.tag = {Tag(req)}]
      \/ pc' = "narinfo" /\ resp' = resp
  BY DEF MatchTag, Answer
<1>3. ASSUME resp' = [Error(304) EXCEPT !.tag = {Tag(req)}]
      PROVE  resp'.status = 304 /\ resp'.size \in Nat /\ resp'.sent = 0
  BY <1>3 DEF Error, NoResp
<1> QED
  BY <1>1, <1>2, <1>3, EarlyStep DEF Before

LEMMA GetNarInfoInv == Inv /\ GetNarInfo => Inv'
<1> SUFFICES ASSUME Inv, GetNarInfo PROVE Inv'
  OBVIOUS
<1>1. /\ pc = "narinfo" /\ UNCHANGED <<req, reader, given, asked>>
      /\ file' = file /\ file \in {"unopened", "open", "closed"} /\ upstream = {}
  BY DEF GetNarInfo, Inv, TypeOK, Stages
<1>2. \/ pc' = "return" /\ resp' = Error(500)
      \/ pc' = "listing" /\ resp' = resp /\ upstream' = upstream /\ req.hash \in DOMAIN Store
  BY DEF GetNarInfo, Answer
<1> QED
  BY <1>1, <1>2, ErrorFacts, EarlyStep DEF Before

LEMMA NoListingInv == Inv /\ NoListing => Inv'
<1> SUFFICES ASSUME Inv, NoListing PROVE Inv'
  OBVIOUS
<1>1. /\ pc = "listing" /\ pc' = "fetch" /\ resp' = resp /\ UNCHANGED <<req, reader, given, asked>>
      /\ file' = file /\ file \in {"unopened", "open", "closed"} /\ req.hash \in DOMAIN Store
  BY DEF NoListing, Inv, TypeOK, Stages
<1> QED
  BY <1>1, EarlyStep DEF Before

LEMMA FetchFailsInv == Inv /\ FetchFails => Inv'
<1> SUFFICES ASSUME Inv, FetchFails PROVE Inv'
  OBVIOUS
<1>1. /\ pc = "fetch" /\ pc' = "return" /\ resp' = Error(500) /\ UNCHANGED <<req, reader, given, asked>>
      /\ file' \in {"unopened", "open"}
  BY DEF FetchFails, Answer
<1> QED
  BY <1>1, ErrorFacts, EarlyStep DEF Before

\* What a listing answers, or leaves to the archive.
LEMMA UseListingCases ==
  ASSUME Inv, req.hash \in DOMAIN Store, NEW l \in Listings[req.hash], UseListing(l)
  PROVE  \/ Lookup(l.nodes, req.path) = {} /\ pc' = "return" /\ resp' = Error(404)
         \/ /\ Names(req.path) \in DOMAIN l.nodes
            /\ LET node == l.nodes[Names(req.path)] IN
                 /\ node.size \in Nat
                 /\ \/ pc' = "fetch" /\ resp' = resp
                    \/ node.type = "directory" /\ pc' = "return" /\ resp' = ListedPage(l.nodes, node.path)
                    \/ /\ node.type = "symlink" /\ pc' = "return"
                       /\ resp' = Redirect(req.hash, req.path, node.target)
                    \/ /\ node.type = "regular" /\ pc' = "return" /\ req.method = "HEAD"
                       /\ resp' = FileHeaders(req, node.size)
<1>1. "ok" \in ParseLS(l.nodes)
  BY DEF UseListing
<1>2. CASE Lookup(l.nodes, req.path) = {} /\ Answer(Error(404))
  BY <1>2 DEF Answer
<1>3. ASSUME NEW node \in Lookup(l.nodes, req.path),
             IF NeedsArchive(node) THEN pc' = "fetch" /\ UNCHANGED resp
                                   ELSE AnswerFromListing(l.nodes, node)
      PROVE  /\ Names(req.path) \in DOMAIN l.nodes
             /\ LET found == l.nodes[Names(req.path)] IN
                  /\ found.size \in Nat
                  /\ \/ pc' = "fetch" /\ resp' = resp
                     \/ found.type = "directory" /\ pc' = "return" /\ resp' = ListedPage(l.nodes, found.path)
                     \/ /\ found.type = "symlink" /\ pc' = "return"
                        /\ resp' = Redirect(req.hash, req.path, found.target)
                     \/ /\ found.type = "regular" /\ pc' = "return" /\ req.method = "HEAD"
                        /\ resp' = FileHeaders(req, found.size)
  <2>1. Names(req.path) \in DOMAIN l.nodes /\ node = l.nodes[Names(req.path)]
    BY DEF Lookup
  <2>2. node.type \in {"regular", "symlink", "directory", "odd"} /\ node.size \in Nat
    BY <1>1, <2>1, ParsedNodes
  <2>3. CASE NeedsArchive(node)
    BY <1>3, <2>1, <2>2, <2>3
  <2>4. CASE ~NeedsArchive(node)
    <3>1. AnswerFromListing(l.nodes, node)
      BY <1>3, <2>4
    <3>2. node.type # "odd" /\ (node.type = "regular" => req.method = "HEAD")
      BY <2>4 DEF NeedsArchive
    <3>3. CASE node.type = "directory"
      BY <2>1, <2>2, <3>1, <3>3 DEF AnswerFromListing, Answer
    <3>4. CASE node.type = "symlink"
      BY <2>1, <2>2, <3>1, <3>4 DEF AnswerFromListing, Answer
    <3>5. CASE node.type = "regular"
      BY <2>1, <2>2, <3>1, <3>2, <3>5 DEF AnswerFromListing, Answer
    <3> QED
      BY <2>2, <3>2, <3>3, <3>4, <3>5
  <2> QED
    BY <2>3, <2>4
<1> QED
  BY <1>2, <1>3 DEF UseListing

\* The page that a listing gives bears no tag.
LEMMA ListedPageFacts ==
  ASSUME NEW nodes, NEW dir
  PROVE  /\ ListedPage(nodes, dir).status = 200 /\ ListedPage(nodes, dir).tag = {}
         /\ ListedPage(nodes, dir).size = 0 /\ ListedPage(nodes, dir).sent = 0
BY PageFacts DEF ListedPage

LEMMA UseListingInv ==
  ASSUME Inv, req.hash \in DOMAIN Store, NEW l \in Listings[req.hash], UseListing(l)
  PROVE  Inv'
<1>1. /\ pc = "listing" /\ UNCHANGED <<req, reader, given, asked>>
      /\ file' = file /\ file \in {"unopened", "open", "closed"}
  BY DEF UseListing, Inv, TypeOK
<1>2. \/ pc' = "fetch" /\ resp' = resp
      \/ /\ pc' = "return" /\ resp'.status \in {0, 200, 301, 304, 404, 500}
         /\ resp'.size \in Nat /\ resp'.sent = 0
  BY UseListingCases, ErrorFacts, ListedPageFacts, RedirectFacts, FileFacts
<1> QED
  BY <1>1, <1>2, EarlyStep DEF Before

LEMMA PanicOnListingInv == ASSUME Inv, NEW l, PanicOnListing(l) PROVE Inv'
<1>1. /\ pc = "listing" /\ pc' = "return" /\ resp' = Error(500) /\ UNCHANGED <<req, reader, given, asked>>
      /\ file' = file /\ file \in {"unopened", "open", "closed"}
  BY DEF PanicOnListing, Answer, Inv, TypeOK
<1> QED
  BY <1>1, ErrorFacts, EarlyStep DEF Before

----------------------------------------------------------------------------
(***************************************************************************)
(* The walk of an archive.                                                 *)
(***************************************************************************)
\* A walk is one of the archive, or of a part of it, and is recorded as such.
LEMMA WalkFacts ==
  ASSUME req.hash \in DOMAIN Store, NEW w \in Walks(req.hash)
  PROVE  /\ w.entries \in Seq(Range(All)) /\ Len(w.entries) \in Nat
         /\ Len(w.entries) <= Len(All)
         /\ \A i \in 1..Len(w.entries) : w.entries[i] = All[i]
         /\ w.entries # All => w.intact
<1>1. All \in Seq(Range(All)) /\ Len(All) \in Nat /\ \A i \in 1..Len(All) : All[i] \in Range(All)
  BY EntryFacts, ElementOfSeq DEF All
<1>2. CASE w.entries = All
  BY <1>1, <1>2
<1>3. ASSUME NEW n \in 0..(Len(All) - 1), w = [entries |-> SubSeq(All, 1, n), intact |-> TRUE]
      PROVE  /\ w.entries \in Seq(Range(All)) /\ Len(w.entries) \in Nat
             /\ Len(w.entries) <= Len(All)
             /\ \A i \in 1..Len(w.entries) : w.entries[i] = All[i]
             /\ w.intact
  <2>1. n \in Nat /\ n <= Len(All) /\ \A i \in 1..n : All[i] \in Range(All)
    BY <1>1
  <2>2. /\ SubSeq(All, 1, n) \in Seq(Range(All)) /\ Len(SubSeq(All, 1, n)) = n
        /\ \A i \in 1..n : SubSeq(All, 1, n)[i] = All[i]
    BY <2>1, SubSeqProperties
  <2>3. w.entries = SubSeq(All, 1, n) /\ w.intact
    BY <1>3
  <2> QED
    BY <2>1, <2>2, <2>3
<1>4. \/ w.entries = All
      \/ \E n \in 0..(Len(All) - 1) : w = [entries |-> SubSeq(All, 1, n), intact |-> TRUE]
  BY DEF Walks, All
<1> QED
  BY <1>2, <1>3, <1>4

LEMMA FetchInv == Inv /\ Fetch => Inv'
<1> SUFFICES ASSUME Inv, Fetch PROVE Inv'
  OBVIOUS
<1>1. /\ pc = "fetch" /\ pc' = "scan" /\ req' = req /\ resp' = resp /\ given' = given /\ asked' = asked
      /\ file' = "open" /\ delivered' = << >> /\ outcome' = "none"
      /\ resp = NoResp /\ req.hash \in DOMAIN Store
  BY DEF Fetch, Inv, Stages, Before
<1>2. PICK w \in Walks(req.hash) :
        /\ stream' = w
        /\ upstream' = upstream \cup (IF Undisturbed(w) THEN {} ELSE IF w.intact THEN {"cut"} ELSE {"failed"})
  BY DEF Fetch
<1>3. All' = All
  BY <1>1 DEF All
<1>4. /\ stream'.entries \in Seq(Range(All)) /\ Len(stream'.entries) \in Nat
      /\ Len(stream'.entries) <= Len(All)
      /\ \A i \in 1..Len(stream'.entries) : stream'.entries[i] = All[i]
      /\ stream'.entries # All => stream'.intact
  BY <1>1, <1>2, WalkFacts
<1>5. /\ stream'.entries = All \/ "cut" \in upstream'
      /\ stream'.intact \/ "failed" \in upstream'
  BY <1>2, <1>4 DEF Undisturbed, All
<1>6. /\ delivered' \in Seq(Range(All)) /\ Len(delivered') = 0
  BY <1>1
<1>7. Progress'
  BY <1>1, <1>3, <1>4, <1>5, <1>6 DEF Progress
<1>8. TypeOK'
  BY <1>1 DEF Inv, TypeOK
<1>9. Stages' /\ Position' /\ Answered' /\ StopsInTime'
  BY <1>1, <1>6 DEF Stages, Position, Answered, Answering, StopsInTime, Before, Walking
<1> QED
  BY <1>7, <1>8, <1>9 DEF Inv

(***************************************************************************)
(* The reader delivers the next header of the archive.                     *)
(***************************************************************************)
LEMMA DeliverFacts ==
  ASSUME Inv, pc \in Walking, Reader!Deliver, UNCHANGED <<req, upstream>>
  PROVE  /\ Progress' /\ All' = All /\ stream' = stream /\ outcome' = outcome
         /\ Len(delivered) \in Nat /\ Len(delivered) + 1 \in 1..Len(All)
         /\ Len(delivered') = Len(delivered) + 1
         /\ \A i \in 1..Len(delivered) : delivered'[i] = delivered[i] /\ delivered[i] = All[i]
         /\ delivered'[Len(delivered) + 1] = header /\ header = All[Len(delivered) + 1]
         /\ header \in Range(All) /\ header.path \in Path /\ header.size \in Nat
         /\ header.type \in {"regular", "symlink", "directory"}
         /\ req.hash \in DOMAIN Store /\ req.path \in Path
<1> DEFINE n == Len(delivered)
           e == stream.entries[n + 1]
<1>1. Progress /\ All' = All /\ stream' = stream /\ outcome' = outcome /\ req.path \in Path
  BY DEF Inv, TypeOK, Stages, Begun, Walking, Reader!Deliver, All
<1>2. n < Len(stream.entries) /\ delivered' = Append(delivered, e)
  BY DEF Reader!Deliver
<1>3. /\ req.hash \in DOMAIN Store /\ delivered \in Seq(Range(All)) /\ stream.entries \in Seq(Range(All))
      /\ n \in Nat /\ Len(stream.entries) \in Nat /\ Len(stream.entries) <= Len(All) /\ Len(All) \in Nat
      /\ \A i \in 1..Len(stream.entries) : stream.entries[i] = All[i]
      /\ \A i \in 1..n : delivered[i] = All[i]
  BY <1>1, EntryFacts, LenProperties DEF Progress, All
<1>4. n + 1 \in 1..Len(stream.entries) /\ n + 1 \in 1..Len(All)
  BY <1>2, <1>3
<1>5. e = All[n + 1] /\ e \in Range(All)
  BY <1>3, <1>4, ElementOfSeq
<1>6. /\ delivered' \in Seq(Range(All)) /\ Len(delivered') = n + 1 /\ delivered'[n + 1] = e
      /\ \A i \in 1..n : delivered'[i] = delivered[i]
  BY <1>2, <1>3, <1>5, AppendProperties
<1>7. header = e
  BY <1>6 DEF header
<1>8. \A i \in 1..(n + 1) : delivered'[i] = All[i]
  BY <1>3, <1>5, <1>6
<1>9. e.path \in Path /\ e.size \in Nat /\ e.type \in {"regular", "symlink", "directory"}
  BY <1>3, <1>4, <1>5, EntryFacts DEF All
<1> HIDE DEF e, n
<1>10. Progress'
  <2>1. n + 1 <= Len(stream.entries)
    BY <1>3, <1>4
  <2> QED
    BY <1>1, <1>3, <1>6, <1>8, <2>1 DEF Progress
<1> QED
  BY <1>1, <1>3, <1>4, <1>5, <1>6, <1>7, <1>9, <1>10 DEF n

\* The walk has come past where the path would be: it is not in the archive.
LEMMA PastFacts ==
  ASSUME NEW h \in DOMAIN Store, NEW p \in Path, NEW m \in 1..Len(Store[h].entries),
         \A i \in 1..m : Store[h].entries[i].path # p,
         ~Ordered(Store[h].entries[m].path, p)
  PROVE  \A i \in 1..Len(Store[h].entries) : Store[h].entries[i].path # p
<1> SUFFICES ASSUME NEW i \in 1..Len(Store[h].entries), Store[h].entries[i].path = p PROVE FALSE
  OBVIOUS
<1>1. m < i
  BY EntryFacts
<1> QED
  BY <1>1, EntryOrder

LEMMA ScanInv == Inv /\ Scan => Inv'
<1> SUFFICES ASSUME Inv, Scan PROVE Inv'
  OBVIOUS
<1> DEFINE n == Len(delivered)
<1>1. /\ pc = "scan" /\ Reader!Deliver /\ UNCHANGED <<req, file, given, upstream, asked>>
      /\ pc \in Walking /\ outcome = "none" /\ resp = NoResp /\ NoResp.sent = 0 /\ NoResp.size = 0
      /\ \A i \in 1..n : Ordered(delivered[i].path, req.path) /\ delivered[i].path # req.path
  BY DEF Scan, Inv, Stages, Position, Walking, NoResp
<1>2. /\ Progress' /\ All' = All /\ stream' = stream /\ outcome' = outcome /\ n \in Nat
      /\ n + 1 \in 1..Len(All) /\ Len(delivered') = n + 1
      /\ \A i \in 1..n : delivered'[i] = delivered[i] /\ delivered[i] = All[i]
      /\ delivered'[n + 1] = header /\ header = All[n + 1]
      /\ header.path \in Path /\ header.size \in Nat
      /\ header.type \in {"regular", "symlink", "directory"}
      /\ req.hash \in DOMAIN Store /\ req.path \in Path
  BY <1>1, DeliverFacts
<1> HIDE DEF n
<1>3. \A i \in 1..(n + 1) : i \in 1..n \/ i = n + 1
  BY <1>2
<1>4. StopsInTime'
  BY <1>1, <1>2 DEF StopsInTime
<1>5. ASSUME pc' \in Walking \cup {"return"}, resp'.status \in {0, 200, 301, 304, 404, 500},
             resp'.size \in Nat, resp'.sent = 0, Position',
             pc' = "return" => Expected(req, resp')
      PROVE  Inv'
  <2>1. TypeOK' /\ Stages'
    BY <1>1, <1>2, <1>5 DEF Inv, TypeOK, Stages, Before, Walking
  <2>2. Answered'
    BY <1>1, <1>5 DEF Answered, Answering
  <2> QED
    BY <1>2, <1>4, <1>5, <2>1, <2>2 DEF Inv
<1>6. CASE header.path = req.path /\ header.type = "directory"
  <2>1. pc' = "page" /\ resp' = Page(<< >>)
    BY <1>6 DEF Scan
  <2>2. /\ resp'.page = << >> /\ resp'.status = 200 /\ resp'.size = 0 /\ resp'.sent = 0
    BY <2>1, PageFacts
  <2>3. /\ << >> \in Seq(Range(All)) /\ Len(<< >>) = 0
    OBVIOUS
  <2>4. PICK k \in Nat : k = n + 1
    BY <1>2
  <2>5. OnPage(k)'
    <3>1. delivered'[k].path = req'.path /\ delivered'[k].type = "directory"
      BY <1>1, <1>2, <1>6, <2>4
    <3>2. \A i \in 1..(k - 1) : Ordered(delivered'[i].path, req'.path)
      BY <1>1, <1>2, <2>4
    <3>3. \A i \in (k + 1)..Len(delivered') : Below(delivered'[i].path, req'.path)
      BY <1>2, <2>4
    <3>4. resp' = Page(resp'.page)
      BY <2>1, <2>2
    <3>5. resp'.page \in Seq(Range(All')) /\ Len(resp'.page) = 0
      BY <2>2
    <3>6. Len(resp'.page) = Len(delivered') - k
      BY <1>2, <2>4, <3>5
    <3>7. \A i \in 1..Len(resp'.page) : resp'.page[i] = delivered'[k + i]
      BY <3>5
    <3> QED
      BY ONLY <3>1, <3>2, <3>3, <3>4, <3>5, <3>6, <3>7 DEF OnPage
  <2>6. k \in 1..Len(delivered')
    BY <1>2, <2>4
  <2>7. Position'
    BY <2>1, <2>5, <2>6 DEF Position
  <2> QED
    BY <1>5, <2>1, <2>2, <2>7 DEF Walking
<1>7. CASE header.path = req.path /\ header.type = "symlink"
  <2>1. pc' = "return" /\ resp' = Redirect(req.hash, req.path, header.target)
    BY <1>7 DEF Scan, Answer
  <2>2. Expected(req, resp')
    BY <1>2, <1>7, <2>1, ExpectNode DEF All
  <2>3. Position'
    BY <2>1 DEF Position
  <2> QED
    BY <1>5, <2>1, <2>2, <2>3, RedirectFacts
<1>8. CASE header.path = req.path /\ header.type = "regular"
  <2>1. resp' = FileHeaders(req, header.size) /\ pc' = IF req.method = "HEAD" THEN "return" ELSE "copy"
    BY <1>8 DEF Scan
  <2>2. req.method = "HEAD" => Expected(req, resp')
    BY <1>2, <1>8, <2>1, ExpectNode DEF All
  <2>3. Position'
    BY <1>1, <1>2, <1>8, <2>1 DEF Position
  <2>4. resp'.status = 200 /\ resp'.size \in Nat /\ resp'.sent = 0
    BY <1>2, <2>1, FileFacts
  <2> QED
    BY <1>5, <2>1, <2>2, <2>3, <2>4 DEF Walking
<1>9. CASE header.path # req.path /\ Past(header.path)
  <2>1. pc' = "return" /\ resp' = Error(404)
    BY <1>9 DEF Scan, Answer
  <2>2. \A i \in 1..Len(All) : All[i].path # req.path
    <3>1. \A i \in 1..(n + 1) : All[i].path # req.path
      BY <1>1, <1>2, <1>3, <1>9
    <3> QED
      <4>1. /\ req.hash \in DOMAIN Store /\ req.path \in Path /\ n + 1 \in 1..Len(All)
            /\ ~Ordered(All[n + 1].path, req.path)
        BY <1>2, <1>9 DEF Past
      <4> QED
        BY ONLY <3>1, <4>1, PastFacts DEF All
  <2>3. Expected(req, resp')
    BY <1>2, <2>1, <2>2, ExpectNothing DEF All
  <2>4. Position'
    BY <2>1 DEF Position
  <2> QED
    BY <1>5, <2>1, <2>3, <2>4, ErrorFacts
<1>10. CASE header.path # req.path /\ ~Past(header.path)
  <2>1. pc' = "scan" /\ resp' = resp
    BY <1>1, <1>10 DEF Scan
  <2>2. Ordered(header.path, req.path)
    BY <1>10 DEF Past
  <2>3. Position'
    BY <1>1, <1>2, <1>3, <1>10, <2>1, <2>2 DEF Position
  <2>4. resp'.status = 0
    BY <1>1, <2>1 DEF NoResp
  <2> QED
    BY <1>1, <1>5, <2>1, <2>3, <2>4 DEF Walking
<1> QED
  BY <1>2, <1>6, <1>7, <1>8, <1>9, <1>10

\* A step that ends the walk with no further header.
LEMMA LastStep ==
  ASSUME Inv, pc \in Walking, pc' = "return", UNCHANGED <<req, file, given, upstream, asked>>,
         delivered' = delivered, stream' = stream, outcome' \in {"none", "eof", "err"},
         resp'.status \in {200, 404, 500}, resp'.sent \in 0..resp'.size,
         stream.entries = All =>
           Expected(req, resp') \/ (~stream.intact /\ (resp'.status = 500 \/ BreaksOff'))
  PROVE  Inv'
<1>1. Progress /\ All' = All /\ StopsInTime
  BY DEF Inv, Stages, Begun, Walking, All
<1>2. TypeOK' /\ Stages'
  BY DEF Inv, TypeOK, Stages, Before, Walking
<1>3. Progress' /\ StopsInTime'
  BY <1>1 DEF Progress, StopsInTime
<1>4. Position'
  BY DEF Position
<1>5. Answered'
  BY <1>1 DEF Answered, Answering
<1> QED
  BY <1>2, <1>3, <1>4, <1>5 DEF Inv

LEMMA ScanEndsInv == Inv /\ ScanEnds => Inv'
<1> SUFFICES ASSUME Inv, ScanEnds PROVE Inv'
  OBVIOUS
<1>1. /\ pc = "scan" /\ pc' = "return" /\ UNCHANGED <<req, file, given, upstream, asked>>
      /\ delivered' = delivered /\ stream' = stream
      /\ \/ Reader!Exhaust /\ outcome' = "eof" /\ resp' = Error(404)
         \/ Reader!Refuse /\ outcome' = "err" /\ resp' = Error(500)
      /\ \A i \in 1..Len(delivered) : delivered[i].path # req.path
  BY DEF ScanEnds, Answer, Reader!Exhaust, Reader!Refuse, Inv, Position
<1>2. Progress /\ Begun
  BY <1>1 DEF Inv, Stages, Begun, Walking
<1>3. CASE Reader!Exhaust /\ resp' = Error(404)
  <2>1. Len(delivered) = Len(stream.entries)
    BY <1>3 DEF Reader!Exhaust
  <2>2. stream.entries = All => \A i \in 1..Len(All) : All[i].path # req.path
    BY <1>1, <1>2, <2>1 DEF Progress
  <2>3. stream.entries = All => Expected(req, resp')
    BY <1>2, <1>3, <2>2, ExpectNothing DEF Progress, All
  <2>4. resp'.status = 404 /\ resp'.sent = 0 /\ resp'.size = 0
    BY <1>3 DEF Error, NoResp
  <2> QED
    BY <1>1, <1>3, <2>3, <2>4, LastStep DEF Walking
<1>4. CASE Reader!Refuse /\ resp' = Error(500)
  <2>1. ~stream.intact
    BY <1>4 DEF Reader!Refuse
  <2>2. resp'.status = 500 /\ resp'.sent = 0 /\ resp'.size = 0
    BY <1>4 DEF Error, NoResp
  <2> QED
    BY <1>1, <1>4, <2>1, <2>2, LastStep DEF Walking
<1> QED
  BY <1>1, <1>3, <1>4

LEMMA CopyInv == Inv /\ Copy => Inv'
<1> SUFFICES ASSUME Inv, Copy PROVE Inv'
  OBVIOUS
<1>1. /\ pc = "copy" /\ pc' = "return" /\ UNCHANGED <<req, file, reader, given, upstream, asked>>
      /\ req' = req /\ pc \in Walking /\ outcome = "none" /\ req.hash \in DOMAIN Store
      /\ delivered' = delivered /\ stream' = stream /\ outcome' = outcome
  BY DEF Copy, Inv, Stages, Walking, reader
<1>2. PICK n \in 0..resp.size :
        (n = resp.size \/ ~Undisturbed(stream)) /\ resp' = [resp EXCEPT !.sent = n]
  BY DEF Copy
<1>3. PICK k \in 1..Len(delivered) :
        /\ delivered[k].path = req.path /\ delivered[k].type = "regular"
        /\ resp = FileHeaders(req, delivered[k].size) /\ req.method # "HEAD"
  BY <1>1 DEF Inv, Position
<1>4. /\ Progress /\ k \in 1..Len(All) /\ delivered[k] = All[k] /\ All[k].size \in Nat
  <2>1. Progress
    BY <1>1 DEF Inv, Begun
  <2>2. /\ Len(delivered) \in Nat /\ Len(stream.entries) \in Nat /\ Len(All) \in Nat
        /\ Len(delivered) <= Len(All) /\ \A i \in 1..Len(delivered) : delivered[i] = All[i]
    BY <1>1, <2>1, LenProperties, EntryFacts DEF Progress, All
  <2>3. k \in 1..Len(All) /\ delivered[k] = All[k]
    BY <1>3, <2>2
  <2> QED
    BY <1>1, <2>1, <2>3, EntryFacts DEF All
<1> DEFINE size == All[k].size
<1>5. resp = FileHeaders(req, size) /\ resp.size = size /\ size \in Nat
  BY <1>3, <1>4, FileFacts
<1>6. resp' = [FileHeaders(req, size) EXCEPT !.sent = n]
  BY <1>2, <1>5
<1>7. resp'.status = 200 /\ resp'.size = size /\ resp'.sent = n /\ n \in 0..size
  BY <1>2, <1>5, <1>6, FileFacts
<1>8. n = size => Expected(req, resp')
  BY <1>1, <1>3, <1>4, <1>6, ExpectNode DEF All
<1>9. n # size => BreaksOff' /\ ~Undisturbed(stream)
  <2>1. ASSUME n # size PROVE resp'.sent < resp'.size
    BY <1>5, <1>7, <2>1
  <2> QED
    BY <1>1, <1>2, <1>3, <1>5, <2>1 DEF BreaksOff
<1>10. stream.entries = All /\ ~Undisturbed(stream) => ~stream.intact
  BY DEF Undisturbed, All
<1> HIDE DEF size
<1> QED
  BY <1>1, <1>7, <1>8, <1>9, <1>10, LastStep

LEMMA PageEndsInv == Inv /\ PageEnds => Inv'
<1> SUFFICES ASSUME Inv, PageEnds PROVE Inv'
  OBVIOUS
<1>1. /\ pc = "page" /\ pc' = "return" /\ UNCHANGED <<req, file, given, upstream, asked>>
      /\ req' = req /\ pc \in Walking /\ req.hash \in DOMAIN Store
      /\ delivered' = delivered /\ stream' = stream
      /\ \/ Reader!Exhaust /\ outcome' = "eof" /\ resp' = resp
         \/ Reader!Refuse /\ outcome' = "err" /\ resp' = [resp EXCEPT !.torn = TRUE]
  BY DEF PageEnds, Reader!Exhaust, Reader!Refuse, Inv, Stages, Walking
<1>2. PICK k \in 1..Len(delivered) : OnPage(k)
  BY <1>1 DEF Inv, Position
<1>3. Progress
  BY <1>1 DEF Inv, Stages, Begun, Walking
<1>4. /\ resp = Page(resp.page) /\ resp.status = 200 /\ resp.size = 0 /\ resp.sent = 0
  BY <1>2, PageFacts DEF OnPage
<1>5. CASE Reader!Exhaust /\ resp' = resp /\ outcome' = "eof"
  <2>1. stream.entries = All => Expected(req, resp)
    <3> SUFFICES ASSUME stream.entries = All PROVE Expected(req, resp)
      OBVIOUS
    <3>1. delivered = All
      BY <1>5 DEF Reader!Exhaust
    <3>2. Len(All) \in Nat /\ k \in 1..Len(All) /\ Len(All) \in k..Len(All)
      BY <1>1, <1>2, <3>1, EntryFacts DEF All
    <3>3. Lists(resp.page, Contained(req.hash, req.path))
      <4>1. /\ resp.page \in Seq(Range(All)) /\ Len(resp.page) = Len(All) - k
            /\ req.path = All[k].path
            /\ \A i \in 1..Len(resp.page) : resp.page[i] = All[k + i]
            /\ \A i \in (k + 1)..Len(All) : Below(All[i].path, req.path)
        BY <1>2, <3>1 DEF OnPage
      <4>2. ~(Len(All) < Len(All))
        BY <3>2
      <4> QED
        BY <1>1, <3>2, <4>1, <4>2, PageWhole DEF All
    <3> QED
      BY <1>1, <1>2, <1>4, <3>1, <3>2, <3>3, ExpectNode DEF OnPage, All
  <2> QED
    BY <1>1, <1>4, <1>5, <2>1, LastStep
<1>6. CASE Reader!Refuse /\ resp' = [resp EXCEPT !.torn = TRUE] /\ outcome' = "err"
  <2>1. ~stream.intact
    BY <1>6 DEF Reader!Refuse
  <2>2. resp' = [Page(resp.page) EXCEPT !.torn = TRUE]
    BY <1>4, <1>6
  <2>3. resp'.status = 200 /\ resp'.size = 0 /\ resp'.sent = 0 /\ resp'.torn = TRUE
    BY <2>2, PageFacts
  <2>4. BreaksOff'
    BY <2>3 DEF BreaksOff
  <2> QED
    BY <1>1, <1>6, <2>1, <2>3, <2>4, LastStep
<1> QED
  BY <1>1, <1>5, <1>6

\* As many steps as a page has entries, and one more.
LEMMA PageEntryInv == Inv /\ PageEntry => Inv'
<1> SUFFICES ASSUME Inv, PageEntry PROVE Inv'
  OBVIOUS
<1> DEFINE n == Len(delivered)
<1>1. /\ pc = "page" /\ Reader!Deliver /\ UNCHANGED <<req, file, given, upstream, asked>>
      /\ pc \in Walking /\ outcome = "none" /\ req' = req
  BY DEF PageEntry, Inv, Stages, Walking
<1>2. /\ Progress' /\ All' = All /\ stream' = stream /\ outcome' = outcome /\ n \in Nat
      /\ n + 1 \in 1..Len(All) /\ Len(delivered') = n + 1
      /\ \A i \in 1..n : delivered'[i] = delivered[i] /\ delivered[i] = All[i]
      /\ delivered'[n + 1] = header /\ header = All[n + 1] /\ header \in Range(All)
      /\ req.hash \in DOMAIN Store /\ req.path \in Path
  BY <1>1, DeliverFacts
<1>3. PICK k \in 1..n : OnPage(k)
  BY <1>1 DEF Inv, Position
<1> HIDE DEF n
<1>4. /\ k \in Nat /\ 1 <= k /\ k <= n /\ delivered[k] = All[k]
      /\ All[k].path = req.path /\ All[k].type = "directory"
      /\ \A i \in 1..(k - 1) : Ordered(delivered[i].path, req.path)
      /\ \A i \in (k + 1)..n : Below(delivered[i].path, req.path)
  BY <1>2, <1>3 DEF OnPage, n
<1>5. /\ resp = Page(resp.page) /\ resp.page \in Seq(Range(All)) /\ Len(resp.page) = n - k
      /\ \A i \in 1..(n - k) : resp.page[i] = delivered[k + i]
  BY <1>3 DEF OnPage, n
<1>6. resp.status = 200 /\ resp.size = 0 /\ resp.sent = 0
  BY <1>5, PageFacts
<1>7. StopsInTime'
  <2>1. ASSUME NEW i \in 1..n
        PROVE  Ordered(delivered[i].path, req.path) \/ Below(delivered[i].path, req.path)
    <3>1. CASE i = k
      BY <1>2, <1>4, <3>1, OrderedReflexive
    <3>2. i # k => i \in 1..(k - 1) \/ i \in (k + 1)..n
      BY <1>2, <1>4
    <3> QED
      BY <1>4, <3>1, <3>2
  <2>2. 1..(Len(delivered') - 1) = 1..n
    BY <1>2
  <2> QED
    BY <1>1, <1>2, <2>1, <2>2 DEF StopsInTime
<1>8. ASSUME pc' \in {"page", "return"}, resp'.status = 200, resp'.size = 0, resp'.sent = 0,
             Position', pc' = "return" => Expected(req, resp')
      PROVE  Inv'
  <2>1. TypeOK' /\ Stages'
    BY <1>1, <1>2, <1>8 DEF Inv, TypeOK, Stages, Before, Walking
  <2>2. Answered'
    BY <1>1, <1>8 DEF Answered, Answering
  <2> QED
    BY <1>2, <1>7, <1>8, <2>1, <2>2 DEF Inv
<1>9. CASE Below(header.path, req.path)
  <2>1. pc' = "page" /\ resp' = [resp EXCEPT !.page = Append(@, header)]
    BY <1>1, <1>9 DEF PageEntry
  <2>2. resp' = Page(Append(resp.page, header))
    <3>1. PICK old : old = resp.page
      OBVIOUS
    <3>2. resp = Page(old)
      BY <1>5, <3>1
    <3>3. resp' = [Page(old) EXCEPT !.page = Append(old, header)]
      BY <2>1, <3>1, <3>2
    <3>4. resp' = Page(Append(old, header))
      BY ONLY <3>3, PageWith
    <3> QED
      BY <3>1, <3>4
  <2>3. /\ resp'.page = Append(resp.page, header)
        /\ resp'.status = 200 /\ resp'.size = 0 /\ resp'.sent = 0
    <3>1. PICK more : more = Append(resp.page, header)
      OBVIOUS
    <3>2. resp' = Page(more)
      BY ONLY <2>2, <3>1
    <3>3. resp'.page = more /\ resp'.status = 200 /\ resp'.size = 0 /\ resp'.sent = 0
      BY ONLY <3>2, PageFacts
    <3> QED
      BY ONLY <3>1, <3>3
  <2>4. /\ resp'.page \in Seq(Range(All)) /\ Len(resp'.page) = (n - k) + 1
        /\ \A i \in 1..(n - k) : resp'.page[i] = resp.page[i]
        /\ resp'.page[(n - k) + 1] = header
    BY <1>2, <1>5, <2>3, AppendProperties
  <2>5. OnPage(k)'
    <3>1. delivered'[k].path = req'.path /\ delivered'[k].type = "directory"
      BY <1>1, <1>2, <1>4
    <3>2. \A i \in 1..(k - 1) : Ordered(delivered'[i].path, req'.path)
      BY <1>1, <1>2, <1>4
    <3>3. \A i \in (k + 1)..Len(delivered') : Below(delivered'[i].path, req'.path)
      <4>1. \A i \in (k + 1)..(n + 1) : i \in (k + 1)..n \/ i = n + 1
        BY <1>2, <1>4
      <4>2. \A i \in (k + 1)..n : Below(delivered'[i].path, req.path)
        BY <1>2, <1>4
      <4> QED
        BY <1>1, <1>2, <1>9, <4>1, <4>2
    <3>4. resp' = Page(resp'.page)
      BY <2>2, <2>3
    <3>5. resp'.page \in Seq(Range(All')) /\ Len(resp'.page) = Len(delivered') - k
      BY <1>2, <1>4, <2>4
    <3>6. \A i \in 1..Len(resp'.page) : resp'.page[i] = delivered'[k + i]
      <4>1. \A i \in 1..(n - k) : k + i \in 1..n /\ resp'.page[i] = delivered'[k + i]
        BY <1>2, <1>4, <1>5, <2>4
      <4>2. \A i \in 1..((n - k) + 1) : i \in 1..(n - k) \/ (i = (n - k) + 1 /\ k + i = n + 1)
        BY <1>2, <1>4
      <4> QED
        BY <1>2, <2>4, <4>1, <4>2
    <3> QED
      BY ONLY <3>1, <3>2, <3>3, <3>4, <3>5, <3>6 DEF OnPage
  <2>6. k \in 1..Len(delivered')
    BY <1>2, <1>4
  <2>7. Position'
    BY <2>1, <2>5, <2>6 DEF Position
  <2> QED
    BY <1>8, <2>1, <2>3, <2>7
<1>10. CASE ~Below(header.path, req.path)
  <2>1. pc' = "return" /\ resp' = resp
    BY <1>1, <1>10 DEF PageEntry
  <2>2. Lists(resp.page, Contained(req.hash, req.path))
    <3>1. /\ k \in 1..Len(All) /\ n \in k..Len(All) /\ Len(resp.page) = n - k
          /\ \A i \in 1..Len(resp.page) : resp.page[i] = All[k + i]
      <4>1. Len(All) \in Nat
        BY <1>2, EntryFacts DEF All
      <4>2. \A i \in 1..(n - k) : k + i \in 1..n /\ resp.page[i] = All[k + i]
        BY <1>2, <1>4, <1>5
      <4> QED
        BY <1>2, <1>4, <1>5, <4>1, <4>2
    <3>2. \A i \in (k + 1)..n : Below(All[i].path, req.path)
      BY <1>2, <1>4
    <3>3. ~Below(All[n + 1].path, req.path)
      BY <1>2, <1>10
    <3> QED
      BY <1>2, <1>4, <1>5, <3>1, <3>2, <3>3, PageWhole DEF All
  <2>3. Expected(req, resp)
    <3>1. Len(All) \in Nat /\ k \in 1..Len(All)
      BY <1>2, <1>4, EntryFacts DEF All
    <3>2. req.hash \in DOMAIN Store /\ All[k].path = req.path /\ All[k].type = "directory"
          /\ resp = Page(resp.page)
      BY <1>2, <1>4, <1>5
    <3>3. k \in 1..Len(Store[req.hash].entries) /\ All = Store[req.hash].entries
      BY <3>1 DEF All
    <3> QED
      BY ONLY <2>2, <3>2, <3>3, ExpectNode
  <2>4. Position'
    BY <2>1 DEF Position
  <2> QED
    BY <1>6, <1>8, <2>1, <2>3, <2>4
<1> QED
  BY <1>9, <1>10

LEMMA ReturnInv == Inv /\ ReturnFromHandler => Inv'
<1> SUFFICES ASSUME Inv, ReturnFromHandler PROVE Inv'
  OBVIOUS
<1>1. /\ pc = "return" /\ pc' = "idle" /\ UNCHANGED <<req, resp, upstream, asked>>
      /\ file' \in {"unopened", "open", "closed"} /\ delivered' = delivered
      /\ given \subseteq given' /\ outcome' \in {"unopened", "none", "eof", "err", "closed"}
  BY DEF ReturnFromHandler, Reader!Close, Inv, TypeOK, reader
<1>2. TypeOK'
  BY <1>1 DEF Inv, TypeOK
<1>3. Stages' /\ ~Begun' /\ Position' /\ Answered'
  BY <1>1 DEF Stages, Begun, Position, Answered, Answering, Before, Walking
<1>4. StopsInTime'
  BY <1>1 DEF Inv, StopsInTime
<1> QED
  BY <1>2, <1>3, <1>4 DEF Inv

LEMMA HandlerInv == Inv /\ Handler => Inv'
<1> SUFFICES ASSUME Inv, Handler PROVE Inv'
  OBVIOUS
<1>1. ASSUME NEW h \in DOMAIN Store, h = req.hash, NEW l \in Listings[h],
             UseListing(l) \/ PanicOnListing(l)
      PROVE  Inv'
  BY <1>1, UseListingInv, PanicOnListingInv
<1> QED
  BY <1>1, MatchTagInv, GetNarInfoInv, NoListingInv, FetchFailsInv, FetchInv, ScanInv, ScanEndsInv,
     PageEntryInv, PageEndsInv, CopyInv, ReturnInv DEF Handler

LEMMA ClientInv == Inv /\ Client => Inv'
<1> SUFFICES ASSUME Inv, Client PROVE Inv'
  OBVIOUS
<1>1. PICK url \in Urls, method \in {"GET", "HEAD"} :
        AskStore(url, method) \/ \E h \in Hash : AskSubdomain(h, url, method)
  BY DEF Client
<1>2. url \in Path /\ asked < MaxRequests
  BY PathsAreTyped DEF Client
<1>3. CASE AskStore(url, method)
  <2>1. PICK narDir \in Name : Ask(HashOf[narDir], url, method) /\ Serve
    BY <1>3 DEF AskStore
  <2>2. HashOf[narDir] \in Hash
    BY PathsAreTyped
  <2> QED
    BY <1>2, <2>1, <2>2, AskInv
<1>4. ASSUME NEW h \in Hash, AskSubdomain(h, url, method) PROVE Inv'
  BY <1>2, <1>4, AskInv DEF AskSubdomain
<1> QED
  BY <1>1, <1>3, <1>4

LEMMA StutterInv == Inv /\ UNCHANGED vars => Inv'
<1> SUFFICES ASSUME Inv, UNCHANGED vars PROVE Inv'
  OBVIOUS
<1>1. /\ pc' = pc /\ req' = req /\ file' = file /\ stream' = stream /\ delivered' = delivered
      /\ outcome' = outcome /\ resp' = resp /\ given' = given /\ upstream' = upstream /\ asked' = asked
  BY DEF vars, reader
<1>2. TypeOK' /\ Stages' /\ StopsInTime' /\ Answered'
  BY <1>1 DEF Inv, TypeOK, Stages, StopsInTime, Answered, Answering, Begun, All, BreaksOff, Before, Walking
<1>3. (Begun => Progress)'
  BY <1>1 DEF Inv, Begun, Progress, All
<1>4. Position'
  <2>1. ASSUME NEW k, OnPage(k) PROVE OnPage(k)'
    BY <1>1, <2>1 DEF OnPage, All
  <2> QED
    BY <1>1, <2>1 DEF Inv, Position
<1> QED
  BY <1>2, <1>3, <1>4 DEF Inv

LEMMA NextInv == Inv /\ [Next]_vars => Inv'
BY HandlerInv, ClientInv, StutterInv DEF Next, NoMoreRequests

----------------------------------------------------------------------------
(***************************************************************************)
(* The answers of listings, and the tags.                                  *)
(***************************************************************************)
\* What a sound listing has at a path is what the archive has there.
LEMMA SoundListing ==
  ASSUME NEW h \in DOMAIN Store, NEW l \in Listings[h], l.sound, NEW p \in Path, Plain(p)
  PROVE  /\ Lookup(l.nodes, p) = {} =>
              \A i \in 1..Len(Store[h].entries) : Store[h].entries[i].path # p
         /\ Names(p) \in DOMAIN l.nodes =>
              \E i \in 1..Len(Store[h].entries) :
                 Store[h].entries[i] = l.nodes[Names(p)] /\ Store[h].entries[i].path = p
<1> DEFINE es == Store[h].entries
<1>1. Names(p) = p
  BY DEF Names, Plain
<1>2. /\ DOMAIN l.nodes = {e.path : e \in Range(es)}
      /\ \A e \in Range(es) : l.nodes[e.path] = e
  BY ListingsAreTrees, StoreIsKnown
<1>3. Range(es) = {es[i] : i \in 1..Len(es)} /\ DOMAIN es = 1..Len(es)
  BY EntryFacts
<1>4. \A i \in DOMAIN es : \A n \in 0..(Len(es[i].path) - 1) :
        \E j \in DOMAIN es : es[j].path = SubSeq(es[i].path, 1, n) /\ es[j].type = "directory"
  BY ArchivesAreTrees
<1> HIDE DEF es
<1>5. ASSUME NEW i \in 1..Len(es), es[i].path = p PROVE Lookup(l.nodes, p) # {}
  <2>1. p \in DOMAIN l.nodes
    BY <1>2, <1>3, <1>5
  <2>2. ASSUME NEW n \in 0..(Len(p) - 1) PROVE l.nodes[SubSeq(p, 1, n)].type = "directory"
    <3>1. PICK j \in DOMAIN es : es[j].path = SubSeq(p, 1, n) /\ es[j].type = "directory"
      BY <1>3, <1>4, <1>5
    <3>2. l.nodes[es[j].path] = es[j]
      BY <1>2, <1>3
    <3> QED
      BY <3>1, <3>2
  <2> QED
    BY <1>1, <2>1, <2>2 DEF Lookup
<1>6. ASSUME p \in DOMAIN l.nodes
      PROVE  \E i \in 1..Len(es) : es[i] = l.nodes[p] /\ es[i].path = p
  <2>1. PICK i \in 1..Len(es) : es[i].path = p
    BY <1>2, <1>3, <1>6
  <2>2. l.nodes[es[i].path] = es[i]
    BY <1>2, <1>3
  <2> QED
    BY <2>1, <2>2
<1> QED
  BY <1>1, <1>5, <1>6 DEF es

LEMMA UseListingUnwalked ==
  ASSUME Inv, req.hash \in DOMAIN Store, NEW l \in Listings[req.hash], UseListing(l)
  PROVE  Unwalked'
<1>1. /\ req' = req /\ req.path \in Path /\ upstream = {}
      /\ upstream' = {IF l.sound THEN "listed" ELSE "misled"}
  BY DEF UseListing, Inv, TypeOK, Stages
<1>2. CASE ~l.sound
  BY <1>1, <1>2 DEF Unwalked
<1>3. CASE l.sound
  <2> SUFFICES ASSUME pc' = "return", Plain(req.path), NoDirectory PROVE Expected(req, resp')
    BY <1>1, <1>3 DEF Unwalked, Answering, NoDirectory
  <2>1. CASE Lookup(l.nodes, req.path) = {} /\ resp' = Error(404)
    BY <1>1, <1>3, <2>1, SoundListing, ExpectNothing
  <2>2. ASSUME NEW node, node = l.nodes[Names(req.path)], Names(req.path) \in DOMAIN l.nodes,
               \/ node.type = "directory"
               \/ node.type = "symlink" /\ resp' = Redirect(req.hash, req.path, node.target)
               \/ node.type = "regular" /\ req.method = "HEAD" /\ resp' = FileHeaders(req, node.size)
        PROVE  Expected(req, resp')
    <3>1. PICK i \in 1..Len(Store[req.hash].entries) :
            Store[req.hash].entries[i] = node /\ node.path = req.path
      BY <1>1, <1>3, <2>2, SoundListing
    <3>2. node.type # "directory"
      BY <3>1, NodesAtPath DEF NoDirectory
    <3> QED
      BY <2>2, <3>1, <3>2, ExpectNode
  <2>3. pc' # "fetch"
    OBVIOUS
  <2> QED
    BY <2>1, <2>2, <2>3, UseListingCases
<1> QED
  BY <1>2, <1>3

LEMMA UnwalkedInv == Inv /\ Unwalked /\ [Next]_vars => Unwalked'
<1> SUFFICES ASSUME Inv, Unwalked, [Next]_vars PROVE Unwalked'
  OBVIOUS
<1>1. CASE MatchTag
  <2>1. ASSUME resp' = [Error(304) EXCEPT !.tag = {Tag(req)}] PROVE resp'.status = 304
    BY <2>1 DEF Error, NoResp
  <2> QED
    BY <1>1, <2>1 DEF MatchTag, Answer, Unwalked, Answering
<1>2. CASE GetNarInfo \/ FetchFails
  <2>1. Error(500).status = 500
    BY DEF Error, NoResp
  <2>2. pc' = "return" => resp'.status = 500 /\ "failed" \in upstream'
    BY <1>2, <2>1 DEF GetNarInfo, FetchFails, Answer
  <2> QED
    BY <2>2 DEF Unwalked, Answering
<1>3. CASE NoListing \/ Client
  <2>1. Error(500).status = 500
    BY DEF Error, NoResp
  <2>2. \/ pc' # "return"
        \/ resp' = Error(500) /\ upstream' = {"unasked"}
    BY <1>3 DEF NoListing, Client, AskStore, AskSubdomain, Serve, Answer
  <2> QED
    BY <2>1, <2>2 DEF Unwalked, Answering
<1>4. CASE Fetch \/ Scan \/ ScanEnds \/ PageEntry \/ PageEnds \/ Copy
  <2>1. outcome' # "unopened"
    BY <1>4 DEF Fetch, Scan, ScanEnds, PageEntry, PageEnds, Copy, Inv, Stages, Walking, reader,
                Reader!Deliver, Reader!Exhaust, Reader!Refuse
  <2> QED
    BY <2>1 DEF Unwalked, Answering, Begun
<1>5. ASSUME NEW h \in DOMAIN Store, h = req.hash, NEW l \in Listings[h], UseListing(l)
      PROVE  Unwalked'
  BY <1>5, UseListingUnwalked
<1>6. ASSUME NEW l, PanicOnListing(l) PROVE Unwalked'
  <2>1. Error(500).status = 500
    BY DEF Error, NoResp
  <2> QED
    BY <1>6, <2>1 DEF PanicOnListing, Answer, Unwalked
<1>7. CASE ReturnFromHandler
  BY <1>7 DEF ReturnFromHandler, Unwalked, Answering
<1>8. CASE UNCHANGED vars
  BY <1>8 DEF vars, reader, Unwalked, Answering, Begun, NoDirectory
<1> QED
  BY <1>1, <1>2, <1>3, <1>4, <1>5, <1>6, <1>7, <1>8 DEF Next, Handler, NoMoreRequests

\* The tag of a file that the archive holds.
LEMMA TagOfFile ==
  ASSUME NEW e, req.hash \in DOMAIN Store, NEW i \in 1..Len(All),
         e = All[i], e.path = req.path, e.type = "regular"
  PROVE  IsFile(Tag(req))
BY NodesAtPath DEF IsFile, Tag, All

LEMMA TagsInv == Inv /\ Tags /\ [Next]_vars => Tags'
<1> SUFFICES ASSUME Inv, Tags, [Next]_vars PROVE Tags'
  OBVIOUS
<1>1. ASSUME given' = given, resp'.tag = {} \/ resp'.tag = resp.tag, resp'.status # 304 PROVE Tags'
  BY <1>1 DEF Tags
<1>2. ASSUME given' = given, resp' = resp, req' = req PROVE Tags'
  BY <1>2 DEF Tags
<1>3. CASE MatchTag
  <2>1. CASE Tag(req) \in req.tags /\ resp' = [Error(304) EXCEPT !.tag = {Tag(req)}]
    <3>1. IsFile(Tag(req)) /\ IsFile(req)
      <4>1. IsFile(Tag(req))
        BY <2>1 DEF Inv, TypeOK, Tags
      <4> QED
        BY <4>1 DEF IsFile, Tag
    <3>2. resp'.tag = {Tag(req)}
      BY <2>1 DEF Error, NoResp
    <3>3. given' = given /\ req' = req
      BY <1>3 DEF MatchTag
    <3> QED
      BY <3>1, <3>2, <3>3 DEF Tags
  <2> QED
    BY <1>2, <1>3, <2>1 DEF MatchTag, Answer
<1>4. CASE GetNarInfo \/ NoListing \/ FetchFails \/ Fetch \/ ScanEnds
  <2>1. \A s \in {404, 500} : Error(s).status = s /\ Error(s).tag = {}
    BY DEF Error, NoResp
  <2>2. given' = given /\ req' = req /\ (resp' = resp \/ resp' \in {Error(404), Error(500)})
    BY <1>4 DEF GetNarInfo, NoListing, FetchFails, Fetch, ScanEnds, Answer
  <2> QED
    BY <1>1, <1>2, <2>1, <2>2
<1>5. CASE Client
  <2>1. given' = given /\ resp' \in {NoResp, Error(500)}
    BY <1>5 DEF Client, AskStore, AskSubdomain, Ask, Serve, Answer
  <2>2. /\ NoResp.tag = {} /\ NoResp.status = 0
        /\ Error(500).tag = {} /\ Error(500).status = 500
    BY DEF NoResp, Error
  <2> QED
    BY <1>1, <2>1, <2>2
<1>6. ASSUME NEW h \in DOMAIN Store, h = req.hash, NEW l \in Listings[h], UseListing(l)
      PROVE  Tags'
  <2>1. given' = given /\ req' = req /\ req.path \in Path
    BY <1>6 DEF UseListing, Inv, TypeOK
  <2>2. ASSUME NEW node, node = l.nodes[Names(req.path)], Names(req.path) \in DOMAIN l.nodes,
               node.type = "regular", resp' = FileHeaders(req, node.size)
        PROVE  Tags'
    <3>1. \E e \in Range(Store[h].entries) : e.path = Names(req.path) /\ e.type = "regular"
      BY <1>6, <2>2, ListedFilesAreFiles, StoreIsKnown
    <3>2. IsFile(Tag(req))
      BY <1>6, <3>1 DEF IsFile, Tag, NodesAt
    <3>3. resp'.tag = {Tag(req)} /\ resp'.status = 200
      BY <2>2, FileFacts
    <3> QED
      BY <2>1, <3>2, <3>3 DEF Tags
  <2>3. ASSUME resp'.tag = {}, resp'.status # 304 PROVE Tags'
    BY <1>1, <2>1, <2>3
  <2>4. Error(404).tag = {} /\ Error(404).status = 404
    BY DEF Error, NoResp
  <2> QED
    BY <1>2, <1>6, <2>1, <2>2, <2>3, <2>4, UseListingCases, ListedPageFacts, RedirectFacts
<1>7. ASSUME NEW l, PanicOnListing(l) PROVE Tags'
  <2>1. given' = given /\ resp' = Error(500)
    BY <1>7 DEF PanicOnListing, Answer
  <2>2. Error(500).tag = {} /\ Error(500).status = 500
    BY DEF Error, NoResp
  <2> QED
    BY <1>1, <2>1, <2>2
<1>8. CASE Scan
  <2>1. /\ Reader!Deliver /\ given' = given /\ req' = req /\ upstream' = upstream
        /\ pc \in Walking
    BY <1>8 DEF Scan, Walking
  <2>2. /\ Len(delivered) + 1 \in 1..Len(All) /\ header = All[Len(delivered) + 1]
        /\ header.type \in {"regular", "symlink", "directory"} /\ req.hash \in DOMAIN Store
    BY <2>1, DeliverFacts
  <2>3. CASE header.path = req.path /\ header.type = "regular"
    <3>1. IsFile(Tag(req))
      BY <2>2, <2>3, TagOfFile
    <3>2. resp' = FileHeaders(req, header.size)
      BY <1>8, <2>3 DEF Scan
    <3>3. resp'.tag = {Tag(req)} /\ resp'.status = 200
      BY <3>2, FileFacts
    <3> QED
      BY <2>1, <3>1, <3>3 DEF Tags
  <2>4. CASE ~(header.path = req.path /\ header.type = "regular")
    <3>1. \/ resp' = Page(<< >>) \/ resp' = Redirect(req.hash, header.path, header.target)
          \/ resp' = Error(404) \/ resp' = resp
      BY <1>8, <2>2, <2>4 DEF Scan, Answer
    <3>2. Error(404).tag = {} /\ Error(404).status = 404
      BY DEF Error, NoResp
    <3> QED
      BY <1>1, <1>2, <2>1, <3>1, <3>2, PageFacts, RedirectFacts
  <2> QED
    BY <2>3, <2>4
<1>9. CASE PageEntry \/ PageEnds
  <2>1. /\ pc = "page" /\ given' = given /\ req' = req
        /\ \/ resp' = resp \/ resp' = [resp EXCEPT !.page = Append(@, header)]
           \/ resp' = [resp EXCEPT !.torn = TRUE]
    BY <1>9 DEF PageEntry, PageEnds
  <2>2. PICK entries : resp = Page(entries)
    BY <2>1 DEF Inv, Position, OnPage
  <2>3. resp'.tag = {} /\ resp'.status = 200
    <3>1. PICK more : more = Append(entries, header)
      OBVIOUS
    <3>2. Page(entries).page = entries
      BY ONLY PageFacts
    <3>3. \/ resp' = Page(entries) \/ resp' = [Page(entries) EXCEPT !.page = more]
          \/ resp' = [Page(entries) EXCEPT !.torn = TRUE]
      BY ONLY <2>1, <2>2, <3>1, <3>2
    <3>4. [Page(entries) EXCEPT !.page = more] = Page(more)
      BY ONLY PageWith
    <3>5. /\ Page(entries).status = 200 /\ Page(entries).tag = {}
          /\ [Page(entries) EXCEPT !.torn = TRUE].status = 200
          /\ [Page(entries) EXCEPT !.torn = TRUE].tag = {}
      BY ONLY PageFacts
    <3>6. Page(more).status = 200 /\ Page(more).tag = {}
      BY ONLY PageFacts
    <3>7. CASE resp' = [Page(entries) EXCEPT !.page = more]
      BY ONLY <3>4, <3>6, <3>7
    <3>8. CASE resp' = Page(entries) \/ resp' = [Page(entries) EXCEPT !.torn = TRUE]
      BY ONLY <3>5, <3>8
    <3> QED
      BY ONLY <3>3, <3>7, <3>8
  <2> QED
    BY <1>1, <2>1, <2>3
<1>10. CASE Copy
  <2>1. /\ pc = "copy" /\ given' = given /\ req' = req
        /\ \E n \in 0..resp.size : resp' = [resp EXCEPT !.sent = n]
    BY <1>10 DEF Copy
  <2>2. PICK size : resp = FileHeaders(req, size)
    BY <2>1 DEF Inv, Position
  <2>3. resp'.tag = resp.tag /\ resp'.status = 200
    BY <2>1, <2>2 DEF FileHeaders, NoResp
  <2> QED
    BY <1>1, <2>1, <2>3
<1>11. CASE ReturnFromHandler
  BY <1>11 DEF ReturnFromHandler, Tags
<1> QED
  BY <1>2, <1>3, <1>4, <1>5, <1>6, <1>7, <1>8, <1>9, <1>10, <1>11 DEF Next, Handler, NoMoreRequests, vars
----------------------------------------------------------------------------
(***************************************************************************)
(* The theorems.                                                           *)
(***************************************************************************)
\* The inductive invariant of the handler (index.go:79-226).
THEOREM Invariance == Spec => []Inv
BY InitInv, NextInv, PTL DEF Spec

\* The variables of the handler keep to their types; no more of a file is sent
\* than its size, and no tag is sent back that was not given (index.go:79-226).
THEOREM TypeCorrect == Spec => []TypeOK
<1>1. Inv => TypeOK
  BY DEF Inv
<1> QED
  BY <1>1, Invariance, PTL

\* However a walk goes, it is at most one header past the last that it had a use
\* for: of the headers before the last, each could still be followed by the wanted
\* path, or is below it (index.go:176-179, 216-219).
THEOREM PromptStop == Spec => []StopsInTime
<1>1. Inv => StopsInTime
  BY DEF Inv
<1> QED
  BY <1>1, Invariance, PTL

\* An answer from the archive, whatever a listing said of it before.
WalkedRight ==
  Answering /\ Begun /\ "cut" \notin upstream =>
    Expected(req, resp) \/ ("failed" \in upstream /\ (resp.status = 500 \/ BreaksOff))

\* Whenever an archive was opened that ends where it should, the answer is the right
\* one, or the walk failed, and it shows: whatever the archive, the path and the
\* moment at which the walk breaks off, and if a listing that was wrong sent the
\* handler there (index.go:136-226).
THEOREM WalkAnswers ==
  Spec => [](WalkedRight /\ (outcome # "unopened" => AnswersTree /\ FailureShows))
<1>1. Inv => WalkedRight
  BY DEF Inv, Answered, WalkedRight, Progress
<1>2. WalkedRight => (outcome # "unopened" => AnswersTree /\ FailureShows)
  BY DEF WalkedRight, AnswersTree, FailureShows, Answering, Begun
<1> QED
  BY <1>1, <1>2, Invariance, PTL

LEMMA UnwalkedAlways == Spec => []Unwalked
<1>1. Init => Unwalked
  BY DEF Init, Unwalked, Answering
<1> QED
  BY <1>1, UnwalkedInv, Invariance, PTL DEF Spec

\* The same where a listing answers: what it says of a file, a symlink, or a path
\* that is not there is what the walk would have said, if no two slashes in a row
\* are in the path (index.go:106-133, list.go:18-39).  The pages of directories,
\* which it makes recursively, are left to the runs.
THEOREM ListedAnswers == Spec => [](NoDirectory => AnswersTree /\ FailureShows)
<1>1. Inv /\ Unwalked /\ (outcome # "unopened" => AnswersTree /\ FailureShows)
        => (NoDirectory => AnswersTree /\ FailureShows)
  <2> SUFFICES ASSUME Unwalked, NoDirectory, outcome = "unopened"
               PROVE  AnswersTree /\ FailureShows
    OBVIOUS
  <2>1. AnswersTree
    BY DEF AnswersTree, ListedPlainly, Unwalked, Begun
  <2>2. FailureShows
    BY DEF FailureShows, ListedPlainly, Unwalked, Begun
  <2> QED
    BY <2>1, <2>2
<1> QED
  BY <1>1, Invariance, UnwalkedAlways, WalkAnswers, PTL

\* A tag that comes back is that of a file, and a 304 is about one, whatever the
\* client has collected (index.go:87-96, 205), and by whatever spelling of the path.
THEOREM NotModified == Spec => []NotModifiedIsFile
<1>1. Init => Tags
  BY DEF Init, Tags, NoResp
<1>2. Tags => NotModifiedIsFile
  BY DEF Tags, IsFile, NotModifiedIsFile
<1> QED
  BY <1>1, <1>2, TagsInv, Invariance, PTL DEF Spec
=============================================================================
